---------------------------- MODULE PushesProofs ----------------------------
(***************************************************************************)
(* What holds of Pushes for any number of pushes, channels, memberships    *)
(* and connections: a left channel is quiet, and the calls keep what       *)
(* PushCalls promises.                                                     *)
(***************************************************************************)
EXTENDS Pushes, TLAPS

\* What every call's record keeps to, whatever the rest of the client does.
Sound(r) ==
  /\ r \in Push
  /\ r.caller = "idle" => r.ref = 0 /\ r.out = "none" /\ r.task = "none" /\ r.writes = 0
  /\ r.caller = "waiting" => r.out # "none"
  /\ r.out = "pending" => r.caller = "waiting" /\ r.tracked = TRUE
  /\ r.task = "ready" => r.writes = 0

\* The type of all but the calls.
ClientTypes ==
  /\ chan \in [Channels -> [state : ChannelStates, ref : 1..MaxJoin, conn : Conns,
                            leave : {"none", "waiting", "done"}]]
  /\ client \in [conn : Conns, gen : Conns, stop : BOOLEAN,
                 state : {"connected", "reconnecting", "shutting_down", "closed"}]
  /\ session \in [conn : Conns, failed : BOOLEAN, retired : BOOLEAN]
  /\ closers \subseteq Conns
  /\ socket \in {"open", "closed"}
  /\ routing \in {"none", "running", "ended"}
  /\ cleanup \in {"idle", "closing", "finishing"}
  /\ shut \in {"none", "stopping", "cleaning", "done"}

\* A session in use is the connection's; once it has failed, the client is no longer
\* connected, and a client that is stopped or cleans up has no channel joined.
SessionHeld ==
  /\ client.conn # 0 => /\ session.conn = client.conn /\ session.retired = FALSE
                        /\ session.failed => client.state # "connected"
  /\ client.stop => client.state \in {"shutting_down", "closed"}
  /\ client.stop = FALSE => shut = "none"
  /\ shut = "none" => client.stop = FALSE
  /\ cleanup # "idle" => client.conn = 0

ChannelHeld(c) ==
  /\ chan[c].conn # 0 /\ chan[c].conn <= client.gen
  /\ chan[c].leave # "none" => chan[c].state = "left"

\* A call belongs to a membership its channel has had; while the next one is asked
\* for, there is none of that.
Dated(p) ==
  /\ push[p].ref <= chan[ChannelOf[p]].ref
  /\ chan[ChannelOf[p]].state = "rejoining" => push[p].ref < chan[ChannelOf[p]].ref

\* The heart of it: an undecided call is one of the membership that is joined now.
Current(p) ==
  push[p].out = "pending" =>
    /\ Joined(ChannelOf[p])
    /\ push[p].ref = chan[ChannelOf[p]].ref /\ push[p].conn = client.conn

CallsHeld ==
  /\ push \in [Pushes -> Push]
  /\ \A p \in Pushes : Sound(push[p]) /\ Dated(p) /\ Current(p)

IInv ==
  /\ ClientTypes
  /\ SessionHeld
  /\ \A c \in Channels : ChannelHeld(c)
  /\ CallsHeld
  /\ LeftIsQuiet

-----------------------------------------------------------------------------
(* The records of the calls *)

\* An update that decides, or lets be, but neither admits nor writes.
Evolves(r, s) ==
  /\ Sound(s)
  /\ s.ref = r.ref /\ s.conn = r.conn
  /\ s.out = "pending" => r.out = "pending"
  /\ s.task \in {"ready", "sending"} => r.task \in {"ready", "sending"}

\* The same call, seen from its caller.
Unseen(r, s) == Evolves(r, s) /\ s.caller = r.caller /\ s.writes = r.writes

\* A field of a call's record is set, and no other one changes.
LEMMA TimerUpdate ==
  ASSUME NEW r \in Push, NEW v \in BOOLEAN
  PROVE  /\ [r EXCEPT !.timer = v] \in Push /\ [r EXCEPT !.timer = v].timer = v
         /\ [r EXCEPT !.timer = v].caller = r.caller /\ [r EXCEPT !.timer = v].ref = r.ref
         /\ [r EXCEPT !.timer = v].conn = r.conn /\ [r EXCEPT !.timer = v].out = r.out
         /\ [r EXCEPT !.timer = v].task = r.task /\ [r EXCEPT !.timer = v].tracked = r.tracked
         /\ [r EXCEPT !.timer = v].writes = r.writes
BY DEF Push

LEMMA CancelUpdate ==
  ASSUME NEW r \in Push, NEW v \in BOOLEAN
  PROVE  /\ [r EXCEPT !.cancel = v] \in Push /\ [r EXCEPT !.cancel = v].cancel = v
         /\ [r EXCEPT !.cancel = v].caller = r.caller /\ [r EXCEPT !.cancel = v].ref = r.ref
         /\ [r EXCEPT !.cancel = v].conn = r.conn /\ [r EXCEPT !.cancel = v].out = r.out
         /\ [r EXCEPT !.cancel = v].task = r.task /\ [r EXCEPT !.cancel = v].tracked = r.tracked
         /\ [r EXCEPT !.cancel = v].writes = r.writes
BY DEF Push

LEMMA TrackedUpdate ==
  ASSUME NEW r \in Push, NEW v \in BOOLEAN
  PROVE  /\ [r EXCEPT !.tracked = v] \in Push /\ [r EXCEPT !.tracked = v].tracked = v
         /\ [r EXCEPT !.tracked = v].caller = r.caller /\ [r EXCEPT !.tracked = v].ref = r.ref
         /\ [r EXCEPT !.tracked = v].conn = r.conn /\ [r EXCEPT !.tracked = v].out = r.out
         /\ [r EXCEPT !.tracked = v].task = r.task /\ [r EXCEPT !.tracked = v].writes = r.writes
BY DEF Push

LEMMA TaskUpdate ==
  ASSUME NEW r \in Push, NEW v \in {"none", "ready", "sending", "done"}
  PROVE  /\ [r EXCEPT !.task = v] \in Push /\ [r EXCEPT !.task = v].task = v
         /\ [r EXCEPT !.task = v].caller = r.caller /\ [r EXCEPT !.task = v].ref = r.ref
         /\ [r EXCEPT !.task = v].conn = r.conn /\ [r EXCEPT !.task = v].out = r.out
         /\ [r EXCEPT !.task = v].tracked = r.tracked /\ [r EXCEPT !.task = v].writes = r.writes
BY DEF Push

LEMMA OutUpdate ==
  ASSUME NEW r \in Push, NEW v \in Outcomes
  PROVE  /\ [r EXCEPT !.out = v] \in Push /\ [r EXCEPT !.out = v].out = v
         /\ [r EXCEPT !.out = v].caller = r.caller /\ [r EXCEPT !.out = v].ref = r.ref
         /\ [r EXCEPT !.out = v].conn = r.conn /\ [r EXCEPT !.out = v].task = r.task
         /\ [r EXCEPT !.out = v].tracked = r.tracked /\ [r EXCEPT !.out = v].writes = r.writes
BY DEF Push

LEMMA DecideUnseen ==
  ASSUME NEW r, Sound(r), NEW out \in Outcomes
  PROVE  /\ Unseen(r, Decide(r, out))
         /\ Decide(r, out).out = IF r.out = "pending" THEN out ELSE r.out
         /\ Decide(r, out).task = r.task
<1>1. r \in Push /\ out # "pending" /\ out # "none"
  BY DEF Sound, Outcomes
<1>2. CASE r.out = "pending"
  BY <1>1, <1>2, OutUpdate DEF Sound, Decide, Unseen, Evolves
<1>3. CASE r.out # "pending"
  BY <1>3 DEF Sound, Decide, Unseen, Evolves
<1> QED
  BY <1>2, <1>3

\* The deadline of a call, or the end of its session, is up.
LEMMA TimerOffUnseen ==
  ASSUME NEW r, Sound(r)
  PROVE  Unseen(r, TimerOff(r)) /\ TimerOff(r).out = r.out /\ TimerOff(r).task = r.task
<1>1. r \in Push
  BY DEF Sound
<1> QED
  BY <1>1, TimerUpdate DEF Sound, Unseen, Evolves, TimerOff

LEMMA CancelUnseen ==
  ASSUME NEW r, Sound(r), NEW b \in BOOLEAN
  PROVE  Unseen(r, [r EXCEPT !.cancel = b]) /\ [r EXCEPT !.cancel = b].out = r.out
<1>1. r \in Push
  BY DEF Sound
<1> QED
  BY <1>1, CancelUpdate DEF Sound, Unseen, Evolves

LEMMA StopUnsentUnseen ==
  ASSUME NEW r, Sound(r)
  PROVE  Unseen(r, StopUnsent(r)) /\ StopUnsent(r).out = r.out
<1> DEFINE b == r.cancel \/ r.task = "ready"
<1>1. b \in BOOLEAN
  BY DEF Sound, Push
<1>2. StopUnsent(r) = [r EXCEPT !.cancel = b]
  BY DEF StopUnsent
<1> HIDE DEF b
<1> QED
  BY <1>1, <1>2, CancelUnseen

LEMMA DiscardUnseen ==
  ASSUME NEW r, Sound(r)
  PROVE  Unseen(r, Discard(r)) /\ Discard(r).out = r.out /\ Discard(r).task = r.task
<1>1. CASE Discard(r) = TimerOff(r)
  BY <1>1, TimerOffUnseen
<1>2. CASE Discard(r) = r
  BY <1>2 DEF Unseen, Evolves
<1> QED
  BY <1>1, <1>2 DEF Discard

\* A push that is taken is decided, and was what its caller sees before.
LEMMA TakenUnseen ==
  ASSUME NEW r, Sound(r), NEW out \in Outcomes
  PROVE  /\ Unseen(r, Taken(r, out))
         /\ Taken(r, out).out = IF r.out = "pending" THEN out ELSE r.out
<1> DEFINE t == [r EXCEPT !.tracked = FALSE]
           q == Decide(t, out)
<1>1. /\ r \in Push /\ t \in Push /\ out # "pending" /\ out # "none"
      /\ t.caller = r.caller /\ t.ref = r.ref /\ t.conn = r.conn /\ t.out = r.out
      /\ t.task = r.task /\ t.writes = r.writes
  BY TrackedUpdate DEF Sound, Outcomes
<1>2. CASE r.out = "pending"
  <2>1. q = [t EXCEPT !.out = out]
    BY <1>1, <1>2 DEF Decide
  <2> HIDE DEF t, q
  <2> QED
    <3>1. /\ q \in Push /\ q.out = out /\ q.caller = t.caller /\ q.ref = t.ref
          /\ q.conn = t.conn /\ q.task = t.task /\ q.writes = t.writes
      BY <1>1, <2>1, OutUpdate
    <3>2. Sound(q)
      BY <1>1, <1>2, <3>1 DEF Sound
    <3>3. Unseen(q, Discard(q)) /\ Discard(q).out = q.out
      BY <3>2, DiscardUnseen
    <3> QED
      BY <1>1, <1>2, <3>1, <3>3 DEF Unseen, Evolves, Taken, q, t
<1>3. CASE r.out # "pending"
  <2>1. q = t
    BY <1>1, <1>3 DEF Decide
  <2> HIDE DEF t, q
  <2>2. Sound(q)
    BY <1>1, <1>3, <2>1 DEF Sound
  <2>3. Unseen(q, Discard(q)) /\ Discard(q).out = q.out
    BY <2>2, DiscardUnseen
  <2> QED
    BY <1>1, <1>3, <2>1, <2>3 DEF Unseen, Evolves, Taken, q, t
<1> QED
  BY <1>2, <1>3

\* A send that is over leaves its call as it is.
LEMMA DoneUnseen ==
  ASSUME NEW r, Sound(r), r.caller # "idle"
  PROVE  Unseen(r, TaskDone(r)) /\ TaskDone(r).out = r.out
<1> DEFINE q == [r EXCEPT !.task = "done"]
<1>1. r \in Push
  BY DEF Sound
<1>2. Unseen(r, q) /\ q.out = r.out
  BY <1>1, TaskUpdate DEF Sound, Unseen, Evolves
<1>3. Sound(q) /\ TaskDone(r) = Discard(q)
  BY <1>2 DEF Unseen, Evolves, TaskDone
<1> HIDE DEF q
<1>4. Unseen(q, Discard(q)) /\ Discard(q).out = q.out
  BY <1>3, DiscardUnseen
<1> QED
  BY <1>2, <1>3, <1>4 DEF Unseen, Evolves

LEMMA DoneDecided ==
  ASSUME NEW r, Sound(r), r.caller # "idle", NEW out \in Outcomes
  PROVE  /\ Unseen(r, TaskDone(Decide(r, out)))
         /\ TaskDone(Decide(r, out)).out = IF r.out = "pending" THEN out ELSE r.out
<1> DEFINE q == Decide(r, out)
<1>1. /\ Unseen(r, q) /\ Sound(q) /\ q.caller # "idle"
      /\ q.out = IF r.out = "pending" THEN out ELSE r.out
  BY DecideUnseen DEF Unseen, Evolves
<1> HIDE DEF q
<1>2. Unseen(q, TaskDone(q)) /\ TaskDone(q).out = q.out
  BY <1>1, DoneUnseen
<1> QED
  BY <1>1, <1>2 DEF Unseen, Evolves, q

-----------------------------------------------------------------------------
(* Losses *)

ChanType == [state : ChannelStates, ref : 1..MaxJoin, conn : Conns,
             leave : {"none", "waiting", "done"}]

\* Some channels lose their membership, and nothing else changes.
LEMMA LoseChannels ==
  ASSUME chan \in [Channels -> ChanType], client.stop \in BOOLEAN,
         NEW cs, NEW b \in BOOLEAN, Lose(cs, b)
  PROVE  /\ chan' \in [Channels -> ChanType]
         /\ \A c \in Channels :
              /\ chan'[c].ref = chan[c].ref /\ chan'[c].conn = chan[c].conn
              /\ chan'[c].leave = chan[c].leave
              /\ chan[c].state = "left" => chan'[c].state = "left"
              /\ c \in cs => chan'[c].state \in {"lost", "left"}
              /\ c \notin cs => chan'[c] = chan[c]
<1>1. \A t \in ChanType, v \in ChannelStates :
         /\ [t EXCEPT !.state = v] \in ChanType
         /\ [t EXCEPT !.state = v].state = v /\ [t EXCEPT !.state = v].ref = t.ref
         /\ [t EXCEPT !.state = v].conn = t.conn /\ [t EXCEPT !.state = v].leave = t.leave
  BY DEF ChanType
<1> DEFINE st(c) == IF b /\ chan[c].state # "left" /\ ~client.stop THEN "lost" ELSE "left"
<1>2. chan' = [c \in Channels |->
                 IF c \notin cs THEN chan[c] ELSE [chan[c] EXCEPT !.state = st(c)]]
  BY DEF Lose
<1>3. \A c \in Channels : st(c) \in ChannelStates /\ st(c) \in {"lost", "left"}
                          /\ (chan[c].state = "left" => st(c) = "left")
  BY DEF ChannelStates
<1>4. \A c \in Channels : chan[c] \in ChanType
  OBVIOUS
<1> HIDE DEF st, ChanType
<1>5. ASSUME NEW c \in Channels
      PROVE  /\ chan'[c] \in ChanType
             /\ chan'[c].ref = chan[c].ref /\ chan'[c].conn = chan[c].conn
             /\ chan'[c].leave = chan[c].leave
             /\ chan[c].state = "left" => chan'[c].state = "left"
             /\ c \in cs => chan'[c].state \in {"lost", "left"}
             /\ c \notin cs => chan'[c] = chan[c]
  <2>1. CASE c \in cs
    <3>1. chan'[c] = [chan[c] EXCEPT !.state = st(c)]
      BY <1>2, <2>1
    <3> QED
      BY <1>1, <1>3, <1>4, <2>1, <3>1
  <2>2. CASE c \notin cs
    BY <1>2, <1>4, <2>2
  <2> QED
    BY <2>1, <2>2
<1>6. chan' \in [Channels -> ChanType]
  BY <1>2, <1>5
<1> QED
  BY <1>5, <1>6

Failures == {"channel", "socket", "timeout"}

\* The undecided calls of some channels are decided, the others' are left alone.
Decided(ps, qs, cs, errors) ==
  /\ qs \in [Pushes -> Push]
  /\ \A p \in Pushes :
       /\ Unseen(ps[p], qs[p])
       /\ qs[p].out = IF ChannelOf[p] \in cs /\ ps[p].out = "pending"
                      THEN errors[p] ELSE ps[p].out

LEMMA FailPushesDecides ==
  ASSUME NEW ps \in [Pushes -> Push], \A p \in Pushes : Sound(ps[p]),
         NEW cs, NEW error \in Failures
  PROVE  Decided(ps, FailPushes(ps, cs, error), cs, [p \in Pushes |-> error])
<1> DEFINE qs == FailPushes(ps, cs, error)
<1>1. ASSUME NEW p \in Pushes
      PROVE  /\ Unseen(ps[p], qs[p])
             /\ qs[p].out = IF ChannelOf[p] \in cs /\ ps[p].out = "pending"
                            THEN error ELSE ps[p].out
  <2>1. error \in Outcomes /\ Sound(ps[p])
    BY DEF Failures, Outcomes
  <2>2. CASE ChannelOf[p] \in cs /\ ps[p].tracked
    <3>1. qs[p] = Taken(ps[p], error)
      BY <2>2 DEF FailPushes
    <3> QED
      BY <2>1, <2>2, <3>1, TakenUnseen
  <2>3. CASE ~(ChannelOf[p] \in cs /\ ps[p].tracked)
    <3>1. qs[p] = ps[p]
      BY <2>3 DEF FailPushes
    <3> QED
      BY <2>1, <2>3, <3>1 DEF Sound, Unseen, Evolves
  <2> QED
    BY <2>2, <2>3
<1>2. qs \in [Pushes -> Push]
  <2>1. \A p \in Pushes : qs[p] \in Push
    BY <1>1 DEF Unseen, Evolves, Sound
  <2>2. qs = [p \in Pushes |-> qs[p]]
    BY DEF FailPushes
  <2> QED
    BY <2>1, <2>2
<1> QED
  BY <1>1, <1>2 DEF Decided

\* Memberships end with the calls that are undecided in them, and nothing else
\* is seen of it.
Loss(cs, errors) ==
  /\ Decided(push, push', cs, errors)
  /\ \A c \in Channels :
       /\ c \in cs => ~Joined(c)'
       /\ c \notin cs =>
            /\ Joined(c)' <=> Joined(c)
            /\ Joined(c) => chan'[c].ref = chan[c].ref /\ client'.conn = client.conn

Losses == \E cs \in SUBSET Channels, errors \in [Pushes -> Failures] : Loss(cs, errors)

\* Calls whose record changes where nobody sees it.
LEMMA NothingDecided ==
  ASSUME push' \in [Pushes -> Push], UNCHANGED <<chan, client>>,
         \A p \in Pushes : Unseen(push[p], push'[p]) /\ push'[p].out = push[p].out
  PROVE  Losses
<1> DEFINE errors == [p \in Pushes |-> "channel"]
<1>1. errors \in [Pushes -> Failures]
  BY DEF Failures
<1>2. \A c \in Channels : Joined(c)' <=> Joined(c)
  BY DEF Joined, OnCurrentConnection
<1>3. Loss({}, errors)
  BY <1>2 DEF Loss, Decided
<1> QED
  BY <1>1, <1>3 DEF Losses

LEMMA NothingChanges ==
  ASSUME CallsHeld, UNCHANGED push
  PROVE  /\ push' \in [Pushes -> Push]
         /\ \A p \in Pushes : Unseen(push[p], push'[p]) /\ push'[p].out = push[p].out
BY DEF CallsHeld, Unseen, Evolves

\* A joined channel is one of the connection's.
LEMMA JoinedIsOfConnection ==
  ASSUME NEW c \in Channels, Joined(c)
  PROVE  /\ c \in OfConnection /\ client.conn # 0 /\ client.state = "connected"
         /\ chan[c].state = "joined" /\ chan[c].conn = client.conn
BY DEF Joined, OnCurrentConnection, OfConnection

\* The state that every lemma below starts from.
LEMMA FromIInv ==
  ASSUME IInv
  PROVE  /\ chan \in [Channels -> ChanType] /\ client.stop \in BOOLEAN
         /\ push \in [Pushes -> Push] /\ \A p \in Pushes : Sound(push[p])
         /\ \A p \in Pushes : ChannelOf[p] \in Channels
         /\ \A p \in Pushes : push[p].out = "pending" =>
              /\ Joined(ChannelOf[p])
              /\ push[p].ref = chan[ChannelOf[p]].ref /\ push[p].conn = client.conn
              /\ push[p].caller = "waiting"
BY PushesAssumption DEF IInv, ClientTypes, CallsHeld, ChanType, Current, Sound

\* The operations of a connection fail with its channels.
LEMMA FailPendingJoinsLoses ==
  ASSUME IInv, NEW ps \in [Pushes -> Push],
         \A p \in Pushes : Unseen(push[p], ps[p]),
         \A p \in Pushes : \/ ps[p].out = push[p].out
                           \/ push[p].out = "pending" /\ ps[p].out \in Failures,
         FailPendingJoins(ps),
         \A c \in Channels : Joined(c)' => Joined(c) /\ c \notin OfConnection
  PROVE  Losses
<1> DEFINE errors == [p \in Pushes |-> IF ps[p].out # push[p].out THEN ps[p].out ELSE "socket"]
<1>1. errors \in [Pushes -> Failures] /\ OfConnection \in SUBSET Channels
  BY DEF Failures, OfConnection
<1>2. push' = FailPushes(ps, OfConnection, "socket")
  BY DEF FailPendingJoins
<1>3. \A p \in Pushes : Sound(ps[p])
  BY DEF Unseen, Evolves
<1>4. Decided(ps, push', OfConnection, [p \in Pushes |-> "socket"])
  BY <1>2, <1>3, FailPushesDecides DEF Failures
<1>5. ASSUME NEW p \in Pushes
      PROVE  /\ Unseen(push[p], push'[p])
             /\ push'[p].out = IF ChannelOf[p] \in OfConnection /\ push[p].out = "pending"
                               THEN errors[p] ELSE push[p].out
  <2>1. Unseen(push[p], ps[p]) /\ Unseen(ps[p], push'[p])
    BY <1>4 DEF Decided
  <2>2. Unseen(push[p], push'[p])
    BY <2>1 DEF Unseen, Evolves
  <2>3. push[p].out = "pending" => ChannelOf[p] \in OfConnection
    BY FromIInv, JoinedIsOfConnection
  <2>4. push'[p].out = IF ChannelOf[p] \in OfConnection /\ ps[p].out = "pending"
                       THEN "socket" ELSE ps[p].out
    BY <1>4 DEF Decided
  <2>5. ps[p].out # "pending" \/ ps[p].out = push[p].out
    BY DEF Failures
  <2> QED
    BY <2>2, <2>3, <2>4, <2>5
<1>6. push' \in [Pushes -> Push]
  BY <1>4 DEF Decided
<1>7. \A c \in Channels \ OfConnection : ~Joined(c)
  BY JoinedIsOfConnection
<1>8. Loss(OfConnection, errors)
  BY <1>5, <1>6, <1>7 DEF Loss, Decided
<1> QED
  BY <1>1, <1>8 DEF Losses

\* The failure of a session ends every membership of its connection.
LEMMA NotifyLoses ==
  ASSUME IInv, NEW ps \in [Pushes -> Push],
         \A p \in Pushes : Unseen(push[p], ps[p]),
         \A p \in Pushes : \/ ps[p].out = push[p].out
                           \/ push[p].out = "pending" /\ ps[p].out \in Failures,
         NEW notify, NotifyFailure(ps, notify),
         notify \/ \A p \in Pushes : ps[p].out = push[p].out
  PROVE  Losses
<1>1. CASE notify
  <2>1. /\ FailPendingJoins(ps)
        /\ client' = [client EXCEPT !.state = IF @ = "connected" THEN "reconnecting" ELSE @]
    BY <1>1 DEF NotifyFailure
  <2>2. client'.state # "connected"
    BY <2>1 DEF IInv, ClientTypes
  <2>3. \A c \in Channels : ~Joined(c)'
    BY <2>2 DEF Joined, OnCurrentConnection
  <2> QED
    BY <2>1, <2>3, FailPendingJoinsLoses
<1>2. CASE ~notify
  <2>1. push' = ps /\ UNCHANGED <<chan, client>>
    BY <1>2 DEF NotifyFailure
  <2> QED
    BY <1>2, <2>1, NothingDecided
<1> QED
  BY <1>1, <1>2

\* One call changes where its caller does not see it, or is decided.
LEMMA OneCallUnseen ==
  ASSUME IInv, NEW p \in Pushes, NEW r, Unseen(push[p], r),
         \/ r.out = push[p].out
         \/ push[p].out = "pending" /\ r.out \in Failures
  PROVE  /\ [push EXCEPT ![p] = r] \in [Pushes -> Push]
         /\ \A q \in Pushes : Unseen(push[q], [push EXCEPT ![p] = r][q])
         /\ \A q \in Pushes :
              \/ [push EXCEPT ![p] = r][q].out = push[q].out
              \/ push[q].out = "pending" /\ [push EXCEPT ![p] = r][q].out \in Failures
         /\ r.out = push[p].out =>
              \A q \in Pushes : [push EXCEPT ![p] = r][q].out = push[q].out
<1>1. r \in Push
  BY DEF Unseen, Evolves, Sound
<1>2. push \in [Pushes -> Push] /\ \A q \in Pushes : Unseen(push[q], push[q])
  BY FromIInv DEF Unseen, Evolves
<1> QED
  BY <1>1, <1>2

\* While a call is undecided its session can neither be over nor have failed.
LEMMA UndecidedIsEligible ==
  ASSUME IInv, NEW p \in Pushes, push[p].out = "pending"
  PROVE  Eligible(p) /\ MayNotify(p) /\ push[p].caller = "waiting"
<1>1. /\ ChannelOf[p] \in Channels /\ Joined(ChannelOf[p])
      /\ push[p].ref = chan[ChannelOf[p]].ref /\ push[p].conn = client.conn
      /\ push[p].caller = "waiting"
  BY FromIInv
<1>2. client.conn # 0 /\ client.state = "connected"
  BY <1>1, JoinedIsOfConnection
<1>3. session.conn = client.conn /\ ~session.retired /\ ~session.failed /\ ~client.stop
  BY <1>2 DEF IInv, SessionHeld, ClientTypes
<1> QED
  BY <1>1, <1>3 DEF Eligible, MayNotify, IsCurrent

-----------------------------------------------------------------------------
(* The actions that decide calls by the loss of their membership, or none *)

LEMMA SendRefusedLoses ==
  ASSUME IInv, NEW p \in Pushes, SendRefused(p)
  PROVE  Losses
<1> DEFINE r == TaskDone(Decide(push[p], "channel"))
<1>1. Sound(push[p]) /\ push[p].caller # "idle"
  BY FromIInv DEF SendRefused, Sound
<1>2. push[p].out # "pending"
  BY UndecidedIsEligible DEF SendRefused, Writes
<1>3. Unseen(push[p], r) /\ r.out = push[p].out
  BY <1>1, <1>2, DoneDecided DEF Outcomes
<1> HIDE DEF r
<1>4. push' = [push EXCEPT ![p] = r] /\ UNCHANGED <<chan, client>>
  BY DEF SendRefused, r
<1> QED
  BY <1>3, <1>4, OneCallUnseen, NothingDecided

LEMMA SendReturnsLoses ==
  ASSUME IInv, NEW p \in Pushes, SendReturns(p)
  PROVE  Losses
<1> DEFINE r == TaskDone(push[p])
<1>1. Sound(push[p]) /\ push[p].caller # "idle"
  BY FromIInv DEF SendReturns, Sound
<1>2. Unseen(push[p], r) /\ r.out = push[p].out
  BY <1>1, DoneUnseen
<1> HIDE DEF r
<1>3. push' = [push EXCEPT ![p] = r] /\ UNCHANGED <<chan, client>>
  BY DEF SendReturns, r
<1> QED
  BY <1>2, <1>3, OneCallUnseen, NothingDecided

\* A write that raises decides its call and fails the session, or does neither.
LEMMA WriteFailsLoses ==
  ASSUME IInv, NEW p \in Pushes, push[p].task \in {"ready", "sending"},
         NotifyFailure([push EXCEPT ![p] = TaskDone(Decide(push[p], "socket"))], MayNotify(p))
  PROVE  Losses
<1> DEFINE r == TaskDone(Decide(push[p], "socket"))
<1>1. Sound(push[p]) /\ push[p].caller # "idle"
  BY FromIInv DEF Sound
<1>2. /\ Unseen(push[p], r)
      /\ r.out = IF push[p].out = "pending" THEN "socket" ELSE push[p].out
  BY <1>1, DoneDecided DEF Outcomes
<1> HIDE DEF r
<1>3. NotifyFailure([push EXCEPT ![p] = r], MayNotify(p))
  BY DEF r
<1>4. push[p].out = "pending" => MayNotify(p)
  BY UndecidedIsEligible
<1> QED
  BY <1>2, <1>3, <1>4, OneCallUnseen, NotifyLoses DEF Failures

LEMMA SendFailsLoses ==
  ASSUME IInv, NEW p \in Pushes, SendMeetsClose(p) \/ SendFails(p)
  PROVE  Losses
BY WriteFailsLoses DEF SendMeetsClose, SendFails

LEMMA SendCancelledLoses ==
  ASSUME IInv, NEW p \in Pushes, SendCancelled(p)
  PROVE  Losses
<1>1. CASE /\ push[p].task = "ready" /\ push' = [push EXCEPT ![p] = TaskDone(push[p])]
           /\ UNCHANGED <<chan, client>>
  <2> DEFINE r == TaskDone(push[p])
  <2>1. Sound(push[p]) /\ push[p].caller # "idle"
    BY <1>1, FromIInv DEF Sound
  <2>2. Unseen(push[p], r) /\ r.out = push[p].out
    BY <2>1, DoneUnseen
  <2> HIDE DEF r
  <2>3. push' = [push EXCEPT ![p] = r]
    BY <1>1 DEF r
  <2> QED
    BY <1>1, <2>2, <2>3, OneCallUnseen, NothingDecided
<1>2. CASE /\ push[p].task = "sending"
           /\ NotifyFailure([push EXCEPT ![p] = TaskDone(Decide(push[p], "socket"))],
                            MayNotify(p))
  BY <1>2, WriteFailsLoses
<1> QED
  BY <1>1, <1>2 DEF SendCancelled

\* One call is decided, by its deadline or by an answer to what was written for it.
SettlesAs(p, r) ==
  /\ push[p].out = "pending" /\ UNCHANGED <<chan, client>>
  /\ Unseen(push[p], r) /\ r.out \in {"reply", "channel", "timeout"}
  /\ r.out # "timeout" => push[p].writes = 1
  /\ push' = [push EXCEPT ![p] = r]

Settles(p) == \E r : SettlesAs(p, r)

LEMMA ExpireLoses ==
  ASSUME IInv, NEW p \in Pushes, Expire(p)
  PROVE  Losses \/ Settles(p)
<1> DEFINE d == Decide(push[p], "timeout")
           r == TimerOff(d)
           s == StopUnsent(r)
           t == TimerOff(push[p])
<1>1. Sound(push[p])
  BY FromIInv
<1>2. /\ Unseen(push[p], d) /\ Sound(d)
      /\ d.out = IF push[p].out = "pending" THEN "timeout" ELSE push[p].out
  BY <1>1, DecideUnseen DEF Unseen, Evolves, Outcomes
<1>3. Unseen(d, r) /\ Sound(r) /\ r.out = d.out
  <2> HIDE DEF d
  <2> QED
    BY <1>2, TimerOffUnseen DEF Unseen, Evolves
<1>4. Unseen(r, s) /\ s.out = r.out
  <2> HIDE DEF r
  <2> QED
    BY <1>3, StopUnsentUnseen
<1>5. Unseen(push[p], t) /\ t.out = push[p].out
  BY <1>1, TimerOffUnseen
<1>6. \/ push' = [push EXCEPT ![p] = t] /\ UNCHANGED <<chan, client>>
      \/ NotifyFailure([push EXCEPT ![p] = r], MayNotify(p))
      \/ push' = [push EXCEPT ![p] = s] /\ UNCHANGED <<chan, client>>
  BY DEF Expire
<1> HIDE DEF d, r, s, t
<1>7. Unseen(push[p], r) /\ Unseen(push[p], s)
  BY <1>2, <1>3, <1>4 DEF Unseen, Evolves
<1>8. CASE push' = [push EXCEPT ![p] = t] /\ UNCHANGED <<chan, client>>
  BY <1>5, <1>8, OneCallUnseen, NothingDecided
<1>9. CASE NotifyFailure([push EXCEPT ![p] = r], MayNotify(p))
  <2>1. push[p].out = "pending" => MayNotify(p)
    BY UndecidedIsEligible
  <2> QED
    BY <1>2, <1>3, <1>7, <1>9, <2>1, OneCallUnseen, NotifyLoses DEF Failures
<1>10. CASE push' = [push EXCEPT ![p] = s] /\ UNCHANGED <<chan, client>>
  <2>1. CASE push[p].out = "pending"
    <3>1. SettlesAs(p, s)
      BY <1>2, <1>3, <1>4, <1>7, <1>10, <2>1 DEF SettlesAs
    <3> QED
      BY <3>1 DEF Settles
  <2>2. CASE push[p].out # "pending"
    <3>1. s.out = push[p].out
      BY <1>2, <1>3, <1>4, <2>2
    <3> QED
      BY <1>7, <1>10, <3>1, OneCallUnseen, NothingDecided
  <2> QED
    BY <2>1, <2>2
<1> QED
  BY <1>6, <1>8, <1>9, <1>10

LEMMA OtherSendFailsLoses ==
  ASSUME IInv, OtherSendFails
  PROVE  Losses
<1>1. NotifyFailure(push, ~session.retired /\ ~session.failed)
  BY DEF OtherSendFails
<1>2. push \in [Pushes -> Push] /\ \A p \in Pushes : Unseen(push[p], push[p])
  BY FromIInv DEF Unseen, Evolves
<1> QED
  BY <1>1, <1>2, NotifyLoses

LEMMA RouteReplyLoses ==
  ASSUME IInv, NEW p \in Pushes, NEW wellFormed \in BOOLEAN, RouteReply(p, wellFormed)
  PROVE  Losses \/ Settles(p)
<1> DEFINE out == IF wellFormed THEN "reply" ELSE "channel"
           r == Taken(push[p], out)
<1>1. Sound(push[p]) /\ out \in Outcomes /\ out \in {"reply", "channel"} /\ CallsHeld
  BY FromIInv DEF Outcomes, IInv
<1>2. /\ Unseen(push[p], r)
      /\ r.out = IF push[p].out = "pending" THEN out ELSE push[p].out
  BY <1>1, TakenUnseen
<1>3. UNCHANGED <<chan, client>> /\ push[p].writes > 0
  BY DEF RouteReply
<1>4. push[p].writes = 1
  BY <1>1, <1>3 DEF Sound, Push
<1>5. push' = push \/ push' = [push EXCEPT ![p] = r]
  BY DEF RouteReply
<1> HIDE DEF out, r
<1>6. CASE push' = push
  BY <1>1, <1>3, <1>6, NothingChanges, NothingDecided
<1>7. CASE push' = [push EXCEPT ![p] = r] /\ push[p].out = "pending"
  <2>1. SettlesAs(p, r)
    BY <1>1, <1>2, <1>3, <1>4, <1>7 DEF SettlesAs
  <2> QED
    BY <2>1 DEF Settles
<1>8. CASE push' = [push EXCEPT ![p] = r] /\ push[p].out # "pending"
  <2>1. r.out = push[p].out
    BY <1>2, <1>8
  <2> QED
    BY <1>2, <1>3, <1>8, <2>1, OneCallUnseen, NothingDecided
<1> QED
  BY <1>5, <1>6, <1>7, <1>8

\* Steps that leave the calls alone, and the memberships.
LEMMA QuietLoses ==
  ASSUME IInv, UNCHANGED push,
         \A c \in Channels : /\ Joined(c)' <=> Joined(c)
                             /\ Joined(c) => /\ chan'[c].ref = chan[c].ref
                                             /\ client'.conn = client.conn
  PROVE  Losses
<1> DEFINE errors == [p \in Pushes |-> "channel"]
<1>1. errors \in [Pushes -> Failures]
  BY DEF Failures
<1>2. Decided(push, push', {}, errors)
  BY NothingChanges DEF IInv, Decided
<1>3. Loss({}, errors)
  BY <1>2 DEF Loss
<1> QED
  BY <1>1, <1>3 DEF Losses

\* Some channels end, and their calls with them.
LEMMA FailPushesLoses ==
  ASSUME IInv, NEW cs \in SUBSET Channels, NEW error \in Failures,
         push' = FailPushes(push, cs, error),
         \A c \in cs : ~Joined(c)',
         \A c \in Channels \ cs : /\ Joined(c)' <=> Joined(c)
                                  /\ Joined(c) => /\ chan'[c].ref = chan[c].ref
                                                  /\ client'.conn = client.conn
  PROVE  Losses
<1> DEFINE errors == [p \in Pushes |-> error]
<1>1. errors \in [Pushes -> Failures]
  OBVIOUS
<1>2. Decided(push, push', cs, errors)
  <2>1. push \in [Pushes -> Push] /\ \A p \in Pushes : Sound(push[p])
    BY FromIInv
  <2>2. Decided(push, FailPushes(push, cs, error), cs, errors)
    BY <2>1, FailPushesDecides
  <2> QED
    BY <2>2
<1>3. Loss(cs, errors)
  BY <1>2 DEF Loss
<1> QED
  BY <1>1, <1>3 DEF Losses

LEMMA MembershipEnds ==
  ASSUME IInv, NEW c \in Channels, push' = FailPushes(push, {c}, "channel"),
         UNCHANGED client, chan'[c].state # "joined",
         \A d \in Channels : d # c => chan'[d] = chan[d]
  PROVE  Losses
<1>1. ~Joined(c)'
  BY DEF Joined
<1>2. \A d \in Channels \ {c} : (Joined(d)' <=> Joined(d)) /\ chan'[d].ref = chan[d].ref
  BY DEF Joined, OnCurrentConnection
<1> QED
  BY <1>1, <1>2, FailPushesLoses DEF Failures

LEMMA CrashLoses ==
  ASSUME IInv, NEW c \in Channels, Crash(c) \/ Close(c)
  PROVE  Losses
<1>1. PICK b \in BOOLEAN : Lose({c}, b)
  BY DEF Crash, Close
<1>2. push' = FailPushes(push, {c}, "channel") /\ UNCHANGED client
  BY DEF Crash, Close
<1>3. /\ chan'[c].state # "joined"
      /\ \A d \in Channels : d # c => chan'[d] = chan[d]
  BY <1>1, FromIInv, LoseChannels
<1> QED
  BY <1>2, <1>3, MembershipEnds

LEMMA LeaveLoses ==
  ASSUME IInv, NEW c \in Channels, Leave(c)
  PROVE  Losses
<1>1. /\ chan'[c].state # "joined"
      /\ \A d \in Channels : d # c => chan'[d] = chan[d]
  BY FromIInv DEF Leave, ChanType
<1> QED
  BY <1>1, MembershipEnds DEF Leave

\* The client stops for good.
LEMMA EveryMembershipEnds ==
  ASSUME IInv, NEW error \in Failures, Lose(Channels, FALSE),
         push' = FailPushes(push, Channels, error)
  PROVE  Losses
<1>1. \A c \in Channels : chan'[c].state # "joined"
  BY FromIInv, LoseChannels
<1>2. \A c \in Channels : ~Joined(c)'
  BY <1>1 DEF Joined
<1> QED
  BY <1>2, FailPushesLoses

LEMMA RejoinLoses ==
  ASSUME IInv, NEW c \in Channels, Rejoin(c)
  PROVE  Losses
<1>1. /\ chan[c].state # "joined" /\ chan'[c].state # "joined"
      /\ \A d \in Channels : d # c => chan'[d] = chan[d]
  BY FromIInv DEF Rejoin, ChanType
<1>2. \A d \in Channels : (Joined(d)' <=> Joined(d))
                          /\ (Joined(d) => chan'[d].ref = chan[d].ref)
  BY <1>1 DEF Joined, OnCurrentConnection, Rejoin
<1> QED
  BY <1>2, QuietLoses DEF Rejoin

LEMMA LeaveEndsLoses ==
  ASSUME IInv, NEW c \in Channels, LeaveEnds(c)
  PROVE  Losses
<1>1. \A d \in Channels : /\ chan'[d].state = chan[d].state /\ chan'[d].ref = chan[d].ref
                          /\ chan'[d].conn = chan[d].conn
  BY FromIInv DEF LeaveEnds, ChanType
<1>2. \A d \in Channels : Joined(d)' <=> Joined(d)
  BY <1>1 DEF Joined, OnCurrentConnection, LeaveEnds
<1> QED
  BY <1>1, <1>2, QuietLoses DEF LeaveEnds

LEMMA RoutingEndsLoses ==
  ASSUME IInv, RoutingEnds
  PROVE  Losses
<1>1. FailPendingJoins(push) /\ UNCHANGED client /\ Lose(OfConnection, TRUE)
  BY DEF RoutingEnds, FailPendingJoins
<1>2. \A c \in Channels : /\ c \in OfConnection => chan'[c].state # "joined"
                          /\ c \notin OfConnection => chan'[c] = chan[c]
  BY <1>1, FromIInv, LoseChannels
<1>3. \A c \in Channels : Joined(c)' => Joined(c) /\ c \notin OfConnection
  BY <1>1, <1>2 DEF Joined, OnCurrentConnection
<1> QED
  BY <1>1, <1>3, FromIInv, FailPendingJoinsLoses DEF Unseen, Evolves

LEMMA CleanupStartsLoses ==
  ASSUME IInv, CleanupStarts
  PROVE  Losses
<1>1. FailPendingJoins(push) /\ client'.conn = 0
  BY DEF CleanupStarts, IInv, ClientTypes
<1>2. \A c \in Channels : ~Joined(c)'
  BY <1>1 DEF Joined, OnCurrentConnection
<1> QED
  BY <1>1, <1>2, FromIInv, FailPendingJoinsLoses DEF Unseen, Evolves

\* The end of a session reaches every send.
LEMMA CleanupClosesLoses ==
  ASSUME IInv, CleanupCloses
  PROVE  Losses
<1>1. push' = [p \in Pushes |-> StopUnsent(TimerOff(push[p]))] /\ UNCHANGED <<chan, client>>
  BY DEF CleanupCloses
<1>2. ASSUME NEW p \in Pushes
      PROVE  Unseen(push[p], push'[p]) /\ push'[p].out = push[p].out
  <2> DEFINE r == TimerOff(push[p])
  <2>1. Unseen(push[p], r) /\ Sound(r) /\ r.out = push[p].out
    BY FromIInv, TimerOffUnseen DEF Unseen, Evolves
  <2>2. push'[p] = StopUnsent(r)
    BY <1>1
  <2> HIDE DEF r
  <2>3. Unseen(r, push'[p]) /\ push'[p].out = r.out
    BY <2>1, <2>2, StopUnsentUnseen
  <2> QED
    BY <2>1, <2>3 DEF Unseen, Evolves
<1>3. push' \in [Pushes -> Push]
  BY <1>1, <1>2 DEF Unseen, Evolves, Sound
<1> QED
  BY <1>1, <1>2, <1>3, NothingDecided

LEMMA CleanupEndsLoses ==
  ASSUME IInv, CleanupEnds
  PROVE  Losses
<1>1. client.conn = 0 /\ client'.conn = 0 /\ UNCHANGED push
  BY DEF CleanupEnds, IInv, SessionHeld, ClientTypes
<1>2. \A c \in Channels : ~Joined(c) /\ ~Joined(c)'
  BY <1>1 DEF Joined, OnCurrentConnection
<1> QED
  BY <1>1, <1>2, QuietLoses

LEMMA ConnectLoses ==
  ASSUME IInv, Connect
  PROVE  Losses
<1>1. client.conn = 0 /\ client'.conn = client.gen + 1 /\ UNCHANGED <<push, chan>>
  BY DEF Connect, IInv, ClientTypes
<1>2. \A c \in Channels : chan[c].conn # client.gen + 1
  BY PushesAssumption DEF IInv, ChannelHeld, ClientTypes, Conns
<1>3. \A c \in Channels : ~Joined(c) /\ ~Joined(c)'
  BY <1>1, <1>2 DEF Joined, OnCurrentConnection
<1> QED
  BY <1>1, <1>3, QuietLoses

LEMMA StopSupervisorLoses ==
  ASSUME IInv, StopSupervisor
  PROVE  Losses
<1> DEFINE b(p) == push[p].cancel \/ (cleanup = "finishing" /\ TaskAlive(p))
<1>1. /\ push' = [p \in Pushes |-> [push[p] EXCEPT !.cancel = b(p)]]
      /\ UNCHANGED <<chan, client>>
  BY DEF StopSupervisor
<1>2. \A p \in Pushes : b(p) \in BOOLEAN
  BY FromIInv DEF Sound, Push, TaskAlive
<1> HIDE DEF b
<1>3. ASSUME NEW p \in Pushes
      PROVE  Unseen(push[p], push'[p]) /\ push'[p].out = push[p].out
  <2>1. push'[p] = [push[p] EXCEPT !.cancel = b(p)]
    BY <1>1
  <2> QED
    BY <1>2, <2>1, FromIInv, CancelUnseen
<1>4. push' \in [Pushes -> Push]
  BY <1>1, <1>3 DEF Unseen, Evolves, Sound
<1> QED
  BY <1>1, <1>3, <1>4, NothingDecided

-----------------------------------------------------------------------------
(* The client under the calls *)

Held == ClientTypes /\ SessionHeld /\ \A c \in Channels : ChannelHeld(c)

\* The steps that take up no membership and end no leave.
ChannelsMove ==
  \A c \in Channels :
    /\ chan'[c].ref = chan[c].ref
    /\ chan'[c].state = "rejoining" => chan[c].state = "rejoining"
    /\ chan'[c].leave = "done" => chan[c].leave = "done"

\* What LoseChannels says, as the invariant needs it.
LEMMA LoseMoves ==
  ASSUME IInv, NEW cs, NEW b \in BOOLEAN, Lose(cs, b)
  PROVE  /\ chan' \in [Channels -> ChanType] /\ ChannelsMove
         /\ \A c \in Channels : /\ chan'[c].conn = chan[c].conn
                                /\ chan'[c].leave # "none" => chan'[c].state = "left"
<1>1. /\ chan' \in [Channels -> ChanType]
      /\ \A c \in Channels :
           /\ chan'[c].ref = chan[c].ref /\ chan'[c].conn = chan[c].conn
           /\ chan'[c].leave = chan[c].leave
           /\ chan[c].state = "left" => chan'[c].state = "left"
           /\ c \in cs => chan'[c].state \in {"lost", "left"}
           /\ c \notin cs => chan'[c] = chan[c]
  BY FromIInv, LoseChannels
<1>2. \A c \in Channels : chan'[c].state = "rejoining" => chan[c].state = "rejoining"
  BY <1>1
<1>3. \A c \in Channels : chan[c].leave # "none" => chan[c].state = "left"
  BY DEF IInv, ChannelHeld
<1> QED
  BY <1>1, <1>2, <1>3 DEF ChannelsMove

LEMMA StillHeld ==
  ASSUME IInv,
         UNCHANGED <<chan, client, session, closers, socket, routing, cleanup, shut>>
  PROVE  Held' /\ ChannelsMove
BY DEF IInv, Held, ClientTypes, SessionHeld, ChannelHeld, ChannelsMove

\* The client's variables one by one, when the channels only lose.
LEMMA LosersHeld ==
  ASSUME IInv, NEW cs, NEW b \in BOOLEAN, Lose(cs, b),
         client' \in [conn : Conns, gen : Conns, stop : BOOLEAN,
                      state : {"connected", "reconnecting", "shutting_down", "closed"}],
         client'.gen = client.gen,
         session' \in [conn : Conns, failed : BOOLEAN, retired : BOOLEAN],
         closers' \subseteq Conns, socket' \in {"open", "closed"},
         routing' \in {"none", "running", "ended"},
         cleanup' \in {"idle", "closing", "finishing"},
         shut' \in {"none", "stopping", "cleaning", "done"},
         SessionHeld'
  PROVE  Held' /\ ChannelsMove
<1>1. ClientTypes'
  BY LoseMoves DEF ClientTypes, ChanType
<1>2. \A c \in Channels : ChannelHeld(c)'
  BY LoseMoves DEF ChannelHeld, IInv
<1> QED
  BY <1>1, <1>2, LoseMoves DEF Held

LEMMA NotifyHeld ==
  ASSUME IInv, NEW ps, NEW notify, NotifyFailure(ps, notify),
         UNCHANGED <<socket, routing, cleanup, shut>>
  PROVE  Held' /\ ChannelsMove
<1>1. CASE notify
  <2>1. /\ session' = [session EXCEPT !.failed = TRUE]
        /\ Lose(OfConnection, TRUE)
        /\ client' = [client EXCEPT !.state = IF @ = "connected" THEN "reconnecting" ELSE @]
        /\ closers' = closers \cup {session.conn}
    BY <1>1 DEF NotifyFailure, FailPendingJoins
  <2>2. ClientTypes /\ SessionHeld
    BY DEF IInv
  <2>3. /\ client' \in [conn : Conns, gen : Conns, stop : BOOLEAN,
                        state : {"connected", "reconnecting", "shutting_down", "closed"}]
        /\ client'.gen = client.gen /\ client'.conn = client.conn /\ client'.stop = client.stop
        /\ client'.state # "connected"
        /\ client.state # "connected" => client'.state = client.state
    BY <2>1, <2>2 DEF ClientTypes
  <2>4. /\ session' \in [conn : Conns, failed : BOOLEAN, retired : BOOLEAN]
        /\ session'.conn = session.conn /\ session'.retired = session.retired
        /\ session.conn \in Conns
    BY <2>1, <2>2 DEF ClientTypes
  <2>5. SessionHeld'
    BY <2>2, <2>3, <2>4 DEF SessionHeld
  <2> QED
    BY <2>1, <2>2, <2>3, <2>4, <2>5, LosersHeld DEF ClientTypes
<1>2. CASE ~notify
  <2>1. UNCHANGED <<chan, client, session, closers>>
    BY <1>2 DEF NotifyFailure
  <2> QED
    BY <2>1, StillHeld
<1> QED
  BY <1>1, <1>2

LEMMA OperationHeld ==
  ASSUME IInv, NEW p \in Pushes, Call(p) \/ Operation(p)
  PROVE  Held' /\ ChannelsMove
<1>1. CASE CallPush(p) \/ CallerReturns(p) \/ CallerCancelled(p)
  BY <1>1, StillHeld DEF CallPush, CallerReturns, CallerCancelled
<1>2. CASE SendRefused(p) \/ SendWrites(p) \/ SendReturns(p)
  BY <1>2, StillHeld DEF SendRefused, SendWrites, SendReturns
<1>3. CASE SendMeetsClose(p) \/ SendFails(p)
  BY <1>3, NotifyHeld DEF SendMeetsClose, SendFails
<1>4. CASE SendCancelled(p)
  BY <1>4, StillHeld, NotifyHeld DEF SendCancelled
<1>5. CASE Expire(p)
  BY <1>5, StillHeld, NotifyHeld DEF Expire
<1> QED
  BY <1>1, <1>2, <1>3, <1>4, <1>5 DEF Call, Operation, SendStarts

LEMMA NetworkHeld ==
  ASSUME IInv, Network
  PROVE  Held' /\ ChannelsMove
<1> ClientTypes /\ SessionHeld /\ \A c \in Channels : ChannelHeld(c)
  BY DEF IInv
<1>1. ASSUME NEW p \in Pushes, NEW wellFormed \in BOOLEAN, RouteReply(p, wellFormed)
      PROVE  Held' /\ ChannelsMove
  BY <1>1, StillHeld DEF RouteReply
<1>2. CASE Drop
  BY <1>2 DEF Drop, Held, ClientTypes, SessionHeld, ChannelHeld, ChannelsMove
<1>3. CASE RoutingEnds
  <2>1. /\ Lose(OfConnection, TRUE) /\ routing' = "ended"
        /\ UNCHANGED <<client, session, closers, socket, cleanup, shut>>
    BY <1>3 DEF RoutingEnds, FailPendingJoins
  <2>2. SessionHeld'
    BY <2>1 DEF SessionHeld
  <2> QED
    BY <2>1, <2>2, LosersHeld DEF ClientTypes
<1>4. CASE OtherSendFails
  BY <1>4, NotifyHeld DEF OtherSendFails
<1>5. ASSUME NEW k \in closers, CloseSendSession(k)
      PROVE  Held' /\ ChannelsMove
  BY <1>5 DEF CloseSendSession, Held, ClientTypes, SessionHeld, ChannelHeld, ChannelsMove
<1> QED
  BY <1>1, <1>2, <1>3, <1>4, <1>5 DEF Network

LEMMA MembershipHeld ==
  ASSUME IInv, NEW c \in Channels, Membership(c)
  PROVE  Held' /\ (Rejoin(c) \/ LeaveEnds(c) \/ ChannelsMove)
<1>0. ClientTypes /\ SessionHeld /\ \A d \in Channels : ChannelHeld(d)
  BY DEF IInv
<1>1. CASE Crash(c) \/ Close(c)
  <2>1. PICK b \in BOOLEAN : Lose({c}, b)
    BY <1>1 DEF Crash, Close
  <2>2. UNCHANGED <<client, session, closers, socket, routing, cleanup, shut>>
    BY <1>1 DEF Crash, Close
  <2>3. SessionHeld'
    BY <1>0, <2>2 DEF SessionHeld
  <2> QED
    BY <1>0, <2>1, <2>2, <2>3, LosersHeld DEF ClientTypes
<1>2. ASSUME NEW t \in ChanType, chan' = [chan EXCEPT ![c] = t],
             UNCHANGED <<client, session, closers, socket, routing, cleanup, shut>>,
             t.conn # 0, t.conn <= client.gen, t.leave # "none" => t.state = "left"
      PROVE  Held'
  <2>1. ClientTypes' /\ SessionHeld'
    BY <1>0, <1>2 DEF ClientTypes, SessionHeld, ChanType
  <2>2. \A d \in Channels : ChannelHeld(d)'
    BY <1>0, <1>2, FromIInv DEF ChannelHeld
  <2> QED
    BY <2>1, <2>2 DEF Held
<1>3. CASE Rejoin(c)
  <2> DEFINE t == [chan[c] EXCEPT !.state = "rejoining", !.ref = chan[c].ref + 1,
                                  !.conn = client.conn]
  <2>1. chan' = [chan EXCEPT ![c] = t]
    BY <1>3 DEF Rejoin
  <2>2. /\ t \in ChanType /\ t.conn = client.conn /\ client.conn # 0
        /\ client.conn <= client.gen /\ t.leave = "none"
    BY <1>0, <1>3, FromIInv, PushesAssumption
       DEF Rejoin, ChanType, ChannelStates, ClientTypes, Conns, ChannelHeld
  <2> QED
    BY <1>2, <1>3, <2>1, <2>2 DEF Rejoin
<1>4. CASE Accept(c)
  <2> DEFINE t == [chan[c] EXCEPT !.state = "joined"]
  <2>1. chan' = [chan EXCEPT ![c] = t]
    BY <1>4 DEF Accept
  <2>2. /\ t \in ChanType /\ t.conn = chan[c].conn /\ t.leave = "none"
        /\ t.ref = chan[c].ref /\ t.state = "joined"
    BY <1>0, <1>4, FromIInv DEF Accept, ChanType, ChannelStates, ChannelHeld
  <2>3. Held'
    BY <1>0, <1>2, <1>4, <2>1, <2>2 DEF Accept, ChannelHeld
  <2>4. ChannelsMove
    BY <2>1, <2>2, FromIInv DEF ChannelsMove
  <2> QED
    BY <2>3, <2>4
<1>5. CASE Leave(c)
  <2> DEFINE t == [chan[c] EXCEPT !.state = "left", !.leave = "waiting"]
  <2>1. chan' = [chan EXCEPT ![c] = t]
    BY <1>5 DEF Leave
  <2>2. /\ t \in ChanType /\ t.conn = chan[c].conn /\ t.leave = "waiting"
        /\ t.ref = chan[c].ref /\ t.state = "left"
    BY FromIInv DEF ChanType, ChannelStates
  <2>3. Held'
    BY <1>0, <1>2, <1>5, <2>1, <2>2 DEF Leave, ChannelHeld
  <2>4. ChannelsMove
    BY <2>1, <2>2, FromIInv DEF ChannelsMove
  <2> QED
    BY <2>3, <2>4
<1>6. CASE LeaveEnds(c)
  <2> DEFINE t == [chan[c] EXCEPT !.leave = "done"]
  <2>1. chan' = [chan EXCEPT ![c] = t]
    BY <1>6 DEF LeaveEnds
  <2>2. /\ t \in ChanType /\ t.conn = chan[c].conn
        /\ t.ref = chan[c].ref /\ t.state = "left"
    BY <1>0, <1>6, FromIInv DEF LeaveEnds, ChanType, ChannelHeld
  <2>3. Held'
    BY <1>0, <1>2, <1>6, <2>1, <2>2 DEF LeaveEnds, ChannelHeld
  <2> QED
    BY <1>6, <2>3
<1> QED
  BY <1>1, <1>3, <1>4, <1>5, <1>6 DEF Membership

LEMMA LifecycleHeld ==
  ASSUME IInv, Lifecycle
  PROVE  Held' /\ ChannelsMove
<1>0. ClientTypes /\ SessionHeld /\ \A c \in Channels : ChannelHeld(c)
  BY DEF IInv
<1> 0 \in Conns
  BY PushesAssumption DEF Conns
<1>1. CASE CleanupStarts
  <2>1. Lose(OfConnection, TRUE)
    BY <1>1 DEF CleanupStarts, FailPendingJoins
  <2>2. /\ client' \in [conn : Conns, gen : Conns, stop : BOOLEAN,
                        state : {"connected", "reconnecting", "shutting_down", "closed"}]
        /\ client'.conn = 0 /\ client'.gen = client.gen
        /\ client'.stop = client.stop /\ client'.state = client.state
    BY <1>0, <1>1 DEF CleanupStarts, ClientTypes
  <2>3. SessionHeld'
    BY <1>0, <1>1, <2>2 DEF CleanupStarts, SessionHeld
  <2> QED
    BY <1>0, <1>1, <2>1, <2>2, <2>3, LosersHeld DEF CleanupStarts, ClientTypes
<1>2. CASE CleanupCloses
  <2>1. /\ session' \in [conn : Conns, failed : BOOLEAN, retired : BOOLEAN]
        /\ client.conn = 0
    BY <1>0, <1>2 DEF CleanupCloses, ClientTypes, SessionHeld
  <2> QED
    BY <1>0, <1>2, <2>1
       DEF CleanupCloses, Held, ClientTypes, SessionHeld, ChannelHeld, ChannelsMove
<1>3. CASE CleanupEnds
  <2>1. /\ client' \in [conn : Conns, gen : Conns, stop : BOOLEAN,
                        state : {"connected", "reconnecting", "shutting_down", "closed"}]
        /\ client.conn = 0 /\ client'.conn = 0 /\ client'.gen = client.gen
        /\ client'.stop = client.stop /\ client'.state \in {client.state, "closed"}
    BY <1>0, <1>3 DEF CleanupEnds, ClientTypes, SessionHeld
  <2>2. /\ session' \in [conn : Conns, failed : BOOLEAN, retired : BOOLEAN]
        /\ shut' \in {shut, "done"} /\ (shut = "none" => shut' = "none")
        /\ (shut # "none" => shut' # "none")
    BY <1>3 DEF CleanupEnds
  <2>3. SessionHeld'
    BY <1>0, <1>3, <2>1, <2>2 DEF CleanupEnds, SessionHeld
  <2>4. ClientTypes'
    BY <1>0, <1>3, <2>1, <2>2 DEF CleanupEnds, ClientTypes
  <2> QED
    BY <1>0, <1>3, <2>1, <2>3, <2>4 DEF CleanupEnds, Held, ChannelHeld, ChannelsMove
<1>4. CASE Connect
  <2>1. /\ client' \in [conn : Conns, gen : Conns, stop : BOOLEAN,
                        state : {"connected", "reconnecting", "shutting_down", "closed"}]
        /\ client'.conn = client.gen + 1 /\ client'.gen = client.gen + 1
        /\ client'.stop = client.stop /\ client'.state = "connected"
        /\ client.gen + 1 \in Conns /\ client.stop = FALSE
    <3>1. client.gen + 1 \in Conns /\ client.stop = FALSE
      BY <1>0, <1>4, PushesAssumption DEF Connect, ClientTypes, Conns, SessionHeld
    <3> QED
      BY <1>0, <1>4, <3>1 DEF Connect, ClientTypes
  <2>2. /\ session' \in [conn : Conns, failed : BOOLEAN, retired : BOOLEAN]
        /\ session'.conn = client.gen + 1 /\ session'.retired = FALSE
        /\ session'.failed = FALSE
    BY <1>4, <2>1 DEF Connect
  <2>3. SessionHeld'
    BY <1>0, <1>4, <2>1, <2>2 DEF Connect, SessionHeld
  <2>4. ClientTypes'
    BY <1>0, <1>4, <2>1, <2>2 DEF Connect, ClientTypes
  <2>5. \A c \in Channels : chan[c].conn <= client.gen + 1
    BY <1>0 DEF ChannelHeld, ClientTypes, Conns
  <2> QED
    BY <1>0, <1>4, <2>1, <2>3, <2>4, <2>5
       DEF Connect, Held, ChannelHeld, ChannelsMove
<1>5. CASE GiveUp \/ Shutdown
  <2>1. Lose(Channels, FALSE)
    BY <1>5 DEF GiveUp, Shutdown
  <2>2. /\ client' \in [conn : Conns, gen : Conns, stop : BOOLEAN,
                        state : {"connected", "reconnecting", "shutting_down", "closed"}]
        /\ client'.conn = client.conn /\ client'.gen = client.gen
        /\ client'.state \in {"shutting_down", "closed"}
    BY <1>0, <1>5 DEF GiveUp, Shutdown, ClientTypes
  <2>3. SessionHeld'
    <3>1. CASE GiveUp
      BY <1>0, <2>2, <3>1 DEF GiveUp, SessionHeld, ClientTypes
    <3>2. CASE Shutdown
      <4>1. client'.stop = TRUE /\ shut' = "stopping"
        BY <1>0, <3>2 DEF Shutdown, ClientTypes
      <4> QED
        BY <1>0, <2>2, <3>2, <4>1 DEF Shutdown, SessionHeld
    <3> QED
      BY <1>5, <3>1, <3>2
  <2> QED
    BY <1>0, <1>5, <2>1, <2>2, <2>3, LosersHeld DEF GiveUp, Shutdown, ClientTypes
<1>6. CASE StopSupervisor
  BY <1>0, <1>6
     DEF StopSupervisor, Held, ClientTypes, SessionHeld, ChannelHeld, ChannelsMove
<1> QED
  BY <1>1, <1>2, <1>3, <1>4, <1>5, <1>6 DEF Lifecycle

-----------------------------------------------------------------------------
(* The steps of one call *)

\* A call is refused, admitted, written, abandoned or returned.
Turns(p) ==
  \E r : /\ Sound(r) /\ push' = [push EXCEPT ![p] = r] /\ UNCHANGED <<chan, client>>
         /\ \/ Evolves(push[p], r)
            \/ /\ Joined(ChannelOf[p]) /\ r.conn = client.conn
               /\ r.ref = chan[ChannelOf[p]].ref

LEMMA AdmittedSound ==
  ASSUME IInv, NEW c \in Channels
  PROVE  LET r == Admitted(c)
         IN  /\ Sound(r) /\ r.ref = chan[c].ref /\ r.conn = client.conn
             /\ View(r) = [st |-> "pending", member |-> chan[c].ref, writes |-> 0,
                           outcome |-> "none"]
<1>1. chan[c].ref \in 0..MaxJoin /\ client.conn \in Conns
  BY PushesAssumption DEF IInv, ClientTypes
<1>2. Admitted(c) \in Push
  BY <1>1 DEF Push, Outcomes, Admitted
<1>3. Sound(Admitted(c))
  BY <1>2 DEF Sound, Admitted
<1> QED
  BY <1>3 DEF View, Standing, Outcome, Admitted

\* The fields that a caller sets when it goes.
LEMMA CallerUpdate ==
  ASSUME NEW r \in Push, NEW v \in {"refused"} \cup Outcomes
  PROVE  LET s == [r EXCEPT !.caller = v, !.tracked = FALSE]
         IN  /\ s \in Push /\ s.caller = v /\ s.ref = r.ref /\ s.conn = r.conn
             /\ s.out = r.out /\ s.task = r.task /\ s.writes = r.writes
BY DEF Push

LEMMA RefusedUpdate ==
  ASSUME NEW r \in Push
  PROVE  LET s == [r EXCEPT !.caller = "refused"]
         IN  /\ s \in Push /\ s.caller = "refused" /\ s.ref = r.ref /\ s.conn = r.conn
             /\ s.out = r.out /\ s.task = r.task /\ s.writes = r.writes
BY DEF Push

LEMMA WrittenUpdate ==
  ASSUME NEW r \in Push
  PROVE  LET s == [r EXCEPT !.task = "sending", !.writes = 1]
         IN  /\ s \in Push /\ s.task = "sending" /\ s.ref = r.ref /\ s.conn = r.conn
             /\ s.out = r.out /\ s.caller = r.caller /\ s.writes = 1 /\ s.tracked = r.tracked
<1> DEFINE t == [r EXCEPT !.task = "sending"]
           s == [t EXCEPT !.writes = 1]
<1>1. /\ t \in Push /\ t.task = "sending" /\ t.ref = r.ref /\ t.conn = r.conn
      /\ t.out = r.out /\ t.caller = r.caller /\ t.tracked = r.tracked
  BY TaskUpdate
<1>2. s = [r EXCEPT !.task = "sending", !.writes = 1]
  OBVIOUS
<1> HIDE DEF t
<1>3. /\ s \in Push /\ s.task = t.task /\ s.ref = t.ref /\ s.conn = t.conn
      /\ s.out = t.out /\ s.caller = t.caller /\ s.writes = 1 /\ s.tracked = t.tracked
  BY <1>1 DEF Push
<1> QED
  BY <1>1, <1>2, <1>3

\* Each step of one call with what its caller sees of it.
Sees(p, r, st, writes, outcome) ==
  /\ Sound(r) /\ Evolves(push[p], r) /\ push' = [push EXCEPT ![p] = r]
  /\ UNCHANGED <<chan, client>>
  /\ View(r) = [st |-> st, member |-> push[p].ref, writes |-> writes, outcome |-> outcome]

LEMMA RefusedIsSeen ==
  ASSUME IInv, NEW p \in Pushes, CallPush(p), ~Joined(ChannelOf[p])
  PROVE  \E r : Sees(p, r, "returned", 0, "refused")
<1> DEFINE r == [push[p] EXCEPT !.caller = "refused"]
<1>1. /\ Sound(push[p]) /\ push[p] \in Push /\ push[p].caller = "idle"
      /\ push[p].out = "none" /\ push[p].task = "none" /\ push[p].writes = 0
  BY FromIInv DEF CallPush, Sound
<1>2. /\ r \in Push /\ r.caller = "refused" /\ r.ref = push[p].ref /\ r.conn = push[p].conn
      /\ r.out = "none" /\ r.task = "none" /\ r.writes = 0
  BY <1>1, RefusedUpdate
<1>3. push' = [push EXCEPT ![p] = r] /\ UNCHANGED <<chan, client>>
  BY DEF CallPush
<1> HIDE DEF r
<1>4. Sound(r) /\ Evolves(push[p], r)
  BY <1>2 DEF Sound, Evolves
<1>5. View(r) = [st |-> "returned", member |-> push[p].ref, writes |-> 0,
                 outcome |-> "refused"]
  BY <1>2 DEF View, Standing, Outcome
<1>6. Sees(p, r, "returned", 0, "refused")
  BY <1>3, <1>4, <1>5 DEF Sees
<1> QED
  BY <1>6

LEMMA WrittenIsSeen ==
  ASSUME IInv, NEW p \in Pushes, SendWrites(p)
  PROVE  \E r : Sees(p, r, "pending", 1, "none")
<1> DEFINE r == [push[p] EXCEPT !.task = "sending", !.writes = 1]
<1>1. /\ Sound(push[p]) /\ push[p] \in Push /\ push[p].caller = "waiting"
      /\ push[p].out = "pending" /\ push[p].task = "ready" /\ push[p].writes = 0
      /\ push[p].tracked = TRUE
  BY FromIInv DEF SendWrites, Writes, Sound
<1>2. /\ r \in Push /\ r.caller = "waiting" /\ r.ref = push[p].ref /\ r.conn = push[p].conn
      /\ r.out = "pending" /\ r.task = "sending" /\ r.writes = 1 /\ r.tracked = TRUE
  BY <1>1, WrittenUpdate
<1>3. push' = [push EXCEPT ![p] = r] /\ UNCHANGED <<chan, client>>
  <2>1. 1 + push[p].writes = 1
    BY <1>1
  <2> QED
    BY <2>1, Zenon DEF SendWrites
<1> HIDE DEF r
<1>4. Sound(r) /\ Evolves(push[p], r)
  BY <1>1, <1>2 DEF Sound, Evolves
<1>5. View(r) = [st |-> "pending", member |-> push[p].ref, writes |-> 1, outcome |-> "none"]
  BY <1>2 DEF View, Standing, Outcome
<1>6. Sees(p, r, "pending", 1, "none")
  BY <1>3, <1>4, <1>5 DEF Sees
<1> QED
  BY <1>6

LEMMA ReturnIsSeen ==
  ASSUME IInv, NEW p \in Pushes, CallerReturns(p)
  PROVE  \E r : Sees(p, r, "returned", push[p].writes, push[p].out)
<1> DEFINE r == [push[p] EXCEPT !.caller = push[p].out, !.tracked = FALSE]
<1>1. /\ Sound(push[p]) /\ push[p] \in Push /\ push[p].caller = "waiting"
      /\ push[p].out # "pending" /\ push[p].out # "none"
  BY FromIInv DEF CallerReturns, Sound
<1>2. push[p].out \in Outcomes
  BY <1>1 DEF Push
<1>3. /\ r \in Push /\ r.caller = push[p].out /\ r.ref = push[p].ref
      /\ r.conn = push[p].conn /\ r.out = push[p].out /\ r.task = push[p].task
      /\ r.writes = push[p].writes
  BY <1>1, <1>2, CallerUpdate
<1>4. push' = [push EXCEPT ![p] = r] /\ UNCHANGED <<chan, client>>
  BY DEF CallerReturns
<1> HIDE DEF r
<1>5. Sound(r) /\ Evolves(push[p], r)
  BY <1>1, <1>2, <1>3 DEF Sound, Evolves, Outcomes
<1>6. View(r) = [st |-> "returned", member |-> push[p].ref, writes |-> push[p].writes,
                 outcome |-> push[p].out]
  BY <1>2, <1>3 DEF View, Standing, Outcome, Outcomes
<1>7. Sees(p, r, "returned", push[p].writes, push[p].out)
  BY <1>4, <1>5, <1>6 DEF Sees
<1> QED
  BY <1>7

LEMMA CancelIsSeen ==
  ASSUME IInv, NEW p \in Pushes, CallerCancelled(p)
  PROVE  \E r : Sees(p, r, "returned", push[p].writes, "cancelled")
<1> DEFINE d == Decide(push[p], "cancelled")
           g == [d EXCEPT !.caller = "cancelled", !.tracked = FALSE]
           h == StopUnsent(g)
           r == Discard(h)
<1>1. Sound(push[p]) /\ push[p].caller = "waiting"
  BY FromIInv DEF CallerCancelled
<1>2. /\ Unseen(push[p], d) /\ d \in Push /\ d.out # "pending" /\ Sound(d)
  BY <1>1, DecideUnseen DEF Unseen, Evolves, Sound, Outcomes
<1>3. push' = [push EXCEPT ![p] = r] /\ UNCHANGED <<chan, client>>
  BY DEF CallerCancelled
<1> HIDE DEF d
<1>4. /\ g \in Push /\ g.caller = "cancelled" /\ g.ref = d.ref /\ g.conn = d.conn
      /\ g.out = d.out /\ g.task = d.task /\ g.writes = d.writes
  BY <1>2, CallerUpdate DEF Outcomes
<1> HIDE DEF g
<1>5. Sound(g)
  BY <1>2, <1>4 DEF Sound
<1>6. Unseen(g, h) /\ Sound(h)
  BY <1>5, StopUnsentUnseen DEF Unseen, Evolves
<1> HIDE DEF h
<1>7. Unseen(h, r)
  BY <1>6, DiscardUnseen
<1> HIDE DEF r
<1>8. /\ Sound(r) /\ Evolves(push[p], r) /\ r.caller = "cancelled"
      /\ r.ref = push[p].ref /\ r.writes = push[p].writes
  BY <1>2, <1>4, <1>6, <1>7 DEF Unseen, Evolves
<1>9. View(r) = [st |-> "returned", member |-> push[p].ref, writes |-> push[p].writes,
                 outcome |-> "cancelled"]
  BY <1>8 DEF View, Standing, Outcome
<1>10. Sees(p, r, "returned", push[p].writes, "cancelled")
  BY <1>3, <1>8, <1>9 DEF Sees
<1> QED
  BY <1>10

\* What the caller of a settled call sees, and of one that is left alone.
LEMMA ViewOf ==
  ASSUME NEW r, Sound(r), NEW s, Unseen(r, s)
  PROVE  /\ s.out = r.out => View(s) = View(r)
         /\ r.out = "pending" =>
              View(r) = [st |-> "pending", member |-> r.ref, writes |-> r.writes,
                         outcome |-> "none"]
         /\ r.out = "pending" /\ s.out # "pending" =>
              View(s) = [st |-> "settled", member |-> r.ref, writes |-> r.writes,
                         outcome |-> s.out]
<1>1. /\ s.caller = r.caller /\ s.ref = r.ref /\ s.writes = r.writes
      /\ r.out = "pending" => r.caller = "waiting"
  BY DEF Unseen, Evolves, Sound
<1> QED
  BY <1>1 DEF View, Standing, Outcome

-----------------------------------------------------------------------------
(* The invariant *)

\* The invariant holds of a client without pushes.
LEMMA InitHolds ==
  ASSUME Init
  PROVE  IInv
<1>1. 1 \in Conns /\ 0 \in Conns /\ 1 \in 1..MaxJoin
  BY PushesAssumption DEF Conns
<1>2. ClientTypes /\ SessionHeld /\ \A c \in Channels : ChannelHeld(c)
  BY <1>1 DEF Init, ClientTypes, SessionHeld, ChannelHeld, ChannelStates
<1>3. NoPush \in Push /\ Sound(NoPush)
  BY <1>1, PushesAssumption DEF NoPush, Push, Sound, Outcomes
<1>4. \A p \in Pushes : push[p] = NoPush /\ ChannelOf[p] \in Channels
  BY PushesAssumption DEF Init
<1>5. CallsHeld
  BY <1>3, <1>4 DEF CallsHeld, Dated, Current, Init, NoPush
<1>6. LeftIsQuiet
  BY <1>4 DEF LeftIsQuiet, TaskAlive, NoPush
<1> QED
  BY <1>2, <1>5, <1>6 DEF IInv

\* What a step can do to the calls.
LEMMA StepKinds ==
  ASSUME IInv, Next
  PROVE  \/ Losses
         \/ \E p \in Pushes : Settles(p) \/ Call(p) \/ SendWrites(p)
         \/ \E c \in Channels : Accept(c)
<1>1. ASSUME NEW p \in Pushes, Operation(p)
      PROVE  Losses \/ Settles(p) \/ SendWrites(p)
  BY <1>1, SendRefusedLoses, SendReturnsLoses, SendFailsLoses, SendCancelledLoses, ExpireLoses
     DEF Operation, SendStarts
<1>2. CASE Network
  <2>1. ASSUME NEW p \in Pushes, NEW wellFormed \in BOOLEAN, RouteReply(p, wellFormed)
        PROVE  Losses \/ Settles(p)
    BY <2>1, RouteReplyLoses
  <2>2. CASE Drop \/ \E k \in closers : CloseSendSession(k)
    <3>1. UNCHANGED <<push, chan, client>>
      BY <2>2 DEF Drop, CloseSendSession
    <3> QED
      BY <3>1, QuietLoses DEF Joined, OnCurrentConnection
  <2>3. CASE RoutingEnds \/ OtherSendFails
    BY <2>3, RoutingEndsLoses, OtherSendFailsLoses
  <2> QED
    BY <1>2, <2>1, <2>2, <2>3 DEF Network
<1>3. ASSUME NEW c \in Channels, Membership(c)
      PROVE  Losses \/ Accept(c)
  BY <1>3, CrashLoses, RejoinLoses, LeaveLoses, LeaveEndsLoses DEF Membership
<1>4. CASE Lifecycle
  <2>1. CASE GiveUp \/ Shutdown
    <3>1. Lose(Channels, FALSE)
      BY <2>1 DEF GiveUp, Shutdown
    <3>2. PICK error \in Failures : push' = FailPushes(push, Channels, error)
      BY <2>1 DEF GiveUp, Shutdown, Failures
    <3> QED
      BY <3>1, <3>2, EveryMembershipEnds
  <2> QED
    BY <1>4, <2>1, CleanupStartsLoses, CleanupClosesLoses, CleanupEndsLoses, ConnectLoses,
       StopSupervisorLoses DEF Lifecycle
<1> QED
  BY <1>1, <1>2, <1>3, <1>4 DEF Next

\* The calls of memberships that do not end stay with them.
LEMMA LossKeepsCalls ==
  ASSUME IInv, Losses, \A p \in Pushes : push'[p].ref = push[p].ref => Dated(p)'
  PROVE  CallsHeld' /\ \A p \in Pushes : TaskAlive(p)' => TaskAlive(p)
<1>1. PICK cs \in SUBSET Channels, errors \in [Pushes -> Failures] : Loss(cs, errors)
  BY DEF Losses
<1>2. push' \in [Pushes -> Push]
  BY <1>1 DEF Loss, Decided
<1>3. ASSUME NEW p \in Pushes
      PROVE  Sound(push'[p]) /\ Dated(p)' /\ (TaskAlive(p)' => TaskAlive(p))
  BY <1>1 DEF Loss, Decided, Unseen, Evolves, TaskAlive
<1>4. ASSUME NEW p \in Pushes, push'[p].out = "pending"
      PROVE  /\ Joined(ChannelOf[p])'
             /\ push'[p].ref = chan'[ChannelOf[p]].ref /\ push'[p].conn = client'.conn
  <2>1. errors[p] # "pending"
    BY DEF Failures
  <2>2. /\ Unseen(push[p], push'[p]) /\ push[p].out = "pending" /\ ChannelOf[p] \notin cs
    BY <1>1, <1>4, <2>1 DEF Loss, Decided
  <2>3. /\ ChannelOf[p] \in Channels /\ Joined(ChannelOf[p])
        /\ push[p].ref = chan[ChannelOf[p]].ref /\ push[p].conn = client.conn
    BY <2>2, FromIInv
  <2>4. /\ Joined(ChannelOf[p])'
        /\ chan'[ChannelOf[p]].ref = chan[ChannelOf[p]].ref /\ client'.conn = client.conn
    BY <1>1, <2>2, <2>3 DEF Loss
  <2> QED
    BY <2>2, <2>3, <2>4 DEF Unseen, Evolves
<1>5. \A p \in Pushes : Current(p)'
  BY <1>4 DEF Current
<1> QED
  BY <1>2, <1>3, <1>5 DEF CallsHeld

\* One call moves on within its membership.
LEMMA EvolutionKeepsCalls ==
  ASSUME IInv, NEW p \in Pushes, NEW r, Evolves(push[p], r),
         push' = [push EXCEPT ![p] = r], UNCHANGED <<chan, client>>
  PROVE  CallsHeld' /\ \A q \in Pushes : TaskAlive(q)' => TaskAlive(q)
<1>0. r \in Push /\ push \in [Pushes -> Push]
  BY FromIInv DEF Evolves, Sound
<1>1. push' \in [Pushes -> Push] /\ push'[p] = r
      /\ \A q \in Pushes : q # p => push'[q] = push[q]
  BY <1>0
<1>2. \A q \in Pushes : Evolves(push[q], push'[q])
  BY <1>1, FromIInv DEF Evolves
<1>3. ASSUME NEW q \in Pushes
      PROVE  Sound(push'[q]) /\ Dated(q)' /\ Current(q)' /\ (TaskAlive(q)' => TaskAlive(q))
  <2>1. Dated(q) /\ Current(q)
    BY DEF IInv, CallsHeld
  <2>2. Joined(ChannelOf[q])' <=> Joined(ChannelOf[q])
    BY DEF Joined, OnCurrentConnection
  <2> QED
    BY <1>2, <2>1, <2>2 DEF Evolves, Dated, Current, TaskAlive
<1> QED
  BY <1>1, <1>3 DEF CallsHeld

LEMMA AdmissionKeepsCalls ==
  ASSUME IInv, NEW p \in Pushes, Joined(ChannelOf[p]),
         push' = [push EXCEPT ![p] = Admitted(ChannelOf[p])], UNCHANGED <<chan, client>>
  PROVE  CallsHeld' /\ LeftIsQuiet'
<1> DEFINE r == Admitted(ChannelOf[p])
<1>1. /\ Sound(r) /\ r.ref = chan[ChannelOf[p]].ref /\ r.conn = client.conn
      /\ ChannelOf[p] \in Channels
  BY FromIInv, AdmittedSound
<1> HIDE DEF r
<1>2. push' = [push EXCEPT ![p] = r]
  BY DEF r
<1>3. r \in Push /\ push \in [Pushes -> Push]
  BY <1>1, FromIInv DEF Sound
<1>4. /\ push' \in [Pushes -> Push] /\ push'[p] = r
      /\ \A q \in Pushes : q # p => push'[q] = push[q]
  BY <1>2, <1>3
<1>5. \A c \in Channels : Joined(c)' <=> Joined(c)
  BY DEF Joined, OnCurrentConnection
<1>6. chan[ChannelOf[p]].state = "joined" /\ chan[ChannelOf[p]].leave = "none"
  BY <1>1, JoinedIsOfConnection DEF IInv, ChannelHeld, ClientTypes
<1>7. ASSUME NEW q \in Pushes
      PROVE  Sound(push'[q]) /\ Dated(q)' /\ Current(q)'
  <2>1. CASE q = p
    <3>1. r.ref <= chan[ChannelOf[p]].ref
      BY <1>1 DEF IInv, ClientTypes
    <3> QED
      BY <1>1, <1>4, <1>5, <1>6, <2>1, <3>1 DEF Dated, Current
  <2>2. CASE q # p
    <3>1. Sound(push[q]) /\ Dated(q) /\ Current(q) /\ ChannelOf[q] \in Channels
      BY FromIInv DEF IInv, CallsHeld
    <3> QED
      BY <1>4, <1>5, <2>2, <3>1 DEF Dated, Current
  <2> QED
    BY <2>1, <2>2
<1>8. LeftIsQuiet'
  BY <1>4, <1>6 DEF IInv, LeftIsQuiet, TaskAlive
<1> QED
  BY <1>4, <1>7, <1>8 DEF CallsHeld

\* A new membership has none of the calls.
LEMMA AcceptKeepsCalls ==
  ASSUME IInv, NEW c \in Channels, Accept(c)
  PROVE  CallsHeld' /\ LeftIsQuiet'
<1>1. /\ UNCHANGED <<push, client>>
      /\ chan'[c].ref = chan[c].ref /\ chan'[c].conn = chan[c].conn
      /\ chan'[c].state = "joined" /\ chan'[c].leave = chan[c].leave
      /\ chan[c].state = "rejoining"
      /\ \A d \in Channels : d # c => chan'[d] = chan[d]
  BY FromIInv DEF Accept, ChanType
<1>2. ASSUME NEW p \in Pushes
      PROVE  Sound(push'[p]) /\ Dated(p)' /\ Current(p)'
  <2>1. Sound(push[p]) /\ Dated(p) /\ Current(p) /\ ChannelOf[p] \in Channels
    BY FromIInv DEF IInv, CallsHeld
  <2>2. CASE ChannelOf[p] = c
    BY <1>1, <2>1, <2>2 DEF Dated, Current, Joined
  <2>3. CASE ChannelOf[p] # c
    BY <1>1, <2>1, <2>3 DEF Dated, Current, Joined, OnCurrentConnection
  <2> QED
    BY <2>2, <2>3
<1>3. LeftIsQuiet'
  BY <1>1, PushesAssumption DEF IInv, LeftIsQuiet, TaskAlive
<1> QED
  BY <1>1, <1>2, <1>3 DEF CallsHeld, IInv

LEMMA HeldByNext ==
  ASSUME IInv, Next
  PROVE  Held' /\ (ChannelsMove \/ \E c \in Channels : Rejoin(c) \/ LeaveEnds(c))
BY OperationHeld, NetworkHeld, MembershipHeld, LifecycleHeld DEF Next

\* Every step keeps it.
LEMMA StepHolds ==
  ASSUME IInv, [Next]_vars
  PROVE  IInv'
<1>1. CASE UNCHANGED vars
  BY <1>1 DEF vars, IInv, ClientTypes, SessionHeld, ChannelHeld, CallsHeld, Dated, Current,
     Joined, OnCurrentConnection, LeftIsQuiet, TaskAlive
<1>2. CASE Next
  <2>0. Held' /\ (ChannelsMove \/ \E c \in Channels : Rejoin(c) \/ LeaveEnds(c))
    BY <1>2, HeldByNext
  <2>1. CASE Losses
    <3>1. \A p \in Pushes : push'[p].ref = push[p].ref => Dated(p)'
      <4>0. /\ \A p \in Pushes : Dated(p) /\ ChannelOf[p] \in Channels /\ push[p].ref \in Nat
            /\ \A c \in Channels : chan[c].ref \in Nat
        BY FromIInv, PushesAssumption DEF IInv, CallsHeld, Push, ChanType
      <4>1. CASE ChannelsMove
        BY <4>0, <4>1 DEF ChannelsMove, Dated
      <4>2. ASSUME NEW c \in Channels, LeaveEnds(c)
            PROVE  \A d \in Channels : chan'[d].ref = chan[d].ref
                                       /\ chan'[d].state = chan[d].state
        BY <4>2, FromIInv DEF LeaveEnds, ChanType
      <4>3. ASSUME NEW c \in Channels, Rejoin(c)
            PROVE  /\ chan'[c].ref = chan[c].ref + 1
                   /\ \A d \in Channels : d # c => chan'[d] = chan[d]
        BY <4>3, FromIInv DEF Rejoin, ChanType
      <4>4. ASSUME NEW c \in Channels, Rejoin(c), NEW p \in Pushes, push'[p].ref = push[p].ref
            PROVE  Dated(p)'
        BY <4>0, <4>3, <4>4 DEF Dated
      <4> QED
        BY <2>0, <4>0, <4>1, <4>2, <4>4 DEF Dated
    <3>2. CallsHeld' /\ \A p \in Pushes : TaskAlive(p)' => TaskAlive(p)
      BY <2>1, <3>1, LossKeepsCalls
    <3>3. LeftIsQuiet'
      <4>1. ASSUME NEW c \in Channels, LeaveEnds(c)
            PROVE  LeftIsQuiet'
        <5>1. /\ push' = push
              /\ \A p \in Pushes : ChannelOf[p] = c => ~TaskAlive(p)
              /\ \A d \in Channels : d # c => chan'[d] = chan[d]
          BY <4>1 DEF LeaveEnds, SendsOf
        <5> QED
          BY <5>1, FromIInv DEF IInv, LeftIsQuiet, TaskAlive
      <4>2. ASSUME NEW c \in Channels, Rejoin(c)
            PROVE  \A d \in Channels : chan'[d].leave = chan[d].leave
        BY <4>2, FromIInv DEF Rejoin, ChanType
      <4> QED
        BY <2>0, <3>2, <4>1, <4>2, FromIInv DEF ChannelsMove, LeftIsQuiet, IInv
    <3> QED
      BY <2>0, <3>2, <3>3 DEF IInv, Held
  <2>2. ASSUME NEW p \in Pushes, NEW r, Evolves(push[p], r),
               push' = [push EXCEPT ![p] = r], UNCHANGED <<chan, client>>
        PROVE  IInv'
    <3>1. CallsHeld' /\ \A q \in Pushes : TaskAlive(q)' => TaskAlive(q)
      BY <2>2, EvolutionKeepsCalls
    <3>2. LeftIsQuiet'
      BY <2>2, <3>1 DEF IInv, LeftIsQuiet
    <3> QED
      BY <2>0, <3>1, <3>2 DEF IInv, Held
  <2>3. ASSUME NEW p \in Pushes, Settles(p)
        PROVE  IInv'
    BY <2>2, <2>3 DEF Settles, SettlesAs, Unseen
  <2>4. ASSUME NEW p \in Pushes, Call(p) \/ SendWrites(p)
        PROVE  IInv'
    <3>1. CASE CallPush(p) /\ Joined(ChannelOf[p])
      <4>1. /\ push' = [push EXCEPT ![p] = Admitted(ChannelOf[p])]
            /\ UNCHANGED <<chan, client>>
        BY <3>1 DEF CallPush
      <4> QED
        BY <2>0, <3>1, <4>1, AdmissionKeepsCalls DEF IInv, Held
    <3>2. CASE CallPush(p) /\ ~Joined(ChannelOf[p])
      BY <2>2, <3>2, RefusedIsSeen DEF Sees
    <3>3. CASE CallerReturns(p)
      BY <2>2, <3>3, ReturnIsSeen DEF Sees
    <3>4. CASE CallerCancelled(p)
      BY <2>2, <3>4, CancelIsSeen DEF Sees
    <3>5. CASE SendWrites(p)
      BY <2>2, <3>5, WrittenIsSeen DEF Sees
    <3> QED
      BY <2>4, <3>1, <3>2, <3>3, <3>4, <3>5 DEF Call
  <2>5. ASSUME NEW c \in Channels, Accept(c)
        PROVE  IInv'
    BY <2>0, <2>5, AcceptKeepsCalls DEF IInv, Held
  <2> QED
    BY <1>2, <2>1, <2>3, <2>4, <2>5, StepKinds
<1> QED
  BY <1>1, <1>2

\* So it holds throughout, for any pushes, channels and connections.
THEOREM InvariantHolds == Spec => []IInv
<1> QED
  BY InitHolds, StepHolds, PTL DEF Spec

\* Every variable keeps to its type, and no call is written twice, for any pushes and
\* channels and any number of memberships and connections.
THEOREM TypeCorrect == Spec => []TypeOK
<1>1. IInv => TypeOK
  BY DEF IInv, ClientTypes, CallsHeld, TypeOK
<1> QED
  BY <1>1, InvariantHolds, PTL

\* For any number of pushes: no send of a left channel is under way once its leave()
\* has returned (_cleanup_subscription).
THEOREM LeftChannelsAreQuiet == Spec => []LeftIsQuiet
<1>1. IInv => LeftIsQuiet
  BY DEF IInv
<1> QED
  BY <1>1, InvariantHolds, PTL

-----------------------------------------------------------------------------
(* The promise *)

Members == [c \in Channels |-> Member(c)]

Seen == [p \in Pushes |-> View(push[p])]

\* What follows needs no more of Seen than that.
LEMMA SeenIsOfPushes ==
  /\ Seen = [q \in Pushes |-> Seen[q]]
  /\ Seen' = [q \in Pushes |-> Seen'[q]]
  /\ \A q \in Pushes : Seen[q] = View(push[q]) /\ Seen'[q] = View(push'[q])
<1>1. Seen' = [q \in Pushes |-> View(push'[q])]
  BY DEF Seen, View, Standing, Outcome
<1> QED
  BY <1>1 DEF Seen

\* One call changes: what PushCalls sees of it.
LEMMA OneCallSeen ==
  ASSUME IInv, NEW p \in Pushes, NEW r, push' = [push EXCEPT ![p] = r],
         UNCHANGED <<chan, client>>
  PROVE  /\ UNCHANGED Members
         /\ Seen' = [Seen EXCEPT ![p] = View(r)]
<1>1. push \in [Pushes -> Push]
  BY FromIInv
<1>2. \A q \in Pushes : push'[q] = IF q = p THEN r ELSE push[q]
  BY <1>1
<1>3. Seen'[p] = View(r) /\ \A q \in Pushes : q # p => Seen'[q] = Seen[q]
  BY <1>2, SeenIsOfPushes
<1>4. Seen' = [Seen EXCEPT ![p] = View(r)]
  <2> DEFINE f == Seen
             g == Seen'
             v == View(r)
  <2>1. /\ f = [q \in Pushes |-> f[q]] /\ g = [q \in Pushes |-> g[q]]
        /\ g[p] = v /\ \A q \in Pushes : q # p => g[q] = f[q]
    BY <1>3, SeenIsOfPushes
  <2> HIDE DEF f, g, v
  <2>2. g = [f EXCEPT ![p] = v]
    BY <2>1
  <2> QED
    BY <2>2 DEF f, g, v
<1>5. UNCHANGED Members
  BY DEF Members, Member, Joined, OnCurrentConnection
<1> QED
  BY <1>4, <1>5

LEMMA MemberValues ==
  ASSUME IInv, NEW c \in Channels
  PROVE  /\ Members[c] = Member(c) /\ Member(c) \in Nat
         /\ Joined(c) <=> Member(c) # 0
         /\ Joined(c) => Member(c) = chan[c].ref
         /\ chan[c].ref \in Nat \ {0}
<1>1. chan[c].ref \in Nat \ {0}
  BY FromIInv, PushesAssumption DEF ChanType
<1> QED
  BY <1>1 DEF Members, Member

\* The initial states are initial ones of PushCalls.
LEMMA InitIsPromised ==
  ASSUME Init
  PROVE  Promise!Init
<1>1. \A p \in Pushes : View(push[p]) = Promise!NoCall
  BY DEF Init, NoPush, View, Standing, Outcome, Promise!NoCall
<1>2. Members \in [Channels -> Nat]
  BY InitHolds, MemberValues DEF Members
<1> QED
  BY <1>1, <1>2 DEF Promise!Init, Members

LEMMA RefuseIsPromised ==
  ASSUME IInv, NEW p \in Pushes, CallPush(p), ~Joined(ChannelOf[p])
  PROVE  Promise!Refuse(p)
<1>1. PICK r : Sees(p, r, "returned", 0, "refused")
  BY RefusedIsSeen
<1>2. /\ UNCHANGED Members
      /\ Seen' = [Seen EXCEPT ![p] = [st |-> "returned", member |-> push[p].ref,
                                      writes |-> 0, outcome |-> "refused"]]
  BY <1>1, OneCallSeen DEF Sees
<1>3. Seen[p] = [st |-> "idle", member |-> push[p].ref, writes |-> 0, outcome |-> "none"]
  BY FromIInv DEF Seen, View, Standing, Outcome, CallPush, Sound
<1>4. Members[ChannelOf[p]] = 0
  BY FromIInv, MemberValues
<1>5. Seen' = [Seen EXCEPT ![p] = Promise!Moved(Seen[p], "returned", "refused")]
  BY <1>2, <1>3 DEF Promise!Moved
<1> QED
  BY <1>2, <1>3, <1>4, <1>5 DEF Promise!Refuse, Promise!Of, Members, Seen

LEMMA AdmitIsPromised ==
  ASSUME IInv, NEW p \in Pushes, CallPush(p), Joined(ChannelOf[p])
  PROVE  Promise!Admit(p)
<1>0. ChannelOf[p] \in Channels
  BY FromIInv
<1>1. /\ UNCHANGED Members
      /\ Seen' = [Seen EXCEPT ![p] = [st |-> "pending", member |-> chan[ChannelOf[p]].ref,
                                      writes |-> 0, outcome |-> "none"]]
  <2> DEFINE r == Admitted(ChannelOf[p])
  <2>1. push' = [push EXCEPT ![p] = r] /\ UNCHANGED <<chan, client>>
    BY DEF CallPush
  <2>2. View(r) = [st |-> "pending", member |-> chan[ChannelOf[p]].ref,
                   writes |-> 0, outcome |-> "none"]
    BY <1>0, AdmittedSound
  <2> HIDE DEF r
  <2> QED
    BY <2>1, <2>2, OneCallSeen
<1>2. Seen[p] = [st |-> "idle", member |-> 0, writes |-> 0, outcome |-> "none"]
  BY FromIInv DEF Seen, View, Standing, Outcome, CallPush, Sound
<1>3. Members[ChannelOf[p]] # 0 /\ Members[ChannelOf[p]] = chan[ChannelOf[p]].ref
  BY <1>0, MemberValues
<1>4. Seen' = [Seen EXCEPT ![p] = Promise!Pending(p, 0)]
  BY <1>1, <1>3 DEF Promise!Pending, Promise!Of, Members
<1> QED
  BY <1>1, <1>2, <1>3, <1>4 DEF Promise!Admit, Promise!Of, Members, Seen

LEMMA WriteIsPromised ==
  ASSUME IInv, NEW p \in Pushes, SendWrites(p)
  PROVE  Promise!Write(p)
<1>1. PICK r : Sees(p, r, "pending", 1, "none")
  BY WrittenIsSeen
<1>2. /\ UNCHANGED Members
      /\ Seen' = [Seen EXCEPT ![p] = [st |-> "pending", member |-> push[p].ref,
                                      writes |-> 1, outcome |-> "none"]]
  BY <1>1, OneCallSeen DEF Sees
<1>3. push[p].out = "pending" /\ push[p].writes = 0 /\ push[p].caller = "waiting"
  BY FromIInv DEF SendWrites, Writes, Sound
<1>4. Seen[p] = [st |-> "pending", member |-> push[p].ref, writes |-> 0, outcome |-> "none"]
  BY <1>3 DEF Seen, View, Standing, Outcome
<1>5. Members[ChannelOf[p]] = push[p].ref
  BY <1>3, FromIInv, MemberValues
<1>6. Seen' = [Seen EXCEPT ![p] = Promise!Pending(p, 1)]
  BY <1>2, <1>5 DEF Promise!Pending, Promise!Of, Members
<1> QED
  BY <1>2, <1>4, <1>5, <1>6 DEF Promise!Write, Promise!Of, Members, Seen

LEMMA ReturnIsPromised ==
  ASSUME IInv, NEW p \in Pushes, CallerReturns(p)
  PROVE  Promise!Return(p)
<1>1. PICK r : Sees(p, r, "returned", push[p].writes, push[p].out)
  BY ReturnIsSeen
<1>2. /\ UNCHANGED Members
      /\ Seen' = [Seen EXCEPT ![p] = [st |-> "returned", member |-> push[p].ref,
                                      writes |-> push[p].writes, outcome |-> push[p].out]]
  BY <1>1, OneCallSeen DEF Sees
<1>3. push[p].out # "pending" /\ push[p].caller = "waiting"
  BY DEF CallerReturns
<1>4. Seen[p] = [st |-> "settled", member |-> push[p].ref, writes |-> push[p].writes,
                 outcome |-> push[p].out]
  BY <1>3 DEF Seen, View, Standing, Outcome
<1>5. Seen' = [Seen EXCEPT ![p] = Promise!Moved(Seen[p], "returned", Seen[p].outcome)]
  BY <1>2, <1>4 DEF Promise!Moved
<1> QED
  BY <1>2, <1>4, <1>5 DEF Promise!Return, Members, Seen

LEMMA CancelIsPromised ==
  ASSUME IInv, NEW p \in Pushes, CallerCancelled(p)
  PROVE  Promise!Cancel(p)
<1>1. PICK r : Sees(p, r, "returned", push[p].writes, "cancelled")
  BY CancelIsSeen
<1>2. /\ UNCHANGED Members
      /\ Seen' = [Seen EXCEPT ![p] = [st |-> "returned", member |-> push[p].ref,
                                      writes |-> push[p].writes, outcome |-> "cancelled"]]
  BY <1>1, OneCallSeen DEF Sees
<1>3. push[p].caller = "waiting"
  BY DEF CallerCancelled
<1>4. PICK st \in {"pending", "settled"}, out \in {push[p].out, "none"} :
        Seen[p] = [st |-> st, member |-> push[p].ref, writes |-> push[p].writes,
                   outcome |-> out]
  BY <1>3 DEF Seen, View, Standing, Outcome
<1>5. Seen' = [Seen EXCEPT ![p] = Promise!Moved(Seen[p], "returned", "cancelled")]
  BY <1>2, <1>4 DEF Promise!Moved
<1> QED
  BY <1>2, <1>4, <1>5 DEF Promise!Cancel, Members, Seen

LEMMA SettleIsPromised ==
  ASSUME IInv, NEW p \in Pushes, Settles(p)
  PROVE  \E outcome \in {"reply", "channel", "timeout"} : Promise!Settle(p, outcome)
<1>1. PICK r : SettlesAs(p, r)
  BY DEF Settles
<1>2. /\ UNCHANGED Members
      /\ Seen' = [Seen EXCEPT ![p] = View(r)]
  BY <1>1, OneCallSeen DEF SettlesAs
<1>3. /\ View(r) = [st |-> "settled", member |-> push[p].ref, writes |-> push[p].writes,
                    outcome |-> r.out]
      /\ Seen[p] = [st |-> "pending", member |-> push[p].ref, writes |-> push[p].writes,
                    outcome |-> "none"]
  BY <1>1, FromIInv, ViewOf DEF SettlesAs, Seen
<1>4. Members[ChannelOf[p]] = push[p].ref
  BY <1>1, FromIInv, MemberValues DEF SettlesAs
<1>5. /\ r.out # "timeout" => push[p].writes = 1
      /\ r.out \in {"reply", "channel", "timeout"}
  BY <1>1 DEF SettlesAs
<1>6. Seen' = [Seen EXCEPT ![p] = Promise!Moved(Seen[p], "settled", r.out)]
  BY <1>2, <1>3 DEF Promise!Moved
<1>7. Promise!Settle(p, r.out)
  BY <1>2, <1>3, <1>4, <1>5, <1>6 DEF Promise!Settle, Promise!Of, Members, Seen
<1> QED
  BY <1>5, <1>7

LEMMA AcceptIsPromised ==
  ASSUME IInv, NEW c \in Channels, Accept(c)
  PROVE  Promise!Gain(c)
<1>1. /\ UNCHANGED <<push, client>>
      /\ chan'[c].ref = chan[c].ref /\ chan'[c].conn = chan[c].conn
      /\ chan'[c].state = "joined" /\ chan[c].state = "rejoining" /\ OnCurrentConnection(c)
      /\ \A d \in Channels : d # c => chan'[d] = chan[d]
  BY FromIInv DEF Accept, ChanType
<1>2. Members[c] = 0 /\ Members \in [Channels -> Nat] /\ chan[c].ref \in Nat \ {0}
  BY <1>1, MemberValues DEF Joined, Members
<1>3. Members' = [Members EXCEPT ![c] = chan[c].ref]
  <2>1. Members' = [d \in Channels |-> Member(d)']
    BY DEF Members
  <2>2. Member(c)' = chan[c].ref
    BY <1>1 DEF Member, Joined, OnCurrentConnection
  <2>3. \A d \in Channels : d # c => Member(d)' = Member(d)
    BY <1>1 DEF Member, Joined, OnCurrentConnection
  <2> QED
    BY <2>1, <2>2, <2>3 DEF Members
<1>4. Members'[c] = chan[c].ref
  BY <1>2, <1>3
<1>5. UNCHANGED Seen
  BY <1>1 DEF Seen, View, Standing, Outcome
<1>6. \A p \in Pushes : ChannelOf[p] = c => Seen[p].member < Members'[c]
  <2>1. \A p \in Pushes : Seen[p].member = push[p].ref
    BY DEF Seen, View
  <2>2. \A p \in Pushes : ChannelOf[p] = c => push[p].ref < chan[c].ref
    BY <1>1 DEF IInv, CallsHeld, Dated
  <2> QED
    BY <1>4, <2>1, <2>2
<1> QED
  BY <1>2, <1>3, <1>4, <1>5, <1>6 DEF Promise!Gain, Members, Seen

\* A loss ends the memberships it ends with their calls, or is not seen at all.
LEMMA LossIsPromised ==
  ASSUME IInv, Losses
  PROVE  [Promise!Next]_(Promise!calls)
<1>1. PICK cs \in SUBSET Channels, errors \in [Pushes -> Failures] : Loss(cs, errors)
  BY DEF Losses
<1>2. \A p \in Pushes : Sound(push[p]) /\ Unseen(push[p], push'[p])
                        /\ ChannelOf[p] \in Channels /\ errors[p] # "pending"
  BY <1>1, FromIInv DEF Loss, Decided, Failures
<1>3. ASSUME NEW p \in Pushes
      PROVE  Seen'[p] = IF ChannelOf[p] \in cs /\ Seen[p].st = "pending"
                        THEN Promise!Moved(Seen[p], "settled", errors[p])
                        ELSE Seen[p]
  <2>0. Seen[p] = View(push[p]) /\ Seen'[p] = View(push'[p])
    BY DEF Seen, View, Standing, Outcome
  <2>1. CASE ChannelOf[p] \in cs /\ push[p].out = "pending"
    <3>1. push'[p].out = errors[p] /\ push'[p].out # "pending"
      BY <1>1, <1>2, <2>1 DEF Loss, Decided
    <3>2. /\ Seen[p] = [st |-> "pending", member |-> push[p].ref,
                        writes |-> push[p].writes, outcome |-> "none"]
          /\ Seen'[p] = [st |-> "settled", member |-> push[p].ref,
                         writes |-> push[p].writes, outcome |-> errors[p]]
      BY <1>2, <2>0, <2>1, <3>1, ViewOf
    <3>3. Promise!Moved(Seen[p], "settled", errors[p]) = Seen'[p]
      BY <3>2 DEF Promise!Moved
    <3> QED
      BY <2>1, <3>2, <3>3
  <2>2. CASE ~(ChannelOf[p] \in cs /\ push[p].out = "pending")
    <3>1. push'[p].out = push[p].out
      BY <1>1, <2>2 DEF Loss, Decided
    <3>2. Seen'[p] = Seen[p]
      BY <1>2, <2>0, <3>1, ViewOf
    <3>3. Seen[p].st = "pending" => push[p].out = "pending"
      BY <2>0 DEF View, Standing
    <3> QED
      BY <2>2, <3>2, <3>3
  <2> QED
    BY <2>1, <2>2
<1>4. ASSUME NEW c \in Channels
      PROVE  Members'[c] = IF c \in cs THEN 0 ELSE Members[c]
  <2>1. Members'[c] = Member(c)' /\ Members[c] = Member(c)
    BY DEF Members
  <2>2. CASE c \in cs
    BY <1>1, <2>1, <2>2 DEF Loss, Member
  <2>3. CASE c \notin cs
    BY <1>1, <2>1, <2>3 DEF Loss, Member
  <2> QED
    BY <2>2, <2>3
<1>5. CASE \E c \in cs : Members[c] # 0
  <2>1. Promise!End(cs, errors)
    <3>1. Members' = [c \in Channels |-> IF c \in cs THEN 0 ELSE Members[c]]
      BY <1>4 DEF Members
    <3>2. Seen' = [p \in Pushes |->
                     IF ChannelOf[p] \in cs /\ Seen[p].st = "pending"
                     THEN Promise!Moved(Seen[p], "settled", errors[p])
                     ELSE Seen[p]]
      BY <1>3 DEF Seen
    <3> QED
      BY <1>5, <3>1, <3>2 DEF Promise!End, Members, Seen
  <2>2. errors \in [Pushes -> Promise!Errors]
    BY DEF Failures, Promise!Errors
  <2> QED
    BY <2>1, <2>2 DEF Promise!Next
<1>6. CASE \A c \in cs : Members[c] = 0
  <2>1. UNCHANGED Members
    BY <1>4, <1>6 DEF Members
  <2>2. \A p \in Pushes : Seen[p].st = "pending" => ChannelOf[p] \notin cs
    <3>1. \A p \in Pushes : Seen[p].st = "pending" => push[p].out = "pending"
      BY DEF Seen, View, Standing
    <3>2. \A p \in Pushes : push[p].out = "pending" => Members[ChannelOf[p]] # 0
      BY FromIInv, MemberValues
    <3> QED
      BY <1>6, <3>1, <3>2
  <2>3. UNCHANGED Seen
    <3>1. \A p \in Pushes : Seen'[p] = Seen[p]
      BY <1>3, <2>2
    <3> QED
      BY <3>1 DEF Seen
  <2> QED
    BY <2>1, <2>3 DEF Promise!calls, Members, Seen
<1> QED
  BY <1>5, <1>6

\* Every step is one of PushCalls, or none.
LEMMA StepIsPromised ==
  ASSUME IInv, [Next]_vars
  PROVE  [Promise!Next]_(Promise!calls)
<1>1. CASE UNCHANGED vars
  BY <1>1 DEF vars, Promise!calls, Member, Joined, OnCurrentConnection, View, Standing, Outcome
<1>2. CASE Losses
  BY <1>2, LossIsPromised
<1>3. ASSUME NEW p \in Pushes, Settles(p)
      PROVE  Promise!Next
  BY <1>3, SettleIsPromised DEF Promise!Next
<1>4. ASSUME NEW p \in Pushes, Call(p) \/ SendWrites(p)
      PROVE  Promise!Next
  <2>1. \/ Promise!Refuse(p) \/ Promise!Admit(p) \/ Promise!Write(p)
        \/ Promise!Return(p) \/ Promise!Cancel(p)
    BY <1>4, RefuseIsPromised, AdmitIsPromised, WriteIsPromised, ReturnIsPromised,
       CancelIsPromised DEF Call
  <2> QED
    BY <2>1 DEF Promise!Next
<1>5. ASSUME NEW c \in Channels, Accept(c)
      PROVE  Promise!Next
  BY <1>5, AcceptIsPromised DEF Promise!Next
<1> QED
  BY <1>1, <1>2, <1>3, <1>4, <1>5, StepKinds

\* For any number of pushes, channels, memberships and connections, the operations of
\* the sessions implement PushCalls: _push_channel, send_and_wait, the deadlines, the
\* replies and every way a membership ends decide a call once, write it at most once
\* and only in its own membership, and settle it in the step that ends that one.
THEOREM PushesKeepTheirCalls == Spec => CallsAreKept
<1> QED
  BY InvariantHolds, InitIsPromised, StepIsPromised, PTL DEF Spec, CallsAreKept, Promise!Spec

=============================================================================
