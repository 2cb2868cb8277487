---------------------------- MODULE TopicRuntime ----------------------------
(***************************************************************************)
(* The channel lifecycle of the client: the joins, leaves, recoveries and  *)
(* losses of topic_runtime.py, the owned sends of send_session.py that     *)
(* they submit frames through, the supervisor's session loop and shutdown, *)
(* which fail, rejoin and retire the channels, and the Phoenix server they *)
(* talk to.                                                                *)
(*                                                                         *)
(* Everything runs on one asyncio loop, so an action is what one task or   *)
(* callback does between two awaits.  Which ready task runs next is left   *)
(* open.                                                                   *)
(***************************************************************************)
EXTENDS ChannelState, FiniteSets, Sequences

CONSTANTS
  Handles,      \* the Channel objects the application creates
  Topics,       \* topic names
  TopicOf,      \* the topic each handle was created for
  Required,     \* the handles created with blocks_reconnect=True
  NoHandle,     \* an unreserved topic
  MaxJoin,      \* bound of ref_counter for new joins
  JoinReplies,  \* how the server may answer a join
  ServerEnds,   \* how the server may end a membership: "error", "close"
  Env           \* the other environment events this instance allows

ASSUME TopicRuntimeAssumption ==
  /\ IsFiniteSet(Handles)
  /\ TopicOf \in [Handles -> Topics]
  /\ Required \subseteq Handles
  /\ NoHandle \notin Handles
  /\ MaxJoin \in Nat
  /\ JoinReplies \subseteq {"ok", "error", "malformed"}
  /\ ServerEnds \subseteq {"error", "close"}
  /\ Env \subseteq {"timeout", "drop", "params", "hook", "cancel", "leave",
                    "garble", "giveup", "shutdown"}
  /\ MaxRef >= MaxJoin + Cardinality(Handles)

VARIABLES
  ch,         \* the channel record of each handle
  registry,   \* topic_subscriptions
  refs,       \* ref_counter
  conn,       \* connection: 0 is None
  gen,        \* conn_generation
  cstate,     \* the client's state
  stop,       \* shutdown_event
  sends,      \* failed and retired of the current SessionSends
  ops,        \* its operations whose send task is not done
  closer,     \* a _close_send_session task is pending
  routing,    \* the message routing task
  sup,        \* the supervisor task
  cleanup,    \* the _cleanup_connection call in progress
  shut,       \* the shutdown task
  socket,     \* the websocket of the newest connection
  net,        \* per topic, the server's frames on their way to the client
  member      \* per topic, the join ref of the server's channel process

client    == <<conn, gen, cstate, stop>>
session   == <<sends, ops, closer>>
loop      == <<sup, cleanup, shut>>
transport == <<socket, net, member>>
vars == <<ch, registry, refs, client, session, routing, loop, transport>>

Op == [h : Handles, kind : {"join", "leave"}, ref : Refs,
       st : {"queued", "cancelled", "writing"}]

Frame == [event : {"reply", "error", "close"}, joinRef : Refs, ref : Refs,
          status : {"ok", "error", "malformed", "none"}]

ClientStates == {"closed", "connecting", "connected", "reconnecting",
                 "shutting_down"}

\* transition_client_state raises RuntimeError on any other transition.
AllowedTransitions ==
  [s \in ClientStates |->
     CASE s = "closed"     -> {"connecting"}
       [] s = "connecting" -> ClientStates \ {"connecting"}
       [] s = "connected"  -> {"reconnecting", "shutting_down", "closed"}
       [] s = "reconnecting" -> {"connected", "shutting_down", "closed"}
       [] s = "shutting_down" -> {"closed"}]

TypeOK ==
  /\ ch \in [Handles -> Channel]
  /\ registry \in [Topics -> Handles \cup {NoHandle}]
  /\ refs \in Refs
  /\ conn \in Conns /\ gen \in Conns
  /\ cstate \in ClientStates
  /\ stop \in BOOLEAN
  /\ sends \in [failed : BOOLEAN, retired : BOOLEAN]
  /\ ops \subseteq Op
  /\ closer \in BOOLEAN
  /\ routing \in {"none", "running", "ended", "stopped"}
  /\ sup \in [pc : {"connecting", "rejoining", "stopping", "joining", "losing",
                    "serving", "cleanup", "dying", "ended", "exited"},
              cur : Handles \cup {NoHandle},
              todo : SUBSET Handles, optional : SUBSET Handles]
  /\ cleanup \in [pc : {"idle", "cancelling", "closing", "finishing"}, conn : Conns,
                  tasks : SUBSET Handles]
  /\ shut \in {"none", "stopping", "cleanup", "unsubscribe", "leaving",
               "lifecycle", "done"}
  /\ socket \in {"open", "closed"}
  /\ net \in [Topics -> Seq(Frame)]
  /\ member \in [Topics -> Refs]

Init ==
  /\ ch = [h \in Handles |-> NewChannel]
  /\ registry = [t \in Topics |-> NoHandle]
  /\ refs = 0
  /\ conn = 0 /\ gen = 0
  /\ cstate = "connecting"
  /\ stop = FALSE
  /\ sends = [failed |-> FALSE, retired |-> FALSE]
  /\ ops = {}
  /\ closer = FALSE
  /\ routing = "none"
  /\ sup = [pc |-> "connecting", cur |-> NoHandle, todo |-> {}, optional |-> {}]
  /\ cleanup = [pc |-> "idle", conn |-> 0, tasks |-> {}]
  /\ shut = "none"
  /\ socket = "closed"
  /\ net = [t \in Topics |-> <<>>]
  /\ member = [t \in Topics |-> 0]

-----------------------------------------------------------------------------
(* Predicates of the client and of one channel *)

IsConnected == cstate = "connected" /\ conn # 0

IsRegistered(h) == registry[TopicOf[h]] = h

\* Mutant of NameIsFree: only the handle's own reservation is refused.
NameIsNotMine(h) == ~IsRegistered(h)

NameIsFree(h) == registry[TopicOf[h]] = NoHandle

IsOnCurrentConnection(h) ==
  IsConnected /\ ch[h].conn = gen /\ ch[h].conn = conn

\* Mutant of ShouldRejoin: a handle that was left passes.
ShouldRejoinLeft(h) == IsRegistered(h) /\ ch[h].established

ShouldRejoin(h) ==
  IsRegistered(h) /\ ch[h].established /\ ch[h].state # "left"

CanRecover(h, generation) ==
  ~stop /\ ShouldRejoin(h) /\ IsConnected /\ generation = gen

\* Channel.joined.
Joined(h) ==
  /\ ch[h].state = "joined" /\ IsRegistered(h)
  /\ IsOnCurrentConnection(h) /\ JoinReady(ch[h])

\* Mutant of HasPending: a send that was submitted no longer counts.
HasUnsubmitted(h, someOps) == \E o \in someOps : o.h = h /\ o.st = "queued"

\* The handle still owns a send whose task is not done.
HasPending(h, someOps) == \E o \in someOps : o.h = h

-----------------------------------------------------------------------------
(* Shared effects *)

\* Mutant of MayRelease: no wait for the end of the server's membership.
MayReleaseEarly(c, h, someOps, current) ==
  /\ c.state = "left"
  /\ c.cleaned \/ (c.conn # current /\ c.leave # "none")
  /\ ~HasPending(h, someOps)

\* _release_reservation keeps the name of a channel that was left until its
\* cleanup is done, the server cannot hold the membership any more, and no
\* send of it is pending.
MayRelease(c, h, someOps, current) ==
  /\ c.state = "left"
  /\ c.cleaned \/ (c.conn # current /\ c.leave # "none")
  /\ ~c.submitted \/ c.terminal
  /\ ~HasPending(h, someOps)

Release(reg, chs, who, someOps, current) ==
  [t \in Topics |->
     IF reg[t] \in who /\ MayRelease(chs[reg[t]], reg[t], someOps, current)
     THEN NoHandle ELSE reg[t]]

\* Mutant of FailPendingJoins: a first join keeps waiting.
FailPendingRejoins(chs) ==
  [h \in Handles |->
     IF IsRegistered(h) /\ chs[h].conn \in {0, conn} /\ chs[h].state # "joining"
     THEN FailPendingJoin(chs[h], stop) ELSE chs[h]]

\* _fail_pending_joins: every registered topic of the current connection.
FailPendingJoins(chs) ==
  [h \in Handles |->
     IF IsRegistered(h) /\ chs[h].conn \in {0, conn}
     THEN FailPendingJoin(chs[h], stop) ELSE chs[h]]

\* _start_channel_recovery, for a topic that already has its record updated.
StartRecovery(c, h, immediate) ==
  IF /\ c.rec = "none"
     /\ ~stop /\ IsConnected
     /\ IsRegistered(h) /\ c.established /\ c.state # "left"
     /\ immediate \/ c.conn = gen
  THEN [c EXCEPT !.rec = "delay", !.recConn = gen, !.recCancel = FALSE]
  ELSE c

\* _notify_failure and _fail_send_session: the first failed write of a session
\* fails all its channels and schedules the close of its connection.
NotifyFailure(chs) ==
  IF sends.retired \/ sends.failed \/ conn = 0
  THEN /\ ch' = chs
       /\ UNCHANGED <<sends, cstate, closer>>
  ELSE /\ sends' = [sends EXCEPT !.failed = TRUE]
       /\ ch' = FailPendingJoins(chs)
       /\ cstate' = IF cstate = "connected" THEN "reconnecting" ELSE cstate
       /\ closer' = TRUE

\* Retire one channel: _retire_channels.
RetireChannel(c, current) ==
  LET d == Failed(c, "stop", "channel", TRUE)
  IN  IF d.conn = current THEN d
      ELSE [StartLeave(d, TRUE) EXCEPT !.terminal = TRUE]

RetireChannels ==
  LET chs == [h \in Handles |-> IF IsRegistered(h) THEN RetireChannel(ch[h], conn)
                                                   ELSE ch[h]]
      gone == {h \in Handles : chs[h].conn # conn}
  IN  /\ ch' = chs
      /\ registry' = Release(registry, chs, gone, ops, conn)

-----------------------------------------------------------------------------
(* Submitting operations *)

Queue(h, kind, ref) == ops \cup {[h |-> h, kind |-> kind, ref |-> ref, st |-> "queued"]}

\* task.cancel() on the send tasks that were not submitted.
CancelQueued(someOps, h) ==
  {IF o.h = h /\ o.kind = "join" /\ o.st = "queued"
   THEN [o EXCEPT !.st = "cancelled"] ELSE o : o \in someOps}

\* Start _join on a channel record that has a fresh ref: evaluate the params,
\* then hand the frame to the session.
StartJoin(h, c, paramsOk) ==
  IF paramsOk THEN /\ ch' = [ch EXCEPT ![h] = c]
                   /\ ops' = Queue(h, "join", c.joinRef)
              ELSE /\ ch' = [ch EXCEPT ![h] = ParamsFailure(c, stop)]
                   /\ UNCHANGED ops

ParamsResults == IF "params" \in Env THEN BOOLEAN ELSE {TRUE}

OutcomeDone(c, o) ==
  IF o.kind = "join" THEN o.ref # c.joinRef \/ c.out # "pending"
                     ELSE c.unsub # "pending"

FailOutcome(c, o, error) ==
  IF OutcomeDone(c, o) THEN c
  ELSE IF o.kind = "join" THEN SettleJoin(c, error) ELSE FailUnsubscribe(c)

\* The session and the channel still agree to write the frame.
Eligible(o) ==
  LET c == ch[o.h]
  IN  /\ ~sends.retired /\ ~sends.failed /\ conn # 0
      /\ IsRegistered(o.h)
      /\ c.conn = conn
      /\ o.kind = "leave" \/ (c.state # "left" /\ ~stop)
      /\ o.kind = "leave" \/ o.ref = c.joinRef

Reply(c, ref, status) ==
  [event |-> "reply", joinRef |-> c.joinRef, ref |-> ref, status |-> status]

Ending(event, joinRef) ==
  [event |-> event, joinRef |-> joinRef, ref |-> joinRef, status |-> "none"]

\* The server answers a join; a rejected one holds no membership.
ServerJoin(t, c, ref) ==
  \E status \in JoinReplies :
     /\ member' = [member EXCEPT ![t] = IF status = "error" THEN 0 ELSE ref]
     /\ net' = [net EXCEPT ![t] = Append(@, Reply(c, ref, status))]

\* The server acknowledges a leave and closes the channel if there is one.
ServerLeave(t, c, ref) ==
  /\ member' = [member EXCEPT ![t] = 0]
  /\ net' = [net EXCEPT ![t] =
       IF member[t] = 0 THEN Append(@, Reply(c, ref, "ok"))
       ELSE @ \o <<Reply(c, ref, "ok"), Ending("close", member[t])>>]

\* The send task's first step: drop a settled or ineligible operation, or
\* mark it submitted and write its frame.
Submit(o) ==
  LET c == ch[o.h]
      written == IF o.kind = "join" THEN [c EXCEPT !.submitted = TRUE] ELSE c
  IN
  /\ o.st = "queued"
  /\ \/ /\ OutcomeDone(c, o)
        /\ ops' = ops \ {o}
        /\ UNCHANGED <<ch, sends, cstate, closer, net, member>>
     \/ /\ ~OutcomeDone(c, o) /\ ~Eligible(o)
        /\ ch' = [ch EXCEPT ![o.h] = FailOutcome(@, o, "channel")]
        /\ ops' = ops \ {o}
        /\ UNCHANGED <<sends, cstate, closer, net, member>>
     \/ /\ ~OutcomeDone(c, o) /\ Eligible(o) /\ socket = "closed"
        /\ NotifyFailure([ch EXCEPT ![o.h] = FailOutcome(written, o, "socket")])
        /\ ops' = ops \ {o}
        /\ UNCHANGED <<net, member>>
     \/ /\ ~OutcomeDone(c, o) /\ Eligible(o) /\ socket = "open"
        /\ ch' = [ch EXCEPT ![o.h] = written]
        /\ ops' = (ops \ {o}) \cup {[o EXCEPT !.st = "writing"]}
        /\ IF o.kind = "join" THEN ServerJoin(TopicOf[o.h], c, o.ref)
                              ELSE ServerLeave(TopicOf[o.h], c, o.ref)
        /\ UNCHANGED <<sends, cstate, closer>>
  /\ UNCHANGED <<registry, refs, conn, gen, stop, routing, loop, socket>>

\* connection.send returns once the transport has drained.
SendReturns(o) ==
  /\ o.st = "writing"
  /\ ops' = ops \ {o}
  /\ UNCHANGED <<ch, registry, refs, client, sends, closer, routing, loop,
                 transport>>

\* connection.send raises ConnectionClosed while it drains.
SendFails(o) ==
  /\ o.st = "writing" /\ socket = "closed"
  /\ NotifyFailure([ch EXCEPT ![o.h] = FailOutcome(@, o, "socket")])
  /\ ops' = ops \ {o}
  /\ UNCHANGED <<registry, refs, conn, gen, stop, routing, loop, transport>>

\* A cancelled send task ends without having run.
SendCancelled(o) ==
  /\ o.st = "cancelled"
  /\ ops' = ops \ {o}
  /\ UNCHANGED <<ch, registry, refs, client, sends, closer, routing, loop,
                 transport>>

-----------------------------------------------------------------------------
(* Deadlines and the close of a failed session *)

\* An operation keeps its timer while its send task runs or its outcome is
\* pending, and no longer than its session; "sent" is the task that has returned
\* before the answer came.
Timers ==
  {o \in ops : o.st # "cancelled"} \cup
  {[h |-> h, kind |-> "join", ref |-> ch[h].joinRef, st |-> "sent"] :
     h \in {h \in Handles : /\ ch[h].conn = conn
                            /\ ch[h].joinRef # 0 /\ ch[h].out = "pending"
                            /\ ~\E o \in ops : o.ref = ch[h].joinRef}} \cup
  {[h |-> h, kind |-> "leave", ref |-> ch[h].leaveRef, st |-> "sent"] :
     h \in {h \in Handles : /\ ch[h].conn = conn
                            /\ ch[h].leave = "sending" /\ ch[h].unsub = "pending"
                            /\ ~\E o \in ops : o.ref = ch[h].leaveRef}}

\* _expire: the waiter gets its timeout, a queued send is cancelled, and a
\* write that has not returned by its deadline fails the session.
Expire(o) ==
  /\ "timeout" \in Env
  /\ ~sends.retired /\ conn # 0
  /\ LET late == [ch EXCEPT ![o.h] = FailOutcome(@, o, "timeout")]
     IN  \/ /\ o.st = "sent"
            /\ ch' = late
            /\ UNCHANGED <<session, cstate>>
         \/ /\ o.st = "queued"
            /\ ch' = late
            /\ ops' = (ops \ {o}) \cup {[o EXCEPT !.st = "cancelled"]}
            /\ UNCHANGED <<sends, cstate, closer>>
         \/ /\ o.st = "writing"
            /\ NotifyFailure(late)
            /\ UNCHANGED ops
  /\ UNCHANGED <<registry, refs, conn, gen, stop, routing, loop, transport>>

\* The frames of a closing connection that still reach the client: a prefix
\* of each topic's.
Delivered(kept) == [t \in Topics |-> SubSeq(net[t], 1, kept[t])]

\* The peer or the client closes the websocket; the server's channel
\* processes on it stop.
CloseSocket ==
  /\ socket' = "closed"
  /\ member' = [t \in Topics |-> 0]
  /\ \E kept \in [Topics -> Refs] :
        /\ \A t \in Topics : kept[t] <= Len(net[t])
        /\ net' = Delivered(kept)

\* _close_send_session.
CloseSendSession ==
  /\ closer
  /\ closer' = FALSE
  /\ IF conn # 0 /\ socket = "open" THEN CloseSocket ELSE UNCHANGED transport
  /\ UNCHANGED <<ch, registry, refs, client, sends, ops, routing, loop>>

-----------------------------------------------------------------------------
(* Channel.join *)

\* Admission: the name is reserved before the first await.
Join(h, paramsOk) ==
  /\ ch[h].state = "created"
  /\ IsConnected
  /\ NameIsFree(h)
  /\ refs < MaxJoin
  /\ refs' = refs + 1
  /\ registry' = [registry EXCEPT ![TopicOf[h]] = h]
  /\ StartJoin(h, [ch[h] EXCEPT !.state = "joining", !.conn = conn,
                                !.joinRef = refs + 1, !.join = "waiting"], paramsOk)
  /\ UNCHANGED <<client, sends, closer, routing, loop, transport>>

\* The caller resumes from its outcome; a failed initial join leaves.
JoinResumes(h) ==
  /\ ch[h].join = "waiting" /\ ch[h].out # "pending"
  /\ ch' = [ch EXCEPT ![h] =
       IF ch[h].out = "ok" THEN [@ EXCEPT !.join = "done"]
       ELSE [StartLeave(JoinFailure(@, stop), stop) EXCEPT !.join = "failing"]]
  /\ UNCHANGED <<registry, refs, client, session, routing, loop, transport>>

\* The caller's task is cancelled while it waits; the join is left.
JoinCancelled(h) ==
  /\ "cancel" \in Env
  /\ ch[h].join = "waiting"
  /\ ch' = [ch EXCEPT ![h] =
       [StartLeave(CancelJoin(@), stop) EXCEPT !.join = "failing"]]
  /\ ops' = CancelQueued(ops, h)
  /\ UNCHANGED <<registry, refs, client, sends, closer, routing, loop, transport>>

\* _finish_failed_join returns with the leave task and join raises.
JoinRaises(h) ==
  /\ ch[h].join = "failing" /\ ch[h].leave = "done"
  /\ ch' = [ch EXCEPT ![h].join = "done"]
  /\ UNCHANGED <<registry, refs, client, session, routing, loop, transport>>

-----------------------------------------------------------------------------
(* Channel.leave and its task *)

\* A handle nobody joined is left on the spot, any other by its leave task.
Leave(h) ==
  /\ "leave" \in Env
  /\ ch[h].leave = "none"
  /\ ch' = [ch EXCEPT ![h] =
       IF ch[h].state = "created"
       THEN [@ EXCEPT !.state = "left", !.cause = "leave"]
       ELSE StartLeave(@, stop)]
  /\ UNCHANGED <<registry, refs, client, session, routing, loop, transport>>

\* _leave_and_cleanup up to its first await: send phx_leave for a live
\* membership of this connection, or go straight to the cleanup.
LeaveStarts(h) ==
  LET c == ch[h]
      live == c.submitted /\ ~c.terminal /\ c.conn = conn /\ IsConnected
      cleaning == [c EXCEPT !.leave = "cleanup", !.recCancel = (c.rec # "none")]
  IN
  /\ c.leave = "start"
  /\ \/ /\ live /\ refs < MaxRef
        /\ refs' = refs + 1
        /\ ch' = [ch EXCEPT ![h] = [c EXCEPT !.leave = "sending", !.leaveRef = refs + 1]]
        /\ ops' = IF c.unsub = "pending" THEN Queue(h, "leave", refs + 1) ELSE ops
     \/ /\ ~live
        /\ ch' = [ch EXCEPT ![h] =
             IF c.conn # conn THEN [cleaning EXCEPT !.terminal = TRUE] ELSE cleaning]
        /\ UNCHANGED <<refs, ops>>
  /\ UNCHANGED <<registry, client, sends, closer, routing, loop, transport>>

\* The leave is answered, refused or lost: cancel the recovery and clean up.
LeaveAnswered(h) ==
  /\ ch[h].leave = "sending" /\ ch[h].unsub # "pending"
  /\ ch' = [ch EXCEPT ![h] = [@ EXCEPT !.leave = "cleanup",
                                       !.recCancel = (ch[h].rec # "none")]]
  /\ UNCHANGED <<registry, refs, client, session, routing, loop, transport>>

\* _cleanup_subscription ends once the recovery, the callback and the topic
\* task, and every send of the handle are gone.
LeaveFinishes(h) ==
  /\ ch[h].leave = "cleanup" /\ ch[h].rec = "none" /\ ~HasPending(h, ops)
  /\ ch' = [ch EXCEPT ![h] = [@ EXCEPT !.leave = "done", !.cleaned = TRUE]]
  /\ registry' = Release(registry, ch', {h}, ops, conn)
  /\ UNCHANGED <<refs, client, session, routing, loop, transport>>

-----------------------------------------------------------------------------
(* _recover_channel *)

\* A channel that is rejoined without having been failed first.
BeforeRejoin(c) ==
  IF c.state = "joined" THEN Failed(c, "transport", "socket", stop) ELSE c

\* Whoever awaited the previous attempt has resumed: its wakeup was scheduled
\* before the recovery began, and the backoff delay outlasts it.
NobodyAwaits(h) == ch[h].join # "waiting" /\ ~(sup.pc = "joining" /\ sup.cur = h)

\* The delay is over (an immediate recovery has none): go on to stop the
\* topic task, or end.
RecoverTries(h) ==
  /\ ch[h].rec = "delay" /\ NobodyAwaits(h)
  /\ ch' = [ch EXCEPT ![h] =
       IF CanRecover(h, ch[h].recConn)
       THEN [BeforeRejoin(@) EXCEPT !.rec = "stopping"]
       ELSE [@ EXCEPT !.rec = "none"]]
  /\ UNCHANGED <<registry, refs, client, session, routing, loop, transport>>

\* The callback is drained and the topic task stopped: restart and join.
RecoverRejoins(h, paramsOk) ==
  /\ ch[h].rec = "stopping" /\ ~ch[h].recCancel
  /\ IF ShouldRejoin(h)
     THEN /\ refs < MaxJoin
          /\ refs' = refs + 1
          /\ StartJoin(h, [Restart(ch[h], conn, refs + 1) EXCEPT !.rec = "waiting"],
                       paramsOk)
     ELSE /\ ch' = [ch EXCEPT ![h].rec = "none"]
          /\ UNCHANGED <<refs, ops>>
  /\ UNCHANGED <<registry, client, sends, closer, routing, loop, transport>>

\* Mutant of TryAgain: one attempt and no more.
TryOnce(h, c) == [c EXCEPT !.rec = "none"]

\* The loop of _recover_channel goes round with a longer delay.
TryAgain(h, c) ==
  [c EXCEPT !.rec = IF /\ ~stop /\ IsConnected /\ c.recConn = gen
                       /\ IsRegistered(h) /\ c.established /\ c.state # "left"
                    THEN "delay" ELSE "none"]

\* The attempt is settled: recovered, lost, over, or tried again.
RecoverResumes(h) ==
  LET c == JoinFailure(ch[h], stop)
  IN
  /\ ch[h].rec = "waiting" /\ ch[h].out # "pending"
  /\ ch' = [ch EXCEPT ![h] =
       IF JoinReady(c) THEN [c EXCEPT !.rec = "none"]
       ELSE IF c.out # "ok" /\ c.cause \in PermanentCauses
       THEN [StartTopicLoss(c, stop) EXCEPT !.rec = "none"]
       ELSE TryAgain(h, c)]
  /\ UNCHANGED <<registry, refs, client, session, routing, loop, transport>>

\* A requested cancellation reaches the recovery at its await.
RecoverCancelled(h) ==
  /\ ch[h].rec # "none" /\ ch[h].recCancel
  /\ IF ch[h].rec = "waiting"
     THEN /\ ch' = [ch EXCEPT ![h] = [CancelJoin(@) EXCEPT !.rec = "none"]]
          /\ ops' = CancelQueued(ops, h)
     ELSE /\ ch' = [ch EXCEPT ![h].rec = "none"]
          /\ UNCHANGED ops
  /\ UNCHANGED <<registry, refs, client, sends, closer, routing, loop, transport>>

-----------------------------------------------------------------------------
(* _lose_topic and _report_topic_lost *)

\* Mutant of LoseStarts: nothing starts the leave that the report waits for.
LoseOnlyWaits(h) ==
  /\ ch[h].loseStart > 0
  /\ ch' = [ch EXCEPT ![h] = [@ EXCEPT !.loseStart = @ - 1, !.loseWait = @ + 1]]
  /\ UNCHANGED <<registry, refs, client, session, routing, loop, transport>>

\* _unregister_topic on a topic that is already LEFT: start its leave task.
LoseStarts(h) ==
  /\ ch[h].loseStart > 0
  /\ LET c == [ch[h] EXCEPT !.loseStart = @ - 1]
     IN  ch' = [ch EXCEPT ![h] =
           IF IsRegistered(h) THEN [StartLeave(c, stop) EXCEPT !.loseWait = @ + 1]
                              ELSE c]
  /\ UNCHANGED <<registry, refs, client, session, routing, loop, transport>>

Report(c) ==
  IF c.reported THEN [c EXCEPT !.loseWait = @ - 1]
  ELSE [c EXCEPT !.loseWait = @ - 1, !.reported = TRUE, !.calls = @ + 1]

\* Mutant of LoseReports: reports before the cleanup is done.
LoseReportsEarly(h) ==
  /\ ch[h].loseWait > 0
  /\ ch' = [ch EXCEPT ![h] = Report(@)]
  /\ UNCHANGED <<registry, refs, client, session, routing, loop, transport>>

\* Mutant of LoseReports: one report too many.
LoseReportsTwice(h) ==
  /\ ch[h].loseWait >= 0 /\ ch[h].leave = "done" /\ ch[h].established
  /\ ch' = [ch EXCEPT ![h] = Report(@)]
  /\ UNCHANGED <<registry, refs, client, session, routing, loop, transport>>

\* The leave task is done: report the loss, once.
LoseReports(h) ==
  /\ ch[h].loseWait > 0 /\ ch[h].leave = "done"
  /\ ch' = [ch EXCEPT ![h] = Report(@)]
  /\ UNCHANGED <<registry, refs, client, session, routing, loop, transport>>

-----------------------------------------------------------------------------
(* Message routing *)

\* A join reply for the current ref.
JoinReply(c, status, hookOk) ==
  IF c.out # "pending" \/ c.state = "left" \/ stop
  THEN IF c.state = "left" /\ status = "error" THEN [c EXCEPT !.terminal = TRUE] ELSE c
  ELSE CASE status = "malformed" -> Failed(c, "rejected", "channel", stop)
         [] status = "error" ->
              Failed([c EXCEPT !.terminal = TRUE], "rejected", "channel", stop)
         [] OTHER -> IF hookOk THEN Accepted(c)
                     ELSE Failed(c, "configuration", "channel", stop)

LeaveReply(c, status) ==
  IF c.unsub # "pending" THEN c
  ELSE [c EXCEPT !.unsub = IF status = "ok" THEN "ok" ELSE "failed"]

\* Mutant of LifecycleEvent: a crash only starts the recovery.
CrashKeepsState(c, h, event) ==
  LET ended == [c EXCEPT !.terminal = TRUE]
      failed == Failed(ended, IF event = "error" THEN "crash" ELSE "close",
                       "channel", stop)
  IN  IF c.state = "left" THEN ended
      ELSE IF ~c.established THEN failed
      ELSE IF event = "error" THEN StartRecovery(ended, h, FALSE)
      ELSE StartTopicLoss(failed, stop)

\* phx_error or phx_close of the current join.
LifecycleEvent(c, h, event) ==
  LET ended == [c EXCEPT !.terminal = TRUE]
      failed == Failed(ended, IF event = "error" THEN "crash" ELSE "close",
                       "channel", stop)
  IN  IF c.state = "left" THEN ended
      ELSE IF ~c.established THEN failed
      ELSE IF event = "error" THEN StartRecovery(failed, h, FALSE)
      ELSE StartTopicLoss(failed, stop)

\* _handle_channel_control on one frame.
Control(c, h, m, hookOk) ==
  CASE m.event # "reply" /\ m.ref \in {0, c.joinRef} -> LifecycleEvent(c, h, m.event)
    [] m.event = "reply" /\ m.ref = c.leaveRef /\ m.ref # 0 -> LeaveReply(c, m.status)
    [] m.event = "reply" /\ m.ref = c.joinRef /\ m.ref # c.leaveRef ->
         JoinReply(c, m.status, hookOk)
    [] OTHER -> c

\* The routing loop takes the next frame of a topic: frames of an unknown
\* topic, an older generation or an older join are dropped.
Route(t, hookOk) ==
  /\ routing = "running" /\ net[t] # <<>>
  /\ net' = [net EXCEPT ![t] = Tail(@)]
  /\ LET m == Head(net[t])
         h == registry[t]
     IN  IF /\ h # NoHandle
            /\ IsOnCurrentConnection(h)
            /\ m.joinRef = ch[h].joinRef
         THEN /\ ch' = [ch EXCEPT ![h] = Control(@, h, m, hookOk)]
              /\ registry' = IF ch[h].state = "left" /\ ch'[h].terminal
                             THEN Release(registry, ch', {h}, ops, conn)
                             ELSE registry
         ELSE UNCHANGED <<ch, registry>>
  /\ UNCHANGED <<refs, client, session, routing, loop, socket, member>>

HookResults == IF "hook" \in Env THEN BOOLEAN ELSE {TRUE}

\* The socket is closed and everything it received is routed: the routing
\* task raises ConnectionClosed.
RoutingEnds ==
  /\ routing = "running" /\ socket = "closed"
  /\ \A t \in Topics : net[t] = <<>>
  /\ routing' = "ended"
  /\ UNCHANGED <<ch, registry, refs, client, session, loop, transport>>

\* A frame that does not decode ends the routing task with the socket open.
RoutingBreaks ==
  /\ "garble" \in Env
  /\ routing = "running" /\ socket = "open" /\ gen < MaxConn
  /\ routing' = "ended"
  /\ UNCHANGED <<ch, registry, refs, client, session, loop, transport>>

\* routing_stopped, its done callback.
RoutingStopped ==
  /\ routing = "ended"
  /\ routing' = "stopped"
  /\ ch' = IF conn # 0 THEN FailPendingJoins(ch) ELSE ch
  /\ UNCHANGED <<registry, refs, client, session, loop, transport>>

-----------------------------------------------------------------------------
(* The server and the network *)

\* A channel process stops by itself.
EndMembership(t, event) ==
  /\ member[t] # 0 /\ socket = "open"
  /\ refs < MaxJoin
  /\ net' = [net EXCEPT ![t] = Append(@, Ending(event, member[t]))]
  /\ member' = [member EXCEPT ![t] = 0]
  /\ UNCHANGED <<ch, registry, refs, client, session, routing, loop, socket>>

\* The connection drops; MaxConn leaves a connection to come back on.
Drop ==
  /\ "drop" \in Env
  /\ conn # 0 /\ socket = "open" /\ gen < MaxConn
  /\ CloseSocket
  /\ UNCHANGED <<ch, registry, refs, client, session, routing, loop>>

-----------------------------------------------------------------------------
(* The supervisor's session loop *)

\* _adopt_connection and _start_session up to the rejoins: a new generation,
\* fresh sends, the routing task, and a snapshot of the topics.
Connect ==
  /\ sup.pc = "connecting" /\ ~stop /\ gen < MaxConn
  /\ gen' = gen + 1 /\ conn' = gen + 1
  /\ cstate' = "connected"
  /\ routing' = "running"
  /\ socket' = "open"
  /\ net' = [t \in Topics |-> <<>>]
  /\ LET topics == {h \in Handles : IsRegistered(h)}
     IN  sup' = [sup EXCEPT !.pc = "rejoining", !.todo = topics \cap Required,
                            !.optional = topics \ Required]
  /\ UNCHANGED <<ch, registry, refs, stop, session, cleanup, shut, member>>

\* _rejoin_topics turns to the next required topic.
RejoinNext(h) ==
  /\ sup.pc = "rejoining" /\ h \in sup.todo
  /\ IF ShouldRejoin(h)
     THEN /\ ch' = [ch EXCEPT ![h] = BeforeRejoin(@)]
          /\ sup' = [sup EXCEPT !.pc = "stopping", !.cur = h, !.todo = @ \ {h}]
     ELSE /\ sup' = [sup EXCEPT !.todo = @ \ {h}]
          /\ UNCHANGED ch
  /\ UNCHANGED <<registry, refs, client, session, routing, cleanup, shut, transport>>

\* The callback is drained and the topic task stopped: restart and join,
\* unless the topic was left or lost meanwhile.
RejoinRestarts(paramsOk) ==
  /\ sup.pc = "stopping"
  /\ LET h == sup.cur
     IN  IF ShouldRejoin(h)
         THEN /\ refs < MaxJoin
              /\ refs' = refs + 1
              /\ StartJoin(h, Restart(ch[h], conn, refs + 1), paramsOk)
              /\ sup' = [sup EXCEPT !.pc = "joining"]
         ELSE /\ sup' = [sup EXCEPT !.pc = "rejoining", !.cur = NoHandle]
              /\ UNCHANGED <<ch, refs, ops>>
  /\ UNCHANGED <<registry, client, sends, closer, routing, cleanup, shut, transport>>

\* The attempt is settled; _handle_rejoin_failure loses a rejected topic and
\* hands a transient failure to a recovery.
RejoinResumes ==
  LET h == sup.cur
      c == JoinFailure(ch[h], stop)
      next(pc) == [sup EXCEPT !.pc = pc, !.cur = IF pc = "losing" THEN h ELSE NoHandle]
  IN
  /\ sup.pc = "joining" /\ ch[h].out # "pending"
  /\ IF ch[h].out = "ok"
     THEN sup' = next("rejoining") /\ UNCHANGED ch
     ELSE IF stop
     THEN sup' = next("rejoining") /\ ch' = [ch EXCEPT ![h] = c]
     ELSE IF c.cause \in PermanentCauses
     THEN IF IsRegistered(h)
          THEN /\ sup' = next("losing")
               /\ ch' = [ch EXCEPT ![h] = StartLeave(c, stop)]
          ELSE sup' = next("rejoining") /\ ch' = [ch EXCEPT ![h] = c]
     ELSE /\ sup' = next("rejoining")
          /\ ch' = [ch EXCEPT ![h] = StartRecovery(c, h, FALSE)]
  /\ UNCHANGED <<registry, refs, client, session, routing, cleanup, shut, transport>>

\* The rejected topic is unregistered; its loss is reported by a task.
RejoinLost ==
  /\ sup.pc = "losing" /\ ch[sup.cur].leave = "done"
  /\ ch' = [ch EXCEPT ![sup.cur].loseWait = @ + 1]
  /\ sup' = [sup EXCEPT !.pc = "rejoining", !.cur = NoHandle]
  /\ UNCHANGED <<registry, refs, client, session, routing, cleanup, shut, transport>>

\* Mutant of RejoinDone: the barrier does not wait for the required topics.
RejoinDoneEarly ==
  /\ sup.pc = "rejoining"
  /\ ch' = [h \in Handles |-> IF h \in sup.optional THEN StartRecovery(ch[h], h, TRUE)
                                                    ELSE ch[h]]
  /\ sup' = [sup EXCEPT !.pc = "serving", !.todo = {}, !.optional = {}]
  /\ UNCHANGED <<registry, refs, client, session, routing, cleanup, shut, transport>>

\* Mutant of RejoinDone: the optional channels are forgotten.
RejoinDoneRequiredOnly ==
  /\ sup.pc = "rejoining" /\ sup.todo = {}
  /\ sup' = [sup EXCEPT !.pc = "serving", !.optional = {}]
  /\ UNCHANGED <<ch, registry, refs, client, session, routing, cleanup, shut, transport>>

\* Every required topic had its attempt: start the optional recoveries, call
\* on_reconnect, and await the routing task.
RejoinDone ==
  /\ sup.pc = "rejoining" /\ sup.todo = {}
  /\ ch' = [h \in Handles |-> IF h \in sup.optional THEN StartRecovery(ch[h], h, TRUE)
                                                    ELSE ch[h]]
  /\ sup' = [sup EXCEPT !.pc = "serving", !.optional = {}]
  /\ UNCHANGED <<registry, refs, client, session, routing, cleanup, shut, transport>>

\* Mutant of CleanupBegins: the waiting joins and leaves are not failed.
CleanupBeginsQuietly ==
  /\ cleanup.pc = "idle"
  /\ UNCHANGED ch
  /\ cleanup' = [pc |-> "cancelling", conn |-> conn, tasks |-> {}]
  /\ conn' = 0
  /\ routing' = "none"

\* _cleanup_connection up to its first await: fail the joins, give up the
\* connection, and cancel the routing task and the recoveries.
CleanupBegins ==
  LET failing == FailPendingJoins(ch)
      recoveries == {h \in Handles : IsRegistered(h) /\ failing[h].rec # "none"}
  IN
  /\ cleanup.pc = "idle"
  /\ ch' = [h \in Handles |-> IF h \in recoveries
                              THEN [failing[h] EXCEPT !.recCancel = TRUE]
                              ELSE failing[h]]
  /\ cleanup' = [pc |-> "cancelling", conn |-> conn, tasks |-> recoveries]
  /\ conn' = 0
  /\ routing' = "none"

\* SessionSends.finish: the session is retired, its queued sends cancelled.
RetireSends ==
  /\ sends' = [sends EXCEPT !.retired = TRUE]
  /\ ops' = {IF o.st = "queued" THEN [o EXCEPT !.st = "cancelled"] ELSE o : o \in ops}

\* The tasks are gone: close the websocket, which takes a closing handshake if
\* it is still open, and wait for the session's sends.
CleanupCloses ==
  /\ cleanup.pc = "cancelling" /\ \A h \in cleanup.tasks : ch[h].rec = "none"
  /\ IF cleanup.conn # 0 /\ socket = "open"
     THEN /\ cleanup' = [cleanup EXCEPT !.pc = "closing", !.tasks = {}]
          /\ socket' = "closed"
          /\ net' = [t \in Topics |-> <<>>]
          /\ member' = [t \in Topics |-> 0]
          /\ UNCHANGED <<sends, ops>>
     ELSE /\ cleanup' = [cleanup EXCEPT !.pc = "finishing", !.tasks = {}]
          /\ RetireSends
          /\ UNCHANGED transport
  /\ UNCHANGED <<ch, registry, refs, client, closer, routing, sup, shut>>

\* The closing handshake is over.
CleanupRetires ==
  /\ cleanup.pc = "closing"
  /\ cleanup' = [cleanup EXCEPT !.pc = "finishing"]
  /\ RetireSends
  /\ UNCHANGED <<ch, registry, refs, client, closer, routing, sup, shut, transport>>

\* Every send has ended: the connection's memberships are over, and the
\* names of its channels that were left are free.
CleanupEnds ==
  /\ cleanup.pc = "finishing" /\ ops = {}
  /\ LET over == {h \in Handles : IsRegistered(h) /\ ch[h].conn = cleanup.conn}
     IN  /\ ch' = [h \in Handles |-> IF h \in over THEN [ch[h] EXCEPT !.terminal = TRUE]
                                                   ELSE ch[h]]
         /\ registry' = Release(registry, ch', over, ops, conn)
  /\ sends' = [failed |-> FALSE, retired |-> FALSE]
  /\ cleanup' = [pc |-> "idle", conn |-> 0, tasks |-> {}]
  /\ sup' = [sup EXCEPT !.pc = CASE @ = "cleanup" -> "ended"
                                 [] @ = "dying"   -> "exited"
                                 [] OTHER         -> @]
  /\ shut' = IF shut = "cleanup" THEN "unsubscribe" ELSE shut
  /\ UNCHANGED <<refs, client, ops, closer, routing, transport>>

\* The routing task stopped: _end_session.
EndSession ==
  /\ sup.pc = "serving" /\ routing = "stopped"
  /\ CleanupBegins
  /\ sup' = [sup EXCEPT !.pc = "cleanup"]
  /\ UNCHANGED <<registry, refs, gen, cstate, stop, session, shut, transport>>

\* The supervisor leaves its loop: _settle_supervisor_exit.
SupervisorExits ==
  /\ sup' = [sup EXCEPT !.pc = "exited", !.todo = {}, !.optional = {},
                        !.cur = NoHandle]
  /\ IF cstate = "shutting_down" THEN UNCHANGED <<ch, registry, cstate>>
     ELSE /\ RetireChannels
          /\ cstate' = "closed"

\* The handshake fails and the policy decides to retry.
ConnectFails ==
  /\ "drop" \in Env
  /\ sup.pc = "connecting" /\ ~stop
  /\ cstate' = "reconnecting"
  /\ UNCHANGED <<ch, registry, refs, conn, gen, stop, session, routing, loop, transport>>

\* Mutant of Reconnects: a stop during on_disconnect goes unnoticed.
ReconnectsAnyway ==
  /\ sup.pc = "ended"
  /\ sup' = [sup EXCEPT !.pc = "connecting"]
  /\ cstate' = "reconnecting"
  /\ UNCHANGED <<ch, registry, refs, conn, gen, stop, session, routing, cleanup,
                 shut, transport>>

\* on_disconnect has run: reconnect.
Reconnects ==
  /\ sup.pc = "ended" /\ ~stop
  /\ sup' = [sup EXCEPT !.pc = "connecting"]
  /\ cstate' = "reconnecting"
  /\ UNCHANGED <<ch, registry, refs, conn, gen, stop, session, routing, cleanup,
                 shut, transport>>

\* A requested stop, or a reconnect policy that gives up, ends the loop.
SupervisorStops ==
  /\ sup.pc \in {"ended", "connecting"}
  /\ stop \/ "giveup" \in Env
  /\ SupervisorExits
  /\ UNCHANGED <<refs, conn, gen, stop, session, routing, cleanup, shut, transport>>

\* Mutant of AdoptsTooLate: the late socket is not recorded.
DropsLateSocket ==
  /\ sup.pc = "connecting" /\ stop /\ gen < MaxConn
  /\ socket' = "open"
  /\ SupervisorExits
  /\ UNCHANGED <<refs, conn, gen, stop, session, routing, cleanup, shut, net, member>>

\* The handshake completes after shutdown began: the socket is only recorded,
\* for the shutdown's cleanup to close.
AdoptsTooLate ==
  /\ sup.pc = "connecting" /\ stop /\ gen < MaxConn
  /\ conn' = gen + 1
  /\ socket' = "open"
  /\ SupervisorExits
  /\ UNCHANGED <<refs, gen, stop, session, routing, cleanup, shut, net, member>>

-----------------------------------------------------------------------------
(* Client.shutdown *)

IsFullyClosed ==
  /\ cstate = "closed" /\ conn = 0
  /\ \A t \in Topics : registry[t] = NoHandle
  /\ \A h \in Handles : ch[h].leave \in {"none", "done"}

\* _request_stop: every channel is retired before any task runs again.
RequestStop ==
  /\ "shutdown" \in Env
  /\ shut = "none" /\ ~IsFullyClosed
  /\ shut' = "stopping"
  /\ stop' = TRUE
  /\ cstate' = IF cstate = "closed" THEN cstate ELSE "shutting_down"
  /\ RetireChannels
  /\ UNCHANGED <<refs, conn, gen, session, routing, sup, cleanup, transport>>

\* _stop_supervisor cancels the supervisor at its await.  A cleanup that is
\* cancelling tasks still closes the connection; one that awaits the closing
\* handshake or the sends aborts.
SupervisorCancelled ==
  /\ shut = "stopping"
  /\ sup.pc \notin {"exited", "dying"}
  /\ \/ /\ sup.pc = "cleanup" /\ cleanup.pc = "cancelling"
        /\ sup' = [sup EXCEPT !.pc = "dying"]
        /\ UNCHANGED <<ch, ops, cleanup, routing>>
     \/ /\ sup.pc = "cleanup"
        /\ cleanup.pc = "closing" \/ (cleanup.pc = "finishing" /\ ops # {})
        /\ sup' = [sup EXCEPT !.pc = "exited"]
        /\ cleanup' = [cleanup EXCEPT !.pc = "idle", !.conn = 0]
        /\ UNCHANGED <<ch, ops, routing>>
     \/ /\ sup.pc = "joining"
        /\ sup' = [sup EXCEPT !.pc = "exited", !.cur = NoHandle,
                              !.todo = {}, !.optional = {}]
        /\ ch' = [ch EXCEPT ![sup.cur] = CancelJoin(@)]
        /\ ops' = CancelQueued(ops, sup.cur)
        /\ UNCHANGED <<cleanup, routing>>
     \/ /\ sup.pc \notin {"cleanup", "joining"}
        /\ sup' = [sup EXCEPT !.pc = "exited", !.cur = NoHandle,
                              !.todo = {}, !.optional = {}]
        /\ routing' = IF sup.pc = "serving" THEN "none" ELSE routing
        /\ UNCHANGED <<ch, ops, cleanup>>
  /\ UNCHANGED <<registry, refs, client, sends, closer, shut, transport>>

ShutdownCleansUp ==
  /\ shut = "stopping" /\ sup.pc = "exited"
  /\ shut' = "cleanup"
  /\ CleanupBegins
  /\ UNCHANGED <<registry, refs, gen, cstate, stop, session, sup, transport>>

\* _unsubscribe_all.
ShutdownUnsubscribes ==
  /\ shut = "unsubscribe"
  /\ shut' = "leaving"
  /\ ch' = [h \in Handles |-> IF IsRegistered(h) THEN StartLeave(ch[h], stop)
                                                 ELSE ch[h]]
  /\ UNCHANGED <<registry, refs, client, session, routing, sup, cleanup, transport>>

\* The topics are left: cancel the recoveries, losses and session closes.
ShutdownCancelsLifecycle ==
  /\ shut = "leaving"
  /\ \A h \in Handles : ch[h].leave \in {"none", "done"}
  /\ shut' = "lifecycle"
  /\ ch' = [h \in Handles |-> [ch[h] EXCEPT !.loseStart = 0, !.loseWait = 0,
                                            !.recCancel = (ch[h].rec # "none")]]
  /\ closer' = FALSE
  /\ UNCHANGED <<registry, refs, client, sends, ops, routing, sup, cleanup,
                 transport>>

ShutdownEnds ==
  /\ shut = "lifecycle"
  /\ \A h \in Handles : ch[h].rec = "none" /\ ch[h].leave \in {"none", "done"}
  /\ shut' = "done"
  /\ cstate' = "closed"
  /\ UNCHANGED <<ch, registry, refs, conn, gen, stop, session, routing, sup, cleanup,
                 transport>>

-----------------------------------------------------------------------------
(* The specification *)

\* What the tasks and callbacks of one handle do.
HandleStep(h) ==
  \/ JoinResumes(h) \/ JoinRaises(h)
  \/ LeaveStarts(h) \/ LeaveAnswered(h) \/ LeaveFinishes(h)
  \/ RecoverTries(h) \/ RecoverResumes(h) \/ RecoverCancelled(h)
  \/ \E ok \in ParamsResults : RecoverRejoins(h, ok)
  \/ LoseStarts(h) \/ LoseReports(h)

\* What the send tasks do, except for a write that stalls.
SendStep(o) == Submit(o) \/ SendFails(o) \/ SendCancelled(o)

SupervisorStep ==
  \/ Connect \/ AdoptsTooLate
  \/ \E h \in Handles : RejoinNext(h)
  \/ \E ok \in ParamsResults : RejoinRestarts(ok)
  \/ RejoinResumes \/ RejoinLost \/ RejoinDone
  \/ EndSession \/ Reconnects \/ SupervisorStops
  \/ CleanupCloses \/ CleanupRetires \/ CleanupEnds
  \/ SupervisorCancelled

ShutdownStep ==
  ShutdownCleansUp \/ ShutdownUnsubscribes \/ ShutdownCancelsLifecycle \/ ShutdownEnds

RoutingStep ==
  \/ \E t \in Topics, ok \in HookResults : Route(t, ok)
  \/ RoutingEnds \/ RoutingStopped

UserStep ==
  \/ \E h \in Handles, ok \in ParamsResults : Join(h, ok)
  \/ \E h \in Handles : Leave(h) \/ JoinCancelled(h)
  \/ RequestStop

NetworkStep ==
  \/ \E t \in Topics, event \in ServerEnds : EndMembership(t, event)
  \/ Drop \/ RoutingBreaks \/ ConnectFails

Next ==
  \/ \E h \in Handles : HandleStep(h)
  \/ \E o \in ops : SendStep(o) \/ SendReturns(o)
  \/ \E o \in Timers : Expire(o)
  \/ CloseSendSession
  \/ SupervisorStep \/ ShutdownStep \/ RoutingStep
  \/ UserStep \/ NetworkStep

Spec == Init /\ [][Next]_vars


\* The loop runs every task and callback that is ready, and timers fire.  The
\* application, the network and a stalled write owe nothing.
Fairness ==
  /\ WF_vars(\E h \in Handles : HandleStep(h))
  /\ WF_vars(\E o \in ops : SendStep(o))
  /\ WF_vars(\E o \in Timers : Expire(o))
  /\ WF_vars(CloseSendSession)
  /\ WF_vars(SupervisorStep)
  /\ WF_vars(ShutdownStep)
  /\ WF_vars(RoutingStep)

FairSpec == Spec /\ Fairness

-----------------------------------------------------------------------------
(* Safety *)

\* A handle that was left never comes back: no late join reply, resumed
\* recovery or socket rejoin revives it (README.md, "obsolete attempts cannot
\* revive a left handle").
LeftIsFinal ==
  [][\A h \in Handles : ch[h].state = "left" => ch'[h].state = "left"]_vars

\* A handle that may still be joined holds its topic's name, so two live
\* handles of one topic never coexist.
SingleOwner ==
  \A h \in Handles :
    ch[h].state \in {"joining", "joined", "rejoining"} => IsRegistered(h)

\* While the server holds the membership of a handle's submitted join on this
\* connection, the name stays reserved: _release_reservation waits for a
\* terminal control, the cleanup and the pending sends.
ReservationCoversMembership ==
  conn # 0 => \A h \in Handles :
    ch[h].submitted /\ member[TopicOf[h]] = ch[h].joinRef => IsRegistered(h)

\* Frames of the server that end the membership of a join.
EndsUnderway(t, ref) ==
  {i \in DOMAIN net[t] : net[t][i].joinRef = ref /\ net[t][i].event # "reply"}

\* Channel.joined tells the truth: the server holds this very join, or the
\* news that it ended is still on its way.
JoinedAgreesWithServer ==
  \A h \in Handles :
    Joined(h) /\ socket = "open" /\ EndsUnderway(TopicOf[h], ch[h].joinRef) = {}
      => member[TopicOf[h]] = ch[h].joinRef

\* While a session is served, an established channel that is not joined has a
\* recovery working on it: a crash, a timeout or a handover never drops it.
NoOrphan ==
  sup.pc = "serving" /\ IsConnected /\ routing = "running" /\ ~stop
    => \A h \in Handles :
         IsRegistered(h) /\ ch[h].state = "rejoining" => ch[h].rec # "none"

\* A send that is still writing to the connection belongs to the owner of the
\* name, so a successor's join never overtakes it.
WritesHaveTheOwner ==
  conn # 0 => \A o \in ops : o.st = "writing" => IsRegistered(o.h)

\* An established channel that is gone although nobody left it.
Lost(h) ==
  /\ ch[h].established /\ ch[h].state = "left"
  /\ ch[h].cause \in PermanentCauses \cup {"close"}
  /\ ch[h].leave = "none"
  /\ ~stop /\ cstate # "closed"

\* Somebody is about to report the loss.
ReportPending(h) ==
  \/ ch[h].reported \/ ch[h].loseStart + ch[h].loseWait > 0
  \/ ch[h].rec = "waiting"
  \/ sup.cur = h /\ sup.pc \in {"joining", "losing"}

\* As long as its connection lasts, a lost channel has somebody to report it.
LossHasAReporter ==
  \A h \in Handles : Lost(h) /\ ch[h].conn = conn => ReportPending(h)

\* on_topic_lost is called at most once, only for an established channel that
\* is gone and cleaned up, and never for a leave.
LossReportedOnce ==
  \A h \in Handles : ch[h].calls > 0 =>
    /\ ch[h].calls = 1
    /\ ch[h].established /\ ch[h].state = "left" /\ ch[h].leave = "done"
    /\ ch[h].cause # "leave"

\* When a session starts to be served, every required channel that is still
\* alive had its first attempt on it (the barrier before on_reconnect).
ReconnectBarrier ==
  [][sup.pc = "rejoining" /\ sup'.pc = "serving" =>
       \A h \in Required : ShouldRejoin(h) => ch[h].conn = gen]_vars

\* A shutdown that has ended leaves no live channel, send, task or socket.
ShutdownLeavesNothing ==
  shut = "done" =>
    /\ conn = 0 /\ ops = {} /\ socket = "closed" /\ sup.pc = "exited"
    /\ \A h \in Handles : /\ ch[h].state \in {"created", "left"}
                          /\ ch[h].rec = "none"

\* No task ever asks for a transition that transition_client_state refuses with
\* a RuntimeError, whichever of supervisor, failed send and shutdown comes first.
NoInvalidTransition ==
  [][cstate' # cstate => cstate' \in AllowedTransitions[cstate]]_vars

\* What SessionLoop sees of the supervisor and of the connection.
Phase ==
  CASE sup.pc \in {"connecting", "ended", "cleanup"} -> "down"
    [] sup.pc \in {"dying", "exited"} -> "over"
    [] OTHER -> "up"

Holder ==
  CASE conn # 0 -> "session"
    [] conn = 0 /\ cleanup.conn # 0 /\ cleanup.pc = "cancelling" -> "cleanup"
    [] OTHER -> "nobody"

Loop == INSTANCE SessionLoop WITH
  phase <- Phase, asked <- stop, holder <- Holder, open <- (socket = "open")

\* The client implements SessionLoop: wherever a shutdown meets the supervisor, its
\* session or its cleanup, no two connections overlap, none becomes a session after
\* the stop, and an open socket has somebody to close it (_adopt_connection,
\* _cleanup_connection, _stop_supervisor).
ConnectionsInTurn == Loop!Spec

-----------------------------------------------------------------------------
(* Liveness *)

\* A leave, once started, ends, whatever the server and the socket do.
LeaveCompletes ==
  \A h \in Handles : ch[h].leave = "start" ~> ch[h].leave = "done"

\* join() returns or raises.
JoinCompletes ==
  \A h \in Handles : ch[h].join = "waiting" ~> ch[h].join = "done"

\* shutdown() ends: no task that it cancels or waits for waits for it.
ShutdownCompletes == shut = "stopping" ~> shut = "done"

\* The reporter of a loss gets to report it, unless the client stops first.
LossIsReported ==
  \A h \in Handles :
    ch[h].loseWait > 0 ~> (ch[h].reported \/ stop)

-----------------------------------------------------------------------------
(* What the documentation says and the code does not do *)

\* README.md:600-601: "The client calls on_topic_lost(topic, error) once for
\* permanent loss".  Also after the connection that rejected it is gone.
NoSilentLoss == \A h \in Handles : Lost(h) => ReportPending(h)

\* README.md:615: "transient failures continue through recovery/backoff".
\* With providers and hooks that never fail, no established channel is lost
\* for its configuration.  One is: a write of its own earlier join fails the
\* session while its rejoin is prepared, and the rejoin is then refused as
\* ineligible, which _join takes for a configuration error.
TransientFailuresAreRetried ==
  \A h \in Handles : ch[h].established => ch[h].cause # "configuration"

\* README.md:328-329: a topic stays reserved "until a terminal control or
\* connection end makes reuse safe".  A free name has no member on the server.
FreeNameHasNoMember ==
  conn # 0 => \A t \in Topics : member[t] # 0 => registry[t] # NoHandle

=============================================================================
