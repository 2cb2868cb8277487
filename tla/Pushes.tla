------------------------------- MODULE Pushes -------------------------------
(***************************************************************************)
(* The pushes of joined channels: the calls of topic_runtime._push_channel *)
(* with their deadlines and cancellations, the send tasks that a           *)
(* SessionSends owns for them, the replies that the routing task matches,  *)
(* and what ends a membership under them - a crash, a close, a leave, a    *)
(* lost or stalled connection and its cleanup, a shutdown.                 *)
(*                                                                         *)
(* An action is what one task or callback of the asyncio loop does between *)
(* two awaits.  How a channel joins is the business of TopicRuntime; here  *)
(* the channels start out joined and may be rejoined.                      *)
(***************************************************************************)
EXTENDS Naturals, FiniteSets

CONSTANTS
  Pushes,     \* the calls of push
  Channels,   \* the channels
  ChannelOf,  \* the channel each call is made on
  MaxJoin,    \* bound: memberships per channel
  MaxConn,    \* bound: connections
  Env         \* the environment events this instance allows

ASSUME PushesAssumption ==
  /\ ChannelOf \in [Pushes -> Channels]
  /\ MaxJoin \in Nat \ {0} /\ MaxConn \in Nat \ {0}
  /\ Env \subseteq {"crash", "close", "leave", "drop", "garble", "cancel", "giveup",
                    "shutdown"}

VARIABLES
  chan,     \* the TopicSubscription of each channel
  client,   \* connection (0 is None), conn_generation, state and shutdown_event
  session,  \* the client's SessionSends: its connection (0: none), failed, retired
  closers,  \* the connections that a _close_send_session task is about to close
  push,     \* each call with its SendOperation
  socket,   \* the websocket of the newest connection
  routing,  \* the message routing task
  cleanup,  \* the _cleanup_connection call in progress
  shut      \* the shutdown task

vars == <<chan, client, session, closers, push, socket, routing, cleanup, shut>>

Conns == 0..MaxConn

\* "lost" is the code's REJOINING with a failed current_join_ready, "rejoining"
\* with a pending one.
ChannelStates == {"joined", "lost", "rejoining", "left"}

Outcomes == {"reply", "channel", "socket", "timeout", "cancelled"}

\* A caller is idle, waits, or has returned with what it got.
Push ==
  [caller : {"idle", "waiting", "refused"} \cup Outcomes,
   ref : 0..MaxJoin, conn : Conns,
   out : Outcomes \cup {"none", "pending"},
   task : {"none", "ready", "sending", "done"},
   cancel : BOOLEAN,     \* the task was told to stop
   timer : BOOLEAN,
   tracked : BOOLEAN,    \* in topic.pending_pushes
   writes : 0..1]

NoPush == [caller |-> "idle", ref |-> 0, conn |-> 0, out |-> "none", task |-> "none",
           cancel |-> FALSE, timer |-> FALSE, tracked |-> FALSE, writes |-> 0]

TypeOK ==
  /\ chan \in [Channels -> [state : ChannelStates, ref : 1..MaxJoin, conn : Conns,
                            leave : {"none", "waiting", "done"}]]
  /\ client \in [conn : Conns, gen : Conns, stop : BOOLEAN,
                 state : {"connected", "reconnecting", "shutting_down", "closed"}]
  /\ session \in [conn : Conns, failed : BOOLEAN, retired : BOOLEAN]
  /\ closers \subseteq Conns
  /\ push \in [Pushes -> Push]
  /\ socket \in {"open", "closed"}
  /\ routing \in {"none", "running", "ended"}
  /\ cleanup \in {"idle", "closing", "finishing"}
  /\ shut \in {"none", "stopping", "cleaning", "done"}

Init ==
  /\ chan = [c \in Channels |-> [state |-> "joined", ref |-> 1, conn |-> 1, leave |-> "none"]]
  /\ client = [conn |-> 1, gen |-> 1, stop |-> FALSE, state |-> "connected"]
  /\ session = [conn |-> 1, failed |-> FALSE, retired |-> FALSE]
  /\ closers = {}
  /\ push = [p \in Pushes |-> NoPush]
  /\ socket = "open" /\ routing = "running"
  /\ cleanup = "idle" /\ shut = "none"

-----------------------------------------------------------------------------
(* Predicates *)

OnCurrentConnection(c) ==
  client.state = "connected" /\ client.conn # 0 /\ chan[c].conn = client.conn

\* _channel_joined.
Joined(c) == chan[c].state = "joined" /\ OnCurrentConnection(c)

\* The operation's session is the client's: is_current.
IsCurrent(p) == client.conn = push[p].conn /\ session.conn = push[p].conn

Eligible(p) ==
  /\ ~session.retired /\ ~session.failed /\ IsCurrent(p)
  /\ Joined(ChannelOf[p]) /\ ~client.stop
  /\ push[p].ref = chan[ChannelOf[p]].ref

-----------------------------------------------------------------------------
(* Deciding calls *)

\* _fail, _set_future_exception: a decided outcome is left alone.
Decide(r, out) == IF r.out = "pending" THEN [r EXCEPT !.out = out] ELSE r

TimerOff(r) == [r EXCEPT !.timer = FALSE]

\* A send that is not under way is told to stop.
StopUnsent(r) == [r EXCEPT !.cancel = r.cancel \/ r.task = "ready"]

\* _discard: an operation whose task and outcome are both done has no deadline.
Discard(r) ==
  IF r.task = "done" /\ r.out # "pending" THEN TimerOff(r) ELSE r

\* A push that is taken out of pending_pushes is decided at once.
Taken(r, out) == Discard(Decide([r EXCEPT !.tracked = FALSE], out))

\* Mutant of FailPushes: an operation that was not submitted is left to its task.
FailSubmitted(ps, cs, error) ==
  [p \in Pushes |->
     IF ChannelOf[p] \in cs /\ ps[p].tracked /\ ps[p].task # "ready"
     THEN Taken(ps[p], error) ELSE ps[p]]

\* The end of _transition_channel: the pending pushes of its channel fail.
FailPushes(ps, cs, error) ==
  [p \in Pushes |->
     IF ChannelOf[p] \in cs /\ ps[p].tracked
     THEN Taken(ps[p], error) ELSE ps[p]]

\* _transition_channel, for channels that were once established.
Lose(cs, recoverable) ==
  chan' = [c \in Channels |->
             IF c \notin cs THEN chan[c]
             ELSE [chan[c] EXCEPT !.state = IF recoverable /\ @ # "left" /\ ~client.stop
                                            THEN "lost" ELSE "left"]]

\* The channels that _fail_pending_joins fails: those of the connection.
OfConnection == {c \in Channels : chan[c].state # "left" /\ chan[c].conn = client.conn}

FailPendingJoins(ps) ==
  /\ Lose(OfConnection, TRUE)
  /\ push' = FailPushes(ps, OfConnection, "socket")

MayNotify(p) == ~session.retired /\ ~session.failed /\ IsCurrent(p)

\* _notify_failure and _fail_send_session: the first failed write of a session
\* fails its channels and schedules the close of its connection.
NotifyFailure(ps, notify) ==
  IF notify
  THEN /\ session' = [session EXCEPT !.failed = TRUE]
       /\ FailPendingJoins(ps)
       /\ client' = [client EXCEPT !.state = IF @ = "connected" THEN "reconnecting" ELSE @]
       /\ closers' = closers \cup {session.conn}
  ELSE /\ push' = ps
       /\ UNCHANGED <<session, chan, client, closers>>

-----------------------------------------------------------------------------
(* The calls *)

\* _push_channel and send_and_wait up to the first await.
Admitted(c) ==
  [caller |-> "waiting", ref |-> chan[c].ref, conn |-> client.conn, out |-> "pending",
   task |-> "ready", cancel |-> FALSE, timer |-> TRUE, tracked |-> TRUE, writes |-> 0]

CallPush(p) ==
  /\ push[p].caller = "idle"
  /\ push' = [push EXCEPT ![p] = IF Joined(ChannelOf[p]) THEN Admitted(ChannelOf[p])
                                 ELSE [push[p] EXCEPT !.caller = "refused"]]
  /\ UNCHANGED <<chan, client, session, closers, socket, routing, cleanup, shut>>

\* The shielded outcome is done: the caller goes on.
CallerReturns(p) ==
  /\ push[p].caller = "waiting" /\ push[p].out # "pending"
  /\ push' = [push EXCEPT ![p].caller = push[p].out, ![p].tracked = FALSE]
  /\ UNCHANGED <<chan, client, session, closers, socket, routing, cleanup, shut>>

\* The caller is cancelled in send_and_wait; a task that has not written is too.
CallerCancelled(p) ==
  /\ "cancel" \in Env /\ push[p].caller = "waiting"
  /\ push' = [push EXCEPT ![p] =
       Discard(StopUnsent([Decide(push[p], "cancelled") EXCEPT
                             !.caller = "cancelled", !.tracked = FALSE]))]
  /\ UNCHANGED <<chan, client, session, closers, socket, routing, cleanup, shut>>

-----------------------------------------------------------------------------
(* The operations of the session *)

\* Mutant of TaskDone: a send that is over is queued again.
SendAgain(r) ==
  IF r.task = "sending" THEN [r EXCEPT !.task = "ready"] ELSE Discard([r EXCEPT !.task = "done"])

TaskDone(r) == Discard([r EXCEPT !.task = "done"])

Writes(p) == push[p].out = "pending" /\ Eligible(p)

\* _send up to the write: a decided or ineligible operation ends here.
SendRefused(p) ==
  /\ push[p].task = "ready" /\ ~push[p].cancel /\ ~Writes(p)
  /\ push' = [push EXCEPT ![p] = TaskDone(Decide(push[p], "channel"))]
  /\ UNCHANGED <<chan, client, session, closers, socket, routing, cleanup, shut>>

SendWrites(p) ==
  /\ push[p].task = "ready" /\ ~push[p].cancel /\ Writes(p) /\ socket = "open"
  /\ push' = [push EXCEPT ![p].task = "sending", ![p].writes = 1 + push[p].writes]
  /\ UNCHANGED <<chan, client, session, closers, socket, routing, cleanup, shut>>

SendMeetsClose(p) ==
  /\ push[p].task = "ready" /\ ~push[p].cancel /\ Writes(p) /\ socket = "closed"
  /\ NotifyFailure([push EXCEPT ![p] = TaskDone(Decide(push[p], "socket"))], MayNotify(p))
  /\ UNCHANGED <<socket, routing, cleanup, shut>>

SendStarts(p) == SendRefused(p) \/ SendWrites(p) \/ SendMeetsClose(p)

\* connection.send returns: the transport has taken the frame.
SendReturns(p) ==
  /\ push[p].task = "sending" /\ ~push[p].cancel
  /\ push' = [push EXCEPT ![p] = TaskDone(push[p])]
  /\ UNCHANGED <<chan, client, session, closers, socket, routing, cleanup, shut>>

\* connection.send raises ConnectionClosed while the transport drains.
SendFails(p) ==
  /\ push[p].task = "sending" /\ ~push[p].cancel /\ socket = "closed"
  /\ NotifyFailure([push EXCEPT ![p] = TaskDone(Decide(push[p], "socket"))], MayNotify(p))
  /\ UNCHANGED <<socket, routing, cleanup, shut>>

\* A task that is cancelled before its first step never runs the body that would
\* decide the call; one that was writing does.
SendCancelled(p) ==
  /\ push[p].cancel
  /\ \/ /\ push[p].task = "ready"
        /\ push' = [push EXCEPT ![p] = TaskDone(push[p])]
        /\ UNCHANGED <<chan, client, session, closers>>
     \/ /\ push[p].task = "sending"
        /\ NotifyFailure([push EXCEPT ![p] = TaskDone(Decide(push[p], "socket"))], MayNotify(p))
  /\ UNCHANGED <<socket, routing, cleanup, shut>>

\* Mutant of StallFails: a write that outlives its deadline is left to itself.
StallIgnored(r) == FALSE

\* The deadline finds the frame half written.
StallFails(r) == r.task = "sending"

\* _expire: the deadline of a session that is not current any more is void.
Expire(p) ==
  /\ push[p].timer
  /\ IF session.retired \/ ~IsCurrent(p)
     THEN /\ push' = [push EXCEPT ![p] = TimerOff(push[p])]
          /\ UNCHANGED <<chan, client, session, closers>>
     ELSE IF StallFails(push[p])
     THEN NotifyFailure([push EXCEPT ![p] = TimerOff(Decide(push[p], "timeout"))], MayNotify(p))
     ELSE /\ push' = [push EXCEPT ![p] = StopUnsent(TimerOff(Decide(push[p], "timeout")))]
          /\ UNCHANGED <<chan, client, session, closers>>
  /\ UNCHANGED <<socket, routing, cleanup, shut>>

\* _close_send_session, unless the connection was replaced meanwhile.
CloseSendSession(k) ==
  /\ k \in closers
  /\ closers' = closers \ {k}
  /\ socket' = IF client.conn = k /\ session.conn = k THEN "closed" ELSE socket
  /\ UNCHANGED <<chan, client, session, push, routing, cleanup, shut>>

\* The write of a join or a leave on the same session fails.
OtherSendFails ==
  /\ "drop" \in Env /\ socket = "closed" /\ client.conn # 0 /\ session.conn = client.conn
  /\ NotifyFailure(push, ~session.retired /\ ~session.failed)
  /\ UNCHANGED <<socket, routing, cleanup, shut>>

-----------------------------------------------------------------------------
(* The server and the network *)

\* The reply passes the membership checks and its ref is still tracked.
Matches(p) ==
  /\ OnCurrentConnection(ChannelOf[p]) /\ push[p].ref = chan[ChannelOf[p]].ref
  /\ push[p].tracked

\* The routing task reads a reply to a frame that was written on its connection,
\* however late; one that matches no push is no business of a caller.  A malformed
\* one fails the push it matches.
RouteReply(p, wellFormed) ==
  /\ routing = "running" /\ push[p].writes > 0 /\ push[p].conn = client.gen
  /\ wellFormed \/ "garble" \in Env
  /\ push' = IF Matches(p)
             THEN [push EXCEPT ![p] = Taken(push[p], IF wellFormed THEN "reply" ELSE "channel")]
             ELSE push
  /\ UNCHANGED <<chan, client, session, closers, socket, routing, cleanup, shut>>

\* The server, the network, the heartbeat or close_connection() ends the connection.
Drop ==
  /\ "drop" \in Env /\ socket = "open"
  /\ socket' = "closed"
  /\ UNCHANGED <<chan, client, session, closers, push, routing, cleanup, shut>>

\* The routing task ends with what was left to read, and its done callback fails
\* the operations of the connection.
RoutingEnds ==
  /\ routing = "running" /\ socket = "closed"
  /\ routing' = "ended"
  /\ FailPendingJoins(push)
  /\ UNCHANGED <<client, session, closers, socket, cleanup, shut>>

-----------------------------------------------------------------------------
(* Memberships *)

\* The server's phx_error ends a membership that may be taken up again, its
\* phx_close one that may not.
Crash(c) ==
  /\ "crash" \in Env /\ routing = "running" /\ OnCurrentConnection(c)
  /\ chan[c].state \in {"joined", "rejoining"}
  /\ Lose({c}, TRUE)
  /\ push' = FailPushes(push, {c}, "channel")
  /\ UNCHANGED <<client, session, closers, socket, routing, cleanup, shut>>

Close(c) ==
  /\ "close" \in Env /\ routing = "running" /\ OnCurrentConnection(c)
  /\ chan[c].state \in {"joined", "rejoining"}
  /\ Lose({c}, FALSE)
  /\ push' = FailPushes(push, {c}, "channel")
  /\ UNCHANGED <<client, session, closers, socket, routing, cleanup, shut>>

\* _restart_topic, for the rejoin of a connection or the recovery of a channel.
Rejoin(c) ==
  /\ chan[c].state = "lost" /\ chan[c].ref < MaxJoin
  /\ client.state = "connected" /\ client.conn # 0 /\ ~client.stop
  /\ chan' = [chan EXCEPT ![c].state = "rejoining", ![c].ref = @ + 1, ![c].conn = client.conn]
  /\ UNCHANGED <<client, session, closers, push, socket, routing, cleanup, shut>>

\* The routing task reads the reply that accepts the join.
Accept(c) ==
  /\ routing = "running" /\ OnCurrentConnection(c) /\ ~client.stop
  /\ chan[c].state = "rejoining"
  /\ chan' = [chan EXCEPT ![c].state = "joined"]
  /\ UNCHANGED <<client, session, closers, push, socket, routing, cleanup, shut>>

\* leave(), or the cleanup of a channel that was lost: _start_leave_task.
Leave(c) ==
  /\ chan[c].leave = "none"
  /\ chan[c].state = "left" \/ "leave" \in Env
  /\ chan' = [chan EXCEPT ![c].state = "left", ![c].leave = "waiting"]
  /\ push' = FailPushes(push, {c}, "channel")
  /\ UNCHANGED <<client, session, closers, socket, routing, cleanup, shut>>

TaskAlive(p) == push[p].task \in {"ready", "sending"}

\* Mutant of SendsOf: only the frames in the transport are waited for.
WritesOf(c) == {p \in Pushes : ChannelOf[p] = c /\ push[p].task = "sending"}

\* topic.send_outcomes whose send is not done.
SendsOf(c) == {p \in Pushes : ChannelOf[p] = c /\ TaskAlive(p)}

\* _cleanup_subscription waits for the sends of the channel before leave() returns.
LeaveEnds(c) ==
  /\ chan[c].leave = "waiting" /\ SendsOf(c) = {}
  /\ chan' = [chan EXCEPT ![c].leave = "done"]
  /\ UNCHANGED <<client, session, closers, push, socket, routing, cleanup, shut>>

-----------------------------------------------------------------------------
(* Cleanup, reconnection and shutdown *)

\* _cleanup_connection up to its first await, by the supervisor or by shutdown().
CleanupStarts ==
  /\ cleanup = "idle"
  /\ \/ shut = "none" /\ routing = "ended" /\ client.conn # 0
     \/ shut = "cleaning"
  /\ FailPendingJoins(push)
  /\ client' = [client EXCEPT !.conn = 0]
  /\ routing' = "none"
  /\ cleanup' = "closing"
  /\ UNCHANGED <<session, closers, socket, shut>>

\* The connection is closed and SessionSends.finish tells the tasks that have not
\* written to stop.
CleanupCloses ==
  /\ cleanup = "closing"
  /\ socket' = "closed"
  /\ session' = [session EXCEPT !.retired = TRUE]
  /\ push' = [p \in Pushes |-> StopUnsent(TimerOff(push[p]))]
  /\ cleanup' = "finishing"
  /\ UNCHANGED <<chan, client, closers, routing, shut>>

\* Every send task has been retrieved.
CleanupEnds ==
  /\ cleanup = "finishing" /\ \A p \in Pushes : ~TaskAlive(p)
  /\ session' = [conn |-> 0, failed |-> FALSE, retired |-> FALSE]
  /\ cleanup' = "idle"
  /\ shut' = IF shut = "cleaning" THEN "done" ELSE shut
  /\ client' = [client EXCEPT !.state = IF shut = "cleaning" THEN "closed" ELSE @]
  /\ UNCHANGED <<chan, closers, push, socket, routing>>

\* The supervisor connects again.
Connect ==
  /\ cleanup = "idle" /\ client.conn = 0 /\ shut = "none" /\ client.state # "closed"
  /\ client.gen < MaxConn
  /\ client' = [client EXCEPT !.conn = client.gen + 1, !.gen = @ + 1, !.state = "connected"]
  /\ session' = [conn |-> client.gen + 1, failed |-> FALSE, retired |-> FALSE]
  /\ socket' = "open" /\ routing' = "running"
  /\ UNCHANGED <<chan, closers, push, cleanup, shut>>

\* The supervisor exits instead and retires the channels.
GiveUp ==
  /\ "giveup" \in Env
  /\ cleanup = "idle" /\ client.conn = 0 /\ shut = "none" /\ client.state # "closed"
  /\ client' = [client EXCEPT !.state = "closed"]
  /\ Lose(Channels, FALSE)
  /\ push' = FailPushes(push, Channels, "socket")
  /\ UNCHANGED <<session, closers, socket, routing, cleanup, shut>>

\* shutdown() up to its first await: _request_stop.
Shutdown ==
  /\ "shutdown" \in Env /\ shut = "none"
  /\ shut' = "stopping"
  /\ client' = [client EXCEPT !.stop = TRUE,
                              !.state = IF @ = "closed" THEN @ ELSE "shutting_down"]
  /\ Lose(Channels, FALSE)
  /\ push' = FailPushes(push, Channels, "channel")
  /\ UNCHANGED <<session, closers, socket, routing, cleanup>>

\* _stop_supervisor: a cleanup it was in is cut short, and the sends that cleanup
\* was retrieving are cancelled with its gather.
StopSupervisor ==
  /\ shut = "stopping"
  /\ shut' = "cleaning" /\ cleanup' = "idle"
  /\ socket' = IF cleanup = "closing" THEN "closed" ELSE socket
  /\ push' = [p \in Pushes |->
                [push[p] EXCEPT !.cancel = push[p].cancel
                                            \/ (cleanup = "finishing" /\ TaskAlive(p))]]
  /\ UNCHANGED <<chan, client, session, closers, routing>>

-----------------------------------------------------------------------------

Call(p) == CallPush(p) \/ CallerReturns(p) \/ CallerCancelled(p)

Operation(p) ==
  SendStarts(p) \/ SendReturns(p) \/ SendFails(p) \/ SendCancelled(p) \/ Expire(p)

Network ==
  \/ \E p \in Pushes : \E wellFormed \in BOOLEAN : RouteReply(p, wellFormed)
  \/ Drop \/ RoutingEnds \/ OtherSendFails
  \/ \E k \in closers : CloseSendSession(k)

Membership(c) == Crash(c) \/ Close(c) \/ Rejoin(c) \/ Accept(c) \/ Leave(c) \/ LeaveEnds(c)

Lifecycle ==
  \/ CleanupStarts \/ CleanupCloses \/ CleanupEnds \/ Connect \/ GiveUp
  \/ Shutdown \/ StopSupervisor

Next ==
  \/ \E p \in Pushes : Call(p) \/ Operation(p)
  \/ Network
  \/ \E c \in Channels : Membership(c)
  \/ Lifecycle

\* The loop runs the tasks that are ready, a timer fires, a closed connection ends
\* its routing task and the supervisor cleans up after it.  Nothing is assumed of
\* the server, of the application, or of a write that the transport does not take.
Fairness ==
  /\ \A p \in Pushes :
       /\ WF_vars(CallerReturns(p)) /\ WF_vars(SendStarts(p)) /\ WF_vars(SendFails(p))
       /\ WF_vars(SendCancelled(p)) /\ WF_vars(Expire(p))
  /\ \A k \in Conns : WF_vars(CloseSendSession(k))
  /\ WF_vars(RoutingEnds) /\ WF_vars(CleanupStarts) /\ WF_vars(CleanupCloses)
  /\ WF_vars(CleanupEnds) /\ WF_vars(StopSupervisor)

Spec == Init /\ [][Next]_vars /\ Fairness

-----------------------------------------------------------------------------
(* Properties *)

\* What the caller sees of an operation: the step that decides it settles it.
Standing(r) ==
  CASE r.caller = "idle" -> "idle"
    [] r.caller = "waiting" -> IF r.out = "pending" THEN "pending" ELSE "settled"
    [] OTHER -> "returned"

Outcome(r) ==
  CASE r.caller = "idle" \/ (r.caller = "waiting" /\ r.out = "pending") -> "none"
    [] r.caller = "waiting" /\ r.out # "pending" -> r.out
    [] OTHER -> r.caller

View(r) == [st |-> Standing(r), member |-> r.ref, writes |-> r.writes, outcome |-> Outcome(r)]

\* A membership is known by the join_ref of the channel that is joined.
Member(c) == IF Joined(c) THEN chan[c].ref ELSE 0

Promise == INSTANCE PushCalls WITH
  member <- [c \in Channels |-> Member(c)], call <- [p \in Pushes |-> View(push[p])]

\* The pushes implement PushCalls: whatever the order of writes, replies, deadlines,
\* crashes, closes and cleanups, a call is written at most once and never after its
\* outcome or membership, and the loss of its membership settles it in the same step
\* (README.md 411-445).
CallsAreKept == Promise!Spec

\* Once leave() has returned, no send of the channel is under way: a frame of the
\* left membership cannot follow (_cleanup_subscription).
LeftIsQuiet == \A p \in Pushes : chan[ChannelOf[p]].leave = "done" => ~TaskAlive(p)

\* Every push returns, although deadlines are void once the connection is not
\* current and finish() decides nothing (README.md 420-428).
PushReturns == \A p \in Pushes : push[p].caller = "waiting" ~> push[p].caller # "waiting"

\* A write that the peer never takes ends all the same: its deadline closes the
\* socket (README.md 431-433), so that no leave and no cleanup waits for ever.
SendEnds == \A p \in Pushes : TaskAlive(p) ~> ~TaskAlive(p)

=============================================================================
