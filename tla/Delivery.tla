------------------------------ MODULE Delivery ------------------------------
(***************************************************************************)
(* The delivery of one channel's messages: the bounded queue that the      *)
(* routing task fills, the processor that takes from it and awaits one     *)
(* callback at a time, the rejoin that drains the callback and replaces    *)
(* the processor, and the leave task that ends both - when leave() is      *)
(* called by another task, or by the callback it would have to wait for.   *)
(*                                                                         *)
(* An action is what one task does between two awaits.  A processor and    *)
(* the callback it awaits are known by the join_ref of the membership they *)
(* were started in.                                                        *)
(***************************************************************************)
EXTENDS Naturals, Sequences

CONSTANTS
  Capacity,   \* max_topic_queue_size
  MaxMsg,     \* bound: messages routed to the channel
  MaxJoin,    \* bound: memberships
  Env         \* the environment events this instance allows

ASSUME DeliveryAssumption ==
  /\ Capacity \in Nat \ {0} /\ MaxMsg \in Nat /\ MaxJoin \in Nat \ {0}
  /\ Env \subseteq {"lose", "close", "stop", "leave", "raise", "swallow", "cancel"}

VARIABLES
  chan,      \* state, join_ref, cause and restart_requested of the TopicSubscription
  queue,     \* topic.queue
  routed,    \* the messages that came in, numbered
  started,   \* the last message that was handed to the callback
  proc,      \* _process_topic_messages of each membership
  cb,        \* the callback task of each processor
  current,   \* topic.current_callback_task, by its membership; 0 is None
  rejoin,    \* _rejoin_topic
  leave      \* _leave_and_cleanup

vars == <<chan, queue, routed, started, proc, cb, current, rejoin, leave>>

Refs == 1..MaxJoin

\* A broadcast has no join_ref; "at" is the membership that was joined when the
\* message came in.
Message == [id : 1..MaxMsg, at : Refs, broadcast : BOOLEAN]

\* "lost" and "rejoining" are the code's REJOINING, before and after _restart_topic.
TypeOK ==
  /\ chan \in [state : {"joined", "lost", "rejoining", "left"}, ref : Refs,
               cause : {"none", "loss", "close", "stop", "leave"}, restart : BOOLEAN]
  /\ queue \in Seq(Message) /\ Len(queue) <= Capacity
  /\ routed \in 0..MaxMsg /\ started \in 0..routed
  /\ proc \in [Refs -> {"none", "waiting", "handling", "ended"}]
  /\ cb \in [Refs -> [st : {"none", "running", "leaving", "returned", "raised", "cancelled"},
                      stop : BOOLEAN]]
  /\ current \in {0} \cup Refs
  /\ rejoin \in [pc : {"idle", "draining", "cancelling", "stopping", "joining"},
                 of : {0} \cup Refs, by : {"supervisor", "recovery"}]
  /\ leave \in [pc : {"none", "sending", "draining", "cancelling", "stopping", "done"},
                of : {0} \cup Refs, initiator : {0} \cup Refs]

NoCallback == [st |-> "none", stop |-> FALSE]

Init ==
  /\ chan = [state |-> "joined", ref |-> 1, cause |-> "none", restart |-> FALSE]
  /\ queue = <<>> /\ routed = 0 /\ started = 0
  /\ proc = [k \in Refs |-> IF k = 1 THEN "waiting" ELSE "none"]
  /\ cb = [k \in Refs |-> NoCallback]
  /\ current = 0
  /\ rejoin = [pc |-> "idle", of |-> 0, by |-> "supervisor"]
  /\ leave = [pc |-> "none", of |-> 0, initiator |-> 0]

-----------------------------------------------------------------------------

Running(k) == cb[k].st \in {"running", "leaving"}

IsStale(m) == ~m.broadcast /\ m.at # chan.ref

\* Mutant of Enqueued: a full queue is told by one message too many.
Overfilled(q, m) == IF Len(q) > Capacity THEN Append(Tail(q), m) ELSE Append(q, m)

\* _enqueue_message: a full queue drops its oldest message.
Enqueued(q, m) == IF Len(q) = Capacity THEN Append(Tail(q), m) ELSE Append(q, m)

\* The routing task passes on what comes in while the channel is joined: what it
\* reads is of the current membership or a broadcast.
Route ==
  /\ chan.state = "joined" /\ routed < MaxMsg
  /\ routed' = routed + 1
  /\ \E broadcast \in BOOLEAN :
       queue' = Enqueued(queue, [id |-> routed + 1, at |-> chan.ref, broadcast |-> broadcast])
  /\ UNCHANGED <<chan, started, proc, cb, current, rejoin, leave>>

-----------------------------------------------------------------------------
(* The processor and its callback *)

\* The head of the loop: a channel that was left ends it.
Loop == IF chan.state = "left" THEN "ended" ELSE "waiting"

\* A message is taken and dropped, by a processor that is to be replaced or for
\* want of a membership.
Skip(k) ==
  /\ proc[k] = "waiting" /\ queue # <<>>
  /\ chan.restart \/ IsStale(Head(queue)) \/ chan.state # "joined"
  /\ queue' = Tail(queue)
  /\ proc' = [proc EXCEPT ![k] = IF chan.restart THEN "ended" ELSE Loop]
  /\ UNCHANGED <<chan, routed, started, cb, current, rejoin, leave>>

\* A message is handed to the handlers, which run as one task.
Handle(k) ==
  /\ proc[k] = "waiting" /\ queue # <<>>
  /\ ~chan.restart /\ ~IsStale(Head(queue)) /\ chan.state = "joined"
  /\ queue' = Tail(queue) /\ started' = Head(queue).id
  /\ proc' = [proc EXCEPT ![k] = "handling"]
  /\ cb' = [cb EXCEPT ![k] = [st |-> "running", stop |-> FALSE]]
  /\ current' = k
  /\ UNCHANGED <<chan, routed, rejoin, leave>>

\* A handler that was not told to stop returns or raises - a CancelledError too, of
\* something it awaited.
Returns(k) ==
  /\ cb[k].st = "running" /\ ~cb[k].stop
  /\ \E how \in {"returned"} \cup (IF "raise" \in Env THEN {"raised"} ELSE {})
                             \cup (IF "cancel" \in Env THEN {"cancelled"} ELSE {}) :
       cb' = [cb EXCEPT ![k].st = how]
  /\ UNCHANGED <<chan, queue, routed, started, proc, current, rejoin, leave>>

\* A handler that is cancelled unwinds, or swallows its cancellation.
Unwinds(k) ==
  /\ Running(k) /\ cb[k].stop
  /\ \E how \in {"cancelled"} \cup (IF "swallow" \in Env THEN {"returned"} ELSE {}) :
       cb' = [cb EXCEPT ![k].st = how]
  /\ UNCHANGED <<chan, queue, routed, started, proc, current, rejoin, leave>>

\* Mutant of EndsWith: an exception of a handler ends the processor.
Fragile(how) == how \in {"cancelled", "raised"}

\* What a callback ends with ends the processor that awaits it: only a CancelledError.
EndsWith(how) == how = "cancelled"

Resume(k) ==
  /\ proc[k] = "handling" /\ ~Running(k)
  /\ current' = 0
  /\ proc' = [proc EXCEPT ![k] = IF EndsWith(cb[k].st) THEN "ended" ELSE Loop]
  /\ UNCHANGED <<chan, queue, routed, started, cb, rejoin, leave>>

\* Mutant of StopTopicTask: the processor is cancelled, its callback is left alone.
StopProcessor(k) ==
  /\ proc' = IF proc[k] \in {"waiting", "handling"} THEN [proc EXCEPT ![k] = "ended"] ELSE proc
  /\ UNCHANGED <<cb, current>>

\* _stop_topic_task up to its await: the cancellation of a processor that awaits
\* its callback goes to the callback.
StopTopicTask(k) ==
  IF proc[k] = "handling" /\ Running(k)
  THEN cb' = [cb EXCEPT ![k].stop = TRUE] /\ UNCHANGED <<proc, current>>
  ELSE /\ proc' = [proc EXCEPT ![k] = IF @ = "none" THEN @ ELSE "ended"]
       /\ current' = IF current = k THEN 0 ELSE current
       /\ UNCHANGED cb

\* The processor that process_topic_messages_task is.
Processor == chan.ref

Stopped == proc[Processor] = "ended"

\* Mutant of MustDrain: a callback is only looked for while messages wait.
MustDrainQueued == current # 0 /\ Running(current) /\ queue # <<>>

\* _drain_callback has something to wait for.
MustDrain == current # 0 /\ Running(current)

-----------------------------------------------------------------------------
(* Rejoins *)

ShouldRejoin == chan.state # "left"

\* The membership ends with the connection or by a crash; a rejoin in flight fails.
Lose ==
  /\ "lose" \in Env /\ chan.state \in {"joined", "rejoining"}
  /\ chan' = [chan EXCEPT !.state = "lost", !.cause = "loss"]
  /\ rejoin' = IF rejoin.pc = "joining" THEN [rejoin EXCEPT !.pc = "idle"] ELSE rejoin
  /\ UNCHANGED <<queue, routed, started, proc, cb, current, leave>>

\* _rejoin_topic up to its first await, by the supervisor or by the recovery of the
\* channel.  A channel that is still joined is lost first.
RejoinStarts ==
  /\ chan.state = "lost" /\ rejoin.pc = "idle" /\ chan.ref < MaxJoin
  /\ chan' = [chan EXCEPT !.restart = TRUE]
  /\ \E by \in {"supervisor", "recovery"} :
       IF MustDrain
       THEN /\ rejoin' = [pc |-> "draining", of |-> current, by |-> by]
            /\ UNCHANGED <<proc, cb, current>>
       ELSE /\ rejoin' = [pc |-> "stopping", of |-> 0, by |-> by]
            /\ StopTopicTask(Processor)
  /\ UNCHANGED <<queue, routed, started, leave>>

\* Mutant of TimesOut: a drain waits as long as the callback takes.
Patient(task) == FALSE

\* callback_drain_timeout_s is over and the callback still runs.
TimesOut(task) == task.pc = "draining" /\ Running(task.of)

RejoinTimesOut ==
  /\ TimesOut(rejoin)
  /\ rejoin' = [rejoin EXCEPT !.pc = "cancelling"]
  /\ cb' = [cb EXCEPT ![rejoin.of].stop = TRUE]
  /\ UNCHANGED <<chan, queue, routed, started, proc, current, leave>>

\* The callback has ended, by itself or by its cancellation.
RejoinStops ==
  /\ rejoin.pc \in {"draining", "cancelling"} /\ ~Running(rejoin.of)
  /\ rejoin' = [rejoin EXCEPT !.pc = "stopping"]
  /\ StopTopicTask(Processor)
  /\ UNCHANGED <<chan, queue, routed, started, leave>>

\* Mutant of Drained: the queue outlives the membership.
Kept(q) == q

\* _drain_topic_queue.
Drained(q) == <<>>

\* _restart_topic, unless the channel was left during the awaits before.
Restart ==
  /\ rejoin.pc = "stopping" /\ Stopped
  /\ IF ShouldRejoin
     THEN /\ chan' = [state |-> "rejoining", ref |-> chan.ref + 1, cause |-> "none",
                      restart |-> FALSE]
          /\ queue' = Drained(queue)
          /\ proc' = [proc EXCEPT ![chan.ref + 1] = "waiting"]
          /\ rejoin' = [rejoin EXCEPT !.pc = "joining"]
     ELSE /\ rejoin' = [rejoin EXCEPT !.pc = "idle"]
          /\ UNCHANGED <<chan, queue, proc>>
  /\ UNCHANGED <<routed, started, cb, current, leave>>

\* The server's reply accepts the join.
Accept ==
  /\ rejoin.pc = "joining" /\ chan.state = "rejoining"
  /\ chan' = [chan EXCEPT !.state = "joined"]
  /\ rejoin' = [rejoin EXCEPT !.pc = "idle"]
  /\ UNCHANGED <<queue, routed, started, proc, cb, current, leave>>

\* The task that rejoins is cancelled at an await: the recovery by the cleanup of its
\* connection, the supervisor by shutdown().
RejoinCancelled ==
  /\ "lose" \in Env /\ rejoin.pc \in {"draining", "cancelling", "stopping"}
  /\ rejoin.by = "supervisor" => chan.cause = "stop"
  /\ rejoin' = [rejoin EXCEPT !.pc = "idle"]
  /\ UNCHANGED <<chan, queue, routed, started, proc, cb, current, leave>>

-----------------------------------------------------------------------------
(* The end of the channel *)

\* _transition_channel to LEFT: the join of a rejoin fails.
Left(cause) ==
  /\ chan' = [chan EXCEPT !.state = "left", !.cause = cause]
  /\ rejoin' = IF rejoin.pc = "joining" THEN [rejoin EXCEPT !.pc = "idle"] ELSE rejoin

\* The server closes the channel: its loss is a task of its own.
Close ==
  /\ "close" \in Env /\ chan.state # "left"
  /\ Left("close")
  /\ UNCHANGED <<queue, routed, started, proc, cb, current, leave>>

\* shutdown() ends a channel that is being left, too.
Stop ==
  /\ "stop" \in Env /\ chan.cause # "stop" /\ leave.pc # "done"
  /\ Left("stop")
  /\ UNCHANGED <<queue, routed, started, proc, cb, current, leave>>

\* _start_leave_task.
StartLeave(initiator) ==
  /\ leave.pc = "none"
  /\ leave' = [pc |-> "sending", of |-> 0, initiator |-> initiator]
  /\ IF chan.state = "left" THEN UNCHANGED <<chan, rejoin>> ELSE Left("leave")

\* leave() by a task of the application, or the task that a loss or a shutdown starts.
LeaveStarts ==
  /\ chan.state = "left" \/ "leave" \in Env
  /\ StartLeave(0)
  /\ UNCHANGED <<queue, routed, started, proc, cb, current>>

\* leave() awaited by the callback, which starts the leave task itself or finds it
\* started, or has another task start it: wait_for(), gather().  Or shutdown() is.  The
\* callback is over before what it awaits is done (LeftIsSilent), so it never goes on.
CallbackLeaves(k) ==
  /\ "leave" \in Env /\ cb[k].st = "running" /\ ~cb[k].stop
  /\ cb' = [cb EXCEPT ![k].st = "leaving"]
  /\ \/ \E initiator \in {0, k} : StartLeave(initiator)
     \/ /\ leave.pc # "none" \/ chan.cause = "stop"
        /\ UNCHANGED <<chan, rejoin, leave>>
  /\ UNCHANGED <<queue, routed, started, proc, current>>

\* _cleanup_subscription gives the callback its time if the channel was left by leave()
\* and not by the callback.
Drains == chan.cause = "leave" /\ current # leave.initiator /\ MustDrain

\* The leave frame is answered, failed or not sent; _cleanup_subscription cancels the
\* recovery and drains or stops.
LeaveCleansUp ==
  /\ leave.pc = "sending"
  /\ rejoin' = IF rejoin.by = "recovery" THEN [rejoin EXCEPT !.pc = "idle"] ELSE rejoin
  /\ IF Drains
     THEN /\ leave' = [leave EXCEPT !.pc = "draining", !.of = current]
          /\ UNCHANGED <<proc, cb, current>>
     ELSE /\ leave' = [leave EXCEPT !.pc = "stopping"]
          /\ StopTopicTask(Processor)
  /\ UNCHANGED <<chan, queue, routed, started>>

LeaveTimesOut ==
  /\ TimesOut(leave)
  /\ leave' = [leave EXCEPT !.pc = "cancelling"]
  /\ cb' = [cb EXCEPT ![leave.of].stop = TRUE]
  /\ UNCHANGED <<chan, queue, routed, started, proc, current, rejoin>>

LeaveStops ==
  /\ leave.pc \in {"draining", "cancelling"} /\ ~Running(leave.of)
  /\ leave' = [leave EXCEPT !.pc = "stopping"]
  /\ StopTopicTask(Processor)
  /\ UNCHANGED <<chan, queue, routed, started, rejoin>>

LeaveEnds ==
  /\ leave.pc = "stopping" /\ Stopped
  /\ leave' = [leave EXCEPT !.pc = "done"]
  /\ UNCHANGED <<chan, queue, routed, started, proc, cb, current, rejoin>>

-----------------------------------------------------------------------------

Task(k) == Skip(k) \/ Handle(k) \/ Resume(k)

Callback(k) == Returns(k) \/ Unwinds(k) \/ CallbackLeaves(k)

RejoinGoesOn == RejoinTimesOut \/ RejoinStops \/ Restart

LeaveGoesOn == LeaveStarts \/ LeaveCleansUp \/ LeaveTimesOut \/ LeaveStops \/ LeaveEnds

Next ==
  \/ Route \/ Lose \/ Close \/ Stop
  \/ RejoinStarts \/ RejoinGoesOn \/ Accept \/ RejoinCancelled
  \/ LeaveGoesOn
  \/ \E k \in Refs : Task(k) \/ Callback(k)

\* The loop runs the tasks that are ready and its timers fire, and a callback that is
\* cancelled unwinds.  No callback has to return by itself, and no server to answer.
Fairness ==
  /\ WF_vars(RejoinGoesOn)
  /\ WF_vars(chan.state = "left" /\ LeaveGoesOn)
  /\ \A k \in Refs : WF_vars(Task(k)) /\ WF_vars(Unwinds(k))

Spec == Init /\ [][Next]_vars /\ Fairness

-----------------------------------------------------------------------------
(* Properties *)

\* A joined channel has a processor that can take its messages.
JoinedIsServed == chan.state = "joined" => proc[Processor] \in {"waiting", "handling"}

\* Once leave() is done no callback runs and no processor is left, though the callback
\* may have called it, and may swallow its cancellation (_cleanup_subscription).
LeftIsSilent ==
  leave.pc = "done" => \A k \in Refs : ~Running(k) /\ proc[k] \in {"none", "ended"}

\* A message is handed over at most once, in the order of arrival, and only in the
\* membership it came in: a broadcast carries no join_ref that could tell.
HandedOver ==
  [][started' # started =>
       started' > started /\ Head(queue).at = chan.ref]_vars

\* A callback is cancelled only when its drain has timed out, when its channel ends
\* otherwise than by leave(), or when it called leave() itself (README.md 519).
GraceIsKept ==
  [][\A k \in Refs : cb'[k].stop /\ ~cb[k].stop =>
       \/ \E task \in {rejoin, leave} : task.pc = "draining" /\ task.of = k
       \/ chan.state = "left" /\ (chan.cause # "leave" \/ leave.initiator = k)]_vars

\* Every leave and every rejoin comes to an end, whatever the callback waits for.
TeardownEnds ==
  /\ leave.pc \notin {"none", "done"} ~> leave.pc = "done"
  /\ rejoin.pc \in {"draining", "cancelling", "stopping"}
       ~> rejoin.pc \notin {"draining", "cancelling", "stopping"}

Queued(i) == \E j \in 1..Len(queue) : queue[j].id = i

\* If callbacks come to an end, a message of a joined channel is handed over, or makes
\* room for later ones.
MessagesAreHandled ==
  (\A k \in Refs : []<>~Running(k)) =>
    \A i \in 1..MaxMsg : Queued(i) /\ chan.state = "joined"
                           ~> ~Queued(i) \/ chan.state # "joined"

=============================================================================
