--------------------------- MODULE DeliveryProofs ---------------------------
(***************************************************************************)
(* Proofs about the delivery of a channel's messages: the inductive        *)
(* invariant, its parts one lemma each, and the properties that follow     *)
(* from it for every capacity, number of messages and number of            *)
(* memberships.                                                            *)
(***************************************************************************)
EXTENDS Delivery, TLAPS

\* What waits is of the membership that chan.ref names, newer than what was handed
\* over, and in the order of arrival.
Queue ==
  /\ \A i \in 1..Len(queue) :
       queue[i].at = chan.ref /\ started < queue[i].id /\ queue[i].id <= routed
  /\ \A i, j \in 1..Len(queue) : i < j => queue[i].id < queue[j].id

\* The processors of former memberships have ended, those of later ones are not there.
Processors ==
  /\ proc[chan.ref] # "none"
  /\ \A k \in Refs : k < chan.ref => proc[k] = "ended"
  /\ \A k \in Refs : k > chan.ref => proc[k] = "none" /\ cb[k] = NoCallback

\* A callback runs only while its processor awaits it, and current names that one.
Callbacks ==
  /\ \A k \in Refs : Running(k) => proc[k] = "handling"
  /\ \A k \in Refs : proc[k] = "handling" <=> current = k

\* What a rejoin and a leave have done so far, and whom they wait for.
Teardown ==
  /\ rejoin.pc \in {"draining", "cancelling", "stopping"} =>
       chan.state \in {"lost", "left"} /\ chan.ref < MaxJoin
  /\ rejoin.pc \in {"draining", "cancelling"} => rejoin.of = chan.ref
  /\ leave.pc # "none" => chan.state = "left"
  /\ leave.pc \in {"draining", "cancelling"} => leave.of = chan.ref
  /\ leave.pc = "done" => proc[chan.ref] = "ended"

\* A channel that serves has a processor that nobody has told to stop.
Serving ==
  "cancel" \notin Env /\ chan.state \in {"joined", "rejoining"} =>
    /\ ~chan.restart /\ proc[chan.ref] \in {"waiting", "handling"}
    /\ ~cb[chan.ref].stop /\ cb[chan.ref].st # "cancelled"

\* The types of cb.
CallbackStates == {"none", "running", "leaving", "returned", "raised", "cancelled"}

CallbackTask == [st : CallbackStates, stop : BOOLEAN]

\* The inductive invariant.
IInv == TypeOK /\ Queue /\ Processors /\ Callbacks /\ Teardown /\ Serving

-----------------------------------------------------------------------------

\* A callback that is told to stop, or not, keeps its state.
LEMMA StopUpdate ==
  ASSUME NEW r \in CallbackTask, NEW v \in BOOLEAN
  PROVE  [r EXCEPT !.stop = v] = [st |-> r.st, stop |-> v]
BY DEF CallbackTask

\* A callback that comes to another state keeps what it was told.
LEMMA StateUpdate ==
  ASSUME NEW r \in CallbackTask, NEW v \in CallbackStates
  PROVE  [r EXCEPT !.st = v] = [st |-> v, stop |-> r.stop]
BY DEF CallbackTask

\* One callback is told to stop.
LEMMA ToldToStop ==
  ASSUME TypeOK, NEW k \in Refs, cb' = [cb EXCEPT ![k].stop = TRUE]
  PROVE  /\ cb' \in [Refs -> CallbackTask]
         /\ cb'[k] = [st |-> cb[k].st, stop |-> TRUE]
         /\ \A j \in Refs : j # k => cb'[j] = cb[j]
         /\ \A j \in Refs : cb'[j].st = cb[j].st
<1>1. cb \in [Refs -> CallbackTask]
  BY DEF TypeOK, CallbackTask, CallbackStates
<1>2. cb' = [cb EXCEPT ![k] = [cb[k] EXCEPT !.stop = TRUE]]
  OBVIOUS
<1>3. [cb[k] EXCEPT !.stop = TRUE] = [st |-> cb[k].st, stop |-> TRUE]
  BY <1>1, StopUpdate
<1> QED
  BY <1>1, <1>2, <1>3 DEF CallbackTask

\* One callback comes to another state.
LEMMA Ended ==
  ASSUME TypeOK, NEW k \in Refs, NEW st \in CallbackStates, cb' = [cb EXCEPT ![k].st = st]
  PROVE  /\ cb' \in [Refs -> CallbackTask]
         /\ cb'[k] = [st |-> st, stop |-> cb[k].stop]
         /\ \A j \in Refs : j # k => cb'[j] = cb[j]
<1>1. cb \in [Refs -> CallbackTask]
  BY DEF TypeOK, CallbackTask, CallbackStates
<1>2. cb' = [cb EXCEPT ![k] = [cb[k] EXCEPT !.st = st]]
  OBVIOUS
<1>3. [cb[k] EXCEPT !.st = st] = [st |-> st, stop |-> cb[k].stop]
  BY <1>1, StateUpdate
<1> QED
  BY <1>1, <1>2, <1>3 DEF CallbackTask, CallbackStates

\* What _stop_topic_task does, in either case: the callback that runs is told to stop, or
\* the processor ends.
LEMMA StopTopicTaskStops ==
  ASSUME TypeOK, Processors, Callbacks, StopTopicTask(Processor)
  PROVE  /\ cb' \in [Refs -> CallbackTask] /\ current' \in {0} \cup Refs
         /\ proc' \in [Refs -> {"none", "waiting", "handling", "ended"}]
         /\ \A k \in Refs : k # chan.ref => cb'[k] = cb[k] /\ proc'[k] = proc[k]
         /\ cb'[chan.ref].st = cb[chan.ref].st
         /\ proc'[chan.ref] \in {proc[chan.ref], "ended"} /\ proc'[chan.ref] # "none"
         /\ Callbacks'
         /\ cb' = cb \/ (Running(chan.ref) /\ current = chan.ref)
<1>1. chan.ref \in Refs
  BY DEF TypeOK
<1>2. CASE proc[chan.ref] = "handling" /\ Running(chan.ref)
  <2>1. cb' = [cb EXCEPT ![chan.ref].stop = TRUE] /\ UNCHANGED <<proc, current>>
    BY <1>2 DEF StopTopicTask, Processor
  <2>2. cb' \in [Refs -> CallbackTask] /\ \A j \in Refs : cb'[j].st = cb[j].st
    BY <1>1, <2>1, ToldToStop
  <2>3. \A j \in Refs : j # chan.ref => cb'[j] = cb[j]
    BY <1>1, <2>1, ToldToStop
  <2>4. Callbacks'
    BY <2>1, <2>2 DEF Callbacks, Running
  <2> QED
    BY <1>1, <1>2, <2>1, <2>2, <2>3, <2>4 DEF TypeOK, Processors, Callbacks
<1>3. CASE ~(proc[chan.ref] = "handling" /\ Running(chan.ref))
  <2>1. /\ proc' = [proc EXCEPT ![chan.ref] = "ended"] /\ UNCHANGED cb
        /\ current' = IF current = chan.ref THEN 0 ELSE current
    BY <1>1, <1>3 DEF StopTopicTask, Processor, Processors, TypeOK
  <2>2. Callbacks'
    BY <1>1, <1>3, <2>1 DEF Callbacks, Running, TypeOK, Refs
  <2> QED
    BY <1>1, <2>1, <2>2 DEF TypeOK, CallbackTask, CallbackStates
<1> QED
  BY <1>2, <1>3

\* The queue keeps its bound, and its order behind the message it may drop.
LEMMA Enqueues ==
  ASSUME DeliveryAssumption, NEW q \in Seq(Message), Len(q) <= Capacity, NEW m \in Message
  PROVE  /\ Enqueued(q, m) \in Seq(Message)
         /\ Len(Enqueued(q, m)) \in 1..Capacity
         /\ Enqueued(q, m)[Len(Enqueued(q, m))] = m
         /\ \/ \A i \in 1..Len(Enqueued(q, m)) - 1 : i \in 1..Len(q) /\ Enqueued(q, m)[i] = q[i]
            \/ \A i \in 1..Len(Enqueued(q, m)) - 1 :
                 i + 1 \in 1..Len(q) /\ Enqueued(q, m)[i] = q[i + 1]
<1>1. CASE Len(q) = Capacity
  <2>1. /\ Tail(q) \in Seq(Message) /\ Len(Tail(q)) = Capacity - 1
        /\ \A i \in 1..Capacity - 1 : Tail(q)[i] = q[i + 1]
    BY <1>1 DEF DeliveryAssumption
  <2>2. Enqueued(q, m) = Append(Tail(q), m)
    BY <1>1 DEF Enqueued
  <2> QED
    BY <1>1, <2>1, <2>2 DEF DeliveryAssumption
<1>2. CASE Len(q) # Capacity
  BY <1>2 DEF Enqueued, DeliveryAssumption
<1> QED
  BY <1>1, <1>2

\* _start_leave_task leaves the channel.
LEMMA StartLeaveLeaves ==
  ASSUME TypeOK, Teardown, NEW initiator \in {0} \cup Refs, StartLeave(initiator)
  PROVE  /\ chan' \in [state : {"left"}, ref : {chan.ref}, restart : {chan.restart},
                       cause : {"none", "loss", "close", "stop", "leave"}]
         /\ leave' = [pc |-> "sending", of |-> 0, initiator |-> initiator]
         /\ leave.pc = "none"
         /\ rejoin' \in [pc : {rejoin.pc, "idle"}, of : {rejoin.of}, by : {rejoin.by}]
<1>1. CASE chan.state = "left"
  BY <1>1 DEF StartLeave, TypeOK
<1>2. CASE chan.state # "left"
  <2>1. /\ chan' = [chan EXCEPT !.state = "left", !.cause = "leave"]
        /\ rejoin' = IF rejoin.pc = "joining" THEN [rejoin EXCEPT !.pc = "idle"] ELSE rejoin
        /\ leave' = [pc |-> "sending", of |-> 0, initiator |-> initiator] /\ leave.pc = "none"
    BY <1>2 DEF StartLeave, Left
  <2>2. chan' \in [state : {"left"}, ref : {chan.ref}, restart : {chan.restart},
                   cause : {"none", "loss", "close", "stop", "leave"}]
    BY <2>1 DEF TypeOK
  <2>3. rejoin' \in [pc : {rejoin.pc, "idle"}, of : {rejoin.of}, by : {rejoin.by}]
    BY <2>1 DEF TypeOK
  <2> QED
    BY <2>1, <2>2, <2>3
<1> QED
  BY <1>1, <1>2

\* leave() by a callback, which then waits.
LEMMA CallbackLeavesToo ==
  ASSUME TypeOK, Teardown, NEW k \in Refs, CallbackLeaves(k)
  PROVE  /\ cb' \in [Refs -> CallbackTask] /\ cb'[k] = [st |-> "leaving", stop |-> cb[k].stop]
         /\ \A j \in Refs : j # k => cb'[j] = cb[j]
         /\ cb[k].st = "running" /\ ~cb[k].stop
         /\ UNCHANGED <<queue, routed, started, proc, current>>
         /\ \/ \E initiator \in {0} \cup Refs : StartLeave(initiator)
            \/ UNCHANGED <<chan, rejoin, leave>>
<1>1. "leaving" \in CallbackStates
  BY DEF CallbackStates
<1> QED
  BY <1>1, Ended DEF CallbackLeaves

\* Only the callback of the newest processor runs.
LEMMA CurrentIsNewest ==
  ASSUME IInv, DeliveryAssumption
  PROVE  /\ chan.ref \in Refs
         /\ \A k \in Refs : proc[k] = "handling" => k = chan.ref
         /\ current \in {0, chan.ref}
<1>1. chan.ref \in Refs /\ current \in {0} \cup Refs
  BY DEF IInv, TypeOK
<1>2. \A k \in Refs : proc[k] = "handling" => ~(k < chan.ref) /\ ~(k > chan.ref)
  BY DEF IInv, Processors
<1>3. \A k \in Refs : proc[k] = "handling" => k = chan.ref
  BY <1>1, <1>2 DEF DeliveryAssumption, Refs
<1> QED
  BY <1>1, <1>3 DEF IInv, Callbacks

-----------------------------------------------------------------------------

\* Every step keeps the types.
LEMMA TypeKept ==
  ASSUME IInv, [Next]_vars
  PROVE  TypeOK'
<1> USE DeliveryAssumption DEF Refs
<1>1. CASE Route
  <2>1. PICK broadcast \in BOOLEAN :
          queue' = Enqueued(queue, [id |-> routed + 1, at |-> chan.ref,
                                    broadcast |-> broadcast])
    BY <1>1 DEF Route
  <2>2. [id |-> routed + 1, at |-> chan.ref, broadcast |-> broadcast] \in Message
    BY <1>1 DEF Route, Message, IInv, TypeOK
  <2>3. queue' \in Seq(Message) /\ Len(queue') <= Capacity
    BY <2>1, <2>2, Enqueues DEF IInv, TypeOK
  <2> QED
    BY <1>1, <2>3 DEF Route, IInv, TypeOK
<1>2. CASE Lose
  BY <1>2 DEF IInv, Lose, Message, Queue, Teardown, TypeOK
<1>3. CASE Close
  BY <1>3 DEF Close, IInv, Left, Message, Queue, Teardown, TypeOK
<1>4. CASE Stop
  BY <1>4 DEF IInv, Left, Message, Queue, Stop, Teardown, TypeOK
<1>5. CASE RejoinStarts
  <2>1. chan' \in [state : {"joined", "lost", "rejoining", "left"}, ref : Refs,
                    cause : {"none", "loss", "close", "stop", "leave"}, restart : BOOLEAN]
    BY <1>5 DEF RejoinStarts, IInv, TypeOK
  <2>2. CASE MustDrain
    BY <1>5, <2>1, <2>2 DEF RejoinStarts, IInv, TypeOK
  <2>3. CASE ~MustDrain
    <3>1. StopTopicTask(Processor)
      BY <1>5, <2>3 DEF RejoinStarts
    <3> QED
      BY <1>5, <2>1, <2>3, <3>1, StopTopicTaskStops
      DEF RejoinStarts, IInv, TypeOK, CallbackTask, CallbackStates
  <2> QED
    BY <2>2, <2>3
<1>6. CASE RejoinTimesOut
  <2>1. rejoin.of \in Refs
    BY <1>6 DEF RejoinTimesOut, TimesOut, IInv, TypeOK, Teardown
  <2>2. cb' \in [Refs -> CallbackTask]
    BY <1>6, <2>1, ToldToStop DEF RejoinTimesOut, IInv
  <2>3. rejoin' \in [pc : {"idle", "draining", "cancelling", "stopping", "joining"},
                      of : {0} \cup Refs, by : {"supervisor", "recovery"}]
    BY <1>6 DEF RejoinTimesOut, IInv, TypeOK
  <2>4. UNCHANGED <<chan, queue, routed, started, proc, current, leave>>
    BY <1>6 DEF RejoinTimesOut
  <2> QED
    BY <2>2, <2>3, <2>4 DEF IInv, TypeOK, CallbackTask, CallbackStates
<1>7. CASE RejoinStops
  <2>1. rejoin' \in [pc : {"idle", "draining", "cancelling", "stopping", "joining"},
                      of : {0} \cup Refs, by : {"supervisor", "recovery"}]
    BY <1>7 DEF RejoinStops, IInv, TypeOK
  <2>2. StopTopicTask(Processor) /\ UNCHANGED <<chan, queue, routed, started, leave>>
    BY <1>7 DEF RejoinStops
  <2>3. /\ cb' \in [Refs -> CallbackTask] /\ current' \in {0} \cup Refs
        /\ proc' \in [Refs -> {"none", "waiting", "handling", "ended"}]
    BY <2>2, StopTopicTaskStops DEF IInv
  <2> QED
    BY <2>1, <2>2, <2>3 DEF IInv, TypeOK, CallbackTask, CallbackStates
<1>8. CASE Restart
  <2>1. CASE ShouldRejoin
    <3>1. chan.ref + 1 \in Refs
      BY <1>8 DEF Restart, IInv, TypeOK, Teardown
    <3>2. chan' \in [state : {"joined", "lost", "rejoining", "left"}, ref : Refs,
                      cause : {"none", "loss", "close", "stop", "leave"}, restart : BOOLEAN]
      <4>1. chan' = [state |-> "rejoining", ref |-> chan.ref + 1, cause |-> "none",
                     restart |-> FALSE]
        BY <1>8, <2>1 DEF Restart
      <4> QED
        BY <3>1, <4>1
    <3>3. proc' \in [Refs -> {"none", "waiting", "handling", "ended"}]
      BY <1>8, <2>1, <3>1 DEF Restart, IInv, TypeOK
    <3>4. queue' \in Seq(Message) /\ Len(queue') <= Capacity
      BY <1>8, <2>1 DEF Restart, Drained
    <3> QED
      BY <1>8, <2>1, <3>2, <3>3, <3>4 DEF Restart, IInv, TypeOK
  <2>2. CASE ~ShouldRejoin
    BY <1>8, <2>2 DEF Restart, IInv, TypeOK
  <2> QED
    BY <2>1, <2>2
<1>9. CASE Accept
  BY <1>9 DEF Accept, IInv, Message, Queue, Teardown, TypeOK
<1>10. CASE RejoinCancelled
  <2>1. rejoin' \in [pc : {"idle", "draining", "cancelling", "stopping", "joining"},
                      of : {0} \cup Refs, by : {"supervisor", "recovery"}]
    BY <1>10 DEF RejoinCancelled, IInv, TypeOK
  <2>2. UNCHANGED <<chan, queue, routed, started, proc, cb, current, leave>>
    BY <1>10 DEF RejoinCancelled
  <2> QED
    BY <2>1, <2>2 DEF IInv, TypeOK
<1>11. CASE LeaveStarts
  BY <1>11, StartLeaveLeaves DEF LeaveStarts, IInv, TypeOK
<1>12. CASE LeaveCleansUp
  <2>1. rejoin' \in [pc : {"idle", "draining", "cancelling", "stopping", "joining"},
                      of : {0} \cup Refs, by : {"supervisor", "recovery"}]
    BY <1>12 DEF LeaveCleansUp, IInv, TypeOK
  <2>2. leave' \in [pc : {"none", "sending", "draining", "cancelling", "stopping", "done"},
                     of : {0} \cup Refs, initiator : {0} \cup Refs]
    <3>1. CASE Drains
      BY <1>12, <3>1 DEF LeaveCleansUp, IInv, TypeOK
    <3>2. CASE ~Drains
      BY <1>12, <3>2 DEF LeaveCleansUp, IInv, TypeOK
    <3> QED
      BY <3>1, <3>2
  <2>3. /\ cb' \in [Refs -> CallbackTask] /\ current' \in {0} \cup Refs
        /\ proc' \in [Refs -> {"none", "waiting", "handling", "ended"}]
    <3>1. CASE Drains
      BY <1>12, <3>1 DEF LeaveCleansUp, IInv, TypeOK, CallbackTask, CallbackStates
    <3>2. CASE ~Drains
      <4>1. StopTopicTask(Processor)
        BY <1>12, <3>2 DEF LeaveCleansUp
      <4> QED
        BY <4>1, StopTopicTaskStops DEF IInv
    <3> QED
      BY <3>1, <3>2
  <2>4. UNCHANGED <<chan, queue, routed, started>>
    BY <1>12 DEF LeaveCleansUp
  <2> QED
    BY <2>1, <2>2, <2>3, <2>4 DEF IInv, TypeOK, CallbackTask, CallbackStates
<1>13. CASE LeaveTimesOut
  <2>1. leave.of \in Refs
    BY <1>13 DEF LeaveTimesOut, TimesOut, IInv, TypeOK, Teardown
  <2>2. cb' \in [Refs -> CallbackTask]
    BY <1>13, <2>1, ToldToStop DEF LeaveTimesOut, IInv
  <2>3. leave' \in [pc : {"none", "sending", "draining", "cancelling", "stopping", "done"},
                     of : {0} \cup Refs, initiator : {0} \cup Refs]
    BY <1>13 DEF LeaveTimesOut, IInv, TypeOK
  <2>4. UNCHANGED <<chan, queue, routed, started, proc, current, rejoin>>
    BY <1>13 DEF LeaveTimesOut
  <2> QED
    BY <2>2, <2>3, <2>4 DEF IInv, TypeOK, CallbackTask, CallbackStates
<1>14. CASE LeaveStops
  <2>1. leave' \in [pc : {"none", "sending", "draining", "cancelling", "stopping", "done"},
                     of : {0} \cup Refs, initiator : {0} \cup Refs]
    BY <1>14 DEF LeaveStops, IInv, TypeOK
  <2>2. StopTopicTask(Processor) /\ UNCHANGED <<chan, queue, routed, started, rejoin>>
    BY <1>14 DEF LeaveStops
  <2>3. /\ cb' \in [Refs -> CallbackTask] /\ current' \in {0} \cup Refs
        /\ proc' \in [Refs -> {"none", "waiting", "handling", "ended"}]
    BY <2>2, StopTopicTaskStops DEF IInv
  <2> QED
    BY <2>1, <2>2, <2>3 DEF IInv, TypeOK, CallbackTask, CallbackStates
<1>15. CASE LeaveEnds
  BY <1>15 DEF IInv, LeaveEnds, Message, Processor, Queue, Stopped, Teardown, TypeOK
<1>16. ASSUME NEW k \in Refs, Skip(k) PROVE TypeOK'
  BY <1>16 DEF IInv, IsStale, Loop, Message, Queue, Skip, Teardown, TypeOK
<1>17. ASSUME NEW k \in Refs, Handle(k) PROVE TypeOK'
  <2>1. queue[1] \in Message /\ Head(queue) = queue[1] /\ queue[1].id <= routed
    BY <1>17 DEF Handle, IInv, TypeOK, Queue
  <2>2. cb' \in [Refs -> CallbackTask]
    BY <1>17 DEF Handle, IInv, TypeOK, CallbackTask, CallbackStates
  <2>3. started' \in 0..routed
    BY <1>17, <2>1 DEF Handle, IInv, TypeOK, Message
  <2>4. queue' \in Seq(Message) /\ Len(queue') <= Capacity
    BY <1>17 DEF Handle, IInv, TypeOK
  <2> QED
    BY <1>17, <2>2, <2>3, <2>4 DEF Handle, IInv, TypeOK, CallbackTask, CallbackStates
<1>18. ASSUME NEW k \in Refs, Resume(k) PROVE TypeOK'
  BY <1>18 DEF EndsWith, IInv, Loop, Message, Queue, Resume, Running, Teardown, TypeOK
<1>19. ASSUME NEW k \in Refs, Returns(k) PROVE TypeOK'
  <2>1. PICK how \in CallbackStates : cb' = [cb EXCEPT ![k].st = how]
    BY <1>19 DEF Returns, CallbackStates
  <2>2. cb' \in [Refs -> CallbackTask]
    BY <2>1, Ended DEF IInv
  <2>3. UNCHANGED <<chan, queue, routed, started, proc, current, rejoin, leave>>
    BY <1>19 DEF Returns
  <2> QED
    BY <2>2, <2>3 DEF IInv, TypeOK, CallbackTask, CallbackStates
<1>20. ASSUME NEW k \in Refs, Unwinds(k) PROVE TypeOK'
  <2>1. PICK how \in CallbackStates : cb' = [cb EXCEPT ![k].st = how]
    BY <1>20 DEF Unwinds, CallbackStates
  <2>2. cb' \in [Refs -> CallbackTask]
    BY <2>1, Ended DEF IInv
  <2>3. UNCHANGED <<chan, queue, routed, started, proc, current, rejoin, leave>>
    BY <1>20 DEF Unwinds
  <2> QED
    BY <2>2, <2>3 DEF IInv, TypeOK, CallbackTask, CallbackStates
<1>21. ASSUME NEW k \in Refs, CallbackLeaves(k) PROVE TypeOK'
  <2>1. /\ cb' \in [Refs -> CallbackTask] /\ cb'[k] = [st |-> "leaving", stop |-> cb[k].stop]
        /\ \A j \in Refs : j # k => cb'[j] = cb[j]
        /\ cb[k].st = "running" /\ ~cb[k].stop
    BY <1>21, CallbackLeavesToo DEF IInv
  <2>2. UNCHANGED <<queue, routed, started, proc, current>>
    BY <1>21 DEF CallbackLeaves
  <2>3. (\E initiator \in {0} \cup Refs : StartLeave(initiator))
          \/ UNCHANGED <<chan, rejoin, leave>>
    BY <1>21, CallbackLeavesToo DEF IInv
  <2>4. CASE \E initiator \in {0} \cup Refs : StartLeave(initiator)
    BY <2>1, <2>2, <2>4, StartLeaveLeaves DEF IInv, TypeOK, CallbackTask, CallbackStates
  <2>5. CASE UNCHANGED <<chan, rejoin, leave>>
    BY <2>1, <2>2, <2>5 DEF IInv, TypeOK, CallbackTask, CallbackStates
  <2> QED
    BY <2>3, <2>4, <2>5
<1>22. CASE UNCHANGED vars
  BY <1>22 DEF vars, IInv, TypeOK, Message, Queue, Teardown
<1> QED
  BY <1>1, <1>2, <1>3, <1>4, <1>5, <1>6, <1>7, <1>8, <1>9, <1>10, <1>11, <1>12,
     <1>13, <1>14, <1>15, <1>16, <1>17, <1>18, <1>19, <1>20, <1>21, <1>22
  DEF Next, RejoinGoesOn, LeaveGoesOn, Task, Callback

\* The queue holds the later messages of the membership, in order.
LEMMA QueueKept ==
  ASSUME IInv, [Next]_vars
  PROVE  Queue'
<1> USE DeliveryAssumption DEF Refs
<1>1. CASE Route
  <2>1. PICK broadcast \in BOOLEAN :
          queue' = Enqueued(queue, [id |-> routed + 1, at |-> chan.ref,
                                    broadcast |-> broadcast])
    BY <1>1 DEF Route
  <2> DEFINE m == [id |-> routed + 1, at |-> chan.ref, broadcast |-> broadcast]
  <2>2. m \in Message /\ m.id = routed + 1 /\ m.at = chan.ref
    BY <1>1 DEF Route, Message, IInv, TypeOK
  <2>3. /\ queue' = Enqueued(queue, m) /\ routed' = routed + 1
        /\ chan' = chan /\ started' = started /\ started <= routed
    BY <1>1, <2>1 DEF Route, IInv, TypeOK
  <2> HIDE DEF m
  <2>4. /\ Enqueued(queue, m)[Len(Enqueued(queue, m))] = m
        /\ Enqueued(queue, m) \in Seq(Message)
        /\ \/ \A i \in 1..Len(Enqueued(queue, m)) - 1 :
                i \in 1..Len(queue) /\ Enqueued(queue, m)[i] = queue[i]
           \/ \A i \in 1..Len(Enqueued(queue, m)) - 1 :
                i + 1 \in 1..Len(queue) /\ Enqueued(queue, m)[i] = queue[i + 1]
    <3>1. queue \in Seq(Message) /\ Len(queue) <= Capacity
      BY DEF IInv, TypeOK
    <3> QED
      BY <2>2, <3>1, Enqueues
  <2>5. /\ queue'[Len(queue')] = m /\ queue' \in Seq(Message) /\ Len(queue') \in Nat
        /\ \/ \A i \in 1..Len(queue') - 1 : i \in 1..Len(queue) /\ queue'[i] = queue[i]
           \/ \A i \in 1..Len(queue') - 1 : i + 1 \in 1..Len(queue) /\ queue'[i] = queue[i + 1]
    BY <2>3, <2>4
  <2>6. \A i \in 1..Len(queue') - 1 :
          queue'[i].at = chan.ref /\ started < queue'[i].id /\ queue'[i].id <= routed
    <3>1. TAKE i \in 1..Len(queue') - 1
    <3>2. \E j \in 1..Len(queue) : queue'[i] = queue[j]
      BY <2>5
    <3> QED
      BY <3>2 DEF IInv, Queue
  <2>7. \A i, j \in 1..Len(queue') - 1 : i < j => queue'[i].id < queue'[j].id
    <3>1. SUFFICES ASSUME NEW i \in 1..Len(queue') - 1, NEW j \in 1..Len(queue') - 1, i < j
                   PROVE  queue'[i].id < queue'[j].id
      OBVIOUS
    <3>2. \E a, b \in 1..Len(queue) : a < b /\ queue'[i] = queue[a] /\ queue'[j] = queue[b]
      <4>1. CASE \A n \in 1..Len(queue') - 1 : n \in 1..Len(queue) /\ queue'[n] = queue[n]
        BY <3>1, <4>1
      <4>2. CASE \A n \in 1..Len(queue') - 1 : n + 1 \in 1..Len(queue) /\ queue'[n] = queue[n + 1]
        <5>1. i + 1 < j + 1
          BY <2>5, <3>1
        <5> QED
          BY <4>2, <5>1
      <4> QED
        BY <2>5, <4>1, <4>2
    <3> QED
      BY <3>2 DEF IInv, Queue
  <2>8. /\ \A i \in 1..Len(queue') : i = Len(queue') \/ i \in 1..Len(queue') - 1
        /\ \A i \in 1..Len(queue') : queue'[i].id \in Nat
        /\ routed \in Nat /\ started \in Nat
    <3>1. \A i \in 1..Len(queue') : queue'[i] \in Message
      BY <2>5
    <3>2. \A i \in 1..Len(queue') : queue'[i].id \in 1..MaxMsg
      BY <3>1 DEF Message
    <3>3. routed \in Nat /\ started \in Nat
      BY DEF IInv, TypeOK
    <3>4. \A i \in 1..Len(queue') : i = Len(queue') \/ i \in 1..Len(queue') - 1
      BY <2>5
    <3> QED
      BY <3>2, <3>3, <3>4
  <2>9. \A i \in 1..Len(queue') :
          queue'[i].at = chan.ref /\ started < queue'[i].id /\ queue'[i].id <= routed + 1
    <3>1. TAKE i \in 1..Len(queue')
    <3>2. CASE i = Len(queue')
      <4>1. queue'[i] = m
        BY <2>5, <3>2
      <4>2. started < routed + 1
        BY <2>3, <2>8
      <4> QED
        BY <2>2, <2>8, <4>1, <4>2
    <3>3. CASE i \in 1..Len(queue') - 1
      <4>1. queue'[i].at = chan.ref /\ started < queue'[i].id /\ queue'[i].id <= routed
        BY <2>6, <3>3
      <4>2. queue'[i].id \in Nat
        BY <2>8, <3>1
      <4> QED
        BY <2>8, <4>1, <4>2
    <3> QED
      BY <2>8, <3>2, <3>3
  <2>10. \A i, j \in 1..Len(queue') : i < j => queue'[i].id < queue'[j].id
    <3>1. SUFFICES ASSUME NEW i \in 1..Len(queue'), NEW j \in 1..Len(queue'), i < j
                   PROVE  queue'[i].id < queue'[j].id
      OBVIOUS
    <3>2. i \in 1..Len(queue') - 1
      BY <2>5, <3>1
    <3>3. CASE j = Len(queue')
      <4>1. queue'[j].id = routed + 1
        BY <2>2, <2>5, <3>3
      <4>2. queue'[i].id <= routed /\ queue'[i].id \in Nat
        BY <2>6, <2>8, <3>1, <3>2
      <4> QED
        BY <2>8, <4>1, <4>2
    <3>4. CASE j \in 1..Len(queue') - 1
      BY <2>7, <3>1, <3>2, <3>4
    <3> QED
      BY <2>8, <3>3, <3>4
  <2> QED
    BY <2>3, <2>9, <2>10 DEF Queue
<1>2. CASE Lose
  BY <1>2 DEF IInv, Lose, Message, Queue, TypeOK
<1>3. CASE Close
  BY <1>3 DEF Close, IInv, Left, Message, Queue, TypeOK
<1>4. CASE Stop
  BY <1>4 DEF IInv, Left, Message, Queue, Stop, TypeOK
<1>5. CASE RejoinStarts
  BY <1>5 DEF IInv, Message, MustDrain, Processor, Queue, RejoinStarts, Running,
          StopTopicTask, TypeOK
<1>6. CASE RejoinTimesOut
  BY <1>6 DEF IInv, Message, Queue, RejoinTimesOut, Running, TimesOut, TypeOK
<1>7. CASE RejoinStops
  BY <1>7 DEF IInv, Message, Processor, Queue, RejoinStops, Running, StopTopicTask, TypeOK
<1>8. CASE Restart
  <2>1. CASE ShouldRejoin
    BY <1>8, <2>1 DEF Restart, Drained, Queue
  <2>2. CASE ~ShouldRejoin
    BY <1>8, <2>2 DEF Restart, IInv, Queue
  <2> QED
    BY <2>1, <2>2
<1>9. CASE Accept
  BY <1>9 DEF Accept, IInv, Message, Queue, TypeOK
<1>10. CASE RejoinCancelled
  BY <1>10 DEF IInv, Message, Queue, RejoinCancelled, TypeOK
<1>11. CASE LeaveStarts
  BY <1>11, StartLeaveLeaves DEF LeaveStarts, IInv, Queue
<1>12. CASE LeaveCleansUp
  BY <1>12 DEF Drains, IInv, LeaveCleansUp, Message, MustDrain, Processor, Queue, Running,
          StopTopicTask, TypeOK
<1>13. CASE LeaveTimesOut
  BY <1>13 DEF IInv, LeaveTimesOut, Message, Queue, Running, TimesOut, TypeOK
<1>14. CASE LeaveStops
  BY <1>14 DEF IInv, LeaveStops, Message, Processor, Queue, Running, StopTopicTask, TypeOK
<1>15. CASE LeaveEnds
  BY <1>15 DEF IInv, LeaveEnds, Message, Processor, Queue, Stopped, TypeOK
<1>16. ASSUME NEW k \in Refs, Skip(k) PROVE Queue'
  BY <1>16 DEF IInv, IsStale, Loop, Message, Queue, Skip, TypeOK
<1>17. ASSUME NEW k \in Refs, Handle(k) PROVE Queue'
  <2>1. /\ queue' = Tail(queue) /\ queue # <<>> /\ started' = Head(queue).id
        /\ UNCHANGED <<chan, routed>>
    BY <1>17 DEF Handle
  <2>2. /\ Len(queue) \in Nat \ {0} /\ Len(queue') = Len(queue) - 1 /\ Head(queue) = queue[1]
        /\ \A i \in 1..Len(queue') : queue'[i] = queue[i + 1] /\ i + 1 \in 1..Len(queue)
    BY <2>1 DEF IInv, TypeOK
  <2>3. \A i \in 1..Len(queue') : queue[1].id < queue[i + 1].id
    BY <2>2 DEF IInv, Queue
  <2> QED
    BY <2>1, <2>2, <2>3 DEF IInv, Queue
<1>18. ASSUME NEW k \in Refs, Resume(k) PROVE Queue'
  BY <1>18 DEF EndsWith, IInv, Loop, Message, Queue, Resume, Running, TypeOK
<1>19. ASSUME NEW k \in Refs, Returns(k) PROVE Queue'
  BY <1>19 DEF IInv, Message, Queue, Returns, TypeOK
<1>20. ASSUME NEW k \in Refs, Unwinds(k) PROVE Queue'
  BY <1>20 DEF IInv, Message, Queue, Running, TypeOK, Unwinds
<1>21. ASSUME NEW k \in Refs, CallbackLeaves(k) PROVE Queue'
  <2>1. UNCHANGED <<queue, routed, started, proc, current>>
    BY <1>21 DEF CallbackLeaves
  <2>2. (\E initiator \in {0} \cup Refs : StartLeave(initiator))
          \/ UNCHANGED <<chan, rejoin, leave>>
    BY <1>21, CallbackLeavesToo DEF IInv
  <2>3. chan'.ref = chan.ref
    BY <2>2, StartLeaveLeaves DEF IInv
  <2> QED
    BY <2>1, <2>3 DEF IInv, Queue
<1>22. CASE UNCHANGED vars
  BY <1>22 DEF vars, IInv, TypeOK, Message, Queue
<1> QED
  BY <1>1, <1>2, <1>3, <1>4, <1>5, <1>6, <1>7, <1>8, <1>9, <1>10, <1>11, <1>12,
     <1>13, <1>14, <1>15, <1>16, <1>17, <1>18, <1>19, <1>20, <1>21, <1>22
  DEF Next, RejoinGoesOn, LeaveGoesOn, Task, Callback

\* A processor starts only when its predecessor has ended.
LEMMA ProcessorsKept ==
  ASSUME IInv, [Next]_vars
  PROVE  Processors'
<1> USE DeliveryAssumption DEF Refs
<1>1. CASE Route
  BY <1>1 DEF Callbacks, Enqueued, IInv, NoCallback, Processors, Route, TypeOK
<1>2. CASE Lose
  BY <1>2 DEF Callbacks, IInv, Lose, NoCallback, Processors, TypeOK
<1>3. CASE Close
  BY <1>3 DEF Callbacks, Close, IInv, Left, NoCallback, Processors, TypeOK
<1>4. CASE Stop
  BY <1>4 DEF Callbacks, IInv, Left, NoCallback, Processors, Stop, TypeOK
<1>5. CASE RejoinStarts
  <2>1. chan'.ref = chan.ref /\ chan.ref \in Refs
    BY <1>5 DEF RejoinStarts, IInv, TypeOK
  <2>2. CASE MustDrain
    BY <1>5, <2>1, <2>2 DEF RejoinStarts, IInv, TypeOK, Processors
  <2>3. CASE ~MustDrain
    <3>1. StopTopicTask(Processor)
      BY <1>5, <2>3 DEF RejoinStarts
    <3> QED
      BY <2>1, <3>1, StopTopicTaskStops DEF IInv, TypeOK, Processors
  <2> QED
    BY <2>2, <2>3
<1>6. CASE RejoinTimesOut
  <2>1. rejoin.of = chan.ref /\ chan.ref \in Refs
    BY <1>6 DEF RejoinTimesOut, TimesOut, IInv, TypeOK, Teardown
  <2>2. UNCHANGED <<chan, proc>> /\ \A j \in Refs : j # chan.ref => cb'[j] = cb[j]
    BY <1>6, <2>1, ToldToStop DEF RejoinTimesOut, IInv
  <2> QED
    BY <2>1, <2>2 DEF IInv, Processors
<1>7. CASE RejoinStops
  <2>1. chan' = chan /\ StopTopicTask(Processor)
    BY <1>7 DEF RejoinStops
  <2> QED
    BY <2>1, StopTopicTaskStops DEF IInv, TypeOK, Processors
<1>8. CASE Restart
  <2>1. CASE ShouldRejoin
    <3>1. /\ chan'.ref = chan.ref + 1 /\ proc' = [proc EXCEPT ![chan.ref + 1] = "waiting"]
          /\ cb' = cb /\ proc[chan.ref] = "ended"
      BY <1>8, <2>1 DEF Restart, Stopped, Processor
    <3>2. chan.ref \in Refs /\ chan.ref + 1 \in Refs
      BY <1>8 DEF Restart, IInv, TypeOK, Teardown
    <3> QED
      BY <3>1, <3>2 DEF IInv, TypeOK, Processors
  <2>2. CASE ~ShouldRejoin
    BY <1>8, <2>2 DEF Restart, IInv, Processors
  <2> QED
    BY <2>1, <2>2
<1>9. CASE Accept
  BY <1>9 DEF Accept, Callbacks, IInv, NoCallback, Processors, TypeOK
<1>10. CASE RejoinCancelled
  BY <1>10 DEF Callbacks, IInv, NoCallback, Processors, RejoinCancelled, TypeOK
<1>11. CASE LeaveStarts
  BY <1>11, StartLeaveLeaves DEF LeaveStarts, IInv, Processors
<1>12. CASE LeaveCleansUp
  <2>1. chan'.ref = chan.ref /\ chan.ref \in Refs
    BY <1>12 DEF LeaveCleansUp, IInv, TypeOK
  <2>2. CASE Drains
    BY <1>12, <2>1, <2>2 DEF LeaveCleansUp, IInv, TypeOK, Processors
  <2>3. CASE ~Drains
    <3>1. StopTopicTask(Processor)
      BY <1>12, <2>3 DEF LeaveCleansUp
    <3> QED
      BY <2>1, <3>1, StopTopicTaskStops DEF IInv, TypeOK, Processors
  <2> QED
    BY <2>2, <2>3
<1>13. CASE LeaveTimesOut
  <2>1. leave.of = chan.ref /\ chan.ref \in Refs
    BY <1>13 DEF LeaveTimesOut, TimesOut, IInv, TypeOK, Teardown
  <2>2. UNCHANGED <<chan, proc>> /\ \A j \in Refs : j # chan.ref => cb'[j] = cb[j]
    BY <1>13, <2>1, ToldToStop DEF LeaveTimesOut, IInv
  <2> QED
    BY <2>1, <2>2 DEF IInv, Processors
<1>14. CASE LeaveStops
  <2>1. chan' = chan /\ StopTopicTask(Processor)
    BY <1>14 DEF LeaveStops
  <2> QED
    BY <2>1, StopTopicTaskStops DEF IInv, TypeOK, Processors
<1>15. CASE LeaveEnds
  BY <1>15 DEF Callbacks, IInv, LeaveEnds, NoCallback, Processor, Processors, Stopped, TypeOK
<1>16. ASSUME NEW k \in Refs, Skip(k) PROVE Processors'
  BY <1>16 DEF Callbacks, IInv, IsStale, Loop, NoCallback, Processors, Skip, TypeOK
<1>17. ASSUME NEW k \in Refs, Handle(k) PROVE Processors'
  <2>1. /\ proc[k] = "waiting" /\ chan' = chan
        /\ proc' = [proc EXCEPT ![k] = "handling"]
        /\ cb' = [cb EXCEPT ![k] = [st |-> "running", stop |-> FALSE]]
    BY <1>17 DEF Handle
  <2>2. ~(k < chan.ref) /\ ~(k > chan.ref)
    BY <2>1 DEF IInv, Processors
  <2>3. \A j \in Refs : j # k => proc'[j] = proc[j] /\ cb'[j] = cb[j]
    BY <2>1 DEF IInv, TypeOK
  <2>4. proc'[k] = "handling" /\ chan.ref \in Refs
    BY <2>1 DEF IInv, TypeOK
  <2> QED
    BY <2>1, <2>2, <2>3, <2>4 DEF IInv, Processors
<1>18. ASSUME NEW k \in Refs, Resume(k) PROVE Processors'
  BY <1>18 DEF Callbacks, EndsWith, IInv, Loop, NoCallback, Processors, Resume, Running, TypeOK
<1>19. ASSUME NEW k \in Refs, Returns(k) PROVE Processors'
  <2>1. PICK how \in CallbackStates : cb' = [cb EXCEPT ![k].st = how]
    BY <1>19 DEF Returns, CallbackStates
  <2>2. ~(k > chan.ref)
    BY <1>19 DEF Returns, Running, IInv, Processors, NoCallback
  <2>3. \A j \in Refs : j # k => cb'[j] = cb[j]
    BY <2>1, Ended DEF IInv
  <2> QED
    BY <1>19, <2>2, <2>3 DEF Returns, IInv, Processors
<1>20. ASSUME NEW k \in Refs, Unwinds(k) PROVE Processors'
  <2>1. PICK how \in CallbackStates : cb' = [cb EXCEPT ![k].st = how]
    BY <1>20 DEF Unwinds, CallbackStates
  <2>2. ~(k > chan.ref)
    BY <1>20 DEF Unwinds, Running, IInv, Processors, NoCallback
  <2>3. \A j \in Refs : j # k => cb'[j] = cb[j]
    BY <2>1, Ended DEF IInv
  <2> QED
    BY <1>20, <2>2, <2>3 DEF Unwinds, IInv, Processors
<1>21. ASSUME NEW k \in Refs, CallbackLeaves(k) PROVE Processors'
  <2>1. UNCHANGED <<queue, routed, started, proc, current>>
    BY <1>21 DEF CallbackLeaves
  <2>2. (\E initiator \in {0} \cup Refs : StartLeave(initiator))
          \/ UNCHANGED <<chan, rejoin, leave>>
    BY <1>21, CallbackLeavesToo DEF IInv
  <2>3. chan'.ref = chan.ref
    BY <2>2, StartLeaveLeaves DEF IInv
  <2>4. /\ \A j \in Refs : j # k => cb'[j] = cb[j]
        /\ cb[k].st = "running"
    BY <1>21, CallbackLeavesToo DEF IInv
  <2>5. ~(k > chan.ref)
    BY <1>21, <2>4 DEF IInv, Processors, NoCallback
  <2> QED
    BY <2>1, <2>3, <2>4, <2>5 DEF IInv, Processors
<1>22. CASE UNCHANGED vars
  BY <1>22 DEF vars, IInv, TypeOK, Processors, Callbacks, NoCallback
<1> QED
  BY <1>1, <1>2, <1>3, <1>4, <1>5, <1>6, <1>7, <1>8, <1>9, <1>10, <1>11, <1>12,
     <1>13, <1>14, <1>15, <1>16, <1>17, <1>18, <1>19, <1>20, <1>21, <1>22
  DEF Next, RejoinGoesOn, LeaveGoesOn, Task, Callback

\* A callback runs only under the processor that awaits it.
LEMMA CallbacksKept ==
  ASSUME IInv, [Next]_vars
  PROVE  Callbacks'
<1> USE DeliveryAssumption DEF Refs
<1>1. CASE Route
  BY <1>1 DEF Callbacks, Enqueued, IInv, NoCallback, Processors, Route, Running, TypeOK
<1>2. CASE Lose
  BY <1>2 DEF Callbacks, IInv, Lose, NoCallback, Processors, Running, TypeOK
<1>3. CASE Close
  BY <1>3 DEF Callbacks, Close, IInv, Left, NoCallback, Processors, Running, TypeOK
<1>4. CASE Stop
  BY <1>4 DEF Callbacks, IInv, Left, NoCallback, Processors, Running, Stop, TypeOK
<1>5. CASE RejoinStarts
  <2>1. chan'.ref = chan.ref /\ chan.ref \in Refs
    BY <1>5 DEF RejoinStarts, IInv, TypeOK
  <2>2. CASE MustDrain
    BY <1>5, <2>1, <2>2 DEF RejoinStarts, IInv, TypeOK, Callbacks, Running
  <2>3. CASE ~MustDrain
    <3>1. StopTopicTask(Processor)
      BY <1>5, <2>3 DEF RejoinStarts
    <3> QED
      BY <2>1, <3>1, StopTopicTaskStops DEF IInv
  <2> QED
    BY <2>2, <2>3
<1>6. CASE RejoinTimesOut
  BY <1>6 DEF Callbacks, IInv, NoCallback, Processors, RejoinTimesOut, Running, TimesOut,
          TypeOK
<1>7. CASE RejoinStops
  BY <1>7, StopTopicTaskStops DEF RejoinStops, IInv
<1>8. CASE Restart
  <2>1. CASE ShouldRejoin
    <3>1. /\ proc' = [proc EXCEPT ![chan.ref + 1] = "waiting"]
          /\ cb' = cb /\ current' = current
      BY <1>8, <2>1 DEF Restart
    <3>2. chan.ref \in Refs /\ chan.ref + 1 \in Refs
      BY <1>8 DEF Restart, IInv, TypeOK, Teardown
    <3>3. proc[chan.ref + 1] = "none" /\ ~Running(chan.ref + 1)
      BY <3>2 DEF IInv, Processors, NoCallback, Running
    <3> QED
      BY <3>1, <3>2, <3>3 DEF IInv, TypeOK, Callbacks, Running
  <2>2. CASE ~ShouldRejoin
    BY <1>8, <2>2 DEF Restart, IInv, Callbacks, Running
  <2> QED
    BY <2>1, <2>2
<1>9. CASE Accept
  BY <1>9 DEF Accept, Callbacks, IInv, NoCallback, Processors, Running, TypeOK
<1>10. CASE RejoinCancelled
  BY <1>10 DEF Callbacks, IInv, NoCallback, Processors, RejoinCancelled, Running, TypeOK
<1>11. CASE LeaveStarts
  BY <1>11 DEF LeaveStarts, IInv, Callbacks, Running
<1>12. CASE LeaveCleansUp
  <2>1. chan'.ref = chan.ref /\ chan.ref \in Refs
    BY <1>12 DEF LeaveCleansUp, IInv, TypeOK
  <2>2. CASE Drains
    BY <1>12, <2>1, <2>2 DEF LeaveCleansUp, IInv, TypeOK, Callbacks, Running
  <2>3. CASE ~Drains
    <3>1. StopTopicTask(Processor)
      BY <1>12, <2>3 DEF LeaveCleansUp
    <3> QED
      BY <2>1, <3>1, StopTopicTaskStops DEF IInv
  <2> QED
    BY <2>2, <2>3
<1>13. CASE LeaveTimesOut
  BY <1>13 DEF Callbacks, IInv, LeaveTimesOut, NoCallback, Processors, Running, TimesOut,
          TypeOK
<1>14. CASE LeaveStops
  BY <1>14, StopTopicTaskStops DEF LeaveStops, IInv
<1>15. CASE LeaveEnds
  BY <1>15 DEF Callbacks, IInv, LeaveEnds, NoCallback, Processor, Processors, Running,
          Stopped, TypeOK
<1>16. ASSUME NEW k \in Refs, Skip(k) PROVE Callbacks'
  BY <1>16 DEF Callbacks, IInv, IsStale, Loop, NoCallback, Processors, Running, Skip, TypeOK
<1>17. ASSUME NEW k \in Refs, Handle(k) PROVE Callbacks'
  <2>1. \A j \in Refs : proc[j] = "handling" => j = chan.ref
    BY CurrentIsNewest
  <2>2. cb' = [cb EXCEPT ![k] = [st |-> "running", stop |-> FALSE]] /\ current' = k
    BY <1>17 DEF Handle
  <2>3. proc' = [proc EXCEPT ![k] = "handling"]
    BY <1>17 DEF Handle
  <2>4. \A j \in Refs : j # k => proc[j] # "handling"
    <3>1. proc[k] = "waiting" /\ k \in Refs /\ proc[chan.ref] # "none"
      BY <1>17 DEF Handle, IInv, Processors
    <3>2. ~(k < chan.ref) /\ ~(k > chan.ref)
      BY <3>1 DEF IInv, Processors
    <3>3. k = chan.ref
      BY <3>1, <3>2, CurrentIsNewest
    <3> QED
      BY <2>1, <3>1, <3>3
  <2> QED
    BY <2>2, <2>3, <2>4 DEF IInv, TypeOK, Callbacks, Running
<1>18. ASSUME NEW k \in Refs, Resume(k) PROVE Callbacks'
  BY <1>18 DEF Callbacks, EndsWith, IInv, Loop, NoCallback, Processors, Resume, Running, TypeOK
<1>19. ASSUME NEW k \in Refs, Returns(k) PROVE Callbacks'
  BY <1>19 DEF Callbacks, IInv, NoCallback, Processors, Returns, Running, TypeOK
<1>20. ASSUME NEW k \in Refs, Unwinds(k) PROVE Callbacks'
  BY <1>20 DEF Callbacks, IInv, NoCallback, Processors, Running, TypeOK, Unwinds
<1>21. ASSUME NEW k \in Refs, CallbackLeaves(k) PROVE Callbacks'
  BY <1>21, CallbackLeavesToo DEF IInv, Callbacks, Running
<1>22. CASE UNCHANGED vars
  BY <1>22 DEF vars, IInv, TypeOK, Processors, Callbacks, Running, NoCallback
<1> QED
  BY <1>1, <1>2, <1>3, <1>4, <1>5, <1>6, <1>7, <1>8, <1>9, <1>10, <1>11, <1>12,
     <1>13, <1>14, <1>15, <1>16, <1>17, <1>18, <1>19, <1>20, <1>21, <1>22
  DEF Next, RejoinGoesOn, LeaveGoesOn, Task, Callback

\* What is torn down is not joined, and stays down.
LEMMA TeardownKept ==
  ASSUME IInv, [Next]_vars
  PROVE  Teardown'
<1> USE DeliveryAssumption DEF Refs
<1>1. CASE Route
  BY <1>1 DEF Callbacks, Enqueued, IInv, Processors, Route, Teardown, TypeOK
<1>2. CASE Lose
  BY <1>2 DEF Callbacks, IInv, Lose, Processors, Teardown, TypeOK
<1>3. CASE Close
  BY <1>3 DEF Callbacks, Close, IInv, Left, Processors, Teardown, TypeOK
<1>4. CASE Stop
  BY <1>4 DEF Callbacks, IInv, Left, Processors, Stop, Teardown, TypeOK
<1>5. CASE RejoinStarts
  BY <1>5 DEF Callbacks, IInv, MustDrain, Processor, Processors, RejoinStarts, Running,
          StopTopicTask, Teardown, TypeOK
<1>6. CASE RejoinTimesOut
  BY <1>6 DEF Callbacks, IInv, Processors, RejoinTimesOut, Running, Teardown, TimesOut, TypeOK
<1>7. CASE RejoinStops
  BY <1>7 DEF Callbacks, IInv, Processor, Processors, RejoinStops, Running, StopTopicTask,
          Teardown, TypeOK
<1>8. CASE Restart
  BY <1>8 DEF Callbacks, Drained, IInv, Processor, Processors, Restart, ShouldRejoin,
          Stopped, Teardown, TypeOK
<1>9. CASE Accept
  BY <1>9 DEF Accept, Callbacks, IInv, Processors, Teardown, TypeOK
<1>10. CASE RejoinCancelled
  BY <1>10 DEF Callbacks, IInv, Processors, RejoinCancelled, Teardown, TypeOK
<1>11. CASE LeaveStarts
  BY <1>11, StartLeaveLeaves DEF LeaveStarts, IInv, Teardown
<1>12. CASE LeaveCleansUp
  <2>1. rejoin'.pc \in {rejoin.pc, "idle"} /\ rejoin'.of = rejoin.of /\ chan' = chan
    BY <1>12 DEF LeaveCleansUp, IInv, TypeOK
  <2>2. chan.state = "left"
    BY <1>12 DEF LeaveCleansUp, IInv, Teardown
  <2>3. CASE Drains
    <3>1. current = chan.ref
      BY <2>3, CurrentIsNewest DEF Drains, MustDrain
    <3>2. leave'.pc = "draining" /\ leave'.of = chan.ref
      BY <1>12, <2>3, <3>1 DEF LeaveCleansUp, IInv, TypeOK
    <3> QED
      BY <2>1, <2>2, <3>2 DEF IInv, Teardown
  <2>4. CASE ~Drains
    <3>1. leave'.pc = "stopping"
      BY <1>12, <2>4 DEF LeaveCleansUp, IInv, TypeOK
    <3> QED
      BY <2>1, <2>2, <3>1 DEF IInv, Teardown
  <2> QED
    BY <2>3, <2>4
<1>13. CASE LeaveTimesOut
  BY <1>13 DEF Callbacks, IInv, LeaveTimesOut, Processors, Running, Teardown, TimesOut, TypeOK
<1>14. CASE LeaveStops
  BY <1>14 DEF Callbacks, IInv, LeaveStops, Processor, Processors, Running, StopTopicTask,
          Teardown, TypeOK
<1>15. CASE LeaveEnds
  BY <1>15 DEF Callbacks, IInv, LeaveEnds, Processor, Processors, Stopped, Teardown, TypeOK
<1>16. ASSUME NEW k \in Refs, Skip(k) PROVE Teardown'
  BY <1>16 DEF Callbacks, IInv, IsStale, Loop, Processors, Skip, Teardown, TypeOK
<1>17. ASSUME NEW k \in Refs, Handle(k) PROVE Teardown'
  BY <1>17 DEF Callbacks, Handle, IInv, IsStale, Processors, Teardown, TypeOK
<1>18. ASSUME NEW k \in Refs, Resume(k) PROVE Teardown'
  BY <1>18 DEF Callbacks, EndsWith, IInv, Loop, Processors, Resume, Running, Teardown, TypeOK
<1>19. ASSUME NEW k \in Refs, Returns(k) PROVE Teardown'
  BY <1>19 DEF Callbacks, IInv, Processors, Returns, Teardown, TypeOK
<1>20. ASSUME NEW k \in Refs, Unwinds(k) PROVE Teardown'
  BY <1>20 DEF Callbacks, IInv, Processors, Running, Teardown, TypeOK, Unwinds
<1>21. ASSUME NEW k \in Refs, CallbackLeaves(k) PROVE Teardown'
  <2>1. CASE \E initiator \in {0} \cup Refs : StartLeave(initiator)
    BY <1>21, <2>1, StartLeaveLeaves DEF IInv, Teardown
  <2>2. CASE UNCHANGED <<chan, rejoin, leave>>
    BY <1>21, <2>2, CallbackLeavesToo DEF IInv, Teardown
  <2> QED
    BY <1>21, <2>1, <2>2, CallbackLeavesToo DEF IInv
<1>22. CASE UNCHANGED vars
  BY <1>22 DEF vars, IInv, TypeOK, Processors, Callbacks, Teardown
<1> QED
  BY <1>1, <1>2, <1>3, <1>4, <1>5, <1>6, <1>7, <1>8, <1>9, <1>10, <1>11, <1>12,
     <1>13, <1>14, <1>15, <1>16, <1>17, <1>18, <1>19, <1>20, <1>21, <1>22
  DEF Next, RejoinGoesOn, LeaveGoesOn, Task, Callback

\* Nobody stops the processor of a joined channel.
LEMMA ServingKept ==
  ASSUME IInv, [Next]_vars
  PROVE  Serving'
<1> USE DeliveryAssumption DEF Refs
<1>1. CASE Route
  BY <1>1 DEF Callbacks, Enqueued, IInv, NoCallback, Processors, Route, Serving, Teardown,
          TypeOK
<1>2. CASE Lose
  BY <1>2 DEF Callbacks, IInv, Lose, NoCallback, Processors, Serving, Teardown, TypeOK
<1>3. CASE Close
  BY <1>3 DEF Callbacks, Close, IInv, Left, NoCallback, Processors, Serving, Teardown, TypeOK
<1>4. CASE Stop
  BY <1>4 DEF Callbacks, IInv, Left, NoCallback, Processors, Serving, Stop, Teardown, TypeOK
<1>5. CASE RejoinStarts
  BY <1>5 DEF Callbacks, IInv, MustDrain, NoCallback, Processor, Processors, RejoinStarts,
          Running, Serving, StopTopicTask, Teardown, TypeOK
<1>6. CASE RejoinTimesOut
  BY <1>6 DEF Callbacks, IInv, NoCallback, Processors, RejoinTimesOut, Running, Serving,
          Teardown, TimesOut, TypeOK
<1>7. CASE RejoinStops
  BY <1>7 DEF Callbacks, IInv, NoCallback, Processor, Processors, RejoinStops, Running,
          Serving, StopTopicTask, Teardown, TypeOK
<1>8. CASE Restart
  BY <1>8 DEF Callbacks, Drained, IInv, NoCallback, Processor, Processors, Restart, Serving,
          ShouldRejoin, Stopped, Teardown, TypeOK
<1>9. CASE Accept
  BY <1>9 DEF Accept, Callbacks, IInv, NoCallback, Processors, Serving, Teardown, TypeOK
<1>10. CASE RejoinCancelled
  BY <1>10 DEF Callbacks, IInv, NoCallback, Processors, RejoinCancelled, Serving, Teardown,
          TypeOK
<1>11. CASE LeaveStarts
  BY <1>11, StartLeaveLeaves DEF LeaveStarts, IInv, Serving
<1>12. CASE LeaveCleansUp
  BY <1>12 DEF Callbacks, Drains, IInv, LeaveCleansUp, MustDrain, NoCallback, Processor,
          Processors, Running, Serving, StopTopicTask, Teardown, TypeOK
<1>13. CASE LeaveTimesOut
  BY <1>13 DEF Callbacks, IInv, LeaveTimesOut, NoCallback, Processors, Running, Serving,
          Teardown, TimesOut, TypeOK
<1>14. CASE LeaveStops
  BY <1>14 DEF Callbacks, IInv, LeaveStops, NoCallback, Processor, Processors, Running,
          Serving, StopTopicTask, Teardown, TypeOK
<1>15. CASE LeaveEnds
  BY <1>15 DEF Callbacks, IInv, LeaveEnds, NoCallback, Processor, Processors, Serving,
          Stopped, Teardown, TypeOK
<1>16. ASSUME NEW k \in Refs, Skip(k) PROVE Serving'
  BY <1>16 DEF Callbacks, IInv, IsStale, Loop, NoCallback, Processors, Serving, Skip,
          Teardown, TypeOK
<1>17. ASSUME NEW k \in Refs, Handle(k) PROVE Serving'
  BY <1>17 DEF Callbacks, Handle, IInv, IsStale, NoCallback, Processors, Serving, Teardown,
          TypeOK
<1>18. ASSUME NEW k \in Refs, Resume(k) PROVE Serving'
  BY <1>18 DEF Callbacks, EndsWith, IInv, Loop, NoCallback, Processors, Resume, Running,
          Serving, Teardown, TypeOK
<1>19. ASSUME NEW k \in Refs, Returns(k) PROVE Serving'
  BY <1>19 DEF Callbacks, IInv, NoCallback, Processors, Returns, Serving, Teardown, TypeOK
<1>20. ASSUME NEW k \in Refs, Unwinds(k) PROVE Serving'
  BY <1>20 DEF Callbacks, IInv, NoCallback, Processors, Running, Serving, Teardown, TypeOK,
          Unwinds
<1>21. ASSUME NEW k \in Refs, CallbackLeaves(k) PROVE Serving'
  <2>1. (\E initiator \in {0} \cup Refs : StartLeave(initiator))
          \/ UNCHANGED <<chan, rejoin, leave>>
    BY <1>21, CallbackLeavesToo DEF IInv
  <2>2. CASE \E initiator \in {0} \cup Refs : StartLeave(initiator)
    BY <2>2, StartLeaveLeaves DEF IInv, Serving
  <2>3. CASE UNCHANGED <<chan, rejoin, leave>>
    <3>1. /\ cb'[k] = [st |-> "leaving", stop |-> cb[k].stop]
          /\ \A j \in Refs : j # k => cb'[j] = cb[j]
      BY <1>21, CallbackLeavesToo DEF IInv
    <3>2. proc' = proc /\ chan.ref \in Refs
      BY <1>21 DEF CallbackLeaves, IInv, TypeOK
    <3>3. cb'[chan.ref].stop = cb[chan.ref].stop
      BY <3>1, <3>2
    <3>4. cb[chan.ref].st # "cancelled" => cb'[chan.ref].st # "cancelled"
      BY <3>1, <3>2
    <3> QED
      BY <2>3, <3>2, <3>3, <3>4 DEF IInv, Serving
  <2> QED
    BY <2>1, <2>2, <2>3
<1>22. CASE UNCHANGED vars
  BY <1>22 DEF vars, IInv, TypeOK, Processors, Callbacks, Teardown, Serving, NoCallback
<1> QED
  BY <1>1, <1>2, <1>3, <1>4, <1>5, <1>6, <1>7, <1>8, <1>9, <1>10, <1>11, <1>12,
     <1>13, <1>14, <1>15, <1>16, <1>17, <1>18, <1>19, <1>20, <1>21, <1>22
  DEF Next, RejoinGoesOn, LeaveGoesOn, Task, Callback

-----------------------------------------------------------------------------

\* The invariant holds before the first membership.
LEMMA InitInvariant == Init => IInv
<1> USE DeliveryAssumption DEF Refs
<1>1. SUFFICES ASSUME Init PROVE IInv
  OBVIOUS
<1>2. TypeOK
  BY <1>1 DEF Init, TypeOK, NoCallback, Message
<1> QED
  BY <1>1, <1>2 DEF Init, IInv, Queue, Processors, Callbacks, Teardown, Serving, NoCallback,
     Running

\* Every step of a task, a callback or the environment keeps it.
LEMMA NextInvariant ==
  ASSUME IInv, [Next]_vars
  PROVE  IInv'
BY TypeKept, QueueKept, ProcessorsKept, CallbacksKept, TeardownKept, ServingKept
DEF IInv

\* The inductive invariant holds in every behaviour.
THEOREM InvariantHolds == Spec => []IInv
<1>1. IInv /\ [Next]_vars => IInv'
  BY NextInvariant
<1> QED
  BY InitInvariant, <1>1, PTL DEF Spec

\* Type correctness, for every capacity, number of messages and of memberships.
THEOREM TypeCorrect == Spec => []TypeOK
<1>1. IInv => TypeOK
  BY DEF IInv
<1> QED
  BY InvariantHolds, <1>1, PTL

\* Once leave() is done no callback runs and no processor is left.
THEOREM LeaveSilences == Spec => []LeftIsSilent
<1>1. IInv => LeftIsSilent
  <2>1. SUFFICES ASSUME IInv, leave.pc = "done", NEW k \in Refs
                 PROVE  ~Running(k) /\ proc[k] \in {"none", "ended"}
    BY DEF LeftIsSilent
  <2>2. chan.ref \in Refs /\ proc[chan.ref] = "ended"
    BY <2>1 DEF IInv, TypeOK, Teardown
  <2>3. k < chan.ref \/ k = chan.ref \/ k > chan.ref
    BY <2>1, <2>2, DeliveryAssumption DEF Refs
  <2>4. proc[k] \in {"none", "ended"}
    BY <2>1, <2>2, <2>3 DEF IInv, Processors
  <2> QED
    BY <2>1, <2>4 DEF IInv, Callbacks
<1> QED
  BY InvariantHolds, <1>1, PTL

\* A joined channel has a processor, unless a callback ends by a CancelledError that
\* nobody sent it.
THEOREM JoinedServed ==
  ASSUME "cancel" \notin Env
  PROVE  Spec => []JoinedIsServed
<1>1. IInv => JoinedIsServed
  BY DEF IInv, Serving, JoinedIsServed, Processor
<1> QED
  BY InvariantHolds, <1>1, PTL

\* Messages are handed over once, in the order of arrival, in their own membership.
THEOREM OrderKept == Spec => HandedOver
<1>1. ASSUME IInv, [Next]_vars, started' # started
      PROVE  started' > started /\ Head(queue).at = chan.ref
  <2>1. \E k \in Refs : Handle(k)
    BY <1>1 DEF Next, RejoinGoesOn, LeaveGoesOn, Task, Callback, vars, Route, Lose, Close, Stop,
       RejoinStarts, RejoinTimesOut, RejoinStops, Restart, Accept, RejoinCancelled, LeaveStarts,
       LeaveCleansUp, LeaveTimesOut, LeaveStops, LeaveEnds, Skip, Resume, Returns, Unwinds,
       CallbackLeaves
  <2>2. queue \in Seq(Message) /\ queue # <<>> /\ started' = Head(queue).id
    BY <1>1, <2>1 DEF Handle, IInv, TypeOK
  <2>3. Head(queue) = queue[1] /\ 1 \in 1..Len(queue)
    BY <2>2
  <2> QED
    BY <1>1, <2>2, <2>3 DEF IInv, Queue
<1>2. IInv /\ [Next]_vars =>
        [started' # started => started' > started /\ Head(queue).at = chan.ref]_vars
  BY <1>1
<1> QED
  BY InvariantHolds, <1>2, PTL DEF Spec, HandedOver

\* A callback that was not told to stop is told to by a drain that has timed out, or by
\* the end of its channel.
Graceful(k) ==
  \/ \E task \in {rejoin, leave} : task.pc = "draining" /\ task.of = k
  \/ chan.state = "left" /\ (chan.cause # "leave" \/ leave.initiator = k)

\* A callback comes to another state: it is told nothing.
LEMMA StateTellsNothing ==
  ASSUME TypeOK, NEW k \in Refs, NEW st \in CallbackStates, cb' = [cb EXCEPT ![k].st = st]
  PROVE  \A j \in Refs : cb'[j].stop = cb[j].stop
BY Ended

\* A callback is cancelled only when its drain has timed out, or its channel ends
\* otherwise than by a leave() of another task.
LEMMA StepsAreGraceful ==
  ASSUME IInv, [Next]_vars, NEW k \in Refs, cb'[k].stop, ~cb[k].stop
  PROVE  Graceful(k)
<1> USE DeliveryAssumption
<1>1. TypeOK /\ chan.ref \in Refs /\ current \in {0, chan.ref}
  BY CurrentIsNewest DEF IInv
<1>2. \A t \in {rejoin, leave} : t.pc \in {"draining", "cancelling"} => t.of = chan.ref
  BY DEF IInv, Teardown
<1>3. CASE cb' = cb
  BY <1>3
<1>4. ASSUME NEW task \in {rejoin, leave}, TimesOut(task),
             cb' = [cb EXCEPT ![task.of].stop = TRUE]
      PROVE  Graceful(k)
  <2>1. task.of = chan.ref /\ task.pc = "draining"
    BY <1>2, <1>4 DEF TimesOut
  <2>2. k = chan.ref
    BY <1>1, <1>4, <2>1, ToldToStop
  <2> QED
    BY <2>1, <2>2 DEF Graceful
<1>5. ASSUME StopTopicTask(Processor)
      PROVE  k = chan.ref /\ Running(chan.ref) /\ current = chan.ref
  BY <1>5, StopTopicTaskStops DEF IInv
<1>6. CASE RejoinStarts
  <2>1. CASE MustDrain
    BY <1>3, <1>6, <2>1 DEF RejoinStarts
  <2>2. CASE ~MustDrain
    <3>1. StopTopicTask(Processor)
      BY <1>6, <2>2 DEF RejoinStarts
    <3> QED
      BY <1>1, <1>5, <2>2, <3>1 DEF MustDrain, Refs
  <2> QED
    BY <2>1, <2>2
<1>7. CASE RejoinStops
  <2>1. StopTopicTask(Processor) /\ ~Running(chan.ref)
    BY <1>2, <1>7 DEF RejoinStops
  <2> QED
    BY <1>5, <2>1
<1>8. CASE LeaveStops
  <2>1. StopTopicTask(Processor) /\ ~Running(chan.ref)
    BY <1>2, <1>8 DEF LeaveStops
  <2> QED
    BY <1>5, <2>1
<1>9. CASE LeaveCleansUp
  <2>1. CASE Drains
    BY <1>3, <1>9, <2>1 DEF LeaveCleansUp
  <2>2. CASE ~Drains
    <3>1. StopTopicTask(Processor) /\ chan.state = "left"
      BY <1>9, <2>2 DEF LeaveCleansUp, IInv, Teardown
    <3>2. k = chan.ref /\ MustDrain /\ current = k
      BY <1>1, <1>5, <3>1 DEF MustDrain, Refs
    <3> QED
      BY <2>2, <3>1, <3>2 DEF Drains, Graceful
  <2> QED
    BY <2>1, <2>2
<1>10. CASE RejoinTimesOut \/ LeaveTimesOut
  BY <1>4, <1>10 DEF RejoinTimesOut, LeaveTimesOut
<1>11. ASSUME NEW j \in Refs, Handle(j)
       PROVE  cb'[k].stop => cb[k].stop
  BY <1>1, <1>11 DEF Handle, TypeOK
<1>12. ASSUME NEW j \in Refs, Callback(j)
       PROVE  cb'[k].stop = cb[k].stop
  <2>1. ASSUME NEW st \in CallbackStates, cb' = [cb EXCEPT ![j].st = st]
        PROVE  cb'[k].stop = cb[k].stop
    BY <1>1, <2>1, StateTellsNothing
  <2> QED
    BY <1>12, <2>1 DEF Callback, Returns, Unwinds, CallbackLeaves, CallbackStates
<1> QED
  BY <1>3, <1>6, <1>7, <1>8, <1>9, <1>10, <1>11, <1>12
  DEF Next, RejoinGoesOn, LeaveGoesOn, Task, vars, Route, Lose, Close, Stop, Restart, Accept,
      RejoinCancelled, LeaveStarts, LeaveEnds, Skip, Resume

\* Callbacks keep the time they are promised.
THEOREM GraceKept == Spec => GraceIsKept
<1>1. ASSUME IInv, [Next]_vars, NEW k \in Refs, cb'[k].stop /\ ~cb[k].stop
      PROVE  \/ \E task \in {rejoin, leave} : task.pc = "draining" /\ task.of = k
             \/ chan.state = "left" /\ (chan.cause # "leave" \/ leave.initiator = k)
  BY <1>1, StepsAreGraceful DEF Graceful
<1>2. IInv /\ [Next]_vars =>
        [\A k \in Refs : cb'[k].stop /\ ~cb[k].stop =>
           \/ \E task \in {rejoin, leave} : task.pc = "draining" /\ task.of = k
           \/ chan.state = "left" /\ (chan.cause # "leave" \/ leave.initiator = k)]_vars
  BY <1>1
<1> QED
  BY InvariantHolds, <1>2, PTL DEF Spec, GraceIsKept

=============================================================================
