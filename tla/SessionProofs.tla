---------------------------- MODULE SessionProofs ----------------------------
(***************************************************************************)
(* Proofs about the sessions of TopicRuntime, for every set of handles and *)
(* topics and every bound: the client's state changes only as              *)
(* transition_client_state allows (NoInvalidTransition); a send that is    *)
(* still writing belongs to the owner of its name (WritesHaveTheOwner);    *)
(* a shutdown leaves nothing behind (ShutdownLeavesNothing); on_reconnect  *)
(* waits for the required channels (ReconnectBarrier); the connections     *)
(* come in turn (ConnectionsInTurn); a name is reserved as long as the     *)
(* server holds the membership of its submitted join                       *)
(* (ReservationCoversMembership); and a channel that says it is joined is  *)
(* a member, or will be told otherwise (JoinedAgreesWithServer).           *)
(*                                                                         *)
(* The shape of a session comes first, then one section per property; the  *)
(* last two rest on ServerInv, what the refs say of the server's channels. *)
(***************************************************************************)
EXTENDS TopicRuntimeProofs

-----------------------------------------------------------------------------
(* The state of the client *)

\* Why no task ever asks for a refused transition: until a shutdown begins the
\* client does not shut down, and it is closed only once its supervisor is gone,
\* so nobody is left to connect it again.
Phases ==
  /\ shut # "none" => stop
  /\ ~stop => cstate # "shutting_down"
  /\ ~stop /\ cstate = "closed" => sup.pc = "exited"

PInv == IInv /\ Phases

AllowedStep == cstate' # cstate => cstate' \in AllowedTransitions[cstate]

\* The transitions by the state they leave (transition_client_state).
LEMMA AllowedFrom ==
  /\ AllowedTransitions["closed"] = {"connecting"}
  /\ AllowedTransitions["connecting"] = ClientStates \ {"connecting"}
  /\ AllowedTransitions["connected"] = {"reconnecting", "shutting_down", "closed"}
  /\ AllowedTransitions["reconnecting"] = {"connected", "shutting_down", "closed"}
  /\ AllowedTransitions["shutting_down"] = {"closed"}
<1>1. {"closed", "connecting", "connected", "reconnecting", "shutting_down"} = ClientStates
  BY DEF ClientStates
<1> QED
  BY <1>1 DEF AllowedTransitions

\* Only the supervisor connects or reconnects a client, and only before a stop.
LEMMA Reopening ==
  ASSUME PInv, ~stop, sup.pc # "exited", cstate' \in {"connected", "reconnecting"}
  PROVE  AllowedStep
<1>1. cstate \in {"connecting", "connected", "reconnecting"}
  BY DEF PInv, Phases, IInv, OthersOK, ClientStates
<1> QED
  BY <1>1, AllowedFrom DEF AllowedStep, ClientStates

\* Every state but "closed" may be closed.
LEMMA Closing ==
  ASSUME PInv, cstate' = "closed"
  PROVE  AllowedStep
<1>1. cstate \in {"closed", "connecting", "connected", "reconnecting", "shutting_down"}
  BY DEF PInv, IInv, OthersOK, ClientStates
<1> QED
  BY <1>1, AllowedFrom DEF AllowedStep, ClientStates

\* A failed write moves a connected client to reconnecting.
LEMMA FailingSession ==
  ASSUME PInv, NEW chs, NotifyFailure(chs)
  PROVE  /\ AllowedStep
         /\ cstate' = "shutting_down" <=> cstate = "shutting_down"
         /\ cstate' = "closed" <=> cstate = "closed"
<1>1. cstate' = cstate \/ (cstate = "connected" /\ cstate' = "reconnecting")
  BY DEF NotifyFailure
<1> QED
  BY <1>1, AllowedFrom DEF AllowedStep

\* A step that leaves the client's state alone, and the supervisor gone if it is.
LEMMA QuietPhases ==
  ASSUME PInv, UNCHANGED <<cstate, stop>>,
         sup.pc = "exited" => sup'.pc = "exited",
         shut' # "none" => shut # "none"
  PROVE  Phases' /\ AllowedStep
  BY DEF PInv, Phases, AllowedStep

\* The sends and their deadlines.
LEMMA SendPhases ==
  ASSUME PInv, (\E o \in ops : SendStep(o) \/ SendReturns(o)) \/ (\E o \in Timers : Expire(o))
  PROVE  Phases' /\ AllowedStep
<1>1. UNCHANGED <<stop, sup, shut>>
  BY DEF SendStep, SendReturns, Submit, SendFails, SendCancelled, Expire, client, loop
<1>2. cstate' = cstate \/ \E chs : NotifyFailure(chs)
  BY DEF SendStep, SendReturns, Submit, SendFails, SendCancelled, Expire, client
<1> QED
  BY <1>1, <1>2, FailingSession DEF PInv, Phases, AllowedStep

\* The supervisor's steps.
LEMMA SupervisorPhases ==
  ASSUME PInv, SupervisorStep
  PROVE  Phases' /\ AllowedStep
<1> DEFINE Quiet == /\ UNCHANGED <<cstate, stop>>
                    /\ sup.pc = "exited" => sup'.pc = "exited"
                    /\ shut' # "none" => shut # "none"
<1>1. CASE Quiet
  BY <1>1, QuietPhases
<1>2. CASE Connect \/ Reconnects
  <2>1. ~stop /\ sup.pc # "exited" /\ UNCHANGED <<stop, shut>>
        /\ cstate' \in {"connected", "reconnecting"}
    BY <1>2 DEF Connect, Reconnects
  <2> QED
    BY <2>1, Reopening DEF PInv, Phases
<1>3. CASE SupervisorStops \/ AdoptsTooLate
  <2>1. UNCHANGED <<stop, shut>> /\ sup'.pc = "exited"
    BY <1>3 DEF SupervisorStops, AdoptsTooLate, SupervisorExits, PInv, IInv, OthersOK
  <2>2. cstate' = cstate \/ cstate' = "closed"
    BY <1>3 DEF SupervisorStops, AdoptsTooLate, SupervisorExits
  <2> QED
    BY <2>1, <2>2, Closing DEF PInv, Phases, AllowedStep
<1>4. ASSUME NEW h \in Handles, RejoinNext(h)
      PROVE  Quiet
  BY <1>4 DEF RejoinNext, client
<1>5. ASSUME NEW ok \in ParamsResults, RejoinRestarts(ok)
      PROVE  Quiet
  BY <1>5 DEF RejoinRestarts, client
<1>6. ASSUME RejoinResumes \/ RejoinLost \/ RejoinDone
      PROVE  Quiet
  BY <1>6 DEF RejoinResumes, RejoinLost, RejoinDone, client
<1>7. ASSUME EndSession \/ CleanupCloses \/ CleanupRetires
      PROVE  Quiet
  BY <1>7 DEF EndSession, CleanupBegins, CleanupCloses, CleanupRetires, client
<1>8. ASSUME CleanupEnds
      PROVE  Quiet
  BY <1>8 DEF CleanupEnds, client, PInv, IInv, OthersOK
<1>9. ASSUME SupervisorCancelled
      PROVE  Quiet
  BY <1>9 DEF SupervisorCancelled, client
<1> HIDE DEF Quiet
<1> QED
  BY <1>1, <1>2, <1>3, <1>4, <1>5, <1>6, <1>7, <1>8, <1>9 DEF SupervisorStep

\* Every step moves the client's state as transition_client_state allows.
LEMMA PhaseStep ==
  ASSUME PInv, [Next]_vars
  PROVE  Phases' /\ AllowedStep
<1>1. ASSUME NEW h \in Handles, HandleStep(h)
      PROVE  Phases' /\ AllowedStep
  BY <1>1, QuietPhases
  DEF HandleStep, JoinResumes, JoinRaises, LeaveStarts, LeaveAnswered, LeaveFinishes,
      RecoverTries, RecoverRejoins, RecoverResumes, RecoverCancelled, LoseStarts,
      LoseReports, client, loop
<1>2. ASSUME ShutdownStep
      PROVE  Phases' /\ AllowedStep
  <2>1. CASE ShutdownCleansUp \/ ShutdownUnsubscribes \/ ShutdownCancelsLifecycle
    BY <2>1, QuietPhases
    DEF ShutdownCleansUp, CleanupBegins, ShutdownUnsubscribes, ShutdownCancelsLifecycle,
        client
  <2>2. CASE ShutdownEnds
    BY <2>2, Closing DEF ShutdownEnds, PInv, Phases
  <2> QED
    BY <1>2, <2>1, <2>2 DEF ShutdownStep
<1>3. ASSUME UserStep
      PROVE  Phases' /\ AllowedStep
  <2>1. CASE RequestStop
    <3>1. cstate \in {"closed", "connecting", "connected", "reconnecting", "shutting_down"}
      BY DEF PInv, IInv, OthersOK, ClientStates
    <3>2. stop' /\ cstate' = IF cstate = "closed" THEN cstate ELSE "shutting_down"
      BY <2>1 DEF RequestStop
    <3> QED
      BY <3>1, <3>2, AllowedFrom DEF Phases, AllowedStep, ClientStates
  <2>2. ASSUME NEW h \in Handles, NEW ok \in ParamsResults, Join(h, ok)
        PROVE  Phases' /\ AllowedStep
    BY <2>2, QuietPhases DEF Join, client, loop
  <2>3. ASSUME NEW h \in Handles, Leave(h) \/ JoinCancelled(h)
        PROVE  Phases' /\ AllowedStep
    BY <2>3, QuietPhases DEF Leave, JoinCancelled, client, loop
  <2> QED
    BY <1>3, <2>1, <2>2, <2>3 DEF UserStep
<1>4. ASSUME NetworkStep
      PROVE  Phases' /\ AllowedStep
  <2>1. CASE ConnectFails
    <3>1. ~stop /\ sup.pc # "exited" /\ UNCHANGED <<stop, sup, shut>>
          /\ cstate' = "reconnecting"
      BY <2>1 DEF ConnectFails, loop
    <3> QED
      BY <3>1, Reopening DEF PInv, Phases
  <2>2. CASE Drop \/ RoutingBreaks
             \/ \E t \in Topics, event \in ServerEnds : EndMembership(t, event)
    BY <2>2, QuietPhases DEF Drop, RoutingBreaks, EndMembership, client, loop
  <2> QED
    BY <1>4, <2>1, <2>2 DEF NetworkStep
<1>5. ASSUME CloseSendSession \/ RoutingStep \/ UNCHANGED vars
      PROVE  Phases' /\ AllowedStep
  BY <1>5, QuietPhases
  DEF CloseSendSession, RoutingStep, Route, RoutingEnds, RoutingStopped, vars, client, loop
<1> QED
  BY <1>1, <1>2, <1>3, <1>4, <1>5, SendPhases, SupervisorPhases DEF Next

\* The supervisor, a failed write and a shutdown change the client's state in any
\* order, and transition_client_state never raises: a client that was closed or
\* is shutting down is connected by nobody.
THEOREM StateMachineKept == Spec => NoInvalidTransition
<1>1. Init => PInv
  BY InitIInv DEF Init, PInv, Phases
<1>2. PInv /\ [Next]_vars => PInv'
  BY NextIInv, PhaseStep DEF PInv
<1>3. PInv /\ [Next]_vars => [cstate' # cstate => cstate' \in AllowedTransitions[cstate]]_vars
  BY PhaseStep DEF AllowedStep
<1> QED
  BY <1>1, <1>2, <1>3, PTL DEF Spec, NoInvalidTransition

-----------------------------------------------------------------------------
(* The writes *)

\* A write that has not returned belongs to the owner of its name, whatever its
\* connection: WritesHaveTheOwner without its precondition is inductive.
WritersOwn == \A o \in ops : o.st = "writing" => IsRegistered(o.h)

WInv == IInv /\ WritersOwn

\* No step takes the name from a handle that still has a send.
NamesKept ==
  \A h \in Handles : HasPending(h, ops) /\ IsRegistered(h) => registry'[TopicOf[h]] = h

\* The step starts no write.
NoNewWrite == \A o \in ops' : o.st = "writing" => o \in ops

\* _release_reservation keeps the names of handles with pending sends.
LEMMA ReleaseKeepsNames ==
  ASSUME IInv, NEW chs, NEW who, NEW current,
         registry' = Release(registry, chs, who, ops, current)
  PROVE  NamesKept
<1>1. ASSUME NEW h \in Handles, HasPending(h, ops), IsRegistered(h)
      PROVE  registry'[TopicOf[h]] = h
  <2>1. TopicOf[h] \in Topics /\ registry[TopicOf[h]] = h
    BY <1>1, TopicRuntimeAssumption DEF IsRegistered
  <2> QED
    BY <1>1, <2>1 DEF Release, MayRelease
<1> QED
  BY <1>1 DEF NamesKept

\* A write keeps its owner unless a step starts it or takes its name.
LEMMA WritersStay ==
  ASSUME WInv, NamesKept, NoNewWrite
  PROVE  WritersOwn'
<1>1. ASSUME NEW o \in ops', o.st = "writing"
      PROVE  registry'[TopicOf[o.h]] = o.h
  <2>1. o \in ops /\ IsRegistered(o.h) /\ o.h \in Handles
    BY <1>1 DEF WInv, WritersOwn, NoNewWrite, IInv, OthersOK, Op
  <2>2. HasPending(o.h, ops)
    BY <2>1 DEF HasPending
  <2> QED
    BY <2>1, <2>2 DEF NamesKept
<1> QED
  BY <1>1 DEF WritersOwn, IsRegistered

\* A step that neither reserves nor releases a name.
LEMMA SameNames ==
  ASSUME registry' = registry
  PROVE  NamesKept
  BY DEF NamesKept, IsRegistered

\* Fewer sends are no new write.
LEMMA FewerSends ==
  ASSUME ops' \subseteq ops
  PROVE  NoNewWrite
  BY DEF NoNewWrite

\* Nor is a send that is queued.
LEMMA QueuedSends ==
  ASSUME NEW h, NEW kind, NEW ref, ops' = ops \/ ops' = Queue(h, kind, ref)
  PROVE  NoNewWrite
  BY DEF NoNewWrite, Queue

\* Nor are sends that are cancelled.
LEMMA CancelledSends ==
  ASSUME IInv, NEW S \in SUBSET ops,
         \A o \in ops' : o \in ops \/ \E q \in S : o = [q EXCEPT !.st = "cancelled"]
  PROVE  NoNewWrite
<1>1. \A q \in ops : [q EXCEPT !.st = "cancelled"].st = "cancelled"
  BY DEF IInv, OthersOK, Op
<1> QED
  BY <1>1 DEF NoNewWrite

\* The tasks and callbacks of one handle.
LEMMA HandleWrites ==
  ASSUME WInv, NEW h \in Handles, HandleStep(h)
  PROVE  WritersOwn'
<1>1. IInv
  BY DEF WInv
<1>2. CASE LeaveFinishes(h)
  <2>1. registry' = Release(registry, ch', {h}, ops, conn) /\ ops' = ops
    BY <1>2 DEF LeaveFinishes, session
  <2> QED
    BY <1>1, <2>1, ReleaseKeepsNames, FewerSends, WritersStay
<1>3. CASE LeaveStarts(h)
  <2>1. registry' = registry /\ (ops' = ops \/ ops' = Queue(h, "leave", refs + 1))
    BY <1>3 DEF LeaveStarts
  <2> QED
    BY <2>1, SameNames, QueuedSends, WritersStay
<1>4. ASSUME NEW ok \in ParamsResults, RecoverRejoins(h, ok)
      PROVE  WritersOwn'
  <2>1. registry' = registry
    BY <1>4 DEF RecoverRejoins
  <2>2. \E ref : ops' = ops \/ ops' = Queue(h, "join", ref)
    BY <1>4 DEF RecoverRejoins, StartJoin
  <2> QED
    BY <2>1, <2>2, SameNames, QueuedSends, WritersStay
<1>5. CASE RecoverCancelled(h)
  <2>1. registry' = registry /\ (ops' = ops \/ ops' = CancelQueued(ops, h))
    BY <1>5 DEF RecoverCancelled
  <2>2. NoNewWrite
    BY <1>1, <2>1, CancelledSends DEF CancelQueued
  <2> QED
    BY <2>1, <2>2, SameNames, WritersStay
<1>6. CASE UNCHANGED <<registry, ops>>
  BY <1>6, SameNames, FewerSends, WritersStay
<1> QED
  BY <1>2, <1>3, <1>4, <1>5, <1>6
  DEF HandleStep, JoinResumes, JoinRaises, LeaveAnswered, RecoverTries, RecoverResumes,
      LoseStarts, LoseReports, session

\* The send tasks: only the owner of a name may begin a write.
LEMMA SendWrites ==
  ASSUME WInv, NEW o \in ops, SendStep(o) \/ SendReturns(o)
  PROVE  WritersOwn'
<1>1. registry' = registry
  BY DEF SendStep, SendReturns, Submit, SendFails, SendCancelled
<1>2. CASE ops' = ops \ {o}
  BY <1>1, <1>2, SameNames, FewerSends, WritersStay
<1>3. CASE /\ ops' = (ops \ {o}) \cup {[o EXCEPT !.st = "writing"]}
           /\ Eligible(o)
  <2>1. [o EXCEPT !.st = "writing"].h = o.h
    BY DEF WInv, IInv, OthersOK, Op
  <2> QED
    BY <1>1, <1>3, <2>1 DEF WInv, WritersOwn, IsRegistered, Eligible
<1> QED
  BY <1>2, <1>3 DEF SendStep, SendReturns, Submit, SendFails, SendCancelled

\* The deadlines.
LEMMA ExpireWrites ==
  ASSUME WInv, NEW o \in Timers, Expire(o)
  PROVE  WritersOwn'
<1>1. registry' = registry /\ IInv
  BY DEF Expire, WInv
<1>2. \/ ops' = ops
      \/ o \in ops /\ ops' = (ops \ {o}) \cup {[o EXCEPT !.st = "cancelled"]}
  BY DEF Expire, Timers, session
<1>3. NoNewWrite
  BY <1>1, <1>2, CancelledSends
<1> QED
  BY <1>1, <1>3, SameNames, WritersStay

\* Retiring the channels releases names.
LEMMA RetiringKeepsNames ==
  ASSUME IInv, SupervisorExits \/ RetireChannels
  PROVE  NamesKept
<1>1. ASSUME RetireChannels
      PROVE  NamesKept
  BY <1>1, ReleaseKeepsNames DEF RetireChannels
<1> QED
  BY <1>1, SameNames DEF SupervisorExits

\* The supervisor's steps.
LEMMA SupervisorWrites ==
  ASSUME WInv, SupervisorStep
  PROVE  WritersOwn'
<1>1. IInv
  BY DEF WInv
<1>2. CASE UNCHANGED <<registry, ops>>
  BY <1>2, SameNames, FewerSends, WritersStay
<1>3. CASE SupervisorStops \/ AdoptsTooLate
  <2>1. ops' = ops /\ SupervisorExits
    BY <1>3 DEF SupervisorStops, AdoptsTooLate, session
  <2> QED
    BY <1>1, <2>1, RetiringKeepsNames, FewerSends, WritersStay
<1>4. ASSUME NEW ok \in ParamsResults, RejoinRestarts(ok)
      PROVE  WritersOwn'
  <2>1. registry' = registry
    BY <1>4 DEF RejoinRestarts
  <2>2. \E h, ref : ops' = ops \/ ops' = Queue(h, "join", ref)
    BY <1>4 DEF RejoinRestarts, StartJoin
  <2> QED
    BY <2>1, <2>2, SameNames, QueuedSends, WritersStay
<1>5. CASE CleanupCloses \/ CleanupRetires
  <2>1. registry' = registry
    BY <1>5 DEF CleanupCloses, CleanupRetires
  <2>2. ops' = ops
        \/ ops' = {IF q.st = "queued" THEN [q EXCEPT !.st = "cancelled"] ELSE q : q \in ops}
    BY <1>5 DEF CleanupCloses, CleanupRetires, RetireSends
  <2>3. NoNewWrite
    BY <1>1, <2>2, CancelledSends
  <2> QED
    BY <2>1, <2>3, SameNames, WritersStay
<1>6. CASE CleanupEnds
  <2>1. ops' = ops /\ \E who : registry' = Release(registry, ch', who, ops, conn)
    BY <1>6 DEF CleanupEnds
  <2> QED
    BY <1>1, <2>1, ReleaseKeepsNames, FewerSends, WritersStay
<1>7. CASE SupervisorCancelled
  <2>1. registry' = registry /\ (ops' = ops \/ \E h : ops' = CancelQueued(ops, h))
    BY <1>7 DEF SupervisorCancelled
  <2>2. NoNewWrite
    BY <1>1, <2>1, CancelledSends DEF CancelQueued
  <2> QED
    BY <2>1, <2>2, SameNames, WritersStay
<1> QED
  BY <1>2, <1>3, <1>4, <1>5, <1>6, <1>7
  DEF SupervisorStep, Connect, RejoinNext, RejoinResumes, RejoinLost, RejoinDone, EndSession,
      Reconnects, session

\* The application: an admission takes a name that nobody has.
LEMMA UserWrites ==
  ASSUME WInv, UserStep
  PROVE  WritersOwn'
<1>1. IInv
  BY DEF WInv
<1>2. ASSUME NEW h \in Handles, NEW ok \in ParamsResults, Join(h, ok)
      PROVE  WritersOwn'
  <2>1. registry[TopicOf[h]] = NoHandle
        /\ registry' = [registry EXCEPT ![TopicOf[h]] = h]
    BY <1>2 DEF Join, NameIsFree
  <2>2. \E ref : ops' = ops \/ ops' = Queue(h, "join", ref)
    BY <1>2 DEF Join, StartJoin
  <2>3. NamesKept
    BY <1>1, <2>1, TopicRuntimeAssumption
    DEF NamesKept, IsRegistered, IInv, RegistryOK, RegistryOf
  <2> QED
    BY <2>2, <2>3, QueuedSends, WritersStay
<1>3. ASSUME NEW h \in Handles, JoinCancelled(h)
      PROVE  WritersOwn'
  <2>1. registry' = registry /\ ops' = CancelQueued(ops, h)
    BY <1>3 DEF JoinCancelled
  <2>2. NoNewWrite
    BY <1>1, <2>1, CancelledSends DEF CancelQueued
  <2> QED
    BY <2>1, <2>2, SameNames, WritersStay
<1>4. ASSUME NEW h \in Handles, Leave(h)
      PROVE  WritersOwn'
  BY <1>4, SameNames, FewerSends, WritersStay DEF Leave, session
<1>5. CASE RequestStop
  BY <1>1, <1>5, RetiringKeepsNames, FewerSends, WritersStay DEF RequestStop, session
<1> QED
  BY <1>2, <1>3, <1>4, <1>5 DEF UserStep

\* The routing task may release the name of a channel that was left.
LEMMA RoutingWrites ==
  ASSUME WInv, RoutingStep
  PROVE  WritersOwn'
<1>1. IInv
  BY DEF WInv
<1>2. ops' = ops
  BY DEF RoutingStep, Route, RoutingEnds, RoutingStopped, session
<1>3. registry' = registry \/ \E h : registry' = Release(registry, ch', {h}, ops, conn)
  BY DEF RoutingStep, Route, RoutingEnds, RoutingStopped
<1> QED
  BY <1>1, <1>2, <1>3, SameNames, ReleaseKeepsNames, FewerSends, WritersStay

\* Every step.
LEMMA WriteStep ==
  ASSUME WInv, [Next]_vars
  PROVE  WritersOwn'
<1>1. ASSUME CloseSendSession \/ ShutdownStep \/ NetworkStep \/ UNCHANGED vars
      PROVE  UNCHANGED <<registry, ops>>
  BY <1>1
  DEF CloseSendSession, ShutdownStep, ShutdownCleansUp, ShutdownUnsubscribes,
      ShutdownCancelsLifecycle, ShutdownEnds, NetworkStep, EndMembership, Drop,
      RoutingBreaks, ConnectFails, vars, session
<1>2. ASSUME UNCHANGED <<registry, ops>>
      PROVE  WritersOwn'
  BY <1>2, SameNames, FewerSends, WritersStay
<1> QED
  BY <1>1, <1>2, HandleWrites, SendWrites, ExpireWrites, SupervisorWrites, UserWrites,
     RoutingWrites DEF Next

\* A name is never handed to a successor while a write of its owner has not
\* returned, so no join overtakes the frame before it: on any connection, for any
\* number of handles.
THEOREM WritesKeepTheirOwner == Spec => []WritesHaveTheOwner
<1>1. Init => WInv
  BY InitIInv DEF Init, WInv, WritersOwn
<1>2. WInv /\ [Next]_vars => WInv'
  BY NextIInv, WriteStep DEF WInv
<1>3. WInv => WritesHaveTheOwner
  BY DEF WInv, WritersOwn, WritesHaveTheOwner
<1> QED
  BY <1>1, <1>2, <1>3, PTL DEF Spec

-----------------------------------------------------------------------------
(* The session loop, the cleanup and the shutdown *)

\* The supervisor has a session.
Active == {"rejoining", "stopping", "joining", "losing", "serving"}

\* Who has the connection: a supervisor with a session, or nobody; a cleanup is
\* under way on behalf of the supervisor or of the shutdown; and a connection that
\* nobody has is closed, unless the cleanup has yet to close it.
Session ==
  /\ sup.pc \in Active => conn = gen /\ gen # 0 /\ cleanup.pc = "idle"
  /\ sup.pc \in {"connecting", "ended"} => conn = 0 /\ cleanup.pc = "idle"
  /\ sup.pc \in {"cleanup", "dying"} => cleanup.pc # "idle"
  /\ sup.pc = "exited" /\ ~stop => conn = 0 /\ cleanup.pc = "idle"
  /\ cleanup.pc # "idle" => /\ conn = 0
                            /\ sup.pc \in {"cleanup", "dying"} \/ shut = "cleanup"
  /\ shut = "cleanup" => cleanup.pc # "idle"
  /\ shut \notin {"none", "stopping"} => sup.pc = "exited" /\ conn = 0
  /\ conn = 0 /\ (cleanup.pc # "cancelling" \/ cleanup.conn = 0) => socket = "closed"
  /\ socket = "closed" => \A t \in Topics : member[t] = 0

\* The server holds memberships on an open socket only.
MembersOpen == socket' = "closed" => \A t \in Topics : member'[t] = 0

\* A step of the sends, the channels or the server.
LEMMA SameSession ==
  ASSUME Session, UNCHANGED <<conn, gen, stop, cleanup, shut, socket>>,
         sup'.pc = sup.pc \/ {sup.pc, sup'.pc} \subseteq Active, MembersOpen
  PROVE  Session'
<1>1. Active \cap {"connecting", "ended", "cleanup", "dying", "exited"} = {}
  BY DEF Active
<1> QED
  BY <1>1 DEF Session, MembersOpen

\* A closing socket ends every membership.
LEMMA ClosingSession ==
  ASSUME Session, UNCHANGED <<conn, gen, stop, cleanup, shut, sup>>, CloseSocket
  PROVE  Session'
  BY DEF Session, CloseSocket

\* What leaves the transport alone leaves MembersOpen.
LEMMA SameMembers ==
  ASSUME Session, UNCHANGED <<socket, member>>
  PROVE  MembersOpen
  BY DEF Session, MembersOpen

\* The steps of the handles.
LEMMA HandleSession ==
  ASSUME Session, NEW h \in Handles, HandleStep(h)
  PROVE  Session'
<1>1. UNCHANGED <<conn, gen, stop, cleanup, shut, socket, sup, member>>
  BY DEF HandleStep, JoinResumes, JoinRaises, LeaveStarts, LeaveAnswered, LeaveFinishes,
         RecoverTries, RecoverRejoins, RecoverResumes, RecoverCancelled, LoseStarts,
         LoseReports, client, loop, transport
<1> QED
  BY <1>1, SameSession, SameMembers

\* The sends, and the server that answers them on an open socket.
LEMMA SendSession ==
  ASSUME Session, (\E o \in ops : SendStep(o) \/ SendReturns(o)) \/ (\E o \in Timers : Expire(o))
  PROVE  Session'
<1>1. UNCHANGED <<conn, gen, stop, cleanup, shut, socket, sup>>
  BY DEF SendStep, SendReturns, Submit, SendFails, SendCancelled, Expire, client, loop,
         transport
<1>2. socket = "open" \/ member' = member
  BY DEF SendStep, SendReturns, Submit, SendFails, SendCancelled, Expire, transport
<1>3. MembersOpen
  BY <1>1, <1>2 DEF MembersOpen, Session
<1> QED
  BY <1>1, <1>3, SameSession

\* The supervisor's steps.
LEMMA SupervisorSession ==
  ASSUME PInv, Session, SupervisorStep
  PROVE  Session'
<1>1. /\ sup \in [pc : {"connecting", "rejoining", "stopping", "joining", "losing",
                        "serving", "cleanup", "dying", "ended", "exited"},
                  cur : Handles \cup {NoHandle},
                  todo : SUBSET Handles, optional : SUBSET Handles]
      /\ cleanup \in [pc : {"idle", "cancelling", "closing", "finishing"}, conn : Conns,
                      tasks : SUBSET Handles]
  BY DEF PInv, IInv, OthersOK
<1>2. gen + 1 # 0
  BY BoundsAssumption DEF PInv, IInv, OthersOK, Conns
<1>3. shut # "none" => stop
  BY DEF PInv, Phases
<1>4. ASSUME NEW h \in Handles, RejoinNext(h)
      PROVE  Session'
  <2>1. UNCHANGED <<conn, gen, stop, cleanup, shut, socket, member>>
        /\ {sup.pc, sup'.pc} \subseteq Active
    BY <1>1, <1>4 DEF RejoinNext, client, transport, Active
  <2> QED
    BY <2>1, SameSession, SameMembers
<1>5. ASSUME NEW ok \in ParamsResults, RejoinRestarts(ok)
      PROVE  Session'
  <2>1. UNCHANGED <<conn, gen, stop, cleanup, shut, socket, member>>
        /\ {sup.pc, sup'.pc} \subseteq Active
    BY <1>1, <1>5 DEF RejoinRestarts, client, transport, Active
  <2> QED
    BY <2>1, SameSession, SameMembers
<1>6. CASE RejoinResumes \/ RejoinLost \/ RejoinDone
  <2>1. UNCHANGED <<conn, gen, stop, cleanup, shut, socket, member>>
    BY <1>6 DEF RejoinResumes, RejoinLost, RejoinDone, client, transport
  <2>2. sup.pc \in {"joining", "losing", "rejoining"}
        /\ sup'.pc \in {"rejoining", "losing", "serving"}
    BY <1>1, <1>6 DEF RejoinResumes, RejoinLost, RejoinDone
  <2> QED
    BY <2>1, <2>2, SameSession, SameMembers DEF Active
<1>7. CASE Connect
  <2>1. /\ sup'.pc = "rejoining" /\ conn' = gen + 1 /\ gen' = gen + 1 /\ ~stop
        /\ sup.pc = "connecting" /\ socket' = "open"
        /\ UNCHANGED <<stop, cleanup, shut>>
    BY <1>1, <1>7 DEF Connect
  <2> QED
    BY <1>2, <1>3, <2>1 DEF Session, Active
<1>8. CASE AdoptsTooLate
  <2>1. /\ sup'.pc = "exited" /\ conn' = gen + 1 /\ stop /\ sup.pc = "connecting"
        /\ socket' = "open" /\ UNCHANGED <<stop, cleanup, shut>>
    BY <1>1, <1>8 DEF AdoptsTooLate, SupervisorExits
  <2> QED
    BY <1>2, <1>3, <2>1 DEF Session, Active
<1>9. CASE SupervisorStops
  <2>1. /\ sup'.pc = "exited" /\ sup.pc \in {"connecting", "ended"}
        /\ UNCHANGED <<conn, gen, stop, cleanup, shut, socket, member>>
    BY <1>1, <1>9 DEF SupervisorStops, SupervisorExits, transport
  <2> QED
    BY <1>1, <2>1 DEF Session, Active
<1>10. CASE Reconnects
  <2>1. /\ sup'.pc = "connecting" /\ sup.pc = "ended"
        /\ UNCHANGED <<conn, gen, stop, cleanup, shut, socket, member>>
    BY <1>1, <1>10 DEF Reconnects, transport
  <2> QED
    BY <1>1, <2>1 DEF Session, Active
<1>11. CASE EndSession
  <2>1. /\ sup'.pc = "cleanup" /\ sup.pc = "serving" /\ conn' = 0
        /\ cleanup'.pc = "cancelling" /\ cleanup'.conn = conn
        /\ UNCHANGED <<gen, stop, shut, socket, member>>
    BY <1>1, <1>11 DEF EndSession, CleanupBegins, transport
  <2> QED
    BY <1>1, <2>1 DEF Session, Active
<1>12. CASE CleanupCloses
  <2>1. /\ cleanup.pc = "cancelling" /\ UNCHANGED <<conn, gen, stop, shut, sup>>
        /\ \/ /\ cleanup'.pc = "closing" /\ socket' = "closed"
              /\ member' = [t \in Topics |-> 0]
           \/ /\ cleanup'.pc = "finishing"
              /\ cleanup.conn = 0 \/ socket # "open"
              /\ UNCHANGED <<socket, member>>
    BY <1>1, <1>12 DEF CleanupCloses, client, transport
  <2>2. socket \in {"open", "closed"}
    BY DEF PInv, IInv, OthersOK
  <2> QED
    BY <1>1, <2>1, <2>2 DEF Session, Active
<1>13. CASE CleanupRetires
  <2>1. /\ cleanup.pc = "closing" /\ cleanup'.pc = "finishing"
        /\ UNCHANGED <<conn, gen, stop, shut, sup, socket, member>>
    BY <1>1, <1>13 DEF CleanupRetires, client, transport
  <2> QED
    BY <1>1, <2>1 DEF Session, Active
<1>14. CASE CleanupEnds
  <2>1. /\ cleanup.pc = "finishing" /\ cleanup'.pc = "idle"
        /\ UNCHANGED <<conn, gen, stop, socket, member>>
        /\ sup'.pc = CASE sup.pc = "cleanup" -> "ended"
                       [] sup.pc = "dying"   -> "exited"
                       [] OTHER              -> sup.pc
        /\ shut' = IF shut = "cleanup" THEN "unsubscribe" ELSE shut
    BY <1>1, <1>14 DEF CleanupEnds, client, transport
  <2>2. sup.pc \in {"cleanup", "dying", "exited"} /\ conn = 0
    BY <1>1, <2>1 DEF Session, Active
  <2>3. CASE sup.pc = "cleanup"
    BY <1>1, <2>1, <2>3 DEF Session, Active
  <2>4. CASE sup.pc = "dying"
    BY <1>1, <2>1, <2>4 DEF Session, Active
  <2>5. CASE sup.pc = "exited"
    BY <1>1, <2>1, <2>5 DEF Session, Active
  <2> QED
    BY <2>2, <2>3, <2>4, <2>5
<1>15. CASE SupervisorCancelled
  <2>1. /\ shut = "stopping" /\ sup.pc \notin {"exited", "dying"}
        /\ UNCHANGED <<conn, gen, stop, shut, socket, member>>
    BY <1>15 DEF SupervisorCancelled, client, transport
  <2>2. \/ /\ sup.pc = "cleanup" /\ sup'.pc = "dying" /\ cleanup' = cleanup
        \/ /\ sup.pc = "cleanup" /\ sup'.pc = "exited"
           /\ cleanup.pc \in {"closing", "finishing"} /\ cleanup'.pc = "idle"
        \/ /\ sup.pc # "cleanup" /\ sup'.pc = "exited" /\ cleanup' = cleanup
    BY <1>1, <1>15 DEF SupervisorCancelled
  <2> QED
    BY <1>3, <2>1, <2>2 DEF Session, Active
<1> QED
  BY <1>4, <1>5, <1>6, <1>7, <1>8, <1>9, <1>10, <1>11, <1>12, <1>13, <1>14, <1>15
  DEF SupervisorStep

\* Every step keeps the session's shape.
LEMMA SessionShape ==
  ASSUME PInv, Session, [Next]_vars
  PROVE  Session'
<1>1. CASE ShutdownStep
  <2>1. CASE ShutdownCleansUp
    <3>1. /\ shut = "stopping" /\ sup.pc = "exited" /\ shut' = "cleanup" /\ conn' = 0
          /\ cleanup.pc = "idle" /\ cleanup'.pc = "cancelling" /\ cleanup'.conn = conn
          /\ UNCHANGED <<gen, stop, sup, socket, member>> /\ stop
      BY <2>1 DEF ShutdownCleansUp, CleanupBegins, transport, PInv, Phases
    <3> QED
      BY <3>1 DEF Session, Active
  <2>2. CASE ShutdownUnsubscribes \/ ShutdownCancelsLifecycle \/ ShutdownEnds
    <3>1. /\ shut \in {"unsubscribe", "leaving", "lifecycle"}
          /\ shut' \in {"leaving", "lifecycle", "done"}
          /\ UNCHANGED <<conn, gen, stop, sup, cleanup, socket, member>>
      BY <2>2 DEF ShutdownUnsubscribes, ShutdownCancelsLifecycle, ShutdownEnds, client,
                  transport
    <3> QED
      BY <3>1 DEF Session, Active
  <2> QED
    BY <1>1, <2>1, <2>2 DEF ShutdownStep
<1>2. CASE UserStep
  <2>1. CASE RequestStop
    <3>1. /\ shut = "none" /\ shut' = "stopping" /\ stop'
          /\ UNCHANGED <<conn, gen, sup, cleanup, socket, member>>
      BY <2>1 DEF RequestStop, transport
    <3> QED
      BY <3>1 DEF Session, Active
  <2>2. ASSUME NEW h \in Handles,
               (\E ok \in ParamsResults : Join(h, ok)) \/ Leave(h) \/ JoinCancelled(h)
        PROVE  Session'
    BY <2>2, SameSession, SameMembers DEF Join, Leave, JoinCancelled, client, loop, transport
  <2> QED
    BY <1>2, <2>1, <2>2 DEF UserStep
<1>3. CASE NetworkStep
  <2>1. CASE Drop
    BY <2>1, ClosingSession DEF Drop, client, loop
  <2>2. ASSUME NEW t \in Topics, NEW event \in ServerEnds, EndMembership(t, event)
        PROVE  Session'
    <3>1. UNCHANGED <<conn, gen, stop, cleanup, shut, socket, sup>> /\ socket = "open"
      BY <2>2 DEF EndMembership, client, loop
    <3> QED
      BY <3>1, SameSession DEF MembersOpen
  <2>3. CASE RoutingBreaks \/ ConnectFails
    BY <2>3, SameSession, SameMembers
    DEF RoutingBreaks, ConnectFails, client, loop, transport
  <2> QED
    BY <1>3, <2>1, <2>2, <2>3 DEF NetworkStep
<1>4. CASE RoutingStep \/ UNCHANGED vars
  BY <1>4, SameSession, SameMembers
  DEF RoutingStep, Route, RoutingEnds, RoutingStopped, vars, client, loop, transport
<1>5. CASE CloseSendSession
  <2>1. UNCHANGED <<conn, gen, stop, cleanup, shut, sup>>
        /\ (CloseSocket \/ UNCHANGED transport)
    BY <1>5 DEF CloseSendSession, client, loop
  <2> QED
    BY <2>1, ClosingSession, SameSession, SameMembers DEF transport
<1> QED
  BY <1>1, <1>2, <1>3, <1>4, <1>5, HandleSession, SendSession, SupervisorSession DEF Next

-----------------------------------------------------------------------------
(* Steps that begin no attempt *)

\* From c to d no attempt begins, is written, or is accepted: the channel keeps
\* its attempt, ceases to be joined but does not come to be, and is not recovered
\* once the client stops.  Its membership is called terminal without a control of
\* the server only when its connection is not the current one.
Calm(c, d) ==
  /\ d.established = c.established /\ d.conn = c.conn /\ d.joinRef = c.joinRef
  /\ d.submitted = c.submitted
  /\ d.state = "created" => c.state = "created"
  /\ d.state = "joined" => c.state = "joined"
  /\ c.state = "left" => d.state = "left"
  /\ JoinReady(d) => JoinReady(c)
  /\ c.leave # "none" => d.leave # "none"
  /\ c.leave # "none" \/ d.leave = "none" \/ d.state = "left"
  /\ stop /\ d.rec # "none" => c.rec # "none"
  /\ conn # 0 /\ d.terminal => c.terminal \/ c.conn # conn
  /\ d.terminal => c.terminal \/ d.state # "created" \/ d.leave # "none"

\* A handle that nobody joined has no name, was neither submitted nor ended, and is
\* not being left.
Tidy ==
  \A h \in Handles :
    /\ ch[h].leave # "none" => ch[h].state = "left"
    /\ IsRegistered(h) => ch[h].state # "created"
    /\ ch[h].state = "created" => ~ch[h].submitted /\ ~ch[h].terminal

AllCalm(chs) == \A h \in Handles : Calm(ch[h], chs[h])

\* Calm steps compose.
LEMMA CalmItself ==
  ASSUME NEW c
  PROVE  Calm(c, c)
  BY DEF Calm

LEMMA CalmTransitive ==
  ASSUME NEW c, NEW d, NEW e, Calm(c, d), Calm(d, e)
  PROVE  Calm(c, e)
  BY DEF Calm

\* Fields that Calm is not about.
LEMMA SameChannelCalm ==
  ASSUME NEW c, NEW d, SameChannel(c, d)
  PROVE  Calm(c, d)
  BY DEF Calm, SameChannel, SameAttempt, SameFate, SameOutcome, JoinReady

\* One field at a time.
LEMMA FieldsCalm ==
  ASSUME NEW c \in SoundChannel, NEW v
  PROVE  /\ Calm(c, [c EXCEPT !.cause = v]) /\ Calm(c, [c EXCEPT !.loseStart = v])
         /\ Calm(c, [c EXCEPT !.cleaned = v])
         /\ Calm(c, [c EXCEPT !.recConn = v]) /\ Calm(c, [c EXCEPT !.recCancel = v])
         /\ v # "none" /\ (c.leave # "none" \/ c.state = "left")
              => Calm(c, [c EXCEPT !.leave = v])
         /\ c.rec # "none" \/ v = "none" \/ ~stop => Calm(c, [c EXCEPT !.rec = v])
         /\ (c.conn # conn \/ conn = 0) /\ (c.state # "created" \/ c.leave # "none")
              => Calm(c, [c EXCEPT !.terminal = v])
         /\ v = "left" => Calm(c, [c EXCEPT !.state = v])
<1> USE DEF SoundChannel, Channel, Calm, JoinReady
<1>1. Calm(c, [c EXCEPT !.cause = v]) /\ Calm(c, [c EXCEPT !.loseStart = v])
  OBVIOUS
<1>2. Calm(c, [c EXCEPT !.cleaned = v])
  OBVIOUS
<1>3. Calm(c, [c EXCEPT !.recConn = v]) /\ Calm(c, [c EXCEPT !.recCancel = v])
  OBVIOUS
<1>4. v # "none" /\ (c.leave # "none" \/ c.state = "left")
        => Calm(c, [c EXCEPT !.leave = v])
  OBVIOUS
<1>5. c.rec # "none" \/ v = "none" \/ ~stop => Calm(c, [c EXCEPT !.rec = v])
  OBVIOUS
<1>6. (c.conn # conn \/ conn = 0) /\ (c.state # "created" \/ c.leave # "none")
        => Calm(c, [c EXCEPT !.terminal = v])
  OBVIOUS
<1>7. v = "left" => Calm(c, [c EXCEPT !.state = v])
  OBVIOUS
<1> QED
  BY <1>1, <1>2, <1>3, <1>4, <1>5, <1>6, <1>7

LEMMA OtherFieldsCalm ==
  ASSUME NEW c \in SoundChannel, NEW v
  PROVE  /\ Calm(c, [c EXCEPT !.unsub = v]) /\ Calm(c, [c EXCEPT !.join = v])
         /\ Calm(c, [c EXCEPT !.loseWait = v]) /\ Calm(c, [c EXCEPT !.leaveRef = v])
         /\ Calm(c, [c EXCEPT !.reported = v]) /\ Calm(c, [c EXCEPT !.calls = v])
  BY OtherFields, SameChannelCalm

\* The helpers of ChannelState that fail a channel.
LEMMA FailedCalm ==
  ASSUME NEW c \in SoundChannel, NEW cause \in ChannelCauses, NEW error, error # "ok",
         NEW halt \in BOOLEAN
  PROVE  Calm(c, Failed(c, cause, error, halt))
<1> DEFINE d == Failed(c, cause, error, halt)
<1>1. SameAttempt(c, d) /\ FailedOutcome(c, d, error) /\ d.leave = c.leave
      /\ d.state \in {"rejoining", "left"}
      /\ (c.state = "left" => d.state = "left")
  <2>1. /\ SameAttempt(c, d) /\ FailedOutcome(c, d, error) /\ d.leave = c.leave
        /\ d.state = StateAfter(c, cause, halt)
    BY FailedFields
  <2>2. /\ StateAfter(c, cause, halt) \in {"rejoining", "left"}
        /\ c.state = "left" => StateAfter(c, cause, halt) = "left"
    BY DEF StateAfter
  <2> QED
    BY <2>1, <2>2
<1> HIDE DEF d
<1>2. Calm(c, d)
  BY <1>1 DEF Calm, SameAttempt, FailedOutcome, JoinReady
<1> QED
  BY <1>2 DEF d

LEMMA SettleJoinCalm ==
  ASSUME NEW c \in SoundChannel, NEW result, result # "ok"
  PROVE  Calm(c, SettleJoin(c, result))
<1> DEFINE d == SettleJoin(c, result)
<1>1. SameAttempt(c, d) /\ SameFate(c, d) /\ d.voided = c.voided
      /\ d.out = IF c.out = "pending" THEN result ELSE c.out
  BY SettleJoinFields
<1> HIDE DEF d
<1>2. Calm(c, d)
  BY <1>1 DEF Calm, SameAttempt, SameFate, JoinReady
<1> QED
  BY <1>2 DEF d

LEMMA StartLeaveCalm ==
  ASSUME NEW c \in SoundChannel, NEW halt \in BOOLEAN
  PROVE  Calm(c, StartLeave(c, halt))
<1> DEFINE d == StartLeave(c, halt)
<1>1. /\ SameAttempt(c, d)
      /\ d.leave = IF c.leave = "none" THEN "start" ELSE c.leave
      /\ d = c \/ /\ d.state = "left"
                  /\ SameOutcome(c, d) \/ FailedOutcome(c, d, "channel")
  BY StartLeaveFields
<1> HIDE DEF d
<1>2. Calm(c, d)
  BY <1>1 DEF Calm, SameAttempt, SameOutcome, FailedOutcome, JoinReady
<1> QED
  BY <1>2 DEF d

LEMMA StartTopicLossCalm ==
  ASSUME NEW c \in SoundChannel, NEW halt \in BOOLEAN
  PROVE  Calm(c, StartTopicLoss(c, halt))
<1> DEFINE d == StartTopicLoss(c, halt)
<1>1. /\ SameAttempt(c, d) /\ d.state = "left"
      /\ c.leave # "none" => d.leave # "none"
      /\ SameOutcome(c, d) \/ FailedOutcome(c, d, "channel")
  BY StartTopicLossFields
<1> HIDE DEF d
<1>2. Calm(c, d)
  BY <1>1 DEF Calm, SameAttempt, SameOutcome, FailedOutcome, JoinReady
<1> QED
  BY <1>2 DEF d

LEMMA JoinFailureCalm ==
  ASSUME NEW c \in SoundChannel, NEW halt \in BOOLEAN
  PROVE  Calm(c, JoinFailure(c, halt))
<1>1. {"configuration", "timeout"} \subseteq ChannelCauses
  BY DEF ChannelCauses
<1> QED
  BY <1>1, FailedCalm, CalmItself DEF JoinFailure

LEMMA FailPendingJoinCalm ==
  ASSUME NEW c \in SoundChannel, NEW halt \in BOOLEAN
  PROVE  Calm(c, FailPendingJoin(c, halt))
<1> DEFINE d == FailPendingJoin(c, halt)
<1>1. CASE c.state = "left"
  BY <1>1, FailPendingJoinFields, SameChannelCalm
<1>2. CASE c.state # "left"
  <2>1. /\ SameAttempt(c, d) /\ FailedOutcome(c, d, "socket")
        /\ d.state \in {"rejoining", "left"}
        /\ c.leave # "none" => d.leave # "none"
        /\ d.state # "left" => d.leave = c.leave
    <3>1. StateAfter(c, "transport", halt) \in {"rejoining", "left"}
      BY DEF StateAfter
    <3>2. /\ SameAttempt(c, d) /\ FailedOutcome(c, d, "socket")
          /\ d.state = StateAfter(c, "transport", halt)
          /\ c.leave # "none" => d.leave = c.leave
          /\ d.state # "left" => d.leave = c.leave
      BY <1>2, FailPendingJoinFields
    <3> QED
      BY <3>1, <3>2
  <2> HIDE DEF d
  <2>2. Calm(c, d)
    BY <1>2, <2>1 DEF Calm, SameAttempt, FailedOutcome, JoinReady
  <2> QED
    BY <2>2 DEF d
<1> QED
  BY <1>1, <1>2

\* The helpers of TopicRuntime.
LEMMA StartRecoveryCalm ==
  ASSUME IInv, NEW h, NEW c \in SoundChannel, NEW immediate
  PROVE  Calm(c, StartRecovery(c, h, immediate))
<1> DEFINE a == [c EXCEPT !.rec = "delay"]
           b == [a EXCEPT !.recConn = gen]
           d == [b EXCEPT !.recCancel = FALSE]
<1>1. CASE ~stop
  <2>1. StartRecovery(c, h, immediate) \in {c, d}
    BY DEF StartRecovery
  <2>2. a \in SoundChannel /\ Calm(c, a)
    BY <1>1, RecoveryKeeps, FieldsCalm
  <2> HIDE DEF a
  <2>3. b \in SoundChannel /\ Calm(a, b)
    BY <2>2, RecConnKeeps, FieldsCalm DEF IInv, OthersOK
  <2> HIDE DEF b
  <2>4. Calm(b, d)
    BY <2>3, FieldsCalm
  <2> HIDE DEF d
  <2>5. Calm(c, d)
    BY <2>2, <2>3, <2>4, CalmTransitive
  <2> QED
    BY <2>1, <2>5, CalmItself
<1>2. CASE stop
  BY <1>2, CalmItself DEF StartRecovery
<1> QED
  BY <1>1, <1>2

LEMMA BeforeRejoinCalm ==
  ASSUME NEW c \in SoundChannel, stop \in BOOLEAN
  PROVE  Calm(c, BeforeRejoin(c))
<1>1. "transport" \in ChannelCauses
  BY DEF ChannelCauses
<1> QED
  BY <1>1, FailedCalm, CalmItself DEF BeforeRejoin

LEMMA TryAgainCalm ==
  ASSUME NEW h, NEW c \in SoundChannel
  PROVE  Calm(c, TryAgain(h, c))
  BY FieldsCalm DEF TryAgain

LEMMA FailOutcomeCalm ==
  ASSUME NEW c \in SoundChannel, NEW o, NEW error, error # "ok"
  PROVE  Calm(c, FailOutcome(c, o, error))
<1>1. Calm(c, FailUnsubscribe(c))
  BY FailUnsubscribeFields, SameChannelCalm
<1> QED
  BY <1>1, SettleJoinCalm, CalmItself DEF FailOutcome

LEMMA RetireChannelCalm ==
  ASSUME NEW c \in SoundChannel
  PROVE  Calm(c, RetireChannel(c, conn))
<1> DEFINE d == Failed(c, "stop", "channel", TRUE)
           e == StartLeave(d, TRUE)
<1>1. "stop" \in ChannelCauses /\ "channel" \in JoinOutcomes
  BY DEF ChannelCauses, JoinOutcomes
<1>2. d \in SoundChannel /\ Calm(c, d)
  BY <1>1, FailedKeeps, FailedCalm
<1>3. e \in SoundChannel /\ Calm(d, e)
  BY <1>2, StartLeaveKeeps, StartLeaveCalm
<1>4. RetireChannel(c, conn) = IF d.conn = conn THEN d ELSE [e EXCEPT !.terminal = TRUE]
  BY DEF RetireChannel
<1> HIDE DEF e
<1>5. e.conn = d.conn /\ e.leave # "none"
  <2>1. e.leave = IF d.leave = "none" THEN "start" ELSE d.leave
    BY <1>2, StartLeaveFields DEF e
  <2> QED
    BY <1>3, <2>1 DEF Calm
<1> HIDE DEF d
<1>6. d.conn # conn => Calm(e, [e EXCEPT !.terminal = TRUE])
  BY <1>3, <1>5, FieldsCalm
<1> QED
  BY <1>2, <1>3, <1>4, <1>6, CalmTransitive

-----------------------------------------------------------------------------
(* The calm steps, action by action *)

\* The facts about one handle that its steps use.
LEMMA HandleFacts ==
  ASSUME IInv, NEW h \in Handles
  PROVE  ch[h] \in SoundChannel /\ DOMAIN ch = Handles /\ stop \in BOOLEAN
  BY DEF IInv, SoundChannels, OthersOK

\* A step of one channel, and of none.
LEMMA OneCalm ==
  ASSUME IInv, NEW h \in Handles, NEW d, Calm(ch[h], d)
  PROVE  AllCalm([ch EXCEPT ![h] = d])
  BY CalmItself DEF IInv, SoundChannels, AllCalm

LEMMA NoneCalm == AllCalm(ch)
  BY CalmItself DEF AllCalm

\* A lost connection fails the pending joins of all.
LEMMA FailPendingJoinsCalm ==
  ASSUME IInv, NEW chs, KeepsAll(chs), AllCalm(chs)
  PROVE  AllCalm(FailPendingJoins(chs))
<1>1. \A h \in Handles : Calm(chs[h], FailPendingJoin(chs[h], stop))
  BY FailPendingJoinCalm DEF IInv, OthersOK, KeepsAll
<1>2. \A h \in Handles : Calm(ch[h], FailPendingJoin(chs[h], stop))
  BY <1>1, CalmTransitive DEF AllCalm
<1> QED
  BY <1>2 DEF FailPendingJoins, AllCalm

LEMMA FailureCalm ==
  ASSUME IInv, NEW chs, KeepsAll(chs), AllCalm(chs), NotifyFailure(chs)
  PROVE  AllCalm(ch')
  BY FailPendingJoinsCalm DEF NotifyFailure

\* A send whose outcome is failed.
LEMMA OutcomeCalm ==
  ASSUME IInv, NEW o, o.h \in Handles, NEW error \in JoinOutcomes, error # "ok"
  PROVE  LET chs == [ch EXCEPT ![o.h] = FailOutcome(ch[o.h], o, error)]
         IN  KeepsAll(chs) /\ AllCalm(chs)
  BY HandleFacts, FailOutcomeKeeps, FailOutcomeCalm, OneChannelKept, OneCalm

\* The sends, but for the one that is written.
LEMMA SendCalm ==
  ASSUME IInv, NEW o \in ops, SendFails(o) \/ SendCancelled(o) \/ SendReturns(o)
  PROVE  AllCalm(ch')
<1>1. o.h \in Handles /\ "socket" \in JoinOutcomes
  BY DEF IInv, OthersOK, Op, JoinOutcomes
<1> QED
  BY <1>1, OutcomeCalm, FailureCalm, NoneCalm DEF SendFails, SendCancelled, SendReturns

LEMMA ExpireCalm ==
  ASSUME IInv, NEW o \in Timers, Expire(o)
  PROVE  AllCalm(ch')
<1>1. o.h \in Handles /\ "timeout" \in JoinOutcomes
  BY DEF IInv, OthersOK, Op, Timers, JoinOutcomes
<1> DEFINE late == [ch EXCEPT ![o.h] = FailOutcome(ch[o.h], o, "timeout")]
<1>2. KeepsAll(late) /\ AllCalm(late)
  BY <1>1, OutcomeCalm
<1>3. ch' = late \/ NotifyFailure(late)
  BY DEF Expire
<1> HIDE DEF late
<1> QED
  BY <1>2, <1>3, FailureCalm

\* The caller of join and the application.
LEMMA JoinCallerCalm ==
  ASSUME IInv, NEW h \in Handles,
         JoinResumes(h) \/ JoinCancelled(h) \/ JoinRaises(h) \/ Leave(h)
  PROVE  AllCalm(ch')
<1>1. ch[h] \in SoundChannel /\ stop \in BOOLEAN
  BY HandleFacts
<1>2. ASSUME NEW c \in SoundChannel, Calm(ch[h], c)
      PROVE  Calm(ch[h], [StartLeave(c, stop) EXCEPT !.join = "failing"])
  <2>1. StartLeave(c, stop) \in SoundChannel /\ Calm(ch[h], StartLeave(c, stop))
    BY <1>1, <1>2, StartLeaveKeeps, StartLeaveCalm, CalmTransitive
  <2> QED
    BY <2>1, OtherFieldsCalm, CalmTransitive
<1>3. Calm(ch[h], [ch[h] EXCEPT !.join = "done"])
  BY <1>1, OtherFieldsCalm
<1>4. CASE JoinResumes(h)
  <2>1. Calm(ch[h], [StartLeave(JoinFailure(ch[h], stop), stop) EXCEPT !.join = "failing"])
    BY <1>1, <1>2, JoinFailureKeeps, JoinFailureCalm
  <2>2. \/ ch' = [ch EXCEPT ![h] = [ch[h] EXCEPT !.join = "done"]]
        \/ ch' = [ch EXCEPT ![h] =
             [StartLeave(JoinFailure(ch[h], stop), stop) EXCEPT !.join = "failing"]]
    BY <1>4 DEF JoinResumes
  <2> QED
    BY <1>3, <2>1, <2>2, OneCalm
<1>5. CASE JoinCancelled(h)
  <2>1. CancelJoin(ch[h]) \in SoundChannel /\ Calm(ch[h], CancelJoin(ch[h]))
    BY <1>1, CancelJoinKeeps, SettleJoinCalm DEF CancelJoin
  <2>2. ch' = [ch EXCEPT ![h] =
                 [StartLeave(CancelJoin(ch[h]), stop) EXCEPT !.join = "failing"]]
    BY <1>5 DEF JoinCancelled
  <2> QED
    BY <1>2, <2>1, <2>2, OneCalm
<1>6. CASE JoinRaises(h)
  BY <1>3, <1>6, OneCalm DEF JoinRaises
<1>7. CASE Leave(h)
  <2> DEFINE d == [ch[h] EXCEPT !.state = "left", !.cause = "leave"]
  <2>1. Calm(ch[h], d)
    BY <1>1 DEF SoundChannel, Channel, Calm, JoinReady
  <2>2. \/ ch' = [ch EXCEPT ![h] = d]
        \/ ch' = [ch EXCEPT ![h] = StartLeave(ch[h], stop)]
    BY <1>7 DEF Leave
  <2> HIDE DEF d
  <2> QED
    BY <1>1, <2>1, <2>2, StartLeaveCalm, OneCalm
<1> QED
  BY <1>4, <1>5, <1>6, <1>7

\* The leave task.
LEMMA LeaveTaskCalm ==
  ASSUME IInv, NEW h \in Handles,
         LeaveStarts(h) \/ LeaveAnswered(h) \/ LeaveFinishes(h)
  PROVE  AllCalm(ch')
<1>1. ch[h] \in SoundChannel /\ DOMAIN ch = Handles
  BY HandleFacts
<1> DEFINE cleaning == [ch[h] EXCEPT !.leave = "cleanup", !.recCancel = (ch[h].rec # "none")]
           sending == [ch[h] EXCEPT !.leave = "sending", !.leaveRef = refs + 1]
           done == [ch[h] EXCEPT !.leave = "done", !.cleaned = TRUE]
           gone == [cleaning EXCEPT !.terminal = TRUE]
<1>2. /\ ch' = [ch EXCEPT ![h] = ch'[h]] /\ ch[h].leave # "none"
      /\ ch'[h] \in {cleaning, sending, done} \/ (ch[h].conn # conn /\ ch'[h] = gone)
  BY <1>1 DEF LeaveStarts, LeaveAnswered, LeaveFinishes
<1>3. Calm(ch[h], cleaning) /\ Calm(ch[h], sending) /\ Calm(ch[h], done)
  BY <1>1, <1>2 DEF SoundChannel, Channel, Calm, JoinReady
<1>4. ch[h].conn # conn => Calm(ch[h], gone)
  BY <1>1, <1>2 DEF SoundChannel, Channel, Calm, JoinReady
<1> HIDE DEF cleaning, sending, done, gone
<1> QED
  BY <1>2, <1>3, <1>4, OneCalm

\* A recovery, before and after its attempt.
LEMMA RecoveryCalm ==
  ASSUME IInv, NEW h \in Handles,
         RecoverTries(h) \/ RecoverResumes(h) \/ RecoverCancelled(h)
  PROVE  AllCalm(ch')
<1>1. ch[h] \in SoundChannel /\ stop \in BOOLEAN
  BY HandleFacts
<1>2. ASSUME NEW c \in SoundChannel, Calm(ch[h], c), NEW pc, pc = "none" \/ ~stop
      PROVE  Calm(ch[h], [c EXCEPT !.rec = pc])
  BY <1>2, FieldsCalm, CalmTransitive
<1>3. Calm(ch[h], [ch[h] EXCEPT !.rec = "none"])
  BY <1>1, <1>2, CalmItself
<1>4. CASE RecoverTries(h)
  <2>1. BeforeRejoin(ch[h]) \in SoundChannel /\ Calm(ch[h], BeforeRejoin(ch[h]))
    BY <1>1, BeforeRejoinKeeps, BeforeRejoinCalm
  <2>2. \/ /\ ch' = [ch EXCEPT ![h] = [BeforeRejoin(ch[h]) EXCEPT !.rec = "stopping"]]
           /\ ~stop
        \/ ch' = [ch EXCEPT ![h] = [ch[h] EXCEPT !.rec = "none"]]
    BY <1>4 DEF RecoverTries, CanRecover
  <2> QED
    BY <1>2, <1>3, <2>1, <2>2, OneCalm
<1>5. CASE RecoverResumes(h)
  <2> DEFINE c == JoinFailure(ch[h], stop)
  <2>1. c \in SoundChannel /\ Calm(ch[h], c)
    BY <1>1, JoinFailureKeeps, JoinFailureCalm
  <2>2. \/ ch' = [ch EXCEPT ![h] = [c EXCEPT !.rec = "none"]]
        \/ ch' = [ch EXCEPT ![h] = TryAgain(h, c)]
        \/ ch' = [ch EXCEPT ![h] = [StartTopicLoss(c, stop) EXCEPT !.rec = "none"]]
    BY <1>5 DEF RecoverResumes
  <2> HIDE DEF c
  <2>3. StartTopicLoss(c, stop) \in SoundChannel /\ Calm(ch[h], StartTopicLoss(c, stop))
    BY <1>1, <2>1, StartTopicLossKeeps, StartTopicLossCalm, CalmTransitive
  <2>4. Calm(ch[h], TryAgain(h, c))
    BY <2>1, TryAgainCalm, CalmTransitive
  <2> QED
    BY <1>2, <2>1, <2>2, <2>3, <2>4, OneCalm
<1>6. CASE RecoverCancelled(h)
  <2>1. CancelJoin(ch[h]) \in SoundChannel /\ Calm(ch[h], CancelJoin(ch[h]))
    BY <1>1, CancelJoinKeeps, SettleJoinCalm DEF CancelJoin
  <2>2. \/ ch' = [ch EXCEPT ![h] = [CancelJoin(ch[h]) EXCEPT !.rec = "none"]]
        \/ ch' = [ch EXCEPT ![h] = [ch[h] EXCEPT !.rec = "none"]]
    BY <1>6 DEF RecoverCancelled
  <2> QED
    BY <1>2, <1>3, <2>1, <2>2, OneCalm
<1> QED
  BY <1>4, <1>5, <1>6

\* The tasks of a loss.
LEMMA LossCalm ==
  ASSUME IInv, NEW h \in Handles, LoseStarts(h) \/ LoseReports(h)
  PROVE  AllCalm(ch')
<1>1. ch[h] \in SoundChannel /\ stop \in BOOLEAN
  BY HandleFacts
<1>2. CASE LoseStarts(h)
  <2> DEFINE c == [ch[h] EXCEPT !.loseStart = ch[h].loseStart - 1]
             d == StartLeave(c, stop)
  <2>1. ch[h].loseStart - 1 \in Nat
    BY <1>1, <1>2 DEF LoseStarts, SoundChannel, Channel
  <2>2. c \in SoundChannel /\ Calm(ch[h], c)
    BY <1>1, <2>1, LoseStartKeeps, FieldsCalm
  <2>3. \/ ch' = [ch EXCEPT ![h] = c]
        \/ ch' = [ch EXCEPT ![h] = [d EXCEPT !.loseWait = d.loseWait + 1]]
    BY <1>2 DEF LoseStarts
  <2> HIDE DEF c
  <2>4. d \in SoundChannel /\ Calm(ch[h], d)
    BY <1>1, <2>2, StartLeaveKeeps, StartLeaveCalm, CalmTransitive
  <2> HIDE DEF d
  <2>5. Calm(ch[h], [d EXCEPT !.loseWait = d.loseWait + 1])
    BY <2>4, OtherFieldsCalm, CalmTransitive
  <2> QED
    BY <2>2, <2>3, <2>5, OneCalm
<1>3. CASE LoseReports(h)
  <2> DEFINE once == [ch[h] EXCEPT !.loseWait = ch[h].loseWait - 1, !.reported = TRUE,
                                   !.calls = ch[h].calls + 1]
             again == [ch[h] EXCEPT !.loseWait = ch[h].loseWait - 1]
  <2>1. ch' = [ch EXCEPT ![h] = IF ch[h].reported THEN again ELSE once]
    BY <1>3 DEF LoseReports, Report
  <2>2. Calm(ch[h], again) /\ Calm(ch[h], once)
    BY <1>1 DEF SoundChannel, Channel, Calm, JoinReady
  <2> HIDE DEF once, again
  <2> QED
    BY <2>1, <2>2, OneCalm
<1> QED
  BY <1>2, <1>3

\* The end of routing, and the cleanup that a session's end or a shutdown begins.
LEMMA ConnectionLostCalm ==
  ASSUME IInv, RoutingStopped \/ EndSession \/ ShutdownCleansUp
  PROVE  AllCalm(ch')
<1> DEFINE failing == FailPendingJoins(ch)
<1>1. KeepsAll(failing) /\ AllCalm(failing)
  BY NoChannelKept, FailPendingJoinsKept, NoneCalm, FailPendingJoinsCalm
<1>2. ASSUME CleanupBegins
      PROVE  AllCalm(ch')
  <2>1. PICK recoveries :
          ch' = [h \in Handles |-> IF h \in recoveries
                                   THEN [failing[h] EXCEPT !.recCancel = TRUE]
                                   ELSE failing[h]]
    BY <1>2 DEF CleanupBegins
  <2> HIDE DEF failing
  <2>2. \A h \in Handles : Calm(ch[h], [failing[h] EXCEPT !.recCancel = TRUE])
    BY <1>1, FieldsCalm, CalmTransitive DEF KeepsAll, AllCalm
  <2> QED
    BY <1>1, <2>1, <2>2 DEF AllCalm
<1> QED
  BY <1>1, <1>2, NoneCalm DEF RoutingStopped, EndSession, ShutdownCleansUp

\* The rejoins of a new session, except for the restart.
LEMMA RejoinCalm ==
  ASSUME IInv,
         (\E h \in Handles : RejoinNext(h)) \/ RejoinResumes \/ RejoinLost \/ RejoinDone
  PROVE  AllCalm(ch')
<1>1. stop \in BOOLEAN /\ CurrentRejoin /\ \A h \in Handles : ch[h] \in SoundChannel
  BY DEF IInv, OthersOK, SoundChannels
<1>2. ASSUME NEW h \in Handles, RejoinNext(h)
      PROVE  AllCalm(ch')
  <2>1. ch' = ch \/ ch' = [ch EXCEPT ![h] = BeforeRejoin(ch[h])]
    BY <1>2 DEF RejoinNext
  <2> QED
    BY <1>1, <2>1, BeforeRejoinCalm, NoneCalm, OneCalm
<1>3. CASE RejoinResumes
  <2> DEFINE h == sup.cur
             c == JoinFailure(ch[h], stop)
  <2>1. h \in Handles
    BY <1>1, <1>3 DEF RejoinResumes, CurrentRejoin
  <2>2. c \in SoundChannel /\ Calm(ch[h], c)
    BY <1>1, <2>1, JoinFailureKeeps, JoinFailureCalm
  <2>3. \/ ch' = ch
        \/ ch' = [ch EXCEPT ![h] = c]
        \/ ch' = [ch EXCEPT ![h] = StartLeave(c, stop)]
        \/ ch' = [ch EXCEPT ![h] = StartRecovery(c, h, FALSE)]
    BY <1>3 DEF RejoinResumes
  <2> HIDE DEF h, c
  <2>4. Calm(ch[h], StartLeave(c, stop)) /\ Calm(ch[h], StartRecovery(c, h, FALSE))
    BY <1>1, <2>2, StartLeaveCalm, StartRecoveryCalm, CalmTransitive
  <2> QED
    BY <2>1, <2>2, <2>3, <2>4, NoneCalm, OneCalm
<1>4. CASE RejoinLost
  <2>1. sup.cur \in Handles
    BY <1>1, <1>4 DEF RejoinLost, CurrentRejoin
  <2> QED
    BY <1>1, <1>4, <2>1, OtherFieldsCalm, OneCalm DEF RejoinLost
<1>5. CASE RejoinDone
  <2>1. \A h \in Handles : Calm(ch[h], StartRecovery(ch[h], h, TRUE))
    BY <1>1, StartRecoveryCalm
  <2>2. ch' = [h \in Handles |-> IF h \in sup.optional THEN StartRecovery(ch[h], h, TRUE)
                                                       ELSE ch[h]]
    BY <1>5 DEF RejoinDone
  <2> QED
    BY <2>1, <2>2, CalmItself DEF AllCalm
<1> QED
  BY <1>2, <1>3, <1>4, <1>5

\* Retiring the channels.
LEMMA RetiringCalm ==
  ASSUME IInv, SupervisorStops \/ AdoptsTooLate \/ RequestStop
  PROVE  AllCalm(ch')
<1>1. \A h \in Handles : Calm(ch[h], RetireChannel(ch[h], conn))
  BY HandleFacts, RetireChannelCalm
<1>2. ASSUME RetireChannels
      PROVE  AllCalm(ch')
  <2>1. ch' = [h \in Handles |-> IF IsRegistered(h) THEN RetireChannel(ch[h], conn)
                                                    ELSE ch[h]]
    BY <1>2 DEF RetireChannels
  <2> QED
    BY <1>1, <2>1, CalmItself DEF AllCalm
<1> QED
  BY <1>2, NoneCalm DEF SupervisorStops, AdoptsTooLate, RequestStop, SupervisorExits

\* The end of a cleanup, when nobody has a connection.
LEMMA CleanupEndsCalm ==
  ASSUME IInv, Session, Tidy, CleanupEnds
  PROVE  AllCalm(ch')
<1> DEFINE over == {h \in Handles : IsRegistered(h) /\ ch[h].conn = cleanup.conn}
<1>1. ch' = [h \in Handles |-> IF h \in over THEN [ch[h] EXCEPT !.terminal = TRUE]
                                               ELSE ch[h]]
  BY DEF CleanupEnds
<1>2. conn = 0
  BY DEF CleanupEnds, Session
<1>3. \A h \in over : Calm(ch[h], [ch[h] EXCEPT !.terminal = TRUE])
  BY <1>2, HandleFacts, FieldsCalm DEF Tidy
<1> HIDE DEF over
<1> QED
  BY <1>1, <1>3, CalmItself DEF AllCalm

\* The other steps of a shutdown.
LEMMA ShutdownCalm ==
  ASSUME IInv, SupervisorCancelled \/ ShutdownUnsubscribes \/ ShutdownCancelsLifecycle
  PROVE  AllCalm(ch')
<1>1. stop \in BOOLEAN /\ CurrentRejoin /\ \A h \in Handles : ch[h] \in SoundChannel
  BY DEF IInv, OthersOK, SoundChannels
<1>2. CASE SupervisorCancelled
  <2>1. CASE ch' = ch
    BY <2>1, NoneCalm
  <2>2. CASE sup.pc = "joining" /\ ch' = [ch EXCEPT ![sup.cur] = CancelJoin(ch[sup.cur])]
    <3>1. sup.cur \in Handles
      BY <1>1, <2>2 DEF CurrentRejoin
    <3>2. Calm(ch[sup.cur], CancelJoin(ch[sup.cur]))
      BY <1>1, <3>1, SettleJoinCalm DEF CancelJoin
    <3> QED
      BY <2>2, <3>1, <3>2, OneCalm
  <2> QED
    BY <1>2, <2>1, <2>2 DEF SupervisorCancelled
<1>3. CASE ShutdownUnsubscribes
  <2>1. ch' = [h \in Handles |-> IF IsRegistered(h) THEN StartLeave(ch[h], stop)
                                                    ELSE ch[h]]
    BY <1>3 DEF ShutdownUnsubscribes
  <2>2. \A h \in Handles : Calm(ch[h], StartLeave(ch[h], stop))
    BY <1>1, StartLeaveCalm
  <2> QED
    BY <2>1, <2>2, CalmItself DEF AllCalm
<1>4. CASE ShutdownCancelsLifecycle
  <2>1. ASSUME NEW c \in SoundChannel, NEW v
        PROVE  Calm(c, [c EXCEPT !.loseStart = 0, !.loseWait = 0, !.recCancel = v])
    BY <2>1 DEF SoundChannel, Channel, Calm, JoinReady
  <2>2. ch' = [h \in Handles |-> [ch[h] EXCEPT !.loseStart = 0, !.loseWait = 0,
                                               !.recCancel = (ch[h].rec # "none")]]
    BY <1>4 DEF ShutdownCancelsLifecycle
  <2> QED
    BY <1>1, <2>1, <2>2 DEF AllCalm
<1> QED
  BY <1>2, <1>3, <1>4

\* The steps that leave the channels alone.
LEMMA OtherStepsCalm ==
  ASSUME \/ CloseSendSession \/ RoutingEnds \/ RoutingBreaks \/ Drop \/ ConnectFails
         \/ (\E t \in Topics, event \in ServerEnds : EndMembership(t, event))
         \/ Connect \/ Reconnects \/ CleanupCloses \/ CleanupRetires \/ ShutdownEnds
         \/ UNCHANGED vars
  PROVE  AllCalm(ch')
<1>1. ch' = ch
  BY DEF CloseSendSession, RoutingEnds, RoutingBreaks, Drop, ConnectFails, EndMembership,
         Connect, Reconnects, CleanupCloses, CleanupRetires, ShutdownEnds, vars
<1> QED
  BY <1>1, NoneCalm

\* The step that begins or writes an attempt, or routes a frame.
Attempts ==
  \/ \E h \in Handles, ok \in ParamsResults : Join(h, ok) \/ RecoverRejoins(h, ok)
  \/ \E ok \in ParamsResults : RejoinRestarts(ok)
  \/ \E o \in ops : Submit(o)
  \/ \E t \in Topics, ok \in HookResults : Route(t, ok)

\* Any other step is calm.
LEMMA StepCalm ==
  ASSUME IInv, Session, Tidy, [Next]_vars
  PROVE  AllCalm(ch') \/ Attempts
<1>1. ASSUME NEW h \in Handles, HandleStep(h)
      PROVE  AllCalm(ch') \/ Attempts
  BY <1>1, JoinCallerCalm, LeaveTaskCalm, RecoveryCalm, LossCalm DEF HandleStep, Attempts
<1>2. ASSUME SupervisorStep
      PROVE  AllCalm(ch') \/ Attempts
  BY <1>2, RejoinCalm, ConnectionLostCalm, RetiringCalm, CleanupEndsCalm, ShutdownCalm,
     OtherStepsCalm DEF SupervisorStep, Attempts
<1>3. ASSUME ShutdownStep \/ RoutingStep
      PROVE  AllCalm(ch') \/ Attempts
  BY <1>3, ConnectionLostCalm, ShutdownCalm, OtherStepsCalm
  DEF ShutdownStep, RoutingStep, Attempts
<1>4. ASSUME UserStep \/ NetworkStep
      PROVE  AllCalm(ch') \/ Attempts
  BY <1>4, JoinCallerCalm, RetiringCalm, OtherStepsCalm DEF UserStep, NetworkStep, Attempts
<1>5. ASSUME NEW o \in ops, SendStep(o) \/ SendReturns(o)
      PROVE  AllCalm(ch') \/ Attempts
  BY <1>5, SendCalm DEF SendStep, Attempts
<1> QED
  BY <1>1, <1>2, <1>3, <1>4, <1>5, ExpireCalm, OtherStepsCalm DEF Next

-----------------------------------------------------------------------------
(* The names *)

\* The step takes names only as _release_reservation does.
OnlyReleases ==
  registry' = registry
  \/ \E who, current : registry' = Release(registry, ch', who, ops, current)

\* Retiring the channels does.
LEMMA RetiringReleases ==
  ASSUME RetireChannels
  PROVE  OnlyReleases
  BY DEF RetireChannels, OnlyReleases

\* So does every step but an admission.
LEMMA NamesReleased ==
  ASSUME [Next]_vars
  PROVE  OnlyReleases \/ \E h \in Handles, ok \in ParamsResults : Join(h, ok)
<1>1. ASSUME NEW h \in Handles, HandleStep(h)
      PROVE  OnlyReleases
  BY <1>1
  DEF HandleStep, JoinResumes, JoinRaises, LeaveStarts, LeaveAnswered, LeaveFinishes,
      RecoverTries, RecoverRejoins, RecoverResumes, RecoverCancelled, LoseStarts,
      LoseReports, OnlyReleases
<1>2. ASSUME \/ \E o \in ops : SendStep(o) \/ SendReturns(o)
             \/ \E o \in Timers : Expire(o)
             \/ CloseSendSession \/ NetworkStep \/ UNCHANGED vars
      PROVE  OnlyReleases
  BY <1>2
  DEF SendStep, SendReturns, Submit, SendFails, SendCancelled, Expire, CloseSendSession,
      NetworkStep, EndMembership, Drop, RoutingBreaks, ConnectFails, vars, OnlyReleases
<1>3. CASE RoutingStep
  BY <1>3 DEF RoutingStep, Route, RoutingEnds, RoutingStopped, OnlyReleases
<1>4. CASE SupervisorStep
  <2>1. CASE SupervisorStops \/ AdoptsTooLate
    BY <2>1, RetiringReleases DEF SupervisorStops, AdoptsTooLate, SupervisorExits, OnlyReleases
  <2>2. CASE CleanupEnds
    BY <2>2 DEF CleanupEnds, OnlyReleases
  <2> QED
    BY <1>4, <2>1, <2>2
    DEF SupervisorStep, Connect, RejoinNext, RejoinRestarts, RejoinResumes, RejoinLost,
        RejoinDone, EndSession, Reconnects, CleanupCloses, CleanupRetires,
        SupervisorCancelled, OnlyReleases
<1>5. CASE ShutdownStep
  BY <1>5
  DEF ShutdownStep, ShutdownCleansUp, ShutdownUnsubscribes, ShutdownCancelsLifecycle,
      ShutdownEnds, OnlyReleases
<1>6. CASE UserStep
  BY <1>6, RetiringReleases DEF UserStep, Leave, JoinCancelled, RequestStop, OnlyReleases
<1> QED
  BY <1>1, <1>2, <1>3, <1>4, <1>5, <1>6 DEF Next

\* A name comes with an admission only; and it goes, once its channel is left,
\* only if no join of it was submitted or the membership is known to have ended.
LEMMA NamesStep ==
  ASSUME IInv, [Next]_vars, NEW h \in Handles
  PROVE  /\ registry'[TopicOf[h]] = h
              => IsRegistered(h) \/ \E ok \in ParamsResults : Join(h, ok)
         /\ IsRegistered(h) /\ registry'[TopicOf[h]] # h
              => ch'[h].state = "left" /\ (~ch'[h].submitted \/ ch'[h].terminal)
<1>1. TopicOf[h] \in Topics /\ h # NoHandle
  BY TopicRuntimeAssumption
<1>2. CASE OnlyReleases
  BY <1>1, <1>2 DEF OnlyReleases, Release, MayRelease, IsRegistered
<1>3. ASSUME NEW g \in Handles, NEW ok \in ParamsResults, Join(g, ok)
      PROVE  /\ registry'[TopicOf[h]] = h => IsRegistered(h) \/ g = h
             /\ IsRegistered(h) => registry'[TopicOf[h]] = h
  <2>1. registry[TopicOf[g]] = NoHandle /\ registry' = [registry EXCEPT ![TopicOf[g]] = g]
    BY <1>3 DEF Join, NameIsFree
  <2>2. registry \in [Topics -> Handles \cup {NoHandle}]
    BY DEF IInv, RegistryOK, RegistryOf
  <2> QED
    BY <1>1, <2>1, <2>2 DEF IsRegistered
<1> QED
  BY <1>2, <1>3, NamesReleased

-----------------------------------------------------------------------------
(* What an attempt does *)

\* From c to d an attempt begins on the current connection with a fresh ref.
Begins(c, d) ==
  /\ d.established = c.established /\ d.conn = conn /\ d.joinRef = refs + 1
  /\ d.submitted => c.submitted
  /\ d.terminal => c.terminal
  /\ d.state \in {"joining", "rejoining", "left"}
  /\ d.leave = c.leave

\* An attempt whose params cannot be evaluated fails for good.
LEMMA StartJoinFields ==
  ASSUME IInv, NEW h \in Handles, NEW c \in SoundChannel, NEW ok, StartJoin(h, c, ok)
  PROVE  LET d == ch'[h]
         IN  /\ ch' = [ch EXCEPT ![h] = d]
             /\ SameAttempt(c, d) /\ d.leave = c.leave /\ d.loseStart = c.loseStart
             /\ \/ d = c /\ ops' = Queue(h, "join", c.joinRef)
                \/ /\ ops' = ops /\ d.state = "left" /\ d.cause = "configuration"
                   /\ FailedOutcome(c, d, "channel")
<1>1. ch[h] \in SoundChannel /\ DOMAIN ch = Handles /\ stop \in BOOLEAN
  BY HandleFacts
<1>2. "configuration" \in ChannelCauses
  BY DEF ChannelCauses
<1>3. CASE ok
  <2>1. ch'[h] = c /\ ch' = [ch EXCEPT ![h] = c] /\ ops' = Queue(h, "join", c.joinRef)
    BY <1>1, <1>3 DEF StartJoin
  <2> QED
    BY <2>1 DEF SameAttempt
<1>4. CASE ~ok
  <2> DEFINE d == ParamsFailure(c, stop)
  <2>1. /\ SameAttempt(c, d) /\ d.leave = c.leave /\ d.loseStart = c.loseStart
        /\ d.state = StateAfter(c, "configuration", stop) /\ d.cause = "configuration"
        /\ FailedOutcome(c, d, "channel")
    BY <1>1, <1>2, FailedFields DEF ParamsFailure
  <2>2. StateAfter(c, "configuration", stop) = "left"
    BY DEF StateAfter, RecoverableCauses
  <2>3. ch' = [ch EXCEPT ![h] = d] /\ ops' = ops
    BY <1>4 DEF StartJoin
  <2> HIDE DEF d
  <2>4. ch'[h] = d
    BY <1>1, <2>3
  <2> QED
    BY <2>1, <2>2, <2>3, <2>4
<1> QED
  BY <1>3, <1>4

\* An admission.
LEMMA JoinBegins ==
  ASSUME IInv, NEW h \in Handles, NEW ok, Join(h, ok)
  PROVE  /\ ch' = [ch EXCEPT ![h] = ch'[h]] /\ Begins(ch[h], ch'[h])
         /\ ~ch[h].established /\ ch'[h].rec = ch[h].rec
         /\ ch'[h].loseStart = ch[h].loseStart
         /\ ops' = ops \/ ops' = Queue(h, "join", refs + 1)
<1> DEFINE c == [ch[h] EXCEPT !.state = "joining", !.conn = conn,
                              !.joinRef = refs + 1, !.join = "waiting"]
<1>1. ch[h] \in SoundChannel /\ conn \in Conns /\ refs + 1 \in Refs
  BY HandleFacts, NextJoinRef DEF Join, IInv, OthersOK
<1>2. c \in SoundChannel
  <2>1. [ch[h] EXCEPT !.state = "joining"] \in SoundChannel
    BY <1>1, StateUpdate DEF SoundChannel, ChannelStates
  <2>2. [[ch[h] EXCEPT !.state = "joining"] EXCEPT !.conn = conn] \in SoundChannel
    BY <1>1, <2>1, ConnUpdate DEF SoundChannel, Channel
  <2>3. [[[ch[h] EXCEPT !.state = "joining"] EXCEPT !.conn = conn]
           EXCEPT !.joinRef = refs + 1] \in SoundChannel
    BY <1>1, <2>2, JoinRefUpdate DEF SoundChannel, Channel
  <2>4. [[[[ch[h] EXCEPT !.state = "joining"] EXCEPT !.conn = conn]
            EXCEPT !.joinRef = refs + 1] EXCEPT !.join = "waiting"] \in SoundChannel
    BY <2>3, JoinCallerKeeps
  <2> QED
    BY <2>4
<1>3. /\ c.established = ch[h].established /\ c.conn = conn /\ c.joinRef = refs + 1
      /\ c.submitted = ch[h].submitted /\ c.terminal = ch[h].terminal
      /\ c.state = "joining" /\ c.leave = ch[h].leave /\ c.rec = ch[h].rec
      /\ c.loseStart = ch[h].loseStart
  BY <1>1 DEF SoundChannel, Channel
<1>4. StartJoin(h, c, ok) /\ ch[h].state = "created"
  BY DEF Join
<1> HIDE DEF c
<1> QED
  BY <1>1, <1>2, <1>3, <1>4, StartJoinFields DEF Begins, SameAttempt, SoundChannel

\* A restart of an established channel, by the supervisor or by its recovery.
LEMMA RestartBegins ==
  ASSUME IInv, NEW h \in Handles, ShouldRejoin(h), refs + 1 \in Refs, NEW c,
         c = Restart(ch[h], conn, refs + 1)
           \/ c = [Restart(ch[h], conn, refs + 1) EXCEPT !.rec = "waiting"],
         NEW ok, StartJoin(h, c, ok)
  PROVE  LET d == ch'[h]
         IN  /\ ch' = [ch EXCEPT ![h] = d] /\ Begins(ch[h], d)
             /\ ~d.submitted /\ ~d.terminal /\ d.established /\ ~JoinReady(d)
             /\ d.rec = c.rec /\ d.recConn = ch[h].recConn /\ d.recCancel = ch[h].recCancel
             /\ d.cleaned = ch[h].cleaned /\ d.loseStart = ch[h].loseStart
             /\ \/ /\ d.state = "rejoining" /\ d.cause = "none" /\ d.out = "pending"
                   /\ ops' = Queue(h, "join", refs + 1)
                \/ /\ d.state = "left" /\ d.cause = "configuration" /\ d.out = "channel"
                   /\ ops' = ops
<1> DEFINE ref == refs + 1
           r == Restart(ch[h], conn, ref)
<1>1. ch[h] \in SoundChannel /\ conn \in Conns /\ ch[h].established /\ ref \in Refs
  BY HandleFacts DEF ShouldRejoin, IInv, OthersOK
<1>2. ref = refs + 1 /\ (c = r \/ c = [r EXCEPT !.rec = "waiting"])
  OBVIOUS
<1> HIDE DEF ref
<1>3. r \in SoundChannel
  BY <1>1, RestartSound
<1>4. /\ r.state = "rejoining" /\ r.cause = "none" /\ r.out = "pending"
      /\ r.conn = conn /\ r.joinRef = ref
      /\ ~r.submitted /\ ~r.terminal /\ r.established
  BY <1>1, RestartFields
<1>5. /\ r.cleaned = ch[h].cleaned /\ r.leave = ch[h].leave /\ r.loseStart = ch[h].loseStart
      /\ r.recConn = ch[h].recConn /\ r.recCancel = ch[h].recCancel
  BY <1>1, RestartFields
<1> HIDE DEF r
<1>6. c \in SoundChannel
  BY <1>2, <1>3, RecoveryKeeps
<1>7. /\ c.established /\ c.conn = conn /\ c.joinRef = ref
      /\ ~c.submitted /\ ~c.terminal /\ c.cleaned = ch[h].cleaned
      /\ c.recConn = ch[h].recConn /\ c.recCancel = ch[h].recCancel
      /\ c.state = "rejoining" /\ c.cause = "none" /\ c.out = "pending"
      /\ c.leave = ch[h].leave /\ c.loseStart = ch[h].loseStart
  BY <1>2, <1>3, <1>4, <1>5 DEF SoundChannel, Channel
<1>8. /\ ch' = [ch EXCEPT ![h] = ch'[h]]
      /\ SameAttempt(c, ch'[h]) /\ ch'[h].leave = c.leave /\ ch'[h].loseStart = c.loseStart
      /\ \/ ch'[h] = c /\ ops' = Queue(h, "join", c.joinRef)
         \/ /\ ops' = ops /\ ch'[h].state = "left" /\ ch'[h].cause = "configuration"
            /\ FailedOutcome(c, ch'[h], "channel")
  BY <1>6, StartJoinFields
<1> QED
  BY <1>1, <1>2, <1>7, <1>8 DEF Begins, SameAttempt, FailedOutcome, JoinReady

\* The recovery's restart.
LEMMA RecoverBegins ==
  ASSUME IInv, NEW h \in Handles, NEW ok, RecoverRejoins(h, ok)
  PROVE  \/ ShouldRejoin(h) /\ refs + 1 \in Refs /\ refs' = refs + 1
            /\ StartJoin(h, [Restart(ch[h], conn, refs + 1) EXCEPT !.rec = "waiting"], ok)
         \/ AllCalm(ch') /\ UNCHANGED <<refs, ops>>
<1>1. CASE ShouldRejoin(h)
  BY <1>1, NextJoinRef DEF RecoverRejoins
<1>2. CASE ~ShouldRejoin(h)
  <2>1. ch' = [ch EXCEPT ![h] = [ch[h] EXCEPT !.rec = "none"]] /\ UNCHANGED <<refs, ops>>
    BY <1>2 DEF RecoverRejoins
  <2> QED
    BY <2>1, HandleFacts, FieldsCalm, OneCalm
<1> QED
  BY <1>1, <1>2

\* The supervisor's.
LEMMA RejoinBegins ==
  ASSUME IInv, NEW ok, RejoinRestarts(ok)
  PROVE  /\ sup.cur \in Handles
         /\ \/ ShouldRejoin(sup.cur) /\ refs + 1 \in Refs /\ refs' = refs + 1
               /\ StartJoin(sup.cur, Restart(ch[sup.cur], conn, refs + 1), ok)
            \/ AllCalm(ch') /\ UNCHANGED <<refs, ops>> /\ ~ShouldRejoin(sup.cur)
<1>1. sup.cur \in Handles
  BY DEF IInv, OthersOK, CurrentRejoin, RejoinRestarts
<1>2. CASE ShouldRejoin(sup.cur)
  BY <1>1, <1>2, NextJoinRef DEF RejoinRestarts
<1>3. CASE ~ShouldRejoin(sup.cur)
  BY <1>1, <1>3, NoneCalm DEF RejoinRestarts
<1> QED
  BY <1>1, <1>2, <1>3

\* A join that is written: it is submitted from here on.
Wrote(o) == [ch EXCEPT ![o.h] = [@ EXCEPT !.submitted = TRUE]]

\* A failed write fails the pending joins, and nothing else.
LEMMA FailureIsCalm ==
  ASSUME IInv, NEW chs \in [Handles -> SoundChannel], NotifyFailure(chs), NEW h \in Handles
  PROVE  Calm(chs[h], ch'[h])
<1>1. stop \in BOOLEAN
  BY DEF IInv, OthersOK
<1>2. ch'[h] = chs[h] \/ ch'[h] = FailPendingJoin(chs[h], stop)
  BY DEF NotifyFailure, FailPendingJoins
<1> QED
  BY <1>1, <1>2, FailPendingJoinCalm, CalmItself

\* A channel whose join is submitted stays sound.
LEMMA SubmittedKeeps ==
  ASSUME NEW c \in SoundChannel
  PROVE  [c EXCEPT !.submitted = TRUE] \in SoundChannel
<1>1. [c EXCEPT !.submitted = TRUE].established = c.established
  BY DEF SoundChannel, Channel
<1> QED
  BY <1>1, SubmittedUpdate DEF SoundChannel

\* The first step of a send task writes its join, or begins no attempt.
LEMMA SubmitCalm ==
  ASSUME IInv, NEW o \in ops, Submit(o)
  PROVE  \/ AllCalm(ch') /\ (o.kind = "leave" \/ socket = "closed" \/ UNCHANGED <<net, member>>)
         \/ /\ o.kind = "join" /\ o.st = "queued" /\ ~OutcomeDone(ch[o.h], o) /\ Eligible(o)
            /\ \A h \in Handles : Calm(Wrote(o)[h], ch'[h])
<1>1. /\ o.h \in Handles /\ o.kind \in {"join", "leave"} /\ ch \in [Handles -> SoundChannel]
      /\ {"channel", "socket"} \subseteq JoinOutcomes
  BY DEF IInv, OthersOK, Op, JoinOutcomes, SoundChannels
<1>2. CASE OutcomeDone(ch[o.h], o)
  BY <1>2, NoneCalm DEF Submit
<1>3. CASE ~OutcomeDone(ch[o.h], o) /\ ~Eligible(o)
  BY <1>1, <1>3, OutcomeCalm DEF Submit
<1>4. ASSUME ~OutcomeDone(ch[o.h], o), Eligible(o), o.kind = "leave"
      PROVE  AllCalm(ch')
  <2>1. CASE ch' = [ch EXCEPT ![o.h] = ch[o.h]]
    BY <1>1, <2>1, CalmItself DEF AllCalm
  <2>2. CASE NotifyFailure([ch EXCEPT ![o.h] = FailOutcome(ch[o.h], o, "socket")])
    BY <1>1, <2>2, OutcomeCalm, FailureCalm
  <2> QED
    BY <1>4, <2>1, <2>2 DEF Submit
<1>5. ASSUME ~OutcomeDone(ch[o.h], o), Eligible(o), o.kind = "join"
      PROVE  o.st = "queued" /\ \A h \in Handles : Calm(Wrote(o)[h], ch'[h])
  <2> DEFINE written == [ch[o.h] EXCEPT !.submitted = TRUE]
             failed == FailOutcome(written, o, "socket")
  <2>1. written \in SoundChannel /\ Wrote(o) = [ch EXCEPT ![o.h] = written]
    BY <1>1, SubmittedKeeps DEF Wrote
  <2>2. failed \in SoundChannel /\ Calm(written, failed)
    BY <1>1, <2>1, FailOutcomeKeeps, FailOutcomeCalm
  <2>3. ch' = [ch EXCEPT ![o.h] = written] \/ NotifyFailure([ch EXCEPT ![o.h] = failed])
    BY <1>5 DEF Submit
  <2> HIDE DEF written, failed
  <2>4. CASE ch' = [ch EXCEPT ![o.h] = written]
    BY <1>1, <1>5, <2>1, <2>4, CalmItself DEF Submit
  <2>5. CASE NotifyFailure([ch EXCEPT ![o.h] = failed])
    <3> DEFINE chs == [ch EXCEPT ![o.h] = failed]
    <3>1. chs \in [Handles -> SoundChannel]
      BY <1>1, <2>2
    <3>2. \A h \in Handles : Calm(Wrote(o)[h], chs[h])
      BY <1>1, <2>1, <2>2, CalmItself
    <3>3. NotifyFailure(chs)
      BY <2>5
    <3> HIDE DEF chs
    <3>4. \A h \in Handles : Calm(chs[h], ch'[h])
      BY <3>1, <3>3, FailureIsCalm
    <3>5. \A h \in Handles : Calm(Wrote(o)[h], ch'[h])
      BY <3>2, <3>4, CalmTransitive
    <3> QED
      BY <3>5 DEF Submit
  <2> QED
    BY <2>3, <2>4, <2>5
<1> QED
  BY <1>1, <1>2, <1>3, <1>4, <1>5

\* The reply that accepts the current join, and the frames that end it.
Accepts(c, m) ==
  m.event = "reply" /\ m.ref = c.joinRef /\ m.status \notin {"malformed", "error"}

Ends(c, m) ==
  \/ m.event # "reply" /\ m.ref \in {0, c.joinRef}
  \/ m.event = "reply" /\ m.ref = c.joinRef /\ m.status = "error"

\* The answer to a leave is about the leave only.
LEMMA LeaveReplyCalm ==
  ASSUME NEW c \in SoundChannel, NEW status
  PROVE  Calm(c, LeaveReply(c, status))
<1>1. \A v : Calm(c, [c EXCEPT !.unsub = v])
  BY OtherFieldsCalm
<1> QED
  BY <1>1, CalmItself DEF LeaveReply

\* A frame accepts the attempt, ends it, or neither.
LEMMA ControlCalm ==
  ASSUME IInv, NEW h \in Handles, NEW c \in SoundChannel, NEW m, NEW hookOk \in BOOLEAN
  PROVE  LET d == Control(c, h, m, hookOk)
         IN  \/ Calm(c, d)
             \/ Ends(c, m) /\ Calm([c EXCEPT !.terminal = TRUE], d)
             \/ /\ Accepts(c, m) /\ c.state # "left" /\ ~stop /\ c.out = "pending"
                /\ d = Accepted(c)
<1> DEFINE e == [c EXCEPT !.terminal = TRUE]
<1>1. stop \in BOOLEAN /\ {"crash", "close", "rejected", "configuration"} \subseteq ChannelCauses
  BY DEF IInv, OthersOK, ChannelCauses
<1>2. e \in SoundChannel
  BY TerminalKeeps
<1>3. /\ e.state = c.state /\ e.established = c.established
  BY DEF SoundChannel, Channel
<1>4. \A x \in SoundChannel : \A cause \in ChannelCauses :
        /\ Failed(x, cause, "channel", stop) \in SoundChannel
        /\ Calm(x, Failed(x, cause, "channel", stop))
  BY <1>1, FailedKeeps, FailedCalm DEF JoinOutcomes
<1>5. CASE m.event # "reply" /\ m.ref \in {0, c.joinRef}
  <2> DEFINE d == LifecycleEvent(c, h, m.event)
             failed == Failed(e, IF m.event = "error" THEN "crash" ELSE "close",
                              "channel", stop)
  <2>1. Control(c, h, m, hookOk) = d /\ Ends(c, m)
    BY <1>5 DEF Control, Ends
  <2>2. failed \in SoundChannel /\ Calm(e, failed)
    BY <1>1, <1>2, <1>4
  <2>3. d = IF c.state = "left" THEN e
            ELSE IF ~c.established THEN failed
            ELSE IF m.event = "error" THEN StartRecovery(failed, h, FALSE)
            ELSE StartTopicLoss(failed, stop)
    BY DEF LifecycleEvent
  <2> HIDE DEF failed, e
  <2>4. Calm(failed, StartRecovery(failed, h, FALSE)) /\ Calm(failed, StartTopicLoss(failed, stop))
    BY <1>1, <2>2, StartRecoveryCalm, StartTopicLossCalm
  <2>5. Calm(e, d)
    BY <2>2, <2>3, <2>4, CalmItself, CalmTransitive
  <2> QED
    BY <2>1, <2>5 DEF e
<1>6. CASE m.event = "reply" /\ m.ref = c.leaveRef /\ m.ref # 0
  <2>1. Control(c, h, m, hookOk) = LeaveReply(c, m.status)
    BY <1>6 DEF Control
  <2> QED
    BY <2>1, LeaveReplyCalm
<1>7. CASE m.event = "reply" /\ m.ref = c.joinRef /\ m.ref # c.leaveRef
  <2> DEFINE d == JoinReply(c, m.status, hookOk)
  <2>1. Control(c, h, m, hookOk) = d
    BY <1>7 DEF Control
  <2>2. CASE c.out # "pending" \/ c.state = "left" \/ stop
    <3>1. d = c \/ (d = e /\ m.status = "error")
      BY <2>2 DEF JoinReply
    <3> QED
      BY <1>7, <2>1, <3>1, CalmItself DEF Ends
  <2>3. CASE ~(c.out # "pending" \/ c.state = "left" \/ stop)
    <3>1. d = CASE m.status = "malformed" -> Failed(c, "rejected", "channel", stop)
               [] m.status = "error" -> Failed(e, "rejected", "channel", stop)
               [] OTHER -> IF hookOk THEN Accepted(c)
                           ELSE Failed(c, "configuration", "channel", stop)
      BY <2>3 DEF JoinReply
    <3> HIDE DEF d, e
    <3>2. CASE m.status = "malformed" \/ (m.status # "error" /\ ~hookOk)
      BY <1>1, <1>4, <2>1, <3>1, <3>2
    <3>3. CASE m.status = "error"
      <4>1. d = Failed(e, "rejected", "channel", stop)
        BY <3>1, <3>3
      <4>2. Calm(e, d)
        BY <1>1, <1>2, <1>4, <4>1
      <4> QED
        BY <1>7, <2>1, <3>3, <4>2 DEF Ends, e
    <3>4. CASE m.status \notin {"malformed", "error"} /\ hookOk
      BY <1>7, <2>1, <2>3, <3>1, <3>4 DEF Accepts
    <3> QED
      BY <3>2, <3>3, <3>4
  <2> QED
    BY <2>2, <2>3
<1>8. CASE Control(c, h, m, hookOk) = c
  BY <1>8, CalmItself
<1> QED
  BY <1>5, <1>6, <1>7, <1>8 DEF Control

\* Routing changes the owner of the frame's name, if the frame is about its current
\* join on the current connection.
LEMMA RouteStep ==
  ASSUME IInv, NEW t \in Topics, NEW ok \in HookResults, Route(t, ok)
  PROVE  \/ ch' = ch
         \/ \E h \in Handles :
              /\ TopicOf[h] = t /\ IsRegistered(h) /\ IsOnCurrentConnection(h)
              /\ Head(net[t]).joinRef = ch[h].joinRef /\ ok \in BOOLEAN
              /\ ch' = [ch EXCEPT ![h] = Control(ch[h], h, Head(net[t]), ok)]
<1>1. ok \in BOOLEAN
  BY DEF HookResults
<1>2. registry[t] # NoHandle => /\ registry[t] \in Handles /\ TopicOf[registry[t]] = t
                                /\ IsRegistered(registry[t])
  BY DEF IInv, RegistryOK, RegistryOf, IsRegistered
<1> QED
  BY <1>1, <1>2 DEF Route

-----------------------------------------------------------------------------
(* How a step moves a channel *)

\* An attempt of this channel begins, on the connection of a client that runs.
BeginsAt(h) ==
  /\ Begins(ch[h], ch'[h])
  /\ \A g \in Handles : g # h => ch'[g] = ch[g]
  /\ ~ch'[h].submitted /\ ~ch'[h].terminal
  /\ ch[h].state # "left" /\ registry'[TopicOf[h]] = h
  /\ refs' = refs + 1
  /\ ops' = ops \/ ops' = Queue(h, "join", refs + 1)
  /\ UNCHANGED <<conn, gen, cstate, stop, socket, net, member>>
  /\ IsConnected \/ ShouldRejoin(h)

\* Its join is written.
WrittenAt(h) ==
  \E o \in ops :
    /\ o.h = h /\ o.kind = "join" /\ o.st = "queued" /\ o.ref = ch[h].joinRef
    /\ Submit(o) /\ Eligible(o) /\ ch[h].out = "pending"
    /\ Calm([ch[h] EXCEPT !.submitted = TRUE], ch'[h])

\* The frame that is routed is about its current join.
RoutedTo(h) ==
  /\ IsRegistered(h) /\ IsOnCurrentConnection(h)
  /\ \E ok \in HookResults : Route(TopicOf[h], ok)
  /\ net[TopicOf[h]] # <<>> /\ Head(net[TopicOf[h]]).joinRef = ch[h].joinRef

\* It ends the membership.
EndsAt(h) ==
  /\ RoutedTo(h) /\ Ends(ch[h], Head(net[TopicOf[h]]))
  /\ Calm([ch[h] EXCEPT !.terminal = TRUE], ch'[h])

\* It accepts the join.
AcceptsAt(h) ==
  /\ RoutedTo(h) /\ Accepts(ch[h], Head(net[TopicOf[h]]))
  /\ ch[h].state # "left" /\ ~stop /\ ch[h].out = "pending"
  /\ ch'[h] = Accepted(ch[h])

\* The restart of a recovery or of the supervisor.
LEMMA RestartBeginsAt ==
  ASSUME IInv, NEW h \in Handles, ShouldRejoin(h), refs + 1 \in Refs, NEW c,
         c = Restart(ch[h], conn, refs + 1)
           \/ c = [Restart(ch[h], conn, refs + 1) EXCEPT !.rec = "waiting"],
         NEW ok, StartJoin(h, c, ok),
         refs' = refs + 1, UNCHANGED <<registry, conn, gen, cstate, stop, socket, net, member>>
  PROVE  BeginsAt(h)
<1>1. /\ ch' = [ch EXCEPT ![h] = ch'[h]] /\ Begins(ch[h], ch'[h])
      /\ ~ch'[h].submitted /\ ~ch'[h].terminal
      /\ ops' = ops \/ ops' = Queue(h, "join", refs + 1)
  BY RestartBegins
<1>2. ch[h].state # "left" /\ registry'[TopicOf[h]] = h
  BY DEF ShouldRejoin, IsRegistered
<1>3. \A g \in Handles : g # h => ch'[g] = ch[g]
  BY <1>1, HandleFacts
<1> QED
  BY <1>1, <1>2, <1>3 DEF BeginsAt

\* The steps that begin an attempt.
LEMMA BeginningMoves ==
  ASSUME IInv, Tidy, NEW g \in Handles, NEW ok \in ParamsResults,
         Join(g, ok) \/ RecoverRejoins(g, ok) \/ (RejoinRestarts(ok) /\ g = sup.cur)
  PROVE  BeginsAt(g) \/ (AllCalm(ch') /\ UNCHANGED <<refs, ops>>)
<1>1. CASE Join(g, ok)
  <2>1. /\ ch' = [ch EXCEPT ![g] = ch'[g]] /\ Begins(ch[g], ch'[g])
        /\ ops' = ops \/ ops' = Queue(g, "join", refs + 1)
    BY <1>1, JoinBegins
  <2>2. /\ ch[g].state = "created" /\ refs' = refs + 1 /\ IsConnected
        /\ registry' = [registry EXCEPT ![TopicOf[g]] = g]
        /\ UNCHANGED <<conn, gen, cstate, stop, socket, net, member>>
    BY <1>1 DEF Join, client, transport
  <2>3. ~ch'[g].submitted /\ ~ch'[g].terminal
    BY <2>1, <2>2 DEF Begins, Tidy
  <2>4. registry'[TopicOf[g]] = g
    BY <2>2, TopicRuntimeAssumption DEF IInv, RegistryOK, RegistryOf
  <2>5. \A h \in Handles : h # g => ch'[h] = ch[h]
    BY <2>1, HandleFacts
  <2> QED
    BY <2>1, <2>2, <2>3, <2>4, <2>5 DEF BeginsAt
<1>2. CASE RecoverRejoins(g, ok)
  <2>1. UNCHANGED <<registry, conn, gen, cstate, stop, socket, net, member>>
    BY <1>2 DEF RecoverRejoins, client, transport
  <2> QED
    BY <1>2, <2>1, RecoverBegins, RestartBeginsAt
<1>3. CASE RejoinRestarts(ok) /\ g = sup.cur
  <2>1. UNCHANGED <<registry, conn, gen, cstate, stop, socket, net, member>>
    BY <1>3 DEF RejoinRestarts, client, transport
  <2> QED
    BY <1>3, <2>1, RejoinBegins, RestartBeginsAt
<1> QED
  BY <1>1, <1>2, <1>3

\* The ways a step moves a channel.
LEMMA Moves ==
  ASSUME IInv, Session, Tidy, [Next]_vars, NEW h \in Handles
  PROVE  Calm(ch[h], ch'[h]) \/ BeginsAt(h) \/ WrittenAt(h) \/ EndsAt(h) \/ AcceptsAt(h)
<1>1. ASSUME AllCalm(ch')
      PROVE  Calm(ch[h], ch'[h])
  BY <1>1 DEF AllCalm
<1>2. ASSUME NEW g \in Handles, BeginsAt(g)
      PROVE  Calm(ch[h], ch'[h]) \/ BeginsAt(h)
  BY <1>2, CalmItself DEF BeginsAt
<1>3. ASSUME NEW o \in ops, Submit(o)
      PROVE  Calm(ch[h], ch'[h]) \/ WrittenAt(h)
  <2>1. CASE /\ o.kind = "join" /\ o.st = "queued" /\ ~OutcomeDone(ch[o.h], o) /\ Eligible(o)
             /\ \A g \in Handles : Calm(Wrote(o)[g], ch'[g])
    <3>1. o.h \in Handles /\ o.ref = ch[o.h].joinRef /\ ch[o.h].out = "pending"
      BY <2>1 DEF OutcomeDone, IInv, OthersOK, Op
    <3>2. Wrote(o)[h] = IF h = o.h THEN [ch[h] EXCEPT !.submitted = TRUE] ELSE ch[h]
      BY <3>1, HandleFacts DEF Wrote
    <3> QED
      BY <1>3, <2>1, <3>1, <3>2 DEF WrittenAt
  <2> QED
    BY <1>1, <1>3, <2>1, SubmitCalm
<1>4. ASSUME NEW t \in Topics, NEW ok \in HookResults, Route(t, ok)
      PROVE  Calm(ch[h], ch'[h]) \/ EndsAt(h) \/ AcceptsAt(h)
  <2>1. CASE ch' = ch
    BY <2>1, CalmItself
  <2>2. ASSUME NEW g \in Handles, TopicOf[g] = t, IsRegistered(g), IsOnCurrentConnection(g),
               Head(net[t]).joinRef = ch[g].joinRef, ok \in BOOLEAN,
               ch' = [ch EXCEPT ![g] = Control(ch[g], g, Head(net[t]), ok)]
        PROVE  Calm(ch[h], ch'[h]) \/ EndsAt(h) \/ AcceptsAt(h)
    <3>1. CASE h # g
      BY <2>2, <3>1, HandleFacts, CalmItself
    <3>2. CASE h = g
      <4>1. ch'[h] = Control(ch[h], h, Head(net[t]), ok) /\ ch[h] \in SoundChannel
        BY <2>2, <3>2, HandleFacts
      <4>2. RoutedTo(h)
        BY <1>4, <2>2, <3>2 DEF RoutedTo, Route
      <4> QED
        BY <2>2, <3>2, <4>1, <4>2, ControlCalm DEF EndsAt, AcceptsAt
    <3> QED
      BY <3>1, <3>2
  <2> QED
    BY <1>4, <2>1, <2>2, RouteStep
<1>5. ASSUME NEW ok \in ParamsResults, RejoinRestarts(ok)
      PROVE  AllCalm(ch') \/ (BeginsAt(sup.cur) /\ sup.cur \in Handles)
  BY <1>5, RejoinBegins, BeginningMoves
<1> QED
  BY <1>1, <1>2, <1>3, <1>4, <1>5, BeginningMoves, StepCalm DEF Attempts

\* Nobody joined a handle that is new.
LEMMA InitTidy == Init => Tidy
<1>1. ASSUME NEW h \in Handles, registry = [t \in Topics |-> NoHandle]
      PROVE  ~IsRegistered(h)
  BY <1>1, TopicRuntimeAssumption DEF IsRegistered
<1> QED
  BY <1>1 DEF Init, Tidy, NewChannel

\* What a channel keeps, whatever the step.
LEMMA TidyStays ==
  ASSUME IInv, Session, Tidy, [Next]_vars
  PROVE  Tidy'
<1>1. ASSUME NEW h \in Handles
      PROVE  /\ ch'[h].leave # "none" => ch'[h].state = "left"
             /\ ch'[h].state = "created" => ch[h].state = "created"
             /\ registry'[TopicOf[h]] = h => ch'[h].state # "created"
             /\ ch'[h].state = "created" => ~ch'[h].submitted /\ ~ch'[h].terminal
  <2>1. ch[h] \in SoundChannel
    BY HandleFacts
  <2>2. registry'[TopicOf[h]] = h => IsRegistered(h) \/ ch'[h].state # "created"
    <3>1. ASSUME NEW ok \in ParamsResults, Join(h, ok)
          PROVE  ch'[h].state # "created"
      BY <3>1, JoinBegins DEF Begins
    <3> QED
      BY <3>1, NamesStep
  <2>3. CASE Calm(ch[h], ch'[h])
    BY <2>2, <2>3 DEF Calm, Tidy
  <2>4. CASE BeginsAt(h)
    BY <2>4 DEF BeginsAt, Begins, Tidy
  <2>5. CASE WrittenAt(h)
    <3> DEFINE c == [ch[h] EXCEPT !.submitted = TRUE]
    <3>1. Calm(c, ch'[h]) /\ IsRegistered(h)
      BY <2>5 DEF WrittenAt, Eligible
    <3>2. c.state = ch[h].state /\ c.leave = ch[h].leave
      BY <2>1 DEF SoundChannel, Channel
    <3> HIDE DEF c
    <3> QED
      BY <3>1, <3>2 DEF Calm, Tidy
  <2>6. CASE EndsAt(h)
    <3> DEFINE c == [ch[h] EXCEPT !.terminal = TRUE]
    <3>1. Calm(c, ch'[h]) /\ IsRegistered(h)
      BY <2>6 DEF EndsAt, RoutedTo
    <3>2. c.state = ch[h].state /\ c.leave = ch[h].leave
      BY <2>1 DEF SoundChannel, Channel
    <3> HIDE DEF c
    <3> QED
      BY <3>1, <3>2 DEF Calm, Tidy
  <2>7. CASE AcceptsAt(h)
    <3>1. ch'[h].state = "joined" /\ ch'[h].leave = ch[h].leave /\ ch[h].state # "left"
      BY <2>1, <2>7, AcceptedFields DEF AcceptsAt
    <3> QED
      BY <3>1 DEF Tidy
  <2> QED
    BY <2>3, <2>4, <2>5, <2>6, <2>7, Moves
<1> QED
  BY <1>1 DEF Tidy, IsRegistered

-----------------------------------------------------------------------------
(* What a stop leaves *)

\* A stopped client is not connected again, and its channels were left.
Stopped ==
  stop => /\ cstate \in {"shutting_down", "closed"}
          /\ \A h \in Handles : IsRegistered(h) => ch[h].state = "left"

\* Once its connection is cleaned up nothing is sent, and once the lifecycle tasks
\* are gone nothing is recovered.
Emptied ==
  /\ shut \in {"unsubscribe", "leaving", "lifecycle", "done"} => ops = {}
  /\ shut = "done" => \A h \in Handles : ch[h].rec = "none"

DInv == PInv /\ Session /\ Tidy /\ Stopped /\ Emptied

\* No action goes back to connecting, or takes a stop back.
LEMMA NeverConnecting ==
  ASSUME [Next]_vars
  PROVE  /\ cstate' = "connecting" => cstate = "connecting"
         /\ stop' = stop \/ RequestStop
<1>1. ASSUME NEW h \in Handles, HandleStep(h)
      PROVE  UNCHANGED <<cstate, stop>>
  BY <1>1
  DEF HandleStep, JoinResumes, JoinRaises, LeaveStarts, LeaveAnswered, LeaveFinishes,
      RecoverTries, RecoverRejoins, RecoverResumes, RecoverCancelled, LoseStarts,
      LoseReports, client
<1>2. ASSUME (\E o \in ops : SendStep(o) \/ SendReturns(o)) \/ (\E o \in Timers : Expire(o))
      PROVE  (cstate' = "connecting" => cstate = "connecting") /\ stop' = stop
  <2>1. stop' = stop
    BY <1>2 DEF SendStep, SendReturns, Submit, SendFails, SendCancelled, Expire, client
  <2>2. cstate' = cstate \/ \E chs : NotifyFailure(chs)
    BY <1>2 DEF SendStep, SendReturns, Submit, SendFails, SendCancelled, Expire, client
  <2> QED
    BY <2>1, <2>2 DEF NotifyFailure
<1>3. ASSUME CloseSendSession \/ RoutingStep \/ NetworkStep \/ ShutdownStep \/ UNCHANGED vars
      PROVE  (cstate' = "connecting" => cstate = "connecting") /\ stop' = stop
  BY <1>3
  DEF CloseSendSession, RoutingStep, Route, RoutingEnds, RoutingStopped, NetworkStep,
      EndMembership, Drop, RoutingBreaks, ConnectFails, ShutdownStep, ShutdownCleansUp,
      ShutdownUnsubscribes, ShutdownCancelsLifecycle, ShutdownEnds, vars, client
<1>4. ASSUME SupervisorStep
      PROVE  (cstate' = "connecting" => cstate = "connecting") /\ stop' = stop
  BY <1>4
  DEF SupervisorStep, SupervisorStops, AdoptsTooLate, SupervisorExits, Connect, RejoinNext,
      RejoinRestarts, RejoinResumes, RejoinLost, RejoinDone, EndSession, Reconnects,
      CleanupCloses, CleanupRetires, CleanupEnds, SupervisorCancelled, client
<1>5. ASSUME UserStep
      PROVE  (cstate' = "connecting" => cstate = "connecting") /\ (stop' = stop \/ RequestStop)
  BY <1>5 DEF UserStep, Join, Leave, JoinCancelled, RequestStop, client
<1> QED
  BY <1>1, <1>2, <1>3, <1>4, <1>5 DEF Next

\* A retired channel is left.
LEMMA RetireChannelLeaves ==
  ASSUME NEW c \in SoundChannel, NEW current
  PROVE  RetireChannel(c, current).state = "left"
<1> DEFINE d == Failed(c, "stop", "channel", TRUE)
           e == StartLeave(d, TRUE)
<1>1. "stop" \in ChannelCauses /\ "channel" \in JoinOutcomes
  BY DEF ChannelCauses, JoinOutcomes
<1>2. d \in SoundChannel
  BY <1>1, FailedKeeps
<1>3. d.state = "left"
  <2>1. d.state = StateAfter(c, "stop", TRUE)
    BY <1>1, FailedFields
  <2> QED
    BY <2>1 DEF StateAfter
<1>4. RetireChannel(c, current) = IF d.conn = current THEN d ELSE [e EXCEPT !.terminal = TRUE]
  BY DEF RetireChannel
<1> HIDE DEF d
<1>5. e \in SoundChannel /\ e.state = "left"
  BY <1>2, <1>3, StartLeaveKeeps, StartLeaveFields
<1> HIDE DEF e
<1>6. [e EXCEPT !.terminal = TRUE].state = "left"
  BY <1>5 DEF SoundChannel, Channel
<1> QED
  BY <1>3, <1>4, <1>6

\* A stopped client stays stopped.
LEMMA StopStays ==
  ASSUME PInv, Stopped, [Next]_vars
  PROVE  Stopped'
<1>1. CASE RequestStop
  <2>1. cstate' \in {"shutting_down", "closed"} /\ RetireChannels
    BY <1>1 DEF RequestStop
  <2>2. ASSUME NEW h \in Handles, registry'[TopicOf[h]] = h
        PROVE  ch'[h].state = "left"
    <3>1. IsRegistered(h)
      BY <1>1, <2>2, NamesStep DEF PInv, RequestStop, Join, loop
    <3>2. ch[h] \in SoundChannel /\ ch'[h] = RetireChannel(ch[h], conn)
      BY <2>1, <3>1 DEF RetireChannels, PInv, IInv, SoundChannels
    <3> QED
      BY <3>2, RetireChannelLeaves
  <2> QED
    BY <2>1, <2>2 DEF Stopped, IsRegistered
<1>2. ASSUME stop' = stop, stop
      PROVE  Stopped'
  <2>1. cstate' \in {"shutting_down", "closed"}
    BY <1>2, PhaseStep, NeverConnecting, AllowedFrom DEF Stopped, AllowedStep
  <2>2. ASSUME NEW h \in Handles, registry'[TopicOf[h]] = h
        PROVE  ch'[h].state = "left"
    <3>1. IsRegistered(h)
      BY <1>2, <2>2, NamesStep DEF PInv, Stopped, Join, IsConnected
    <3> QED
      BY <1>2, <3>1, StepGood DEF PInv, Stopped, Good, StaysLeft
  <2> QED
    BY <2>1, <2>2 DEF Stopped, IsRegistered
<1> QED
  BY <1>1, <1>2, NeverConnecting DEF Stopped

\* A stopped client queues no send.
LEMMA NoSendQueued ==
  ASSUME IInv, Stopped, stop, ops = {}, [Next]_vars
  PROVE  ops' = {}
<1>1. ~IsConnected /\ \A h \in Handles : ~ShouldRejoin(h)
  BY DEF Stopped, IsConnected, ShouldRejoin
<1>2. CancelQueued(ops, sup.cur) = {} /\ \A h \in Handles : CancelQueued(ops, h) = {}
  BY DEF CancelQueued
<1>3. ASSUME NEW h \in Handles, HandleStep(h)
      PROVE  ops' = {}
  BY <1>1, <1>2, <1>3
  DEF HandleStep, JoinResumes, JoinRaises, LeaveStarts, LeaveAnswered, LeaveFinishes,
      RecoverTries, RecoverRejoins, RecoverResumes, RecoverCancelled, LoseStarts,
      LoseReports, session
<1>4. ASSUME NEW o \in Timers, Expire(o)
      PROVE  ops' = {}
  <2>1. UNCHANGED ops \/ o.st = "queued"
    BY <1>4 DEF Expire, session
  <2> QED
    BY <2>1, <1>4 DEF Timers
<1>5. CASE SupervisorStep
  <2>1. {IF o.st = "queued" THEN [o EXCEPT !.st = "cancelled"] ELSE o : o \in ops} = {}
    OBVIOUS
  <2>2. ASSUME NEW ok \in ParamsResults, RejoinRestarts(ok)
        PROVE  ops' = {}
    BY <1>1, <2>2 DEF RejoinRestarts, IInv, OthersOK, CurrentRejoin
  <2> QED
    BY <1>2, <1>5, <2>1, <2>2
    DEF SupervisorStep, SupervisorStops, AdoptsTooLate, Connect, RejoinNext,
        RejoinResumes, RejoinLost, RejoinDone, EndSession, Reconnects,
        CleanupCloses, CleanupRetires, RetireSends, CleanupEnds, SupervisorCancelled, session
<1>6. CASE UserStep
  BY <1>1, <1>2, <1>6 DEF UserStep, Join, Leave, JoinCancelled, RequestStop, session
<1> QED
  BY <1>3, <1>4, <1>5, <1>6
  DEF Next, CloseSendSession, RoutingStep, Route, RoutingEnds, RoutingStopped, NetworkStep,
      EndMembership, Drop, RoutingBreaks, ConnectFails, ShutdownStep, ShutdownCleansUp,
      ShutdownUnsubscribes, ShutdownCancelsLifecycle, ShutdownEnds, vars, session

\* Nor does it recover a channel that has no recovery.
LEMMA NoRecoveryStarted ==
  ASSUME DInv, stop, ops = {}, [Next]_vars, NEW h \in Handles, ch[h].rec = "none"
  PROVE  ch'[h].rec = "none"
<1>1. /\ ~IsConnected /\ \A g \in Handles : ~ShouldRejoin(g)
      /\ IInv /\ ch \in [Handles -> SoundChannel]
  BY DEF DInv, PInv, IInv, SoundChannels, Stopped, IsConnected, ShouldRejoin
<1>2. CASE AllCalm(ch')
  BY <1>2 DEF AllCalm, Calm
<1>3. ASSUME NEW g \in Handles, NEW ok \in ParamsResults, Join(g, ok) \/ RecoverRejoins(g, ok)
      PROVE  ch'[h].rec = "none"
  BY <1>1, <1>3 DEF Join, RecoverRejoins, SoundChannel, Channel
<1>4. ASSUME NEW ok \in ParamsResults, RejoinRestarts(ok)
      PROVE  ch'[h].rec = "none"
  BY <1>1, <1>4 DEF RejoinRestarts, IInv, OthersOK, CurrentRejoin
<1>5. ASSUME NEW t \in Topics, NEW ok \in HookResults, Route(t, ok)
      PROVE  ch'[h].rec = "none"
  BY <1>1, <1>5 DEF Route, IsOnCurrentConnection
<1> QED
  BY <1>2, <1>3, <1>4, <1>5, StepCalm DEF DInv, PInv, Attempts

\* What is empty stays empty.
LEMMA EmptiedStays ==
  ASSUME DInv, [Next]_vars
  PROVE  Emptied'
<1>1. shut # "none" => stop
  BY DEF DInv, PInv, Phases
<1>2. ASSUME shut' = shut
      PROVE  Emptied'
  BY <1>1, <1>2, NoSendQueued, NoRecoveryStarted DEF DInv, PInv, Emptied
<1>3. CASE RequestStop
  BY <1>3 DEF RequestStop, Emptied
<1>4. CASE CleanupEnds
  <2>1. ops' = {} /\ (shut' # "done" \/ shut' = shut)
    BY <1>4 DEF CleanupEnds
  <2> QED
    BY <1>2, <2>1 DEF Emptied
<1>5. CASE ShutdownStep
  <2>1. CASE ShutdownCleansUp
    BY <2>1 DEF ShutdownCleansUp, Emptied
  <2>2. CASE ShutdownUnsubscribes \/ ShutdownCancelsLifecycle
    <3>1. ops' = ops /\ shut \in {"unsubscribe", "leaving"} /\ shut' # "done"
      BY <2>2 DEF ShutdownUnsubscribes, ShutdownCancelsLifecycle, session
    <3> QED
      BY <3>1 DEF DInv, Emptied
  <2>3. CASE ShutdownEnds
    <3>1. UNCHANGED <<ops, ch>> /\ shut = "lifecycle" /\ \A h \in Handles : ch[h].rec = "none"
      BY <2>3 DEF ShutdownEnds, session
    <3> QED
      BY <3>1 DEF DInv, Emptied
  <2> QED
    BY <1>5, <2>1, <2>2, <2>3 DEF ShutdownStep
<1>6. shut' = shut \/ RequestStop \/ CleanupEnds \/ ShutdownStep
  BY DEF Next, HandleStep, JoinResumes, JoinRaises, LeaveStarts, LeaveAnswered, LeaveFinishes,
      RecoverTries, RecoverRejoins, RecoverResumes, RecoverCancelled, LoseStarts,
      LoseReports, SendStep, SendReturns, Submit, SendFails, SendCancelled, Expire,
      CloseSendSession, SupervisorStep, SupervisorStops, AdoptsTooLate, SupervisorExits,
      Connect, RejoinNext, RejoinRestarts, RejoinResumes, RejoinLost, RejoinDone, EndSession,
      Reconnects, CleanupCloses, CleanupRetires, SupervisorCancelled, RoutingStep, Route,
      RoutingEnds, RoutingStopped, UserStep, Join, Leave, JoinCancelled, NetworkStep,
      EndMembership, Drop, RoutingBreaks, ConnectFails, vars, loop
<1> QED
  BY <1>2, <1>3, <1>4, <1>5, <1>6

\* A shutdown that has ended leaves nothing behind, whatever it interrupted: the
\* supervisor in any of its phases, a cleanup that was under way, a handshake that
\* ended too late, and any number of joins, leaves, recoveries and sends.
THEOREM ShutdownIsComplete == Spec => []ShutdownLeavesNothing
<1>1. Init => DInv
  <2>1. Init => Session /\ Stopped /\ Emptied
    BY DEF Init, Session, Active, Stopped, Emptied
  <2> QED
    BY <2>1, InitTidy, InitIInv DEF Init, DInv, PInv, Phases
<1>2. DInv /\ [Next]_vars => DInv'
  BY NextIInv, PhaseStep, SessionShape, TidyStays, StopStays, EmptiedStays DEF DInv, PInv
<1>3. DInv => ShutdownLeavesNothing
  <2>1. SUFFICES ASSUME DInv, shut = "done"
                 PROVE  /\ conn = 0 /\ ops = {} /\ socket = "closed" /\ sup.pc = "exited"
                        /\ \A h \in Handles : ch[h].state \in {"created", "left"}
                                              /\ ch[h].rec = "none"
    BY DEF ShutdownLeavesNothing
  <2>2. stop /\ ops = {} /\ \A h \in Handles : ch[h].rec = "none"
    BY <2>1 DEF DInv, PInv, Phases, Emptied
  <2>3. sup.pc = "exited" /\ conn = 0 /\ cleanup.pc = "idle" /\ socket = "closed"
    BY <2>1 DEF DInv, Session
  <2>4. ASSUME NEW h \in Handles
        PROVE  ch[h].state \in {"created", "left"}
    <3>1. ch[h].state \in ChannelStates
      BY <2>1 DEF DInv, PInv, IInv, SoundChannels, SoundChannel, Channel
    <3>2. ch[h].state \in {"joining", "joined", "rejoining"} => ch[h].state = "left"
      BY <2>1, <2>2 DEF DInv, PInv, IInv, SingleOwner, Stopped
    <3> QED
      BY <3>1, <3>2 DEF ChannelStates
  <2> QED
    BY <2>2, <2>3, <2>4
<1> QED
  BY <1>1, <1>2, <1>3, PTL DEF Spec

-----------------------------------------------------------------------------
(* The connections come in turn *)

\* An open socket has somebody to close it, and a supervisor between sessions has
\* no connection.
LEMMA HolderFacts ==
  ASSUME Session
  PROVE  /\ socket = "open" => Holder # "nobody"
         /\ conn # 0 => Holder = "session"
         /\ sup.pc \in {"connecting", "ended"} => Holder = "nobody" /\ socket # "open"
         /\ sup.pc \in Active => Holder = "session"
  BY DEF Session, Holder

\* Steps that SessionLoop does not see.
LEMMA SameLoop ==
  ASSUME UNCHANGED <<conn, stop, cleanup, socket>>,
         sup'.pc = sup.pc \/ {sup.pc, sup'.pc} \subseteq Active
  PROVE  UNCHANGED Loop!loop
<1>1. Phase' = Phase
  BY DEF Phase, Active
<1>2. Holder' = Holder
  BY DEF Holder
<1> QED
  BY <1>1, <1>2 DEF Loop!loop

\* A socket that closes.
LEMMA ClosingLoop ==
  ASSUME Session, UNCHANGED <<conn, stop, cleanup, sup>>, CloseSocket
  PROVE  [Loop!Next]_(Loop!loop)
<1>1. Phase' = Phase /\ Holder' = Holder /\ socket' = "closed"
  BY DEF Phase, Holder, CloseSocket
<1>2. CASE socket = "open"
  BY <1>1, <1>2, HolderFacts DEF Loop!Next, Loop!Shut
<1>3. CASE socket # "open"
  BY <1>1, <1>3 DEF Loop!loop
<1> QED
  BY <1>2, <1>3

\* The supervisor's steps.
LEMMA SupervisorLoop ==
  ASSUME PInv, Session, SupervisorStep
  PROVE  [Loop!Next]_(Loop!loop)
<1>1. /\ sup \in [pc : {"connecting", "rejoining", "stopping", "joining", "losing",
                        "serving", "cleanup", "dying", "ended", "exited"},
                  cur : Handles \cup {NoHandle},
                  todo : SUBSET Handles, optional : SUBSET Handles]
      /\ cleanup \in [pc : {"idle", "cancelling", "closing", "finishing"}, conn : Conns,
                      tasks : SUBSET Handles]
      /\ stop \in BOOLEAN
  BY DEF PInv, IInv, OthersOK
<1>2. gen + 1 # 0
  BY BoundsAssumption DEF PInv, IInv, OthersOK, Conns
<1>3. shut # "none" => stop
  BY DEF PInv, Phases
<1>4. ASSUME NEW h \in Handles, RejoinNext(h)
      PROVE  UNCHANGED Loop!loop
  <2>1. UNCHANGED <<conn, stop, cleanup, socket>> /\ {sup.pc, sup'.pc} \subseteq Active
    BY <1>1, <1>4 DEF RejoinNext, client, transport, Active
  <2> QED
    BY <2>1, SameLoop
<1>5. ASSUME NEW ok \in ParamsResults, RejoinRestarts(ok)
      PROVE  UNCHANGED Loop!loop
  <2>1. UNCHANGED <<conn, stop, cleanup, socket>> /\ {sup.pc, sup'.pc} \subseteq Active
    BY <1>1, <1>5 DEF RejoinRestarts, client, transport, Active
  <2> QED
    BY <2>1, SameLoop
<1>6. ASSUME RejoinResumes \/ RejoinLost \/ RejoinDone
      PROVE  UNCHANGED Loop!loop
  <2>1. UNCHANGED <<conn, stop, cleanup, socket>>
    BY <1>6 DEF RejoinResumes, RejoinLost, RejoinDone, client, transport
  <2>2. sup.pc \in {"joining", "losing", "rejoining"}
        /\ sup'.pc \in {"rejoining", "losing", "serving"}
    BY <1>1, <1>6 DEF RejoinResumes, RejoinLost, RejoinDone
  <2> QED
    BY <2>1, <2>2, SameLoop DEF Active
<1>7. CASE Connect
  <2>1. /\ sup'.pc = "rejoining" /\ conn' = gen + 1 /\ ~stop
        /\ sup.pc = "connecting" /\ socket' = "open" /\ UNCHANGED <<stop, cleanup>>
    BY <1>1, <1>7 DEF Connect
  <2>2. Phase = "down" /\ Phase' = "up" /\ Holder' = "session"
    BY <1>2, <2>1 DEF Phase, Holder
  <2> QED
    BY <2>1, <2>2, HolderFacts DEF Loop!Next, Loop!Open, Loop!Free, Loop!Hold
<1>8. CASE AdoptsTooLate
  <2>1. /\ sup'.pc = "exited" /\ conn' = gen + 1 /\ stop /\ sup.pc = "connecting"
        /\ socket' = "open" /\ UNCHANGED <<stop, cleanup>>
    BY <1>1, <1>8 DEF AdoptsTooLate, SupervisorExits
  <2>2. Phase = "down" /\ Phase' = "over" /\ Holder' = "session"
    BY <1>2, <2>1 DEF Phase, Holder
  <2> QED
    BY <2>1, <2>2, HolderFacts DEF Loop!Next, Loop!OpenTooLate, Loop!Free, Loop!Hold
<1>9. CASE SupervisorStops
  <2>1. /\ sup'.pc = "exited" /\ sup.pc \in {"connecting", "ended"}
        /\ UNCHANGED <<conn, stop, cleanup, socket>>
    BY <1>1, <1>9 DEF SupervisorStops, SupervisorExits, transport
  <2>2. Phase = "down" /\ Phase' = "over" /\ Holder' = Holder
    BY <2>1 DEF Phase, Holder
  <2> QED
    BY <2>1, <2>2, HolderFacts DEF Loop!Next, Loop!End, Loop!Free
<1>10. CASE Reconnects
  <2>1. sup'.pc = "connecting" /\ sup.pc = "ended" /\ UNCHANGED <<conn, stop, cleanup, socket>>
    BY <1>1, <1>10 DEF Reconnects, transport
  <2>2. Phase' = Phase /\ Holder' = Holder
    BY <2>1 DEF Phase, Holder
  <2> QED
    BY <2>1, <2>2 DEF Loop!loop
<1>11. CASE EndSession
  <2>1. /\ sup'.pc = "cleanup" /\ sup.pc = "serving" /\ conn' = 0
        /\ cleanup'.pc = "cancelling" /\ cleanup'.conn = conn /\ UNCHANGED <<stop, socket>>
    BY <1>1, <1>11 DEF EndSession, CleanupBegins, transport
  <2>2. conn # 0
    BY <2>1 DEF Session, Active
  <2>3. Phase = "up" /\ Phase' = "down" /\ Holder = "session" /\ Holder' = "cleanup"
    BY <2>1, <2>2 DEF Phase, Holder
  <2> QED
    BY <2>1, <2>3 DEF Loop!Next, Loop!EndSession
<1>12. CASE CleanupCloses
  <2>1. /\ cleanup.pc = "cancelling" /\ UNCHANGED <<conn, stop, sup>>
        /\ cleanup'.pc # "cancelling"
        /\ \/ socket' = "closed"
           \/ (cleanup.conn = 0 \/ socket # "open") /\ socket' = socket
    BY <1>1, <1>12 DEF CleanupCloses, client, transport
  <2>2. conn = 0 /\ (cleanup.conn = 0 => socket # "open")
    BY <2>1 DEF Session
  <2>3. Phase' = Phase /\ Holder' = "nobody" /\ socket' # "open"
    BY <2>1, <2>2 DEF Phase, Holder
  <2>4. CASE cleanup.conn # 0
    <3>1. Holder = "cleanup"
      BY <2>1, <2>2, <2>4 DEF Holder
    <3> QED
      BY <2>1, <2>3, <3>1 DEF Loop!Next, Loop!CleanUp, Loop!GiveUp
  <2>5. CASE cleanup.conn = 0
    <3>1. Holder = "nobody"
      BY <2>2, <2>5 DEF Holder
    <3> QED
      BY <2>1, <2>2, <2>3, <2>5, <3>1 DEF Loop!loop
  <2> QED
    BY <2>4, <2>5
<1>13. CASE CleanupRetires \/ CleanupEnds
  <2>1. /\ cleanup.pc # "cancelling" /\ cleanup'.pc # "cancelling"
        /\ UNCHANGED <<conn, stop, socket>>
        /\ \/ sup'.pc = sup.pc
           \/ sup.pc = "cleanup" /\ sup'.pc = "ended"
           \/ sup.pc = "dying" /\ sup'.pc = "exited"
    BY <1>1, <1>13 DEF CleanupRetires, CleanupEnds, client, transport
  <2>2. Phase' = Phase /\ Holder' = Holder
    BY <2>1 DEF Phase, Holder
  <2> QED
    BY <2>1, <2>2 DEF Loop!loop
<1>14. CASE SupervisorCancelled
  <2>1. /\ stop /\ sup.pc \notin {"exited", "dying"} /\ sup'.pc \in {"exited", "dying"}
        /\ UNCHANGED <<conn, stop, socket>>
        /\ cleanup' = cleanup \/ (cleanup.pc # "cancelling" /\ cleanup'.pc # "cancelling")
    BY <1>1, <1>3, <1>14 DEF SupervisorCancelled, client, transport
  <2>2. Phase # "over" /\ Phase' = "over"
    BY <1>1, <2>1 DEF Phase
  <2>3. Holder' = Holder
    BY <2>1 DEF Holder
  <2> QED
    BY <2>1, <2>2, <2>3 DEF Loop!Next, Loop!End
<1> QED
  BY <1>4, <1>5, <1>6, <1>7, <1>8, <1>9, <1>10, <1>11, <1>12, <1>13, <1>14 DEF SupervisorStep

\* Every step is one of SessionLoop, or none.
LEMMA StepInTurn ==
  ASSUME PInv, Session, [Next]_vars
  PROVE  [Loop!Next]_(Loop!loop)
<1>1. CASE \E h \in Handles : HandleStep(h)
  <2>1. UNCHANGED <<conn, stop, cleanup, socket, sup>>
    BY <1>1
    DEF HandleStep, JoinResumes, JoinRaises, LeaveStarts, LeaveAnswered, LeaveFinishes,
        RecoverTries, RecoverRejoins, RecoverResumes, RecoverCancelled, LoseStarts,
        LoseReports, client, loop, transport
  <2> QED
    BY <2>1, SameLoop
<1>2. CASE (\E o \in ops : SendStep(o) \/ SendReturns(o)) \/ (\E o \in Timers : Expire(o))
  <2>1. UNCHANGED <<conn, stop, cleanup, socket, sup>>
    BY <1>2 DEF SendStep, SendReturns, Submit, SendFails, SendCancelled, Expire, client, loop,
                transport
  <2> QED
    BY <2>1, SameLoop
<1>3. CASE CloseSendSession
  <2>1. UNCHANGED <<conn, stop, cleanup, sup>> /\ (CloseSocket \/ socket' = socket)
    BY <1>3 DEF CloseSendSession, client, loop, transport
  <2> QED
    BY <2>1, SameLoop, ClosingLoop
<1>4. CASE ShutdownStep
  <2>1. CASE ShutdownCleansUp
    <3>1. /\ sup.pc = "exited" /\ conn' = 0 /\ stop
          /\ cleanup.pc = "idle" /\ cleanup'.pc = "cancelling" /\ cleanup'.conn = conn
          /\ UNCHANGED <<stop, sup, socket>>
      BY <2>1 DEF ShutdownCleansUp, CleanupBegins, transport, PInv, Phases
    <3>2. Phase = "over" /\ Phase' = Phase
      BY <3>1 DEF Phase
    <3>3. CASE conn # 0
      <4>1. Holder = "session" /\ Holder' = "cleanup"
        BY <3>1, <3>3 DEF Holder
      <4> QED
        BY <3>1, <3>2, <4>1 DEF Loop!Next, Loop!TakeDown
    <3>4. CASE conn = 0
      <4>1. Holder = "nobody" /\ Holder' = "nobody"
        BY <3>1, <3>4 DEF Holder
      <4> QED
        BY <3>1, <3>2, <4>1 DEF Loop!loop
    <3> QED
      BY <3>3, <3>4
  <2>2. CASE ShutdownUnsubscribes \/ ShutdownCancelsLifecycle \/ ShutdownEnds
    <3>1. UNCHANGED <<conn, stop, cleanup, socket, sup>>
      BY <2>2 DEF ShutdownUnsubscribes, ShutdownCancelsLifecycle, ShutdownEnds, client,
                  transport
    <3> QED
      BY <3>1, SameLoop
  <2> QED
    BY <1>4, <2>1, <2>2 DEF ShutdownStep
<1>5. CASE RoutingStep
  <2>1. UNCHANGED <<conn, stop, cleanup, socket, sup>>
    BY <1>5 DEF RoutingStep, Route, RoutingEnds, RoutingStopped, client, loop, transport
  <2> QED
    BY <2>1, SameLoop
<1>6. CASE UserStep
  <2>1. CASE RequestStop
    <3>1. stop' = TRUE /\ UNCHANGED <<conn, cleanup, socket, sup>>
      BY <2>1 DEF RequestStop, transport
    <3>2. Phase' = Phase /\ Holder' = Holder
      BY <3>1 DEF Phase, Holder
    <3> QED
      BY <3>1, <3>2 DEF Loop!Next, Loop!Ask
  <2>2. ASSUME NEW h \in Handles,
               (\E ok \in ParamsResults : Join(h, ok)) \/ Leave(h) \/ JoinCancelled(h)
        PROVE  UNCHANGED Loop!loop
    BY <2>2, SameLoop DEF Join, Leave, JoinCancelled, client, loop, transport
  <2> QED
    BY <1>6, <2>1, <2>2 DEF UserStep
<1>7. CASE NetworkStep
  <2>1. CASE Drop
    BY <2>1, ClosingLoop DEF Drop, client, loop
  <2>2. CASE (\E t \in Topics, event \in ServerEnds : EndMembership(t, event))
             \/ RoutingBreaks \/ ConnectFails
    <3>1. UNCHANGED <<conn, stop, cleanup, socket, sup>>
      BY <2>2 DEF EndMembership, RoutingBreaks, ConnectFails, client, loop, transport
    <3> QED
      BY <3>1, SameLoop
  <2> QED
    BY <1>7, <2>1, <2>2 DEF NetworkStep
<1>8. CASE UNCHANGED vars
  <2>1. UNCHANGED <<conn, stop, cleanup, socket, sup>>
    BY <1>8 DEF vars, client, loop, transport
  <2> QED
    BY <2>1, SameLoop
<1> QED
  BY <1>1, <1>2, <1>3, <1>4, <1>5, <1>6, <1>7, <1>8, SupervisorLoop DEF Next

\* The client implements SessionLoop, with any number of channels, joins and
\* connections, and wherever drops, failed sends and a shutdown meet the supervisor.
THEOREM ClientTakesTurns == Spec => ConnectionsInTurn
<1>1. Init => Loop!Init
  BY DEF Init, Loop!Init, Phase, Holder
<1>2. Init => PInv /\ Session
  BY InitIInv DEF Init, PInv, Phases, Session, Active
<1>3. PInv /\ Session /\ [Next]_vars => (PInv /\ Session)'
  BY NextIInv, PhaseStep, SessionShape DEF PInv
<1>4. PInv /\ Session /\ [Next]_vars => [Loop!Next]_(Loop!loop)
  BY StepInTurn
<1> QED
  BY <1>1, <1>2, <1>3, <1>4, PTL DEF Spec, ConnectionsInTurn, Loop!Spec

-----------------------------------------------------------------------------
(* The barrier before on_reconnect *)

\* The phases of a session before it is served.
Rejoining == {"rejoining", "stopping", "joining", "losing"}

\* Until the session is served, a required channel that is to be rejoined is still
\* to come, is next, or had its attempt on this connection.
Barrier ==
  sup.pc \in Rejoining =>
    \A h \in Required : ShouldRejoin(h) =>
      h \in sup.todo \/ (sup.pc = "stopping" /\ sup.cur = h) \/ ch[h].conn = gen

FInv == PInv /\ Session /\ Tidy /\ Barrier

\* From ch to chs a channel keeps its connection, or comes to the current one; and
\* none is established but by a frame of the current connection.
SameAttempts(chs) ==
  \A h \in Handles : /\ chs[h].conn \in {ch[h].conn, conn}
                     /\ chs[h].established => ch[h].established \/ ch[h].conn = conn

\* So is every step.
LEMMA AttemptsMove ==
  ASSUME IInv, Session, Tidy, [Next]_vars
  PROVE  SameAttempts(ch')
<1>1. ch \in [Handles -> SoundChannel]
  BY DEF IInv, SoundChannels
<1>2. CASE AllCalm(ch')
  BY <1>2 DEF AllCalm, Calm, SameAttempts
<1>3. ASSUME NEW h \in Handles, ch' = [ch EXCEPT ![h] = ch'[h]], Begins(ch[h], ch'[h])
      PROVE  SameAttempts(ch')
  BY <1>1, <1>3 DEF Begins, SameAttempts
<1>4. ASSUME NEW h \in Handles, NEW ok \in ParamsResults, Join(h, ok)
      PROVE  SameAttempts(ch')
  BY <1>3, <1>4, JoinBegins
<1>5. ASSUME NEW h \in Handles, NEW ok \in ParamsResults, RecoverRejoins(h, ok)
      PROVE  SameAttempts(ch')
  BY <1>2, <1>3, <1>5, RecoverBegins, RestartBegins
<1>6. ASSUME NEW ok \in ParamsResults, RejoinRestarts(ok)
      PROVE  SameAttempts(ch')
  BY <1>2, <1>3, <1>6, RejoinBegins, RestartBegins
<1>7. ASSUME NEW o \in ops, Submit(o)
      PROVE  SameAttempts(ch')
  <2>1. CASE \A h \in Handles : Calm(Wrote(o)[h], ch'[h])
    <3>1. o.h \in Handles
      BY DEF IInv, OthersOK, Op
    <3>2. \A h \in Handles : /\ Wrote(o)[h].conn = ch[h].conn
                             /\ Wrote(o)[h].established = ch[h].established
      BY <1>1, <3>1 DEF Wrote, SoundChannel, Channel
    <3> QED
      BY <2>1, <3>2 DEF Calm, SameAttempts
  <2> QED
    BY <1>2, <1>7, <2>1, SubmitCalm
<1>8. ASSUME NEW t \in Topics, NEW ok \in HookResults, Route(t, ok)
      PROVE  SameAttempts(ch')
  <2>1. CASE ch' = ch
    BY <2>1 DEF SameAttempts
  <2>2. ASSUME NEW h \in Handles, IsOnCurrentConnection(h), ok \in BOOLEAN,
               ch' = [ch EXCEPT ![h] = Control(ch[h], h, Head(net[t]), ok)]
        PROVE  SameAttempts(ch')
    <3> DEFINE d == Control(ch[h], h, Head(net[t]), ok)
               e == [ch[h] EXCEPT !.terminal = TRUE]
    <3>1. Calm(ch[h], d) \/ Calm(e, d) \/ (ch[h].state # "left" /\ d = Accepted(ch[h]))
      BY <1>1, <2>2, ControlCalm
    <3>2. e.conn = ch[h].conn
      BY <1>1 DEF SoundChannel, Channel
    <3>3. ch[h].state # "left" => Accepted(ch[h]).conn = ch[h].conn
      BY <1>1, AcceptedFields
    <3>4. ch' = [ch EXCEPT ![h] = d]
      BY <2>2
    <3> HIDE DEF d, e
    <3>5. d.conn = ch[h].conn
      BY <3>1, <3>2, <3>3 DEF Calm
    <3> QED
      BY <1>1, <2>2, <3>4, <3>5 DEF SameAttempts, IsOnCurrentConnection
  <2> QED
    BY <1>8, <2>1, <2>2, RouteStep
<1> QED
  BY <1>2, <1>4, <1>5, <1>6, <1>7, <1>8, StepCalm DEF Attempts

\* A channel that is to be rejoined was to be, unless it comes to be established
\* on the current connection.
LEMMA RejoinersOnlyGo ==
  ASSUME IInv, Session, Tidy, [Next]_vars, NEW h \in Handles, ShouldRejoin(h)'
  PROVE  ShouldRejoin(h) \/ ch[h].conn = conn
<1>1. registry'[TopicOf[h]] = h /\ ch'[h].established /\ ch'[h].state # "left"
  BY DEF ShouldRejoin, IsRegistered
<1>2. ch[h].state # "left"
  BY <1>1, StepGood DEF Good, StaysLeft
<1>3. ch[h].established \/ ch[h].conn = conn
  BY <1>1, AttemptsMove DEF SameAttempts
<1>4. ASSUME NEW ok \in ParamsResults, Join(h, ok)
      PROVE  FALSE
  BY <1>1, <1>4, JoinBegins DEF Begins
<1>5. IsRegistered(h)
  BY <1>1, <1>4, NamesStep
<1> QED
  BY <1>2, <1>3, <1>5 DEF ShouldRejoin

\* How the supervisor comes closer to serving the session.
LEMMA RejoinProgress ==
  ASSUME IInv, Session, [Next]_vars, sup'.pc \in Rejoining
  PROVE  \/ sup' = sup /\ gen' = gen
         \/ sup.pc = "connecting" /\ sup'.todo = {h \in Handles : IsRegistered(h)} \cap Required
            /\ registry' = registry
         \/ \E h \in Handles : RejoinNext(h)
         \/ \E ok \in ParamsResults : RejoinRestarts(ok)
         \/ /\ sup.pc \in {"joining", "losing"} /\ gen' = gen /\ sup'.todo = sup.todo
<1> DEFINE Goal ==
      \/ sup' = sup /\ gen' = gen
      \/ sup.pc = "connecting" /\ sup'.todo = {h \in Handles : IsRegistered(h)} \cap Required
         /\ registry' = registry
      \/ \E h \in Handles : RejoinNext(h)
      \/ \E ok \in ParamsResults : RejoinRestarts(ok)
      \/ /\ sup.pc \in {"joining", "losing"} /\ gen' = gen /\ sup'.todo = sup.todo
<1>1. sup \in [pc : {"connecting", "rejoining", "stopping", "joining", "losing",
                     "serving", "cleanup", "dying", "ended", "exited"},
               cur : Handles \cup {NoHandle},
               todo : SUBSET Handles, optional : SUBSET Handles]
  BY DEF IInv, OthersOK
<1>2. ASSUME NEW h \in Handles, HandleStep(h)
      PROVE  Goal
  BY <1>2
  DEF HandleStep, JoinResumes, JoinRaises, LeaveStarts, LeaveAnswered, LeaveFinishes,
      RecoverTries, RecoverRejoins, RecoverResumes, RecoverCancelled, LoseStarts,
      LoseReports, client, loop
<1>3. ASSUME \/ \E o \in ops : SendStep(o) \/ SendReturns(o)
             \/ \E o \in Timers : Expire(o)
             \/ CloseSendSession \/ RoutingStep \/ NetworkStep \/ UserStep \/ ShutdownStep
             \/ UNCHANGED vars
      PROVE  Goal
  BY <1>3
  DEF SendStep, SendReturns, Submit, SendFails, SendCancelled, Expire, CloseSendSession,
      RoutingStep, Route, RoutingEnds, RoutingStopped, NetworkStep, EndMembership, Drop,
      RoutingBreaks, ConnectFails, UserStep, Join, Leave, JoinCancelled, RequestStop,
      ShutdownStep, ShutdownCleansUp, ShutdownUnsubscribes, ShutdownCancelsLifecycle,
      ShutdownEnds, vars, client, loop
<1>4. CASE SupervisorStep
  <2>1. CASE Connect
    BY <1>1, <2>1 DEF Connect
  <2>2. CASE RejoinResumes
    BY <1>1, <2>2 DEF RejoinResumes, client
  <2>3. CASE RejoinLost
    BY <1>1, <2>3 DEF RejoinLost, client
  <2>4. CASE CleanupEnds
    <3>1. sup' = [sup EXCEPT !.pc = CASE @ = "cleanup" -> "ended"
                                      [] @ = "dying"   -> "exited"
                                      [] OTHER         -> @] /\ gen' = gen
          /\ cleanup.pc # "idle"
      BY <2>4 DEF CleanupEnds, client
    <3>2. sup.pc \in {"cleanup", "dying", "exited"}
      BY <1>1, <3>1 DEF Session, Active
    <3>3. sup'.pc \notin Rejoining
      BY <1>1, <3>1, <3>2 DEF Rejoining
    <3> QED
      BY <3>3
  <2>5. CASE CleanupCloses \/ CleanupRetires
    BY <2>5 DEF CleanupCloses, CleanupRetires, client
  <2>6. CASE SupervisorStops \/ AdoptsTooLate \/ RejoinDone \/ EndSession \/ Reconnects
             \/ SupervisorCancelled
    <3>1. sup'.pc \in {"exited", "serving", "cleanup", "connecting", "dying"}
      BY <1>1, <2>6
      DEF SupervisorStops, AdoptsTooLate, SupervisorExits, RejoinDone, EndSession,
          Reconnects, SupervisorCancelled
    <3> QED
      BY <3>1 DEF Rejoining
  <2> QED
    BY <1>4, <2>1, <2>2, <2>3, <2>4, <2>5, <2>6 DEF SupervisorStep
<1> QED
  BY <1>2, <1>3, <1>4 DEF Next

\* The barrier stands from step to step.
LEMMA BarrierStays ==
  ASSUME FInv, [Next]_vars
  PROVE  Barrier'
<1>1. SUFFICES ASSUME sup'.pc \in Rejoining, NEW h \in Required, ShouldRejoin(h)'
               PROVE  \/ h \in sup'.todo \/ (sup'.pc = "stopping" /\ sup'.cur = h)
                      \/ ch'[h].conn = gen'
  BY DEF Barrier, ShouldRejoin, IsRegistered
<1>2. h \in Handles /\ IInv /\ Session /\ Tidy
  BY TopicRuntimeAssumption DEF FInv, PInv
<1>3. ShouldRejoin(h) \/ ch[h].conn = conn
  BY <1>1, <1>2, RejoinersOnlyGo
<1>4. ch'[h].conn \in {ch[h].conn, conn}
  BY <1>2, AttemptsMove DEF SameAttempts
<1>5. sup.pc \in Rejoining => conn = gen
  BY <1>2 DEF Session, Rejoining, Active
<1>6. CASE sup' = sup /\ gen' = gen
  BY <1>1, <1>3, <1>4, <1>5, <1>6 DEF FInv, Barrier
<1>7. CASE sup.pc = "connecting" /\ sup'.todo = {g \in Handles : IsRegistered(g)} \cap Required
           /\ registry' = registry
  BY <1>1, <1>2, <1>7 DEF ShouldRejoin, IsRegistered
<1>8. ASSUME NEW g \in Handles, RejoinNext(g)
      PROVE  h \in sup'.todo \/ (sup'.pc = "stopping" /\ sup'.cur = h) \/ ch'[h].conn = gen'
  <2>1. sup.pc = "rejoining" /\ sup'.todo = sup.todo \ {g} /\ gen' = gen
        /\ (ShouldRejoin(g) => sup'.pc = "stopping" /\ sup'.cur = g)
    BY <1>2, <1>8 DEF RejoinNext, client, IInv, OthersOK
  <2> QED
    BY <1>3, <1>4, <1>5, <2>1 DEF FInv, Barrier, Rejoining
<1>9. ASSUME NEW ok \in ParamsResults, RejoinRestarts(ok)
      PROVE  h \in sup'.todo \/ (sup'.pc = "stopping" /\ sup'.cur = h) \/ ch'[h].conn = gen'
  <2>1. sup.pc = "stopping" /\ sup'.todo = sup.todo /\ gen' = gen
    BY <1>2, <1>9 DEF RejoinRestarts, client, IInv, OthersOK
  <2>2. CASE sup.cur = h /\ ShouldRejoin(h)
    <3>1. Begins(ch[h], ch'[h])
      BY <1>2, <1>9, <2>2, RejoinBegins, RestartBegins
    <3> QED
      BY <1>5, <2>1, <3>1 DEF Begins, Rejoining
  <2> QED
    BY <1>3, <1>4, <1>5, <2>1, <2>2 DEF FInv, Barrier, Rejoining
<1>10. CASE sup.pc \in {"joining", "losing"} /\ gen' = gen /\ sup'.todo = sup.todo
  BY <1>3, <1>4, <1>5, <1>10 DEF FInv, Barrier, Rejoining
<1> QED
  BY <1>1, <1>2, <1>6, <1>7, <1>8, <1>9, <1>10, RejoinProgress

\* A session is served from the end of its rejoins only.
LEMMA ServingBegins ==
  ASSUME IInv, Session, [Next]_vars, sup.pc = "rejoining", sup'.pc = "serving"
  PROVE  sup.todo = {}
<1>1. ASSUME NEW h \in Handles, HandleStep(h)
      PROVE  FALSE
  BY <1>1
  DEF HandleStep, JoinResumes, JoinRaises, LeaveStarts, LeaveAnswered, LeaveFinishes,
      RecoverTries, RecoverRejoins, RecoverResumes, RecoverCancelled, LoseStarts,
      LoseReports, loop
<1>2. ASSUME \/ \E o \in ops : SendStep(o) \/ SendReturns(o)
             \/ \E o \in Timers : Expire(o)
             \/ CloseSendSession \/ RoutingStep \/ NetworkStep \/ UserStep \/ ShutdownStep
             \/ UNCHANGED vars
      PROVE  FALSE
  BY <1>2
  DEF SendStep, SendReturns, Submit, SendFails, SendCancelled, Expire, CloseSendSession,
      RoutingStep, Route, RoutingEnds, RoutingStopped, NetworkStep, EndMembership, Drop,
      RoutingBreaks, ConnectFails, UserStep, Join, Leave, JoinCancelled, RequestStop,
      ShutdownStep, ShutdownCleansUp, ShutdownUnsubscribes, ShutdownCancelsLifecycle,
      ShutdownEnds, vars, loop
<1>3. ASSUME NEW h \in Handles, RejoinNext(h)
      PROVE  FALSE
  BY <1>3 DEF RejoinNext, IInv, OthersOK
<1>4. ASSUME CleanupEnds
      PROVE  FALSE
  BY <1>4 DEF CleanupEnds, Session, Active
<1> QED
  BY <1>1, <1>2, <1>3, <1>4
  DEF Next, SupervisorStep, SupervisorStops, AdoptsTooLate, SupervisorExits, Connect,
      RejoinRestarts, RejoinResumes, RejoinLost, RejoinDone, EndSession, Reconnects,
      CleanupCloses, CleanupRetires, SupervisorCancelled, IInv, OthersOK

\* Whatever else happens on the connection, the application's on_reconnect waits for
\* the first attempt of every required channel that is still to be rejoined: no step
\* from the rejoins to the service of a session skips one.
THEOREM BarrierBeforeReconnect == Spec => ReconnectBarrier
<1>1. Init => FInv
  <2>1. Init => Session /\ Barrier
    BY DEF Init, Session, Active, Barrier, Rejoining
  <2> QED
    BY <2>1, InitTidy, InitIInv DEF Init, FInv, PInv, Phases
<1>2. FInv /\ [Next]_vars => FInv'
  BY NextIInv, PhaseStep, SessionShape, TidyStays, BarrierStays DEF FInv, PInv
<1>3. FInv /\ [Next]_vars =>
        [sup.pc = "rejoining" /\ sup'.pc = "serving" =>
           \A h \in Required : ShouldRejoin(h) => ch[h].conn = gen]_vars
  BY ServingBegins DEF FInv, PInv, Barrier, Rejoining
<1> QED
  BY <1>1, <1>2, <1>3, PTL DEF Spec, ReconnectBarrier

-----------------------------------------------------------------------------
(* The websocket, step by step *)

\* The frames of a topic on their way to the client.
Frames(t) == {net[t][i] : i \in DOMAIN net[t]}

\* The frame of a send is written, and the server answers it.
Answer(o) ==
  /\ Submit(o) /\ o.st = "queued" /\ ~OutcomeDone(ch[o.h], o) /\ Eligible(o)
  /\ o \notin ops' /\ socket = "open"
  /\ IF o.kind = "join" THEN ServerJoin(TopicOf[o.h], ch[o.h], o.ref)
                        ELSE ServerLeave(TopicOf[o.h], ch[o.h], o.ref)

\* What a step does to one topic: nothing; the socket closes; the server answers a
\* join or acknowledges a leave; a frame is routed; a channel process stops; or the
\* client has a new connection.
Kept(t) == net'[t] = net[t] /\ member'[t] = member[t]

Cut(t) ==
  /\ socket' = "closed" /\ member'[t] = 0
  /\ \E n \in Nat : n <= Len(net[t]) /\ net'[t] = SubSeq(net[t], 1, n)

JoinAnswered(t) ==
  \E o \in ops : \E status \in JoinReplies :
    /\ Answer(o) /\ o.kind = "join" /\ TopicOf[o.h] = t
    /\ net'[t] = Append(net[t], Reply(ch[o.h], o.ref, status))
    /\ member'[t] = IF status = "error" THEN 0 ELSE o.ref

LeaveAcknowledged(t) ==
  \E o \in ops :
    /\ Answer(o) /\ o.kind = "leave" /\ TopicOf[o.h] = t
    /\ net'[t] = IF member[t] = 0 THEN Append(net[t], Reply(ch[o.h], o.ref, "ok"))
                 ELSE net[t] \o <<Reply(ch[o.h], o.ref, "ok"), Ending("close", member[t])>>
    /\ member'[t] = 0

Routed(t) ==
  /\ \E ok \in HookResults : Route(t, ok)
  /\ net[t] # <<>> /\ net'[t] = Tail(net[t]) /\ member'[t] = member[t]

ProcessStops(t) ==
  \E event \in {"error", "close"} :
    /\ member[t] # 0 /\ member'[t] = 0
    /\ net'[t] = Append(net[t], Ending(event, member[t]))

Renewed(t) == Connect /\ net'[t] = <<>> /\ member'[t] = member[t]

\* The closing of the socket cuts every topic.
LEMMA CloseCuts ==
  ASSUME IInv, CloseSocket, NEW t \in Topics
  PROVE  Cut(t)
<1>1. PICK kept \in [Topics -> Refs] :
        /\ \A u \in Topics : kept[u] <= Len(net[u])
        /\ net' = Delivered(kept)
  BY DEF CloseSocket
<1>2. kept[t] \in Nat
  BY BoundsAssumption DEF Refs
<1> QED
  BY <1>1, <1>2 DEF CloseSocket, Delivered, Cut

\* The steps that the websocket sees.
LEMMA TransportMoves ==
  ASSUME IInv, [Next]_vars
  PROVE  \/ UNCHANGED <<socket, net, member>>
         \/ \A t \in Topics : Cut(t)
         \/ \E o \in ops : Answer(o)
         \/ \E t \in Topics, ok \in HookResults : Route(t, ok)
         \/ \E t \in Topics, event \in ServerEnds : EndMembership(t, event)
         \/ Connect \/ AdoptsTooLate
<1> DEFINE Goal ==
      \/ UNCHANGED <<socket, net, member>>
      \/ \A t \in Topics : Cut(t)
      \/ \E o \in ops : Answer(o)
      \/ \E t \in Topics, ok \in HookResults : Route(t, ok)
      \/ \E t \in Topics, event \in ServerEnds : EndMembership(t, event)
      \/ Connect \/ AdoptsTooLate
<1>1. ASSUME NEW h \in Handles, HandleStep(h)
      PROVE  Goal
  BY <1>1
  DEF HandleStep, JoinResumes, JoinRaises, LeaveStarts, LeaveAnswered, LeaveFinishes,
      RecoverTries, RecoverRejoins, RecoverResumes, RecoverCancelled, LoseStarts,
      LoseReports, transport
<1>2. ASSUME NEW o \in ops, Submit(o)
      PROVE  Goal
  <2>1. CASE ~OutcomeDone(ch[o.h], o) /\ Eligible(o) /\ socket = "open"
    <3>1. o.st = "queued" /\ ops' = (ops \ {o}) \cup {[o EXCEPT !.st = "writing"]}
      BY <1>2, <2>1 DEF Submit
    <3>2. [o EXCEPT !.st = "writing"] # o
      BY <3>1 DEF IInv, OthersOK, Op
    <3>3. IF o.kind = "join" THEN ServerJoin(TopicOf[o.h], ch[o.h], o.ref)
                             ELSE ServerLeave(TopicOf[o.h], ch[o.h], o.ref)
      BY <1>2, <2>1 DEF Submit
    <3> QED
      BY <1>2, <2>1, <3>1, <3>2, <3>3 DEF Answer
  <2>2. CASE UNCHANGED <<net, member>>
    BY <1>2, <2>2 DEF Submit
  <2>3. socket \in {"open", "closed"}
    BY DEF IInv, OthersOK
  <2> QED
    BY <1>2, <2>1, <2>2, <2>3 DEF Submit
<1>3. ASSUME \/ \E o \in ops : SendFails(o) \/ SendCancelled(o) \/ SendReturns(o)
             \/ \E o \in Timers : Expire(o)
             \/ RoutingEnds \/ RoutingStopped \/ UserStep \/ ShutdownStep
             \/ RoutingBreaks \/ ConnectFails \/ UNCHANGED vars
      PROVE  Goal
  BY <1>3
  DEF SendReturns, SendFails, SendCancelled, Expire, RoutingEnds, RoutingStopped,
      RoutingBreaks, ConnectFails, UserStep, Join, Leave, JoinCancelled, RequestStop,
      ShutdownStep, ShutdownCleansUp, ShutdownUnsubscribes, ShutdownCancelsLifecycle,
      ShutdownEnds, vars, transport
<1>4. CASE CloseSendSession \/ Drop
  <2>1. CloseSocket \/ UNCHANGED transport
    BY <1>4 DEF CloseSendSession, Drop
  <2> QED
    BY <2>1, CloseCuts DEF transport
<1>5. CASE CleanupCloses
  <2>1. CASE UNCHANGED transport
    BY <2>1 DEF transport
  <2>2. CASE /\ socket' = "closed" /\ net' = [t \in Topics |-> <<>>]
             /\ member' = [t \in Topics |-> 0]
    <3>1. ASSUME NEW t \in Topics
          PROVE  Cut(t)
      <4>1. 0 <= Len(net[t]) /\ SubSeq(net[t], 1, 0) = <<>>
        BY SubSeqEmpty, LenProperties DEF IInv, OthersOK
      <4> QED
        BY <2>2, <4>1 DEF Cut
    <3> QED
      BY <3>1
  <2> QED
    BY <1>5, <2>1, <2>2 DEF CleanupCloses
<1>6. CASE SupervisorStep
  BY <1>5, <1>6
  DEF SupervisorStep, SupervisorStops, RejoinNext, RejoinRestarts, RejoinResumes,
      RejoinLost, RejoinDone, EndSession, Reconnects, CleanupRetires, CleanupEnds,
      SupervisorCancelled, transport
<1> QED
  BY <1>1, <1>2, <1>3, <1>4, <1>6 DEF Next, SendStep, RoutingStep, NetworkStep

\* What they do to each topic.
LEMMA Wire ==
  ASSUME IInv, [Next]_vars, NEW t \in Topics
  PROVE  \/ Kept(t) \/ Cut(t) \/ JoinAnswered(t) \/ LeaveAcknowledged(t)
         \/ Routed(t) \/ ProcessStops(t) \/ Renewed(t)
<1>1. net \in [Topics -> Seq(Frame)] /\ member \in [Topics -> Refs]
  BY DEF IInv, OthersOK
<1>2. CASE UNCHANGED <<socket, net, member>>
  BY <1>2 DEF Kept
<1>3. ASSUME NEW o \in ops, Answer(o)
      PROVE  Kept(t) \/ JoinAnswered(t) \/ LeaveAcknowledged(t)
  <2>1. CASE t # TopicOf[o.h]
    BY <1>1, <1>3, <2>1 DEF Answer, ServerJoin, ServerLeave, Kept
  <2>2. CASE t = TopicOf[o.h] /\ o.kind = "join"
    <3>1. PICK status \in JoinReplies :
            /\ member' = [member EXCEPT ![t] = IF status = "error" THEN 0 ELSE o.ref]
            /\ net' = [net EXCEPT ![t] = Append(@, Reply(ch[o.h], o.ref, status))]
      BY <1>3, <2>2 DEF Answer, ServerJoin
    <3>2. /\ member'[t] = IF status = "error" THEN 0 ELSE o.ref
          /\ net'[t] = Append(net[t], Reply(ch[o.h], o.ref, status))
      BY <1>1, <3>1
    <3> QED
      BY <1>3, <2>2, <3>2 DEF JoinAnswered
  <2>3. CASE t = TopicOf[o.h] /\ o.kind # "join"
    <3>1. o.kind = "leave"
      BY <2>3 DEF IInv, OthersOK, Op
    <3>2. ServerLeave(t, ch[o.h], o.ref)
      BY <1>3, <2>3 DEF Answer
    <3>3. /\ member'[t] = 0
          /\ net'[t] = IF member[t] = 0 THEN Append(net[t], Reply(ch[o.h], o.ref, "ok"))
               ELSE net[t] \o <<Reply(ch[o.h], o.ref, "ok"), Ending("close", member[t])>>
      BY <1>1, <3>2 DEF ServerLeave
    <3> QED
      BY <1>3, <2>3, <3>1, <3>3 DEF LeaveAcknowledged
  <2> QED
    BY <2>1, <2>2, <2>3
<1>4. ASSUME NEW u \in Topics, NEW ok \in HookResults, Route(u, ok)
      PROVE  Kept(t) \/ Routed(t)
  <2>1. net[u] # <<>> /\ net' = [net EXCEPT ![u] = Tail(net[u])] /\ member' = member
    BY <1>4 DEF Route
  <2>2. CASE u = t
    BY <1>1, <1>4, <2>1, <2>2 DEF Routed
  <2>3. CASE u # t
    BY <1>1, <2>1, <2>3 DEF Kept
  <2> QED
    BY <2>2, <2>3
<1>5. ASSUME NEW u \in Topics, NEW event \in ServerEnds, EndMembership(u, event)
      PROVE  Kept(t) \/ ProcessStops(t)
  <2>1. /\ member[u] # 0 /\ member' = [member EXCEPT ![u] = 0]
        /\ net' = [net EXCEPT ![u] = Append(net[u], Ending(event, member[u]))]
        /\ event \in {"error", "close"}
    BY <1>5, TopicRuntimeAssumption DEF EndMembership
  <2>2. CASE u = t
    BY <1>1, <2>1, <2>2 DEF ProcessStops
  <2>3. CASE u # t
    BY <1>1, <2>1, <2>3 DEF Kept
  <2> QED
    BY <2>2, <2>3
<1>6. CASE Connect
  BY <1>6 DEF Connect, Renewed
<1>7. CASE AdoptsTooLate
  BY <1>7 DEF AdoptsTooLate, Kept
<1> QED
  BY <1>2, <1>3, <1>4, <1>5, <1>6, <1>7, TransportMoves

\* The frames of a topic: an appended one is new, and a tail has no other.
LEMMA AppendedFrames ==
  ASSUME NEW s \in Seq(Frame), NEW x \in Frame, NEW i \in DOMAIN Append(s, x)
  PROVE  (i \in DOMAIN s /\ Append(s, x)[i] = s[i]) \/ (i = Len(s) + 1 /\ Append(s, x)[i] = x)
<1>1. Len(s) \in Nat /\ DOMAIN s = 1 .. Len(s)
  BY LenProperties
<1>2. DOMAIN Append(s, x) = 1 .. Len(s) + 1
  BY AppendProperties, LenProperties
<1>3. i \in 1 .. Len(s) \/ i = Len(s) + 1
  BY <1>1, <1>2
<1> QED
  BY <1>1, <1>3, AppendProperties

LEMMA TailFrames ==
  ASSUME NEW s \in Seq(Frame), s # <<>>, NEW i \in DOMAIN Tail(s)
  PROVE  i + 1 \in DOMAIN s /\ Tail(s)[i] = s[i + 1]
<1>1. Len(s) \in Nat /\ DOMAIN s = 1 .. Len(s)
  BY LenProperties
<1>2. Tail(s) \in Seq(Frame) /\ Len(Tail(s)) = Len(s) - 1
      /\ \A j \in 1 .. Len(Tail(s)) : Tail(s)[j] = s[j + 1]
  BY HeadTailProperties
<1>3. DOMAIN Tail(s) = 1 .. Len(s) - 1
  BY <1>2, LenProperties
<1> QED
  BY <1>1, <1>2, <1>3

LEMMA PrefixFrames ==
  ASSUME NEW s \in Seq(Frame), NEW n \in Nat, n <= Len(s), NEW i \in DOMAIN SubSeq(s, 1, n)
  PROVE  i \in DOMAIN s /\ SubSeq(s, 1, n)[i] = s[i]
<1>1. Len(s) \in Nat /\ DOMAIN s = 1 .. Len(s) /\ s \in [1 .. Len(s) -> Frame]
  BY LenProperties
<1>2. \A j \in 1 .. n : s[j] \in Frame
  BY <1>1
<1>3. /\ SubSeq(s, 1, n) \in Seq(Frame)
      /\ Len(SubSeq(s, 1, n)) = IF 1 <= n THEN n - 1 + 1 ELSE 0
      /\ \A j \in 1 .. n - 1 + 1 : SubSeq(s, 1, n)[j] = s[1 + j - 1]
  BY <1>2, SubSeqProperties
<1>4. DOMAIN SubSeq(s, 1, n) = 1 .. n
  BY <1>3, LenProperties
<1>5. \A j \in 1 .. n : SubSeq(s, 1, n)[j] = s[j]
  BY <1>3
<1> QED
  BY <1>1, <1>4, <1>5

\* Two frames are appended one after the other.
LEMMA TwoAppended ==
  ASSUME NEW s \in Seq(Frame), NEW x \in Frame, NEW y \in Frame
  PROVE  s \o <<x, y>> = Append(Append(s, x), y)
<1>1. Append(s, x) = s \o <<x>> /\ Append(s, x) \in Seq(Frame)
  BY AppendIsConcat, AppendProperties
<1>2. Append(Append(s, x), y) = Append(s, x) \o <<y>>
  BY <1>1, AppendIsConcat
<1>3. <<x>> \in Seq(Frame) /\ <<y>> \in Seq(Frame)
  OBVIOUS
<1>4. (s \o <<x>>) \o <<y>> = s \o (<<x>> \o <<y>>)
  BY <1>3, ConcatAssociative
<1>5. <<x>> \o <<y>> = <<x, y>>
  <2>1. /\ <<x>> \o <<y>> \in Seq(Frame) /\ Len(<<x>> \o <<y>>) = 2
        /\ (<<x>> \o <<y>>)[1] = x /\ (<<x>> \o <<y>>)[2] = y
    BY <1>3, ConcatProperties
  <2>2. <<x, y>> \in Seq(Frame) /\ Len(<<x, y>>) = 2
    OBVIOUS
  <2>3. \A i \in 1 .. 2 : (<<x>> \o <<y>>)[i] = <<x, y>>[i]
    BY <2>1
  <2> QED
    BY <2>1, <2>2, <2>3, SeqEqual
<1> QED
  BY <1>1, <1>2, <1>4, <1>5

-----------------------------------------------------------------------------
(* The sends, the refs and the connection, step by step *)

\* Every send after the step was there before, queued only if it was.
OldSends ==
  \A o \in ops' :
    o \in ops \/ \E q \in ops : /\ o.h = q.h /\ o.kind = q.kind /\ o.ref = q.ref
                                /\ o.st # "queued"

LEMMA ChangedSends ==
  ASSUME IInv,
         \A o \in ops' : o \in ops \/ \E q \in ops, st \in {"cancelled", "writing"} :
                                        o = [q EXCEPT !.st = st]
  PROVE  OldSends
<1>1. ASSUME NEW q \in ops, NEW st \in {"cancelled", "writing"}
      PROVE  \E r \in ops : LET o == [q EXCEPT !.st = st]
                            IN  o.h = r.h /\ o.kind = r.kind /\ o.ref = r.ref /\ o.st # "queued"
  BY DEF IInv, OthersOK, Op
<1>2. ASSUME NEW o \in ops', o \notin ops
      PROVE  \E r \in ops : o.h = r.h /\ o.kind = r.kind /\ o.ref = r.ref /\ o.st # "queued"
  <2>1. PICK q \in ops, st \in {"cancelled", "writing"} : o = [q EXCEPT !.st = st]
    BY <1>2
  <2> QED
    BY <1>1, <2>1
<1> QED
  BY <1>2 DEF OldSends

\* A step changes sends that there are, or queues the join of an attempt that
\* begins or the frame of a leave.
LEMMA SendsMove ==
  ASSUME IInv, Tidy, [Next]_vars
  PROVE  \/ OldSends
         \/ \E g \in Handles : BeginsAt(g) /\ ops' = Queue(g, "join", refs + 1)
         \/ \E g \in Handles : LeaveStarts(g) /\ refs' = refs + 1
                               /\ ops' = Queue(g, "leave", refs + 1)
<1> DEFINE Goal ==
      \/ OldSends
      \/ \E g \in Handles : BeginsAt(g) /\ ops' = Queue(g, "join", refs + 1)
      \/ \E g \in Handles : LeaveStarts(g) /\ refs' = refs + 1
                            /\ ops' = Queue(g, "leave", refs + 1)
<1>1. ASSUME ops' \subseteq ops
      PROVE  OldSends
  BY <1>1 DEF OldSends
<1>2. ASSUME NEW g, ops' = CancelQueued(ops, g)
      PROVE  OldSends
  BY <1>2, ChangedSends DEF CancelQueued
<1>3. ASSUME NEW g \in Handles, BeginsAt(g)
      PROVE  Goal
  BY <1>1, <1>3 DEF BeginsAt
<1>4. ASSUME NEW h \in Handles, HandleStep(h)
      PROVE  Goal
  <2>1. CASE LeaveStarts(h)
    BY <1>1, <2>1 DEF LeaveStarts
  <2>2. ASSUME NEW ok \in ParamsResults, RecoverRejoins(h, ok)
        PROVE  Goal
    BY <1>1, <1>3, <2>2, BeginningMoves
  <2>3. CASE RecoverCancelled(h)
    BY <1>1, <1>2, <2>3 DEF RecoverCancelled
  <2> QED
    BY <1>1, <1>4, <2>1, <2>2, <2>3
    DEF HandleStep, JoinResumes, JoinRaises, LeaveAnswered, LeaveFinishes,
        RecoverTries, RecoverResumes, LoseStarts, LoseReports, session
<1>5. ASSUME NEW o \in ops, SendStep(o) \/ SendReturns(o)
      PROVE  Goal
  <2>1. ops' = ops \ {o} \/ ops' = (ops \ {o}) \cup {[o EXCEPT !.st = "writing"]}
    BY <1>5 DEF SendStep, SendReturns, Submit, SendFails, SendCancelled
  <2> QED
    BY <2>1, ChangedSends
<1>6. ASSUME NEW o \in Timers, Expire(o)
      PROVE  Goal
  <2>1. ops' = ops \/ (o.st = "queued"
                       /\ ops' = (ops \ {o}) \cup {[o EXCEPT !.st = "cancelled"]})
    BY <1>6 DEF Expire, session
  <2>2. o.st = "queued" => o \in ops
    BY DEF Timers
  <2> QED
    BY <1>1, <2>1, <2>2, ChangedSends
<1>7. CASE SupervisorStep
  <2>1. ASSUME RetireSends
        PROVE  OldSends
    BY <2>1, ChangedSends DEF RetireSends
  <2>2. ASSUME NEW ok \in ParamsResults, RejoinRestarts(ok)
        PROVE  Goal
    <3>1. sup.cur \in Handles
      BY <2>2, RejoinBegins
    <3> QED
      BY <1>1, <1>3, <2>2, <3>1, BeginningMoves
  <2>3. CASE SupervisorCancelled
    BY <1>1, <1>2, <2>3 DEF SupervisorCancelled
  <2>4. CASE CleanupCloses \/ CleanupRetires
    BY <1>1, <2>1, <2>4 DEF CleanupCloses, CleanupRetires
  <2> QED
    BY <1>1, <1>7, <2>2, <2>3, <2>4
    DEF SupervisorStep, SupervisorStops, AdoptsTooLate, Connect, RejoinNext,
        RejoinResumes, RejoinLost, RejoinDone, EndSession, Reconnects, CleanupEnds, session
<1>8. CASE UserStep
  <2>1. ASSUME NEW h \in Handles, NEW ok \in ParamsResults, Join(h, ok)
        PROVE  Goal
    BY <1>1, <1>3, <2>1, BeginningMoves
  <2> QED
    BY <1>1, <1>2, <1>8, <2>1 DEF UserStep, Leave, JoinCancelled, RequestStop, session
<1> QED
  BY <1>1, <1>4, <1>5, <1>6, <1>7, <1>8
  DEF Next, CloseSendSession, RoutingStep, Route, RoutingEnds, RoutingStopped, NetworkStep,
      EndMembership, Drop, RoutingBreaks, ConnectFails, ShutdownStep, ShutdownCleansUp,
      ShutdownUnsubscribes, ShutdownCancelsLifecycle, ShutdownEnds, vars, session

\* The refs are taken one by one.
LEMMA RefsMove ==
  ASSUME [Next]_vars
  PROVE  refs' = refs \/ refs' = refs + 1
<1>1. ASSUME NEW h \in Handles, HandleStep(h)
      PROVE  refs' = refs \/ refs' = refs + 1
  BY <1>1
  DEF HandleStep, JoinResumes, JoinRaises, LeaveStarts, LeaveAnswered, LeaveFinishes,
      RecoverTries, RecoverRejoins, RecoverResumes, RecoverCancelled, LoseStarts, LoseReports
<1>2. ASSUME \/ \E o \in ops : SendStep(o) \/ SendReturns(o)
             \/ \E o \in Timers : Expire(o)
             \/ CloseSendSession \/ ShutdownStep \/ RoutingStep \/ NetworkStep
             \/ UNCHANGED vars
      PROVE  refs' = refs
  BY <1>2
  DEF SendStep, SendReturns, Submit, SendFails, SendCancelled, Expire, CloseSendSession,
      ShutdownStep, ShutdownCleansUp, ShutdownUnsubscribes, ShutdownCancelsLifecycle,
      ShutdownEnds, RoutingStep, Route, RoutingEnds, RoutingStopped, NetworkStep,
      EndMembership, Drop, RoutingBreaks, ConnectFails, vars
<1>3. ASSUME SupervisorStep
      PROVE  refs' = refs \/ refs' = refs + 1
  BY <1>3
  DEF SupervisorStep, SupervisorStops, AdoptsTooLate, Connect, RejoinNext, RejoinRestarts,
      RejoinResumes, RejoinLost, RejoinDone, EndSession, Reconnects, CleanupCloses,
      CleanupRetires, CleanupEnds, SupervisorCancelled
<1>4. ASSUME UserStep
      PROVE  refs' = refs \/ refs' = refs + 1
  BY <1>4 DEF UserStep, Join, Leave, JoinCancelled, RequestStop
<1> QED
  BY <1>1, <1>2, <1>3, <1>4 DEF Next

\* The connection stays, is given up, or is a new one.
SameConnection ==
  /\ UNCHANGED <<conn, gen>>
  /\ cstate' = "connected" => cstate = "connected"
  /\ socket' = "open" => socket = "open"

NewConnection ==
  /\ conn = 0 /\ conn' = gen + 1 /\ gen' \in {gen, gen + 1}
  /\ \A t \in Topics : member[t] = 0
  /\ cstate' = "connected" => UNCHANGED ch

LEMMA ConnectionMoves ==
  ASSUME IInv, Session, [Next]_vars
  PROVE  SameConnection \/ (conn' = 0 /\ gen' = gen) \/ NewConnection
<1>1. ASSUME NEW h \in Handles, HandleStep(h)
      PROVE  SameConnection
  BY <1>1
  DEF HandleStep, JoinResumes, JoinRaises, LeaveStarts, LeaveAnswered, LeaveFinishes,
      RecoverTries, RecoverRejoins, RecoverResumes, RecoverCancelled, LoseStarts,
      LoseReports, client, transport, SameConnection
<1>2. ASSUME (\E o \in ops : SendStep(o) \/ SendReturns(o)) \/ (\E o \in Timers : Expire(o))
      PROVE  SameConnection
  <2>1. UNCHANGED <<conn, gen, socket>>
    BY <1>2
    DEF SendStep, SendReturns, Submit, SendFails, SendCancelled, Expire, client, transport
  <2>2. cstate' = cstate \/ \E chs : NotifyFailure(chs)
    BY <1>2 DEF SendStep, SendReturns, Submit, SendFails, SendCancelled, Expire, client
  <2> QED
    BY <2>1, <2>2 DEF NotifyFailure, SameConnection
<1>3. ASSUME CloseSendSession \/ RoutingStep \/ NetworkStep \/ UNCHANGED vars
      PROVE  SameConnection
  BY <1>3
  DEF CloseSendSession, CloseSocket, RoutingStep, Route, RoutingEnds, RoutingStopped,
      NetworkStep, EndMembership, Drop, RoutingBreaks, ConnectFails, vars, client,
      transport, SameConnection
<1>4. ASSUME ShutdownStep
      PROVE  SameConnection \/ (conn' = 0 /\ gen' = gen)
  BY <1>4
  DEF ShutdownStep, ShutdownCleansUp, CleanupBegins, ShutdownUnsubscribes,
      ShutdownCancelsLifecycle, ShutdownEnds, client, transport, SameConnection
<1>5. ASSUME Connect \/ AdoptsTooLate
      PROVE  NewConnection
  <2>1. sup.pc = "connecting"
    BY <1>5 DEF Connect, AdoptsTooLate
  <2>2. conn = 0 /\ \A t \in Topics : member[t] = 0
    BY <2>1 DEF Session
  <2> QED
    BY <1>5, <2>2 DEF Connect, AdoptsTooLate, SupervisorExits, NewConnection
<1>6. ASSUME SupervisorStep, ~Connect, ~AdoptsTooLate
      PROVE  SameConnection \/ (conn' = 0 /\ gen' = gen)
  BY <1>6
  DEF SupervisorStep, SupervisorStops, SupervisorExits, RejoinNext, RejoinRestarts,
      RejoinResumes, RejoinLost, RejoinDone, EndSession, CleanupBegins, Reconnects,
      CleanupCloses, CleanupRetires, CleanupEnds, SupervisorCancelled, client, transport,
      SameConnection
<1>7. ASSUME UserStep
      PROVE  SameConnection
  BY <1>7
  DEF UserStep, Join, Leave, JoinCancelled, RequestStop, client, transport, SameConnection
<1> QED
  BY <1>1, <1>2, <1>3, <1>4, <1>5, <1>6, <1>7 DEF Next

\* A client that has not stopped knows its connection by the current generation.
LEMMA ConnectionIsCurrent ==
  ASSUME IInv, Session, ~stop
  PROVE  conn \in {0, gen}
<1>1. sup.pc \in Active \cup {"connecting", "ended", "cleanup", "dying", "exited"}
  BY DEF IInv, OthersOK, Active
<1> QED
  BY <1>1 DEF Session

\* A topic's new frame answers a send, or tells the end of its membership.
AnswersSend(t, f) ==
  \E o \in ops, status \in {"ok", "error", "malformed"} :
    /\ Answer(o) /\ TopicOf[o.h] = t /\ f = Reply(ch[o.h], o.ref, status)
    /\ \/ o.kind = "join" /\ (status = "error" => member'[t] = 0)
       \/ o.kind = "leave" /\ status = "ok"

TellsEnd(t, f) ==
  \E event \in {"error", "close"} :
    f = Ending(event, member[t]) /\ member[t] # 0 /\ member'[t] = 0

LEMMA FramesMove ==
  ASSUME IInv, [Next]_vars, NEW t \in Topics, NEW f \in Frames(t)'
  PROVE  f \in Frames(t) \/ AnswersSend(t, f) \/ TellsEnd(t, f)
<1>1. /\ net[t] \in Seq(Frame) /\ member[t] \in Refs /\ net'[t] \in Seq(Frame)
      /\ \A o \in ops : ch[o.h] \in SoundChannel /\ o.ref \in Refs
  BY NextIInv DEF IInv, OthersOK, SoundChannels, Op
<1>2. PICK i \in DOMAIN net'[t] : f = net'[t][i]
  BY DEF Frames
<1>3. ASSUME NEW x \in Frame, net'[t] = Append(net[t], x)
      PROVE  f \in Frames(t) \/ f = x
  BY <1>1, <1>2, <1>3, AppendedFrames DEF Frames
<1>4. CASE Kept(t)
  BY <1>2, <1>4 DEF Kept, Frames
<1>5. CASE Cut(t)
  BY <1>1, <1>2, <1>5, PrefixFrames DEF Cut, Frames
<1>6. CASE JoinAnswered(t)
  <2>1. PICK o \in ops, status \in JoinReplies :
          /\ Answer(o) /\ o.kind = "join" /\ TopicOf[o.h] = t
          /\ net'[t] = Append(net[t], Reply(ch[o.h], o.ref, status))
          /\ member'[t] = IF status = "error" THEN 0 ELSE o.ref
    BY <1>6 DEF JoinAnswered
  <2>2. Reply(ch[o.h], o.ref, status) \in Frame
    BY <1>1, <2>1, FramesOK, TopicRuntimeAssumption
  <2> QED
    BY <1>3, <2>1, <2>2, TopicRuntimeAssumption DEF AnswersSend
<1>7. CASE LeaveAcknowledged(t)
  <2>1. PICK o \in ops :
          /\ Answer(o) /\ o.kind = "leave" /\ TopicOf[o.h] = t /\ member'[t] = 0
          /\ net'[t] = IF member[t] = 0 THEN Append(net[t], Reply(ch[o.h], o.ref, "ok"))
               ELSE net[t] \o <<Reply(ch[o.h], o.ref, "ok"), Ending("close", member[t])>>
    BY <1>7 DEF LeaveAcknowledged
  <2> DEFINE r == Reply(ch[o.h], o.ref, "ok")
             e == Ending("close", member[t])
  <2>2. r \in Frame /\ e \in Frame
    BY <1>1, FramesOK
  <2>3. AnswersSend(t, r)
    BY <2>1 DEF AnswersSend
  <2>4. CASE member[t] = 0
    BY <1>3, <2>1, <2>2, <2>3, <2>4
  <2>5. CASE member[t] # 0
    <3> HIDE DEF r, e
    <3>1. Append(net[t], r) \in Seq(Frame)
      BY <1>1, <2>2, AppendProperties
    <3>2. net'[t] = Append(Append(net[t], r), e)
      <4>1. net'[t] = net[t] \o <<r, e>>
        BY <2>1, <2>5 DEF r, e
      <4> QED
        BY <1>1, <2>2, <4>1, TwoAppended
    <3>3. f = e \/ \E j \in DOMAIN Append(net[t], r) : f = Append(net[t], r)[j]
      BY <1>2, <2>2, <3>1, <3>2, AppendedFrames
    <3>4. f = e \/ f = r \/ f \in Frames(t)
      BY <1>1, <2>2, <3>3, AppendedFrames DEF Frames
    <3>5. TellsEnd(t, e)
      BY <2>1, <2>5 DEF TellsEnd, e
    <3> QED
      BY <2>3, <3>4, <3>5
  <2> QED
    BY <2>4, <2>5
<1>8. CASE Routed(t)
  BY <1>1, <1>2, <1>8, TailFrames DEF Routed, Frames
<1>9. CASE ProcessStops(t)
  <2>1. PICK event \in {"error", "close"} :
          /\ member[t] # 0 /\ member'[t] = 0
          /\ net'[t] = Append(net[t], Ending(event, member[t]))
    BY <1>9 DEF ProcessStops
  <2>2. Ending(event, member[t]) \in Frame
    BY <1>1 DEF Ending, Frame
  <2> QED
    BY <1>3, <2>1, <2>2 DEF TellsEnd
<1>10. CASE Renewed(t)
  <2>1. DOMAIN net'[t] = {}
    BY <1>10 DEF Renewed
  <2> QED
    BY <1>2, <2>1
<1> QED
  BY <1>4, <1>5, <1>6, <1>7, <1>8, <1>9, <1>10, Wire

\* A membership ends, or begins with the answer to a join.
LEMMA MembersMove ==
  ASSUME IInv, [Next]_vars, NEW t \in Topics
  PROVE  \/ member'[t] = 0 \/ member'[t] = member[t]
         \/ \E o \in ops : Answer(o) /\ o.kind = "join" /\ TopicOf[o.h] = t
                           /\ member'[t] = o.ref
  BY Wire DEF Kept, Cut, JoinAnswered, LeaveAcknowledged, Routed, ProcessStops, Renewed

-----------------------------------------------------------------------------
(* What the server knows of a join *)

\* A move that begins no attempt keeps the attempt.
LEMMA AttemptKept ==
  ASSUME IInv, Session, Tidy, [Next]_vars, NEW h \in Handles
  PROVE  \/ BeginsAt(h)
         \/ /\ ch'[h].joinRef = ch[h].joinRef /\ ch'[h].conn = ch[h].conn
            /\ ch[h].leave # "none" => ch'[h].leave # "none"
            /\ ch[h].submitted => ch'[h].submitted
            /\ \/ Calm(ch[h], ch'[h])
               \/ WrittenAt(h)
               \/ EndsAt(h) /\ ch'[h].submitted = ch[h].submitted
               \/ /\ AcceptsAt(h) /\ ch'[h].submitted = ch[h].submitted
                  /\ ch'[h].terminal = ch[h].terminal
<1>1. ch[h] \in SoundChannel
  BY HandleFacts
<1>2. CASE Calm(ch[h], ch'[h])
  BY <1>2 DEF Calm
<1>3. CASE WrittenAt(h)
  <2> DEFINE c == [ch[h] EXCEPT !.submitted = TRUE]
  <2>1. Calm(c, ch'[h])
    BY <1>3 DEF WrittenAt
  <2>2. c.joinRef = ch[h].joinRef /\ c.conn = ch[h].conn /\ c.leave = ch[h].leave /\ c.submitted
    BY <1>1 DEF SoundChannel, Channel
  <2> HIDE DEF c
  <2> QED
    BY <1>3, <2>1, <2>2 DEF Calm
<1>4. CASE EndsAt(h)
  <2> DEFINE c == [ch[h] EXCEPT !.terminal = TRUE]
  <2>1. Calm(c, ch'[h])
    BY <1>4 DEF EndsAt
  <2>2. /\ c.joinRef = ch[h].joinRef /\ c.conn = ch[h].conn /\ c.leave = ch[h].leave
        /\ c.submitted = ch[h].submitted
    BY <1>1 DEF SoundChannel, Channel
  <2> HIDE DEF c
  <2> QED
    BY <1>4, <2>1, <2>2 DEF Calm
<1>5. CASE AcceptsAt(h)
  BY <1>1, <1>5, AcceptedFields DEF AcceptsAt, SameAttempt
<1> QED
  BY <1>2, <1>3, <1>4, <1>5, Moves

\* Every ref the server has seen was taken from the counter, a submitted join has
\* one, and no two handles share one.
RefsUsed ==
  /\ \A h \in Handles : ch[h].joinRef <= refs /\ (ch[h].submitted => ch[h].joinRef # 0)
  /\ \A o \in ops : o.ref <= refs
  /\ \A t \in Topics : member[t] <= refs
  /\ \A t \in Topics : \A f \in Frames(t) : f.joinRef # 0 /\ f.joinRef <= refs

OwnRefs ==
  \A g, h \in Handles : ch[g].joinRef = ch[h].joinRef /\ ch[g].joinRef # 0 => g = h

\* No channel is of a connection to come.
ConnsUsed == \A h \in Handles : ch[h].conn <= gen

\* The server has heard nothing of a join that is still to be sent.
Unsent(o) ==
  /\ o.ref # 0 /\ ~ch[o.h].submitted
  /\ conn # 0 /\ ch[o.h].conn = conn => ~ch[o.h].terminal
  /\ member[TopicOf[o.h]] # o.ref
  /\ \A f \in Frames(TopicOf[o.h]) : f.joinRef # o.ref

QueuedUnsent ==
  \A o \in ops :
    o.kind = "join" /\ o.st = "queued" /\ o.ref = ch[o.h].joinRef => Unsent(o)

\* A leave is sent for a join that was, and never starts another one.
LeavesOwned ==
  \A o \in ops : o.kind = "leave" =>
    ch[o.h].submitted /\ ch[o.h].leave # "none" /\ o.ref # ch[o.h].joinRef

\* The end of a membership, or its refusal, is told after the server's channel
\* process is gone.
EndsKnown ==
  \A t \in Topics : \A f \in Frames(t) :
    /\ f.event # "reply" => f.ref = f.joinRef
    /\ f.event # "reply" \/ (f.status = "error" /\ f.ref = f.joinRef) => member[t] # f.joinRef

\* While the server holds the membership of a join, the join is of this connection
\* and the client has not been told of its end.
MembersCurrent ==
  conn # 0 => \A h \in Handles :
    ch[h].submitted /\ member[TopicOf[h]] = ch[h].joinRef => ch[h].conn = conn /\ ~ch[h].terminal

ServerInv ==
  /\ PInv /\ Session /\ Tidy /\ Stopped
  /\ RefsUsed /\ OwnRefs /\ ConnsUsed /\ QueuedUnsent /\ LeavesOwned /\ EndsKnown
  /\ MembersCurrent

LEMMA RefFacts ==
  ASSUME IInv
  PROVE  /\ refs \in Nat /\ gen \in Nat /\ conn \in Nat
         /\ \A h \in Handles : /\ ch[h] \in SoundChannel /\ ch[h].joinRef \in Nat
                               /\ ch[h].conn \in Nat /\ TopicOf[h] \in Topics
         /\ \A o \in ops : /\ o.ref \in Nat /\ o.h \in Handles
                           /\ o = [h |-> o.h, kind |-> o.kind, ref |-> o.ref, st |-> o.st]
         /\ \A t \in Topics : member[t] \in Nat
         /\ \A t \in Topics : \A f \in Frames(t) : f \in Frame /\ f.joinRef \in Nat
<1>1. /\ refs \in Nat /\ gen \in Nat /\ conn \in Nat
      /\ \A t \in Topics : member[t] \in Nat
  BY BoundsAssumption DEF IInv, OthersOK, Refs, Conns
<1>2. \A h \in Handles : /\ ch[h] \in SoundChannel /\ ch[h].joinRef \in Nat
                         /\ ch[h].conn \in Nat /\ TopicOf[h] \in Topics
  BY BoundsAssumption, TopicRuntimeAssumption
  DEF IInv, SoundChannels, SoundChannel, Channel, Refs, Conns
<1>3. ops \subseteq Op
  BY DEF IInv, OthersOK
<1>4. \A o \in Op : /\ o.ref \in Nat /\ o.h \in Handles
                    /\ o = [h |-> o.h, kind |-> o.kind, ref |-> o.ref, st |-> o.st]
  BY BoundsAssumption DEF Op, Refs
<1>5. ASSUME NEW t \in Topics, NEW f \in Frames(t)
      PROVE  f \in Frame /\ f.joinRef \in Nat
  <2>1. f \in Frame
    <3>1. net[t] \in Seq(Frame)
      BY DEF IInv, OthersOK
    <3> QED
      BY <3>1, LenProperties DEF Frames
  <2> QED
    BY <2>1, BoundsAssumption DEF Frame, Refs
<1> QED
  BY <1>1, <1>2, <1>3, <1>4, <1>5

\* The join that the server answers was unknown to it, and is its handle's own.
LEMMA AnsweredJoin ==
  ASSUME ServerInv, NEW o \in ops, Answer(o), o.kind = "join"
  PROVE  /\ o.h \in Handles /\ IsRegistered(o.h) /\ ch[o.h].conn = conn
         /\ o.ref = ch[o.h].joinRef /\ ch[o.h].out = "pending" /\ Unsent(o) /\ o.st = "queued"
<1>1. IInv /\ QueuedUnsent
  BY DEF ServerInv, PInv
<1>2. o.h \in Handles
  BY <1>1, RefFacts
<1>3. /\ o.st = "queued" /\ ~OutcomeDone(ch[o.h], o) /\ Eligible(o)
  BY DEF Answer
<1>4. o.ref = ch[o.h].joinRef /\ IsRegistered(o.h) /\ ch[o.h].conn = conn
  BY <1>3 DEF Eligible
<1>5. ch[o.h].out = "pending"
  BY <1>3 DEF OutcomeDone
<1> QED
  BY <1>1, <1>2, <1>3, <1>4, <1>5 DEF QueuedUnsent

\* So is the leave; its join is another.
LEMMA AnsweredLeave ==
  ASSUME ServerInv, NEW o \in ops, Answer(o), o.kind = "leave"
  PROVE  /\ o.h \in Handles /\ IsRegistered(o.h) /\ ch[o.h].state = "left"
         /\ ch[o.h].submitted /\ ch[o.h].joinRef # 0 /\ o.ref # ch[o.h].joinRef
<1>1. IInv /\ LeavesOwned /\ Tidy /\ RefsUsed
  BY DEF ServerInv, PInv
<1>2. o.h \in Handles
  BY <1>1, RefFacts
<1>3. IsRegistered(o.h)
  BY DEF Answer, Eligible
<1> QED
  BY <1>1, <1>2, <1>3 DEF LeavesOwned, Tidy, RefsUsed

\* A new frame is about the join its handle has made, whose ref is its own.
LEMMA NewFrame ==
  ASSUME ServerInv, NEW t \in Topics, NEW f, AnswersSend(t, f) \/ TellsEnd(t, f)
  PROVE  /\ f.joinRef # 0 /\ f.joinRef <= refs
         /\ f.event # "reply" => f.ref = f.joinRef /\ f.joinRef = member[t]
         /\ f.event # "reply" \/ (f.status = "error" /\ f.ref = f.joinRef) => member'[t] = 0
<1>1. IInv /\ RefsUsed
  BY DEF ServerInv, PInv
<1>2. CASE TellsEnd(t, f)
  BY <1>1, <1>2 DEF TellsEnd, Ending, RefsUsed
<1>3. CASE AnswersSend(t, f)
  <2>1. PICK o \in ops, status \in {"ok", "error", "malformed"} :
          /\ Answer(o) /\ TopicOf[o.h] = t /\ f = Reply(ch[o.h], o.ref, status)
          /\ \/ o.kind = "join" /\ (status = "error" => member'[t] = 0)
             \/ o.kind = "leave" /\ status = "ok"
    BY <1>3 DEF AnswersSend
  <2>2. /\ f.event = "reply" /\ f.joinRef = ch[o.h].joinRef /\ f.ref = o.ref
        /\ f.status = status
    BY <2>1 DEF Reply
  <2>3. o.h \in Handles /\ ch[o.h].joinRef # 0
    BY <2>1, AnsweredJoin, AnsweredLeave DEF Unsent
  <2> QED
    BY <1>1, <2>1, <2>2, <2>3 DEF RefsUsed
<1> QED
  BY <1>2, <1>3

\* The counter is ahead of every ref.
LEMMA RefsUsedStays ==
  ASSUME ServerInv, [Next]_vars
  PROVE  RefsUsed'
<1>1. IInv /\ Session /\ Tidy /\ RefsUsed
  BY DEF ServerInv, PInv
<1>2. refs \in Nat /\ refs' \in Nat /\ refs <= refs' /\ refs + 1 # 0
  BY <1>1, RefsMove, RefFacts
<1>3. ASSUME NEW h \in Handles
      PROVE  ch'[h].joinRef <= refs' /\ (ch'[h].submitted => ch'[h].joinRef # 0)
  <2>1. ch[h].joinRef \in Nat
    BY <1>1, RefFacts
  <2>2. CASE BeginsAt(h)
    BY <1>2, <2>2 DEF BeginsAt, Begins
  <2>3. CASE ch'[h].joinRef = ch[h].joinRef /\ (ch'[h].submitted = ch[h].submitted)
    BY <1>1, <1>2, <2>1, <2>3 DEF RefsUsed
  <2>4. CASE ch'[h].joinRef = ch[h].joinRef /\ WrittenAt(h)
    <3>1. ch[h].joinRef # 0
      BY <2>4 DEF WrittenAt, ServerInv, QueuedUnsent, Unsent
    <3> QED
      BY <1>1, <1>2, <2>1, <2>4, <3>1 DEF RefsUsed
  <2> QED
    BY <1>1, <2>2, <2>3, <2>4, AttemptKept DEF Calm
<1>4. ASSUME NEW o \in ops'
      PROVE  o.ref <= refs'
  <2>1. CASE OldSends
    BY <1>1, <1>2, <2>1, RefFacts DEF OldSends, RefsUsed
  <2>2. ASSUME NEW g, NEW kind, ops' = Queue(g, kind, refs + 1), refs' = refs + 1
        PROVE  o.ref <= refs'
    BY <1>1, <1>2, <2>2, RefFacts DEF Queue, RefsUsed
  <2> QED
    BY <1>1, <2>1, <2>2, SendsMove DEF BeginsAt
<1>5. ASSUME NEW t \in Topics
      PROVE  member'[t] <= refs'
  <2>1. member[t] <= refs' /\ \A o \in ops : o.ref <= refs'
    BY <1>1, <1>2, RefFacts DEF RefsUsed
  <2>2. 0 <= refs'
    BY <1>2
  <2> QED
    BY <1>1, <2>1, <2>2, MembersMove
<1>6. ASSUME NEW t \in Topics, NEW f \in Frames(t)'
      PROVE  f.joinRef # 0 /\ f.joinRef <= refs'
  <2>1. f.joinRef # 0 /\ f.joinRef <= refs /\ f.joinRef \in Nat
    <3>1. CASE f \in Frames(t)
      BY <1>1, <3>1, RefFacts DEF RefsUsed
    <3>2. CASE AnswersSend(t, f) \/ TellsEnd(t, f)
      <4>1. f \in Frame
        <5>1. net'[t] \in Seq(Frame)
          BY <1>1, NextIInv DEF IInv, OthersOK
        <5> QED
          BY <5>1, LenProperties DEF Frames
      <4>2. f.joinRef \in Nat
        BY <4>1, BoundsAssumption DEF Frame, Refs
      <4> QED
        BY <3>2, <4>2, NewFrame
    <3> QED
      BY <1>1, <3>1, <3>2, FramesMove
  <2> QED
    BY <1>2, <2>1
<1> QED
  BY <1>3, <1>4, <1>5, <1>6 DEF RefsUsed

\* A fresh ref is nobody else's.
LEMMA OwnRefsStay ==
  ASSUME ServerInv, [Next]_vars
  PROVE  OwnRefs'
<1>1. IInv /\ Session /\ Tidy /\ RefsUsed /\ OwnRefs
  BY DEF ServerInv, PInv
<1>2. refs \in Nat /\ \A h \in Handles : ch[h].joinRef \in Nat
  BY <1>1, RefFacts
<1>3. ASSUME NEW h \in Handles
      PROVE  \/ ch'[h].joinRef = ch[h].joinRef
             \/ ch'[h].joinRef = refs + 1 /\ \A g \in Handles : g # h => ch'[g] = ch[g]
  BY <1>1, AttemptKept DEF BeginsAt, Begins
<1>4. \A h \in Handles : ch[h].joinRef # refs + 1
  <2>1. \A h \in Handles : ch[h].joinRef <= refs
    BY <1>1 DEF RefsUsed
  <2> QED
    BY <1>2, <2>1
<1> QED
  BY <1>1, <1>3, <1>4 DEF OwnRefs

\* An attempt begins on a connection there is.
LEMMA ConnsUsedStays ==
  ASSUME ServerInv, [Next]_vars
  PROVE  ConnsUsed'
<1>1. IInv /\ Session /\ Tidy /\ Stopped /\ ConnsUsed
  BY DEF ServerInv, PInv
<1>2. gen \in Nat /\ gen' \in Nat /\ gen <= gen'
  BY <1>1, RefFacts, ConnectionMoves DEF SameConnection, NewConnection
<1>3. ASSUME NEW h \in Handles
      PROVE  ch'[h].conn <= gen'
  <2>1. CASE BeginsAt(h)
    <3>1. ~stop
      BY <1>1, <2>1 DEF BeginsAt, Stopped, IsConnected, ShouldRejoin
    <3>2. conn <= gen
      BY <1>1, <1>2, <3>1, ConnectionIsCurrent
    <3> QED
      BY <2>1, <3>2 DEF BeginsAt, Begins
  <2>2. CASE ch'[h].conn = ch[h].conn
    BY <1>1, <1>2, <2>2, RefFacts DEF ConnsUsed
  <2> QED
    BY <1>1, <2>1, <2>2, AttemptKept
<1> QED
  BY <1>3 DEF ConnsUsed

\* A leave belongs to the join it leaves.
LEMMA LeavesOwnedStays ==
  ASSUME ServerInv, [Next]_vars
  PROVE  LeavesOwned'
<1>1. IInv /\ Session /\ Tidy /\ RefsUsed /\ LeavesOwned
  BY DEF ServerInv, PInv
<1>2. ASSUME NEW o \in ops, o.kind = "leave"
      PROVE  ch'[o.h].submitted /\ ch'[o.h].leave # "none" /\ o.ref # ch'[o.h].joinRef
  <2>1. /\ ch[o.h].submitted /\ ch[o.h].leave # "none" /\ o.ref # ch[o.h].joinRef
        /\ o.h \in Handles /\ ch[o.h].state = "left"
    BY <1>1, <1>2, RefFacts DEF LeavesOwned, Tidy
  <2>2. ~BeginsAt(o.h)
    BY <2>1 DEF BeginsAt
  <2> QED
    BY <1>1, <2>1, <2>2, AttemptKept
<1>3. CASE OldSends
  BY <1>2, <1>3 DEF OldSends, LeavesOwned
<1>4. ASSUME NEW g \in Handles, ops' = Queue(g, "join", refs + 1)
      PROVE  LeavesOwned'
  <2>1. \A o \in ops' : o \in ops \/ o.kind = "join"
    BY <1>4 DEF Queue
  <2> QED
    BY <1>2, <2>1 DEF LeavesOwned
<1>5. ASSUME NEW g \in Handles, LeaveStarts(g), refs' = refs + 1,
             ops' = Queue(g, "leave", refs + 1)
      PROVE  LeavesOwned'
  <2>1. ch[g].submitted /\ ch'[g].submitted /\ ch'[g].leave # "none"
        /\ ch'[g].joinRef = ch[g].joinRef
    <3>1. /\ refs \in Nat /\ ch \in [Handles -> SoundChannel]
      BY <1>1, RefFacts DEF IInv, SoundChannels
    <3>2. /\ ch[g].submitted
          /\ ch' = [ch EXCEPT ![g] = [ch[g] EXCEPT !.leave = "sending", !.leaveRef = refs + 1]]
      BY <1>5, <3>1 DEF LeaveStarts
    <3> QED
      BY <3>1, <3>2 DEF SoundChannel, Channel
  <2>2. ch[g].joinRef # refs + 1
    BY <1>1, RefFacts DEF RefsUsed
  <2>3. \A o \in ops' : o \in ops \/ (o.h = g /\ o.ref = refs + 1)
    BY <1>5 DEF Queue
  <2> QED
    BY <1>2, <2>1, <2>2, <2>3 DEF LeavesOwned
<1> QED
  BY <1>1, <1>3, <1>4, <1>5, SendsMove

\* An end is told once.
LEMMA EndsKnownStays ==
  ASSUME ServerInv, [Next]_vars
  PROVE  EndsKnown'
<1>1. IInv /\ RefsUsed /\ EndsKnown
  BY DEF ServerInv, PInv
<1>2. ASSUME NEW t \in Topics, NEW f \in Frames(t)'
      PROVE  /\ f.event # "reply" => f.ref = f.joinRef
             /\ f.event # "reply" \/ (f.status = "error" /\ f.ref = f.joinRef)
                  => member'[t] # f.joinRef
  <2>1. CASE AnswersSend(t, f) \/ TellsEnd(t, f)
    <3>1. f.joinRef # 0
      BY <2>1, NewFrame
    <3> QED
      BY <2>1, <3>1, NewFrame
  <2>2. CASE f \in Frames(t)
    <3>1. f.joinRef # 0
      BY <1>1, <2>2 DEF RefsUsed
    <3>2. ASSUME NEW o \in ops, Answer(o), o.kind = "join", TopicOf[o.h] = t
          PROVE  o.ref # f.joinRef
      BY <2>2, <3>2, AnsweredJoin DEF Unsent
    <3> QED
      BY <1>1, <2>2, <3>1, <3>2, MembersMove DEF EndsKnown
  <2> QED
    BY <1>1, <2>1, <2>2, FramesMove
<1> QED
  BY <1>2 DEF EndsKnown

\* A send task that has taken its first step is not queued any more.
LEMMA SubmitTakes ==
  ASSUME IInv, NEW o \in ops, Submit(o)
  PROVE  o \notin ops'
<1>1. o.st = "queued" /\ [o EXCEPT !.st = "writing"] # o
  BY DEF Submit, IInv, OthersOK, Op
<1> QED
  BY <1>1 DEF Submit

\* Two queued sends of one attempt are one.
LEMMA OneQueuedJoin ==
  ASSUME IInv, NEW o \in ops, NEW q \in ops, o.h = q.h, o.kind = q.kind, o.ref = q.ref,
         o.st = q.st
  PROVE  o = q
  BY RefFacts

\* The routed frame is one of its topic's.
LEMMA RoutedFrame ==
  ASSUME IInv, NEW h \in Handles, RoutedTo(h)
  PROVE  LET s == net[TopicOf[h]]
         IN  s \in Seq(Frame) /\ 1 \in DOMAIN s /\ Head(s) = s[1]
             /\ Head(s) \in Frames(TopicOf[h])
<1> DEFINE s == net[TopicOf[h]]
<1>1. s # <<>> /\ s \in Seq(Frame)
  BY RefFacts DEF RoutedTo, IInv, OthersOK
<1>2. Len(s) \in Nat \ {0} /\ Head(s) = s[1]
  BY <1>1, EmptySeq
<1>3. 1 \in DOMAIN s
  BY <1>1, <1>2, LenProperties
<1> QED
  BY <1>1, <1>2, <1>3 DEF Frames

\* A join stays unknown to the server until its frame is written.
LEMMA QueuedUnsentStays ==
  ASSUME ServerInv, [Next]_vars
  PROVE  QueuedUnsent'
<1>1. /\ IInv /\ Session /\ Tidy /\ RefsUsed /\ OwnRefs /\ ConnsUsed /\ QueuedUnsent
      /\ LeavesOwned
  BY DEF ServerInv, PInv
<1>2. refs \in Nat /\ gen \in Nat
  BY <1>1, RefFacts
<1>3. ASSUME NEW o \in ops, o \in ops', o.kind = "join", o.st = "queued",
             o.ref = ch'[o.h].joinRef
      PROVE  Unsent(o)'
  <2> DEFINE h == o.h
             t == TopicOf[h]
  <2>1. h \in Handles /\ t \in Topics /\ o.ref \in Nat /\ ch[h].conn \in Nat
    BY <1>1, RefFacts
  <2>2. ~BeginsAt(h)
    BY <1>1, <1>2, <1>3 DEF BeginsAt, Begins, RefsUsed
  <2>3. ch'[h].joinRef = ch[h].joinRef /\ ch'[h].conn = ch[h].conn /\ o.ref = ch[h].joinRef
    BY <1>1, <1>3, <2>1, <2>2, AttemptKept
  <2>4. Unsent(o)
    BY <1>1, <1>3, <2>3 DEF QueuedUnsent
  <2>5. ~WrittenAt(h)
    <3>1. ASSUME NEW q \in ops, q.h = h, q.kind = "join", q.st = "queued",
                 q.ref = ch[h].joinRef, Submit(q)
          PROVE  FALSE
      BY <1>1, <1>3, <2>3, <3>1, OneQueuedJoin, SubmitTakes
    <3> QED
      BY <3>1 DEF WrittenAt
  <2>6. ~RoutedTo(h)
    BY <1>1, <2>1, <2>3, <2>4, RoutedFrame DEF RoutedTo, Unsent
  <2>7. Calm(ch[h], ch'[h])
    BY <1>1, <2>1, <2>2, <2>5, <2>6, AttemptKept DEF EndsAt, AcceptsAt
  <2>8. ~ch'[h].submitted
    BY <2>4, <2>7 DEF Unsent, Calm
  <2>9. ASSUME NEW q \in ops, Answer(q), TopicOf[q.h] = t
        PROVE  ch[q.h].joinRef # o.ref
    <3>1. ch[q.h].joinRef = o.ref => q.h = h
      BY <1>1, <1>3, <2>1, <2>3, <2>4, RefFacts DEF OwnRefs, Unsent
    <3>2. CASE q.kind = "join"
      <4>1. q.ref = ch[q.h].joinRef /\ q.st = "queued" /\ q \notin ops'
        BY <2>9, <3>2, AnsweredJoin DEF Answer
      <4> QED
        BY <1>1, <1>3, <3>1, <3>2, <4>1, OneQueuedJoin
    <3>3. CASE q.kind = "leave"
      BY <2>4, <2>9, <3>1, <3>3, AnsweredLeave DEF Unsent
    <3> QED
      BY <1>1, <3>2, <3>3 DEF IInv, OthersOK, Op
  <2>10. member'[t] # o.ref
    <3>1. ASSUME NEW q \in ops, Answer(q), q.kind = "join", TopicOf[q.h] = t
          PROVE  q.ref # o.ref
      BY <2>9, <3>1, AnsweredJoin
    <3> QED
      BY <1>1, <2>1, <2>4, <3>1, MembersMove DEF Unsent
  <2>11. ASSUME NEW f \in Frames(t)'
         PROVE  f.joinRef # o.ref
    <3>1. AnswersSend(t, f) => f.joinRef # o.ref
      BY <2>9 DEF AnswersSend, Reply
    <3>2. TellsEnd(t, f) => f.joinRef # o.ref
      BY <2>4 DEF TellsEnd, Ending, Unsent
    <3> QED
      BY <1>1, <2>1, <2>4, <3>1, <3>2, FramesMove DEF Unsent
  <2>12. conn' # 0 /\ ch'[h].conn = conn' => ~ch'[h].terminal
    <3>1. CASE conn' = conn
      BY <2>3, <2>4, <2>7, <3>1 DEF Calm, Unsent
    <3>2. CASE conn' = gen + 1
      <4>1. ch[h].conn <= gen
        BY <1>1, <2>1 DEF ConnsUsed
      <4>2. ch[h].conn # gen + 1
        BY <1>2, <2>1, <4>1
      <4> QED
        BY <2>3, <3>2, <4>2
    <3> QED
      BY <1>1, <3>1, <3>2, ConnectionMoves DEF SameConnection, NewConnection
  <2> QED
    BY <2>4, <2>8, <2>10, <2>11, <2>12 DEF Unsent
<1>4. ASSUME NEW g \in Handles, BeginsAt(g), ops' = Queue(g, "join", refs + 1),
             NEW o \in ops', o \notin ops
      PROVE  Unsent(o)'
  <2>1. o.h = g /\ o.ref = refs + 1
    BY <1>4 DEF Queue
  <2>2. /\ ~ch'[g].submitted /\ ~ch'[g].terminal /\ net' = net /\ member' = member
        /\ TopicOf[g] \in Topics
    BY <1>1, <1>4, RefFacts DEF BeginsAt
  <2>3. /\ member[TopicOf[g]] <= refs /\ member[TopicOf[g]] \in Nat
        /\ \A f \in Frames(TopicOf[g]) : f.joinRef <= refs /\ f.joinRef \in Nat
    BY <1>1, <2>2, RefFacts DEF RefsUsed
  <2>4. Frames(TopicOf[g])' = Frames(TopicOf[g])
    BY <2>2 DEF Frames
  <2>5. /\ refs + 1 # 0 /\ member[TopicOf[g]] # refs + 1
        /\ \A f \in Frames(TopicOf[g]) : f.joinRef # refs + 1
    BY <1>2, <2>3
  <2> QED
    BY <2>1, <2>2, <2>4, <2>5 DEF Unsent
<1>5. ASSUME NEW o \in ops', o.kind = "join", o.st = "queued", o.ref = ch'[o.h].joinRef
      PROVE  Unsent(o)'
  <2>1. CASE o \in ops
    BY <1>3, <1>5, <2>1
  <2>2. CASE o \notin ops
    <3>1. ~OldSends
      BY <1>5, <2>2 DEF OldSends
    <3>2. ASSUME NEW g, ops' = Queue(g, "leave", refs + 1)
          PROVE  FALSE
      BY <1>5, <2>2, <3>2 DEF Queue
    <3> QED
      BY <1>1, <1>4, <2>2, <3>1, <3>2, SendsMove
  <2> QED
    BY <2>1, <2>2
<1> QED
  BY <1>5 DEF QueuedUnsent

\* The server's membership is that of a join on this connection.
LEMMA MembersCurrentStays ==
  ASSUME ServerInv, [Next]_vars
  PROVE  MembersCurrent'
<1>1. /\ IInv /\ Session /\ Tidy /\ RefsUsed /\ OwnRefs /\ QueuedUnsent /\ EndsKnown
      /\ MembersCurrent
  BY DEF ServerInv, PInv
<1>2. RefsUsed'
  BY RefsUsedStays
<1>3. ASSUME NEW h \in Handles, conn' # 0, ch'[h].submitted,
             member'[TopicOf[h]] = ch'[h].joinRef
      PROVE  ch'[h].conn = conn' /\ ~ch'[h].terminal
  <2> DEFINE t == TopicOf[h]
  <2>1. t \in Topics /\ ch[h] \in SoundChannel /\ ch'[h].joinRef # 0
    BY <1>1, <1>2, <1>3, RefFacts DEF RefsUsed
  <2>2. ~BeginsAt(h)
    BY <1>3 DEF BeginsAt
  <2>3. ch'[h].joinRef = ch[h].joinRef /\ ch'[h].conn = ch[h].conn
    BY <1>1, <2>2, AttemptKept
  <2>4. CASE WrittenAt(h)
    <3>1. PICK o \in ops :
            /\ o.h = h /\ o.kind = "join" /\ o.st = "queued" /\ o.ref = ch[h].joinRef
            /\ Submit(o) /\ Eligible(o) /\ Calm([ch[h] EXCEPT !.submitted = TRUE], ch'[h])
      BY <2>4 DEF WrittenAt
    <3>2. conn' = conn /\ conn # 0 /\ ch[h].conn = conn /\ ~ch[h].terminal
      BY <1>1, <3>1 DEF Submit, Eligible, QueuedUnsent, Unsent
    <3> DEFINE c == [ch[h] EXCEPT !.submitted = TRUE]
    <3>3. c.terminal = ch[h].terminal /\ c.conn = ch[h].conn /\ Calm(c, ch'[h])
      BY <2>1, <3>1 DEF SoundChannel, Channel
    <3> HIDE DEF c
    <3> QED
      BY <2>3, <3>2, <3>3 DEF Calm
  <2>5. CASE ch'[h].submitted = ch[h].submitted /\ ~WrittenAt(h)
    <3>1. ASSUME NEW o \in ops, Answer(o), o.kind = "join", member'[t] = o.ref
          PROVE  FALSE
      <4>1. o.h = h /\ Unsent(o)
        BY <1>1, <1>3, <2>1, <2>3, <3>1, AnsweredJoin DEF OwnRefs
      <4> QED
        BY <1>3, <2>5, <4>1 DEF Unsent
    <3>2. member[t] = ch[h].joinRef /\ ch[h].joinRef # 0 /\ member'[t] = member[t]
      BY <1>1, <1>3, <2>1, <2>3, <3>1, MembersMove
    <3>3. conn' = conn
      BY <1>1, <1>3, <2>1, <3>2, ConnectionMoves DEF SameConnection, NewConnection
    <3>4. ch[h].conn = conn /\ ~ch[h].terminal
      BY <1>1, <1>3, <2>5, <3>2, <3>3 DEF MembersCurrent
    <3>5. ~EndsAt(h)
      BY <1>1, <2>1, <3>2, RoutedFrame DEF EndsAt, RoutedTo, Ends, EndsKnown
    <3>6. CASE Calm(ch[h], ch'[h])
      BY <2>3, <3>3, <3>4, <3>6, <1>3 DEF Calm
    <3>7. CASE ch'[h].terminal = ch[h].terminal
      BY <2>3, <3>3, <3>4, <3>7
    <3> QED
      BY <1>1, <2>2, <2>5, <3>5, <3>6, <3>7, AttemptKept
  <2> QED
    BY <1>1, <2>2, <2>4, <2>5, AttemptKept DEF Calm
<1> QED
  BY <1>3 DEF MembersCurrent

\* At first there is nothing to know.
LEMMA InitServer == Init => ServerInv
<1> SUFFICES ASSUME Init
             PROVE  ServerInv
  OBVIOUS
<1>1. IInv /\ Tidy
  BY InitIInv, InitTidy
<1>2. Phases /\ Session
  BY DEF Init, Phases, Session, Active
<1>3. /\ \A h \in Handles : ch[h] = NewChannel /\ TopicOf[h] \in Topics
      /\ \A t \in Topics : net[t] = <<>> /\ member[t] = 0
      /\ ops = {} /\ refs = 0 /\ gen = 0 /\ conn = 0 /\ stop = FALSE
  BY TopicRuntimeAssumption DEF Init
<1>4. \A t \in Topics : Frames(t) = {}
  BY <1>3 DEF Frames
<1>5. /\ NewChannel.joinRef = 0 /\ NewChannel.conn = 0 /\ ~NewChannel.submitted
  BY DEF NewChannel
<1>6. RefsUsed /\ OwnRefs /\ ConnsUsed
  BY <1>3, <1>4, <1>5 DEF RefsUsed, OwnRefs, ConnsUsed
<1>7. Stopped /\ QueuedUnsent /\ LeavesOwned /\ EndsKnown /\ MembersCurrent
  BY <1>3, <1>4 DEF Stopped, QueuedUnsent, LeavesOwned, EndsKnown, MembersCurrent
<1> QED
  BY <1>1, <1>2, <1>6, <1>7 DEF ServerInv, PInv

LEMMA ServerStays == ServerInv /\ [Next]_vars => ServerInv'
<1> SUFFICES ASSUME ServerInv, [Next]_vars
             PROVE  ServerInv'
  OBVIOUS
<1>1. PInv /\ IInv /\ Session /\ Tidy /\ Stopped
  BY DEF ServerInv, PInv
<1>2. PInv' /\ Session' /\ Tidy' /\ Stopped'
  BY <1>1, NextIInv, PhaseStep, SessionShape, TidyStays, StopStays DEF PInv
<1>3. /\ RefsUsed' /\ OwnRefs' /\ ConnsUsed' /\ QueuedUnsent' /\ LeavesOwned' /\ EndsKnown'
      /\ MembersCurrent'
  BY RefsUsedStays, OwnRefsStay, ConnsUsedStays, QueuedUnsentStays, LeavesOwnedStays,
     EndsKnownStays, MembersCurrentStays
<1> QED
  BY <1>2, <1>3 DEF ServerInv

LEMMA ServerInvariant == Spec => []ServerInv
  BY InitServer, ServerStays, PTL DEF Spec

\* A name is given up only when its membership is known to have ended, and no
\* membership that is known to have ended is the server's.
LEMMA ReservationStays ==
  ASSUME ServerInv, ReservationCoversMembership, [Next]_vars
  PROVE  ReservationCoversMembership'
<1>1. /\ IInv /\ Session /\ Tidy /\ OwnRefs /\ QueuedUnsent /\ RefsUsed' /\ MembersCurrent'
  BY RefsUsedStays, MembersCurrentStays DEF ServerInv, PInv
<1>2. ASSUME NEW h \in Handles, conn' # 0, ch'[h].submitted,
             member'[TopicOf[h]] = ch'[h].joinRef
      PROVE  registry'[TopicOf[h]] = h
  <2> DEFINE t == TopicOf[h]
  <2>1. t \in Topics /\ ch'[h].joinRef # 0 /\ ~BeginsAt(h)
    BY <1>1, <1>2, RefFacts DEF RefsUsed, BeginsAt
  <2>2. ch'[h].joinRef = ch[h].joinRef
    BY <1>1, <2>1, AttemptKept
  <2>3. IsRegistered(h)
    <3>1. CASE WrittenAt(h)
      BY <3>1 DEF WrittenAt, Eligible
    <3>2. CASE EndsAt(h) \/ AcceptsAt(h)
      BY <3>2 DEF EndsAt, AcceptsAt, RoutedTo
    <3>3. CASE Calm(ch[h], ch'[h])
      <4>1. ASSUME NEW o \in ops, Answer(o), o.kind = "join", member'[t] = o.ref
            PROVE  IsRegistered(h)
        BY <1>1, <1>2, <2>1, <2>2, <4>1, AnsweredJoin DEF OwnRefs
      <4>2. CASE member'[t] = member[t]
        <5>1. conn # 0
          BY <1>1, <1>2, <2>1, <4>2, ConnectionMoves DEF SameConnection, NewConnection
        <5> QED
          BY <1>2, <2>2, <3>3, <4>2, <5>1 DEF Calm, ReservationCoversMembership
      <4> QED
        BY <1>1, <1>2, <2>1, <4>1, <4>2, MembersMove
    <3> QED
      BY <1>1, <2>1, <3>1, <3>2, <3>3, AttemptKept
  <2>4. ~ch'[h].terminal
    BY <1>1, <1>2 DEF MembersCurrent
  <2> QED
    BY <1>1, <1>2, <2>3, <2>4, NamesStep
<1> QED
  BY <1>2 DEF ReservationCoversMembership, IsRegistered

\* ReservationCoversMembership, for every set of handles and topics and every bound:
\* while the server holds the membership of a handle's current submitted join on the
\* open connection, _release_reservation keeps the name.  It says nothing of an earlier
\* join that a restart forgot.
THEOREM ReservationIsKept == Spec => []ReservationCoversMembership
<1>1. Init => ReservationCoversMembership
  BY DEF Init, ReservationCoversMembership
<1>2. ServerInv /\ ReservationCoversMembership /\ UNCHANGED vars
        => ReservationCoversMembership'
  BY ReservationStays
<1> QED
  BY <1>1, ReservationStays, ServerInvariant, PTL DEF Spec

-----------------------------------------------------------------------------
(* What the client tells of a join *)

\* After the i-th frame of s, which is still to be routed, either the membership of
\* this join stands or its end is to come.
HeldAfter(s, holder, ref, i) ==
  holder = ref \/ \E j \in DOMAIN s : j > i /\ s[j].joinRef = ref /\ s[j].event # "reply"

\* An appended frame changes nothing, unless it tells the end that has come.
LEMMA HeldAppend ==
  ASSUME NEW s \in Seq(Frame), NEW x \in Frame, NEW m, NEW n, NEW ref, NEW i \in 0 .. Len(s),
         HeldAfter(s, m, ref, i), n = m \/ (x.event # "reply" /\ x.joinRef = m)
  PROVE  HeldAfter(Append(s, x), n, ref, i)
<1>1. /\ Len(s) \in Nat /\ DOMAIN s = 1 .. Len(s) /\ DOMAIN Append(s, x) = 1 .. Len(s) + 1
      /\ \A j \in 1 .. Len(s) : Append(s, x)[j] = s[j]
      /\ Append(s, x)[Len(s) + 1] = x
  BY LenProperties, AppendProperties
<1>2. CASE m = ref
  <2>1. CASE n = m
    BY <1>2, <2>1 DEF HeldAfter
  <2>2. CASE x.event # "reply" /\ x.joinRef = m
    <3>1. Len(s) + 1 \in DOMAIN Append(s, x) /\ Len(s) + 1 > i
      BY <1>1
    <3> QED
      BY <1>1, <1>2, <2>2, <3>1 DEF HeldAfter
  <2> QED
    BY <2>1, <2>2
<1>3. ASSUME NEW j \in DOMAIN s, j > i, s[j].joinRef = ref, s[j].event # "reply"
      PROVE  HeldAfter(Append(s, x), n, ref, i)
  <2>1. j \in DOMAIN Append(s, x) /\ Append(s, x)[j] = s[j]
    BY <1>1
  <2> QED
    BY <1>3, <2>1 DEF HeldAfter
<1> QED
  BY <1>2, <1>3 DEF HeldAfter

\* A frame that is routed moves the others up.
LEMMA HeldTail ==
  ASSUME NEW s \in Seq(Frame), s # <<>>, NEW m, NEW ref, NEW i \in Nat,
         HeldAfter(s, m, ref, i + 1)
  PROVE  HeldAfter(Tail(s), m, ref, i)
<1>1. /\ Len(s) \in Nat /\ DOMAIN s = 1 .. Len(s) /\ DOMAIN Tail(s) = 1 .. Len(s) - 1
      /\ \A j \in 1 .. Len(s) - 1 : Tail(s)[j] = s[j + 1]
  <2>1. Len(s) \in Nat /\ DOMAIN s = 1 .. Len(s)
    BY LenProperties
  <2>2. Tail(s) \in Seq(Frame) /\ Len(Tail(s)) = Len(s) - 1
        /\ \A j \in 1 .. Len(Tail(s)) : Tail(s)[j] = s[j + 1]
    BY HeadTailProperties
  <2> QED
    BY <2>1, <2>2, LenProperties
<1>2. ASSUME NEW j \in DOMAIN s, j > i + 1, s[j].joinRef = ref, s[j].event # "reply"
      PROVE  HeldAfter(Tail(s), m, ref, i)
  <2> DEFINE k == j - 1
  <2>1. k \in 1 .. Len(s) - 1 /\ k > i /\ k + 1 = j
    BY <1>1, <1>2
  <2>2. Tail(s)[k] = s[j] /\ k \in DOMAIN Tail(s)
    BY <1>1, <2>1
  <2> QED
    BY <1>2, <2>1, <2>2 DEF HeldAfter
<1> QED
  BY <1>2 DEF HeldAfter

\* The event that ends a join leaves it not joined.
LEMMA EndedNotJoined ==
  ASSUME IInv, NEW h \in Handles, NEW c \in SoundChannel, NEW event
  PROVE  LifecycleEvent(c, h, event).state # "joined"
<1> DEFINE ended == [c EXCEPT !.terminal = TRUE]
           failed == Failed(ended, IF event = "error" THEN "crash" ELSE "close",
                            "channel", stop)
<1>1. ended \in SoundChannel /\ ended.state = c.state
  BY TerminalKeeps DEF SoundChannel, Channel
<1>2. stop \in BOOLEAN /\ {"crash", "close"} \subseteq ChannelCauses /\ "channel" \in JoinOutcomes
  BY DEF IInv, OthersOK, ChannelCauses, JoinOutcomes
<1>3. failed \in SoundChannel /\ failed.state # "joined"
  <2>1. \A cause : StateAfter(ended, cause, stop) # "joined"
    BY DEF StateAfter
  <2> HIDE DEF ended
  <2> QED
    BY <1>1, <1>2, <2>1, FailedKeeps, FailedFields
<1>4. LifecycleEvent(c, h, event) =
        IF c.state = "left" THEN ended
        ELSE IF ~c.established THEN failed
        ELSE IF event = "error" THEN StartRecovery(failed, h, FALSE)
        ELSE StartTopicLoss(failed, stop)
  BY DEF LifecycleEvent
<1> HIDE DEF ended, failed
<1>5. StartRecovery(failed, h, FALSE).state # "joined"
  BY <1>3, StartRecoveryCalm DEF Calm
<1>6. StartTopicLoss(failed, stop).state # "joined"
  BY <1>2, <1>3, StartTopicLossFields
<1> QED
  BY <1>1, <1>3, <1>4, <1>5, <1>6

\* The client has the connection of the channel's attempt, and it is open.
InForce(h) ==
  IsRegistered(h) /\ IsConnected /\ ch[h].conn = conn /\ socket = "open"

\* The reply that accepts this join.
Accepting(f, ref) ==
  /\ f.event = "reply" /\ f.ref = ref /\ f.joinRef = ref
  /\ f.status \notin {"malformed", "error"}

\* While the attempt is in force, the membership stands or its end is to come after
\* the reply that accepts it, and after it was accepted.
Told(h) ==
  LET s == net[TopicOf[h]]
      holder == member[TopicOf[h]]
      ref == ch[h].joinRef
  IN  InForce(h) =>
        /\ \A i \in DOMAIN s : Accepting(s[i], ref) => HeldAfter(s, holder, ref, i)
        /\ ch[h].state = "joined" /\ JoinReady(ch[h]) => HeldAfter(s, holder, ref, 0)

AllTold == \A h \in Handles : Told(h)

\* An attempt that is in force after the step was so before, or has just begun.
LEMMA InForceBefore ==
  ASSUME ServerInv, [Next]_vars, NEW h \in Handles, InForce(h)', ~BeginsAt(h)
  PROVE  InForce(h) /\ SameConnection /\ ch'[h].joinRef = ch[h].joinRef
<1>1. IInv /\ Session /\ Tidy /\ ConnsUsed
  BY DEF ServerInv, PInv
<1>2. /\ registry'[TopicOf[h]] = h /\ cstate' = "connected" /\ conn' # 0
      /\ ch'[h].conn = conn' /\ socket' = "open"
  BY DEF InForce, IsRegistered, IsConnected
<1>3. ch'[h].joinRef = ch[h].joinRef /\ ch'[h].conn = ch[h].conn
  BY <1>1, AttemptKept
<1>4. SameConnection
  <2>1. ch[h].conn # gen + 1
    <3>1. ch[h].conn <= gen /\ ch[h].conn \in Nat /\ gen \in Nat
      BY <1>1, RefFacts DEF ConnsUsed
    <3> QED
      BY <3>1
  <2> QED
    BY <1>1, <1>2, <1>3, <2>1, ConnectionMoves DEF NewConnection
<1>5. IsRegistered(h)
  <2>1. ASSUME NEW ok \in ParamsResults, Join(h, ok)
        PROVE  FALSE
    <3>1. refs' = refs + 1 /\ refs \in Nat
      BY <1>1, <2>1, RefFacts DEF Join
    <3>2. refs' # refs
      BY <3>1
    <3> QED
      BY <1>1, <2>1, <3>2, BeginningMoves
  <2> QED
    BY <1>1, <1>2, <2>1, NamesStep
<1> QED
  BY <1>2, <1>3, <1>4, <1>5 DEF InForce, IsConnected, SameConnection

\* What the websocket does to it, but for a routed frame.
LEMMA HeldStays ==
  ASSUME ServerInv, [Next]_vars, NEW h \in Handles, InForce(h)', InForce(h),
         Kept(TopicOf[h]) \/ LeaveAcknowledged(TopicOf[h]) \/ ProcessStops(TopicOf[h]),
         NEW ref, NEW i \in 0 .. Len(net[TopicOf[h]]),
         HeldAfter(net[TopicOf[h]], member[TopicOf[h]], ref, i)
  PROVE  HeldAfter(net'[TopicOf[h]], member'[TopicOf[h]], ref, i)
<1> DEFINE t == TopicOf[h]
<1>1. IInv /\ t \in Topics /\ net[t] \in Seq(Frame) /\ member[t] \in Refs
      /\ Len(net[t]) \in Nat
  BY RefFacts, LenProperties DEF ServerInv, PInv, IInv, OthersOK
<1>2. CASE Kept(t)
  BY <1>2 DEF Kept
<1>3. CASE ProcessStops(t)
  <2>1. PICK event \in {"error", "close"} :
          net'[t] = Append(net[t], Ending(event, member[t]))
    BY <1>3 DEF ProcessStops
  <2>2. LET x == Ending(event, member[t])
        IN  x \in Frame /\ x.event # "reply" /\ x.joinRef = member[t]
    BY <1>1, <2>1 DEF Ending, Frame
  <2> QED
    BY <1>1, <2>1, <2>2, HeldAppend
<1>4. CASE LeaveAcknowledged(t)
  <2>1. PICK o \in ops :
          /\ o.h \in Handles /\ o.ref \in Refs /\ member'[t] = 0
          /\ net'[t] = IF member[t] = 0 THEN Append(net[t], Reply(ch[o.h], o.ref, "ok"))
               ELSE net[t] \o <<Reply(ch[o.h], o.ref, "ok"), Ending("close", member[t])>>
    BY <1>1, <1>4 DEF LeaveAcknowledged, IInv, OthersOK, Op
  <2> DEFINE r == Reply(ch[o.h], o.ref, "ok")
             e == Ending("close", member[t])
  <2>2. r \in Frame /\ e \in Frame /\ e.event # "reply" /\ e.joinRef = member[t]
    <3>1. ch[o.h] \in SoundChannel
      BY <1>1, <2>1, RefFacts
    <3>2. r \in Frame
      BY <2>1, <3>1, FramesOK
    <3> QED
      BY <1>1, <3>2 DEF Ending, Frame
  <2>3. net'[t] = IF member[t] = 0 THEN Append(net[t], r) ELSE net[t] \o <<r, e>>
    BY <2>1
  <2> HIDE DEF r, e
  <2>4. HeldAfter(Append(net[t], r), member[t], ref, i)
    BY <1>1, <2>2, HeldAppend
  <2>5. CASE member[t] = 0
    BY <2>1, <2>3, <2>4, <2>5
  <2>6. CASE member[t] # 0
    <3>1. net'[t] = Append(Append(net[t], r), e)
      BY <1>1, <2>2, <2>3, <2>6, TwoAppended
    <3>2. Append(net[t], r) \in Seq(Frame) /\ i \in 0 .. Len(Append(net[t], r))
      BY <1>1, <2>2, AppendProperties
    <3> QED
      BY <2>1, <2>2, <2>4, <3>1, <3>2, HeldAppend
  <2> QED
    BY <2>5, <2>6
<1> QED
  BY <1>2, <1>3, <1>4

\* What it does to the replies that accept a join.
LEMMA AcceptingBefore ==
  ASSUME ServerInv, [Next]_vars, NEW h \in Handles, InForce(h), ch[h].joinRef \in Refs,
         Kept(TopicOf[h]) \/ LeaveAcknowledged(TopicOf[h]) \/ ProcessStops(TopicOf[h]),
         NEW i \in DOMAIN net'[TopicOf[h]], Accepting(net'[TopicOf[h]][i], ch[h].joinRef)
  PROVE  i \in DOMAIN net[TopicOf[h]] /\ net'[TopicOf[h]][i] = net[TopicOf[h]][i]
<1> DEFINE t == TopicOf[h]
           ref == ch[h].joinRef
<1>1. IInv /\ t \in Topics /\ net[t] \in Seq(Frame) /\ member[t] \in Refs
  BY RefFacts DEF ServerInv, PInv, IInv, OthersOK
<1>2. CASE Kept(t)
  BY <1>2 DEF Kept
<1>3. CASE ProcessStops(t)
  <2>1. PICK event \in {"error", "close"} :
          net'[t] = Append(net[t], Ending(event, member[t]))
    BY <1>3 DEF ProcessStops
  <2>2. Ending(event, member[t]) \in Frame /\ ~Accepting(Ending(event, member[t]), ref)
    BY <1>1, <2>1 DEF Ending, Frame, Accepting
  <2> QED
    BY <1>1, <2>1, <2>2, AppendedFrames
<1>4. CASE LeaveAcknowledged(t)
  <2>1. PICK o \in ops :
          /\ Answer(o) /\ o.kind = "leave" /\ TopicOf[o.h] = t
          /\ net'[t] = IF member[t] = 0 THEN Append(net[t], Reply(ch[o.h], o.ref, "ok"))
               ELSE net[t] \o <<Reply(ch[o.h], o.ref, "ok"), Ending("close", member[t])>>
    BY <1>4 DEF LeaveAcknowledged
  <2>2. o.h = h /\ o.ref # ref /\ o.ref \in Refs
    <3>1. IsRegistered(o.h) /\ o.h \in Handles /\ o.ref # ch[o.h].joinRef
      BY <2>1, AnsweredLeave
    <3>2. o.ref \in Refs
      BY <1>1, <2>1 DEF IInv, OthersOK, Op
    <3> QED
      BY <2>1, <3>1, <3>2 DEF InForce, IsRegistered
  <2> DEFINE r == Reply(ch[o.h], o.ref, "ok")
             e == Ending("close", member[t])
  <2>3. r \in Frame /\ e \in Frame /\ ~Accepting(r, ref) /\ ~Accepting(e, ref)
    <3>1. ch[o.h] \in SoundChannel
      BY <1>1, <2>2, RefFacts
    <3>2. r \in Frame
      BY <2>2, <3>1, FramesOK
    <3> QED
      BY <1>1, <2>2, <3>2 DEF Ending, Frame, Accepting, Reply
  <2>4. net'[t] = IF member[t] = 0 THEN Append(net[t], r) ELSE net[t] \o <<r, e>>
    BY <2>1
  <2> HIDE DEF r, e
  <2>5. CASE member[t] = 0
    BY <1>1, <2>3, <2>4, <2>5, AppendedFrames
  <2>6. CASE member[t] # 0
    <3>1. net'[t] = Append(Append(net[t], r), e)
      BY <1>1, <2>3, <2>4, <2>6, TwoAppended
    <3>2. Append(net[t], r) \in Seq(Frame)
      BY <1>1, <2>3, AppendProperties
    <3>3. i \in DOMAIN Append(net[t], r) /\ net'[t][i] = Append(net[t], r)[i]
      BY <2>3, <3>1, <3>2, AppendedFrames
    <3> QED
      BY <1>1, <2>3, <3>3, AppendedFrames
  <2> QED
    BY <2>5, <2>6
<1> QED
  BY <1>2, <1>3, <1>4

\* The end of a join, once routed, is acted on.
LEMMA RoutedEnd ==
  ASSUME IInv, NEW h \in Handles, RoutedTo(h),
         LET m == Head(net[TopicOf[h]]) IN m.event # "reply" /\ m.ref = ch[h].joinRef
  PROVE  ch'[h].state # "joined"
<1> DEFINE m == Head(net[TopicOf[h]])
<1>1. PICK ok \in HookResults : Route(TopicOf[h], ok)
  BY DEF RoutedTo
<1>2. registry[TopicOf[h]] = h /\ h # NoHandle /\ ch[h] \in SoundChannel
  BY RefFacts, TopicRuntimeAssumption DEF RoutedTo, IsRegistered
<1>3. ch' = [ch EXCEPT ![h] = Control(ch[h], h, m, ok)]
  BY <1>1, <1>2 DEF Route, RoutedTo
<1>4. ch'[h] = LifecycleEvent(ch[h], h, m.event)
  BY <1>3, HandleFacts DEF Control
<1> QED
  BY <1>2, <1>4, EndedNotJoined

\* A step that leaves the join accepted found it so, or accepts it.
LEMMA AcceptedBefore ==
  ASSUME ServerInv, [Next]_vars, NEW h \in Handles, ~BeginsAt(h),
         ch'[h].state = "joined", JoinReady(ch'[h])
  PROVE  AcceptsAt(h) \/ (ch[h].state = "joined" /\ JoinReady(ch[h]))
<1>1. IInv /\ Session /\ Tidy /\ ch[h] \in SoundChannel
  BY RefFacts DEF ServerInv, PInv
<1>2. CASE Calm(ch[h], ch'[h])
  BY <1>2 DEF Calm
<1>3. CASE WrittenAt(h)
  <2> DEFINE c == [ch[h] EXCEPT !.submitted = TRUE]
  <2>1. Calm(c, ch'[h]) /\ c.out = ch[h].out /\ ch[h].out = "pending"
    BY <1>1, <1>3 DEF WrittenAt, SoundChannel, Channel
  <2> HIDE DEF c
  <2> QED
    BY <2>1 DEF Calm, JoinReady
<1>4. CASE EndsAt(h)
  <2> DEFINE c == [ch[h] EXCEPT !.terminal = TRUE]
  <2>1. Calm(c, ch'[h]) /\ c.out = ch[h].out /\ c.state = ch[h].state
    BY <1>1, <1>4 DEF EndsAt, SoundChannel, Channel
  <2>2. c.voided = ch[h].voided
    BY <1>1 DEF SoundChannel, Channel
  <2> HIDE DEF c
  <2>3. ch[h].state = "joined" /\ JoinReady(c)
    BY <2>1 DEF Calm
  <2> QED
    BY <2>1, <2>2, <2>3 DEF JoinReady
<1> QED
  BY <1>1, <1>2, <1>3, <1>4, Moves

\* The connection of an attempt in force is the current one.
LEMMA InForceIsCurrent ==
  ASSUME ServerInv, NEW h \in Handles, InForce(h)
  PROVE  IsOnCurrentConnection(h)
<1>1. IInv /\ Session /\ ~stop
  BY DEF ServerInv, PInv, Stopped, InForce, IsConnected
<1> QED
  BY <1>1, ConnectionIsCurrent DEF InForce, IsConnected, IsOnCurrentConnection

\* Whatever the step, the client is told.
LEMMA ToldStays ==
  ASSUME ServerInv, AllTold, [Next]_vars, NEW h \in Handles, InForce(h)'
  PROVE  Told(h)'
<1> DEFINE t == TopicOf[h]
           ref == ch[h].joinRef
<1>1. /\ IInv /\ RefsUsed /\ Session /\ Tidy /\ EndsKnown /\ IInv'
      /\ t \in Topics /\ net \in [Topics -> Seq(Frame)] /\ net[t] \in Seq(Frame)
      /\ net'[t] \in Seq(Frame) /\ ref \in Refs
      /\ refs \in Nat /\ Len(net[t]) \in Nat /\ DOMAIN net[t] = 1 .. Len(net[t])
  <2>1. IInv /\ RefsUsed /\ Session /\ Tidy /\ EndsKnown /\ IInv'
    BY NextIInv DEF ServerInv, PInv
  <2>2. t \in Topics /\ refs \in Nat /\ ch[h] \in SoundChannel
    BY <2>1, RefFacts
  <2>3. net \in [Topics -> Seq(Frame)] /\ net'[t] \in Seq(Frame) /\ ref \in Refs
    BY <2>1, <2>2 DEF IInv, OthersOK, SoundChannel, Channel
  <2> QED
    BY <2>1, <2>2, <2>3, LenProperties
<1>2. CASE BeginsAt(h)
  <2>1. /\ ch'[h].joinRef = refs + 1 /\ net' = net
        /\ ch'[h].state \in {"joining", "rejoining", "left"}
    BY <1>2 DEF BeginsAt, Begins
  <2>2. ASSUME NEW i \in DOMAIN net[t]
        PROVE  net[t][i].joinRef # refs + 1
    <3>1. net[t][i] \in Frames(t)
      BY DEF Frames
    <3>2. net[t][i].joinRef <= refs /\ net[t][i].joinRef \in Nat
      BY <1>1, <3>1, RefFacts DEF RefsUsed
    <3> QED
      BY <1>1, <3>2
  <2> QED
    BY <2>1, <2>2 DEF Told, Accepting
<1>3. CASE ~BeginsAt(h)
  <2>1. InForce(h) /\ ch'[h].joinRef = ref /\ Told(h)
    BY <1>3, InForceBefore DEF AllTold
  <2>2. /\ \A i \in DOMAIN net[t] :
             Accepting(net[t][i], ref) => HeldAfter(net[t], member[t], ref, i)
        /\ ch[h].state = "joined" /\ JoinReady(ch[h]) => HeldAfter(net[t], member[t], ref, 0)
    BY <2>1 DEF Told
  <2>3. AcceptsAt(h) => Routed(t)
    BY <1>1 DEF AcceptsAt, RoutedTo, Routed, Route
  <2>4. CASE ~Routed(t) /\ (Kept(t) \/ LeaveAcknowledged(t) \/ ProcessStops(t))
    <3>1. ASSUME NEW i \in DOMAIN net'[t], Accepting(net'[t][i], ref)
          PROVE  HeldAfter(net'[t], member'[t], ref, i)
      <4>1. i \in DOMAIN net[t] /\ net'[t][i] = net[t][i]
        BY <1>1, <2>1, <2>4, <3>1, AcceptingBefore
      <4>2. HeldAfter(net[t], member[t], ref, i) /\ i \in 0 .. Len(net[t])
        BY <1>1, <2>2, <3>1, <4>1
      <4> QED
        BY <2>1, <2>4, <4>2, HeldStays
    <3>2. ASSUME ch'[h].state = "joined", JoinReady(ch'[h])
          PROVE  HeldAfter(net'[t], member'[t], ref, 0)
      <4>1. ch[h].state = "joined" /\ JoinReady(ch[h])
        BY <1>3, <2>3, <2>4, <3>2, AcceptedBefore
      <4>2. HeldAfter(net[t], member[t], ref, 0) /\ 0 \in 0 .. Len(net[t])
        BY <1>1, <2>2, <4>1
      <4> QED
        BY <2>1, <2>4, <4>2, HeldStays
    <3> QED
      BY <2>1, <3>1, <3>2 DEF Told
  <2>5. CASE JoinAnswered(t)
    <3>1. PICK o \in ops, status \in JoinReplies :
            /\ Answer(o) /\ o.kind = "join" /\ TopicOf[o.h] = t
            /\ net'[t] = Append(net[t], Reply(ch[o.h], o.ref, status))
            /\ member'[t] = IF status = "error" THEN 0 ELSE o.ref
      BY <2>5 DEF JoinAnswered
    <3>2. o.h = h /\ o.ref = ref /\ ch[h].out = "pending" /\ Unsent(o)
      BY <2>1, <3>1, AnsweredJoin DEF InForce, IsRegistered
    <3>3. ASSUME NEW i \in DOMAIN net'[t], Accepting(net'[t][i], ref)
          PROVE  HeldAfter(net'[t], member'[t], ref, i)
      <4> DEFINE r == Reply(ch[o.h], o.ref, status)
      <4>1. r \in Frame /\ r.status = status
        BY <1>1, <3>1, <3>2, RefFacts, FramesOK, TopicRuntimeAssumption DEF Reply
      <4> HIDE DEF r
      <4>2. i \notin DOMAIN net[t] \/ net'[t][i] # net[t][i]
        <5>1. ASSUME i \in DOMAIN net[t]
              PROVE  net[t][i].joinRef # ref
          BY <3>1, <3>2, <5>1 DEF Unsent, Frames
        <5> QED
          BY <3>3, <5>1 DEF Accepting
      <4>3. net'[t][i] = r
        BY <1>1, <3>1, <4>1, <4>2, AppendedFrames DEF r
      <4> QED
        BY <3>1, <3>2, <3>3, <4>1, <4>3 DEF Accepting, HeldAfter
    <3>4. ~(ch'[h].state = "joined" /\ JoinReady(ch'[h]))
      <4>1. ~AcceptsAt(h)
        BY <1>1, <3>2, RoutedFrame DEF AcceptsAt, RoutedTo, Unsent
      <4> QED
        BY <1>3, <3>2, <4>1, AcceptedBefore DEF JoinReady
    <3> QED
      BY <2>1, <3>3, <3>4 DEF Told
  <2>6. CASE Routed(t)
    <3>1. net[t] # <<>> /\ net'[t] = Tail(net[t]) /\ member'[t] = member[t]
      BY <2>6 DEF Routed
    <3>2. ASSUME NEW i \in DOMAIN net'[t], Accepting(net'[t][i], ref)
          PROVE  HeldAfter(net'[t], member'[t], ref, i)
      <4>1. i + 1 \in DOMAIN net[t] /\ net'[t][i] = net[t][i + 1] /\ i \in Nat
        BY <1>1, <3>1, TailFrames, LenProperties
      <4>2. HeldAfter(net[t], member[t], ref, i + 1)
        BY <2>2, <3>2, <4>1
      <4> QED
        BY <1>1, <3>1, <4>1, <4>2, HeldTail
    <3>3. ASSUME ch'[h].state = "joined", JoinReady(ch'[h])
          PROVE  HeldAfter(net'[t], member'[t], ref, 0)
      <4>1. HeldAfter(net[t], member[t], ref, 1)
        <5>1. CASE AcceptsAt(h)
          <6>1. 1 \in DOMAIN net[t] /\ Accepting(net[t][1], ref)
            BY <1>1, <5>1, RoutedFrame DEF AcceptsAt, Accepts, RoutedTo, Accepting
          <6> QED
            BY <2>2, <6>1
        <5>2. CASE ch[h].state = "joined" /\ JoinReady(ch[h])
          <6>1. HeldAfter(net[t], member[t], ref, 0)
            BY <2>2, <5>2
          <6>2. ASSUME NEW j \in DOMAIN net[t], j > 0, net[t][j].joinRef = ref,
                       net[t][j].event # "reply"
                PROVE  j > 1
            <7>1. CASE j = 1
              <8>1. RoutedTo(h)
                BY <1>1, <2>1, <2>6, <6>2, <7>1, InForceIsCurrent
                DEF Routed, RoutedTo, InForce
              <8>2. Head(net[t]) = net[t][1] /\ net[t][1] \in Frames(t)
                BY <1>1, <8>1, RoutedFrame
              <8>3. net[t][1].ref = ref
                BY <1>1, <6>2, <7>1, <8>2 DEF EndsKnown
              <8> QED
                BY <1>1, <3>3, <6>2, <7>1, <8>1, <8>2, <8>3, RoutedEnd
            <7> QED
              BY <1>1, <6>2, <7>1
          <6> QED
            BY <6>1, <6>2 DEF HeldAfter
        <5> QED
          BY <1>3, <3>3, <5>1, <5>2, AcceptedBefore
      <4> QED
        BY <1>1, <3>1, <4>1, HeldTail
    <3> QED
      BY <2>1, <3>2, <3>3 DEF Told
  <2>7. ~Cut(t) /\ ~Renewed(t)
    BY <1>1, <2>1 DEF Cut, Renewed, Connect, InForce, IsConnected, Session
  <2> QED
    BY <1>1, <2>4, <2>5, <2>6, <2>7, Wire
<1> QED
  BY <1>2, <1>3

\* JoinedAgreesWithServer, for every set of handles and topics and every bound:
\* Channel.joined does not outlive the membership, except by the frames that are
\* still on their way.
THEOREM JoinedIsTrue == Spec => []JoinedAgreesWithServer
<1>1. Init => AllTold
  BY DEF Init, AllTold, Told, InForce, IsConnected
<1>2. ServerInv /\ AllTold /\ [Next]_vars => AllTold'
  <2>1. ASSUME ServerInv, AllTold, [Next]_vars, NEW h \in Handles
        PROVE  Told(h)'
    <3>1. CASE InForce(h)'
      BY <2>1, <3>1, ToldStays
    <3>2. CASE ~InForce(h)'
      BY <3>2 DEF Told
    <3> QED
      BY <3>1, <3>2
  <2> QED
    BY <2>1 DEF AllTold
<1>3. ServerInv /\ AllTold => JoinedAgreesWithServer
  BY RefFacts DEF AllTold, Told, JoinedAgreesWithServer, Joined, InForce,
     IsOnCurrentConnection, HeldAfter, EndsUnderway
<1> QED
  BY <1>1, <1>2, <1>3, ServerInvariant, PTL DEF Spec

=============================================================================
