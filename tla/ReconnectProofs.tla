-------------------------- MODULE ReconnectProofs --------------------------
(***************************************************************************)
(* What holds of Reconnect for every policy, interval and threshold: which *)
(* closes are final, how long a silent connection stays open, that a       *)
(* prompt server is never taken for a dead one, that every variable keeps  *)
(* its type, that churn is stopped at the policy's limit and not before    *)
(* it, and that the connections come in turn.                              *)
(***************************************************************************)
EXTENDS Reconnect, FiniteSetTheorems, SequenceTheorems, TLAPS

Sockets == [st : {"none", "open", "closing", "closed"}, code : Codes \cup {"none"},
            by : {"nobody", "client", "server"}]

Closes == [code : Codes \cup {"none"}, forced : BOOLEAN]

Heartbeats == [pc : {"off", "sleeping", "sending", "forcing", "done"},
               sleep : 0..Interval, cancelled : BOOLEAN]

\* The types of all but the decider and the history of churn.
SessionTypes ==
  /\ mode \in Mode
  /\ pc \in {"connecting", "starting", "serving", "cleaning", "disconnected",
             "waiting", "exited"}
  /\ stop \in BOOLEAN /\ conn \in BOOLEAN /\ forced \in BOOLEAN /\ pending \in BOOLEAN
  /\ socket \in Sockets
  /\ routing \in {"none", "running", "ended"}
  /\ close \in Closes
  /\ hb \in Heartbeats
  /\ deadline \in 0..Threshold
  /\ quiet \in 0..Threshold + 1
  /\ lag \in 0..MaxLag + 1

\* Who holds the connection: the supervisor of a session, or nobody.
Held ==
  /\ pc \in {"starting", "serving"} => conn
  /\ pc \in {"connecting", "cleaning", "disconnected", "waiting"} => ~conn
  /\ pc = "connecting" => socket = NoSocket
  /\ Served => conn
  /\ ~conn => hb.cancelled \/ ~Monitoring
  /\ hb.cancelled => ~conn
  /\ pc \in {"connecting", "disconnected", "waiting"} => hb.pc = "off" /\ ~hb.cancelled
  /\ pc # "exited" => terminal = "none"
  /\ conn => terminal = "none"

\* Which close is the client's, and which the decider will be asked about.
Attributed ==
  /\ forced => conn /\ socket.by = "client"
  /\ conn /\ socket.by = "client" => forced
  /\ socket.st = "closing" => socket.by = "client"
  /\ socket.st \in {"none", "open"} => socket.by = "nobody"
  /\ pc \in {"cleaning", "disconnected"} =>
       /\ close.forced => socket.by = "client"
       /\ socket.by = "client" => close.forced
       /\ socket.by # "client" => close.code = socket.code
  /\ socket.by = "nobody" => socket.code = "none"

\* The heartbeat of an open connection counts down what is left of the threshold.
Watched ==
  mode.enforced /\ conn /\ socket.st = "open" =>
    /\ ~stop => Monitoring
    /\ Monitoring => deadline + quiet = Threshold

\* A prompt server keeps the deadline away: an answer is due before it.
Paced ==
  mode.enforced /\ mode.prompt /\ Served /\ Monitoring =>
    /\ pending => lag <= MaxLag /\ deadline + Interval + lag >= Threshold
    /\ ~pending /\ hb.pc = "sleeping" => deadline + Interval >= Threshold + hb.sleep
    /\ ~pending /\ hb.pc = "sending" => deadline = Threshold

\* The inductive invariant.
IInv == SessionTypes /\ Held /\ Attributed /\ VerdictMatchesClose /\ Watched /\ Paced

-----------------------------------------------------------------------------
(* The answers of the decider *)

\* A retried event is never answered with the verdict on a policy violation.
LEMMA RetriesNeverAccuse ==
  ASSUME NEW d, NEW attempt, NEW floors, NEW answer \in Retries(d, attempt, floors)
  PROVE  answer.decision.error # "policy"
BY DEF Retries, Answers, Retry, Stop

\* Neither is a failed attempt to connect, whatever the server refused it with.
LEMMA FailureNeverAccuses ==
  ASSUME NEW d, NEW forbidden \in BOOLEAN,
         NEW answer \in AfterConnectFailure(d, forbidden)
  PROVE  answer.decision.error # "policy"
<1>1. CASE forbidden
  BY <1>1 DEF AfterConnectFailure, Answers, Stop
<1>2. CASE ~forbidden /\ Suppressed(Recorded(d, 0))
  BY <1>2 DEF AfterConnectFailure, Answers, Stop
<1>3. CASE ~forbidden /\ ~Suppressed(Recorded(d, 0))
  BY <1>3, RetriesNeverAccuse DEF AfterConnectFailure
<1> QED
  BY <1>1, <1>2, <1>3

\* A close is answered so if and only if it is a policy violation that the policy
\* takes as final.
LEMMA CloseAccusesPolicyOnly ==
  ASSUME NEW d, NEW code, NEW answer \in AfterClose(d, code)
  PROVE  /\ answer.decision.error = "policy" =>
              code = "policy" /\ ~answer.decision.should_reconnect
         /\ answer.decision.should_reconnect =>
              ~(code = "policy" /\ Policy.policy_violation_is_terminal)
<1>1. CASE StopsForClose(code)
  BY <1>1 DEF AfterClose, Answers, Stop
<1>2. CASE ~StopsForClose(code) /\ Suppressed(Recorded(d, d.uptime))
  BY <1>2 DEF AfterClose, Answers, Stop
<1>3. CASE ~StopsForClose(code) /\ ~Suppressed(Recorded(d, d.uptime))
  BY <1>3, RetriesNeverAccuse DEF AfterClose, StopsForClose
<1> QED
  BY <1>1, <1>2, <1>3

-----------------------------------------------------------------------------
(* Every step keeps the invariant *)

USE DEF Sockets, Closes, Heartbeats

\* What is done to the record of a socket: a close frame is sent, the socket is
\* abandoned, or it closes with a code.
LEMMA SocketClosing ==
  ASSUME NEW s \in Sockets
  PROVE  [s EXCEPT !.st = "closing", !.by = "client"] \in Sockets
OBVIOUS

LEMMA SocketAbandoned ==
  ASSUME NEW s \in Sockets
  PROVE  [s EXCEPT !.st = "closed"] \in Sockets
OBVIOUS

LEMMA SocketCloses ==
  ASSUME NEW s \in Sockets, NEW code \in Codes
  PROVE  /\ [s EXCEPT !.st = "closed", !.code = code] \in Sockets
         /\ [st |-> "closed", code |-> code, by |-> "server"] \in Sockets
<1>1. [s EXCEPT !.st = "closed", !.code = code] \in Sockets
  OBVIOUS
<1>2. [st |-> "closed", code |-> code, by |-> "server"] \in Sockets
  OBVIOUS
<1> QED
  BY <1>1, <1>2

\* The invariant holds before the first connection.
LEMMA InitIsSound == Init => IInv
<1> SUFFICES ASSUME Init PROVE IInv
  OBVIOUS
<1> USE DEF Init
<1>1. SessionTypes
  <2>1. mode \in Mode
    BY ReconnectAssumption
  <2>2. socket \in Sockets
    BY DEF NoSocket
  <2>3. close \in Closes
    BY DEF NoClose
  <2>4. /\ hb \in Heartbeats
        /\ deadline \in 0..Threshold /\ quiet \in 0..Threshold + 1
        /\ lag \in 0..MaxLag + 1
    BY ReconnectAssumption DEF NoHeartbeat
  <2> QED
    BY <2>1, <2>2, <2>3, <2>4 DEF SessionTypes
<1>2. Held /\ Attributed /\ VerdictMatchesClose /\ Watched /\ Paced
  BY DEF Held, Attributed, VerdictMatchesClose, Watched, Paced, NoSocket, NoHeartbeat,
         Monitoring, Served
<1> QED
  BY <1>1, <1>2 DEF IInv

LEMMA ConnectFailsIsSound ==
  ASSUME IInv, NEW forbidden \in BOOLEAN, ConnectFails(forbidden) PROVE IInv'
<1> USE DEF IInv
<1>1. /\ pc = "connecting" /\ pc' \in {"waiting", "exited"}
      /\ terminal' # "policy" /\ (pc' = "waiting" => terminal' = terminal)
  BY FailureNeverAccuses
  DEF ConnectFails, FailureIsDecided, Exit, Decide, Follow, Held
<1>2. UNCHANGED <<mode, stop, conn, socket, routing, forced, close, hb, deadline,
                  pending, replies, lag, quiet>>
  BY DEF ConnectFails, link, beats
<1>3. SessionTypes' /\ Attributed'
  BY <1>1, <1>2 DEF SessionTypes, Attributed
<1>4. Held'
  BY <1>1, <1>2 DEF Held, Served, Monitoring
<1>5. VerdictMatchesClose'
  BY <1>1, <1>2 DEF VerdictMatchesClose, Held, NoSocket
<1>6. Watched' /\ Paced'
  BY <1>1, <1>2 DEF Watched, Paced, Monitoring, Served
<1> QED
  BY <1>3, <1>4, <1>5, <1>6

\* The actions of the supervisor.
LEMMA AdoptsTooLateIsSound == ASSUME IInv, AdoptsTooLate PROVE IInv'
<1> USE DEF IInv, AdoptsTooLate, MayStart, Exit, OpenSocket, beats, history
<1>1. SessionTypes'
  BY DEF SessionTypes
<1>2. Held' /\ Attributed' /\ VerdictMatchesClose'
  BY DEF Held, Attributed, VerdictMatchesClose, Served, Monitoring, NoHeartbeat
<1>3. ~Monitoring'
  BY DEF Held, Monitoring, NoHeartbeat
<1>4. Watched' /\ Paced'
  BY <1>3 DEF Watched, Paced
<1> QED
  BY <1>1, <1>2, <1>4

LEMMA AdoptsIsSound == ASSUME IInv, Adopts PROVE IInv'
<1> USE ReconnectAssumption DEF IInv, Adopts, MayStart, OpenSocket
<1>1. SessionTypes'
  <2>1. hb' \in Heartbeats /\ socket' \in Sockets
    OBVIOUS
  <2>2. /\ deadline' \in 0..Threshold /\ lag' \in 0..MaxLag + 1
        /\ quiet' \in 0..Threshold + 1
    BY DEF Allowed
  <2> QED
    BY <2>1, <2>2 DEF SessionTypes
<1>2. Held' /\ Attributed' /\ VerdictMatchesClose'
  BY DEF Held, Attributed, VerdictMatchesClose, Served, Monitoring
<1>3. Watched'
  BY DEF Watched, Monitoring, Allowed
<1>4. Paced'
  BY DEF Paced, Monitoring, Allowed
<1> QED
  BY <1>1, <1>2, <1>3, <1>4

LEMMA SessionStartedIsSound == ASSUME IInv, SessionStarted PROVE IInv'
<1> USE DEF IInv, SessionStarted, link, beats, history
<1>1. SessionTypes' /\ Held' /\ Attributed' /\ VerdictMatchesClose'
  BY DEF SessionTypes, Held, Attributed, VerdictMatchesClose, Served, Monitoring
<1>2. Watched' /\ Paced'
  BY DEF Watched, Paced, Monitoring, Served
<1> QED
  BY <1>1, <1>2

LEMMA RoutingEndsIsSound == ASSUME IInv, RoutingEnds PROVE IInv'
<1> USE DEF IInv, RoutingEnds, beats, history
<1>1. SessionTypes' /\ Held' /\ Attributed' /\ VerdictMatchesClose'
  BY DEF SessionTypes, Held, Attributed, VerdictMatchesClose, Served, Monitoring
<1>2. Watched' /\ Paced'
  BY DEF Watched, Paced, Monitoring, Served
<1> QED
  BY <1>1, <1>2

LEMMA EndSessionIsSound == ASSUME IInv, EndSession PROVE IInv'
<1> USE DEF IInv, EndSession, Cancelled, ForgetForced, history
<1>1. SessionTypes'
  BY DEF SessionTypes
<1>2. Held'
  BY DEF SessionTypes, Held, Served, Monitoring
<1>3. Attributed' /\ VerdictMatchesClose'
  BY DEF Held, Attributed, VerdictMatchesClose
<1>4. Watched' /\ Paced'
  BY DEF Watched, Paced, Served
<1> QED
  BY <1>1, <1>2, <1>3, <1>4

LEMMA CleanupDoneIsSound == ASSUME IInv, CleanupDone PROVE IInv'
<1> USE ReconnectAssumption DEF IInv, CleanupDone, NoHeartbeat
<1>1. SessionTypes'
  BY DEF SessionTypes
<1>2. Held' /\ Attributed' /\ VerdictMatchesClose'
  BY DEF SessionTypes, Held, Attributed, VerdictMatchesClose, Served, Monitoring
<1>3. Watched' /\ Paced'
  BY DEF Watched, Paced, Held, Served
<1> QED
  BY <1>1, <1>2, <1>3

LEMMA DecideReconnectIsSound == ASSUME IInv, DecideReconnect PROVE IInv'
<1> USE DEF IInv
<1>1. /\ pc = "disconnected" /\ close' = NoClose
      /\ UNCHANGED <<mode, stop, conn, socket, routing, forced, hb, deadline, pending,
                     replies, lag, quiet>>
  BY DEF DecideReconnect, link, beats
<1>2. /\ pc' \in {"waiting", "exited"}
      /\ pc' = "waiting" => terminal' = terminal
      /\ terminal' = "policy" => DecidedCode = "policy"
      /\ pc' = "waiting" => ~(DecidedCode = "policy" /\ Policy.policy_violation_is_terminal)
  <2>1. terminal = "none"
    BY <1>1 DEF Held
  <2>2. CASE Exit
    BY <2>1, <2>2 DEF Exit
  <2>3. CASE Decide(AfterClose(decider, DecidedCode))
    <3>1. PICK answer \in AfterClose(decider, DecidedCode) : Follow(answer.decision)
      BY <2>3 DEF Decide
    <3> QED
      BY <2>1, <3>1, CloseAccusesPolicyOnly DEF Follow
  <2> QED
    BY <2>2, <2>3 DEF DecideReconnect
<1>3. SessionTypes' /\ Attributed'
  BY <1>1, <1>2 DEF SessionTypes, Attributed, NoClose
<1>4. Held'
  BY <1>1, <1>2 DEF Held, Served, Monitoring
<1>5. VerdictMatchesClose'
  <2>1. socket.by \in {"nobody", "client", "server"}
    BY DEF SessionTypes
  <2>2. DecidedCode = "policy" <=> socket.by = "server" /\ socket.code = "policy"
    BY <1>1, <2>1 DEF DecidedCode, Attributed, SessionTypes
  <2> QED
    BY <1>1, <1>2, <2>2 DEF VerdictMatchesClose
<1>6. Watched' /\ Paced'
  BY <1>1 DEF Watched, Paced, Held, Served
<1> QED
  BY <1>3, <1>4, <1>5, <1>6

LEMMA WaitEndsIsSound == ASSUME IInv, WaitEnds PROVE IInv'
<1> USE DEF IInv, WaitEnds, NoSocket, beats, history
<1>1. SessionTypes'
  BY DEF SessionTypes
<1>2. Held' /\ Attributed' /\ VerdictMatchesClose'
  BY DEF Held, Attributed, VerdictMatchesClose, Served, Monitoring
<1>3. Watched' /\ Paced'
  BY DEF Watched, Paced, Served
<1> QED
  BY <1>1, <1>2, <1>3

LEMMA ShutdownIsSound == ASSUME IInv, Shutdown PROVE IInv'
<1> USE DEF IInv, Shutdown, link, beats, history
<1>1. SessionTypes' /\ Held' /\ Attributed' /\ VerdictMatchesClose'
  BY DEF SessionTypes, Held, Attributed, VerdictMatchesClose, Served, Monitoring
<1>2. Watched' /\ Paced'
  BY DEF Watched, Paced, Monitoring, Served
<1> QED
  BY <1>1, <1>2

LEMMA StopSupervisorIsSound == ASSUME IInv, StopSupervisor PROVE IInv'
<1> USE ReconnectAssumption DEF IInv, StopSupervisor, ForgetForced, NoHeartbeat, history
<1>1. SessionTypes'
  <2>1. socket' \in Sockets
    BY DEF SessionTypes
  <2>2. hb' \in Heartbeats
    OBVIOUS
  <2>3. UNCHANGED <<mode, stop, close, quiet, lag>> /\ deadline' = 0 /\ routing' = "none"
        /\ pc' = "exited" /\ conn' = FALSE /\ forced' = FALSE /\ pending' = FALSE
    OBVIOUS
  <2>4. SessionTypes /\ 0 \in 0..Threshold
    OBVIOUS
  <2> HIDE DEF IInv, StopSupervisor, NoHeartbeat, Sockets, Heartbeats, Closes
  <2> QED
    BY <2>1, <2>2, <2>3, <2>4 DEF SessionTypes
<1>2. Held' /\ Attributed' /\ VerdictMatchesClose'
  BY DEF SessionTypes, Held, Attributed, VerdictMatchesClose, Served, Monitoring
<1>3. Watched' /\ Paced'
  BY DEF Watched, Paced, Served
<1> QED
  BY <1>1, <1>2, <1>3

\* The actions of the heartbeat.
LEMMA HeartbeatUpdates ==
  ASSUME NEW b \in Heartbeats, NEW p \in {"sleeping", "sending", "forcing", "done"},
         NEW n \in {0, Interval}
  PROVE  /\ [b EXCEPT !.pc = p] \in Heartbeats
         /\ [b EXCEPT !.pc = p, !.cancelled = FALSE] \in Heartbeats
         /\ [b EXCEPT !.pc = p, !.sleep = n] \in Heartbeats
         /\ [b EXCEPT !.sleep = n] \in Heartbeats
<1>1. n \in 0..Interval
  BY ReconnectAssumption
<1>2. [b EXCEPT !.pc = p] \in Heartbeats
  OBVIOUS
<1>3. [b EXCEPT !.sleep = n] \in Heartbeats
  BY <1>1
<1>4. [b EXCEPT !.pc = p, !.sleep = n] \in Heartbeats
  BY <1>1
<1>5. [b EXCEPT !.pc = p, !.cancelled = FALSE] \in Heartbeats
  OBVIOUS
<1> QED
  BY <1>2, <1>3, <1>4, <1>5

\* Those that may force a close fail alike.
LEMMA FailureIsSound ==
  ASSUME IInv, HeartbeatFailed, hb.pc \in {"sleeping", "sending"}, ~hb.cancelled,
         UNCHANGED <<mode, pc, stop, terminal, conn, routing, close, deadline,
                     pending, lag, quiet>>,
         mode.enforced \/ socket.st # "open" \/ hb.pc = "sending"
  PROVE  IInv'
<1> USE DEF IInv, HeartbeatFailed, ForceClose
<1>1. conn
  BY DEF Held, Monitoring
<1>2. SessionTypes'
  <2> HIDE DEF Heartbeats, Sockets, Closes
  <2>1. socket' \in Sockets /\ forced' \in BOOLEAN
    BY SocketClosing DEF SessionTypes
  <2>2. hb' \in Heartbeats
    BY HeartbeatUpdates DEF SessionTypes
  <2> QED
    BY <2>1, <2>2 DEF SessionTypes
<1>3. Held' /\ Attributed' /\ VerdictMatchesClose'
  BY <1>1 DEF SessionTypes, Held, Attributed, VerdictMatchesClose, Served, Monitoring
<1>4. Watched' /\ Paced'
  BY DEF SessionTypes, Watched, Paced, Monitoring
<1> QED
  BY <1>2, <1>3, <1>4

LEMMA BeatsIsSound == ASSUME IInv, Beats PROVE IInv'
<1> USE ReconnectAssumption DEF IInv, Beats, link, history
<1>1. SessionTypes'
  <2> HIDE DEF Heartbeats, Sockets, Closes
  <2>1. hb' \in Heartbeats
    BY HeartbeatUpdates DEF SessionTypes
  <2>2. pending' \in BOOLEAN
    BY DEF SessionTypes
  <2>3. lag' \in 0..MaxLag + 1
    BY DEF SessionTypes
  <2> QED
    BY <2>1, <2>2, <2>3 DEF SessionTypes
<1>2. Held' /\ Attributed' /\ VerdictMatchesClose'
  BY DEF SessionTypes, Held, Attributed, VerdictMatchesClose, Served, Monitoring
<1>3. Watched'
  BY DEF SessionTypes, Watched, Monitoring
<1>4. Paced'
  BY DEF SessionTypes, Paced, Monitoring, Served, BeatSkipped
<1> QED
  BY <1>1, <1>2, <1>3, <1>4

LEMMA BeatSentIsSound == ASSUME IInv, BeatSent PROVE IInv'
<1> USE ReconnectAssumption DEF IInv, BeatSent, link, history
<1>1. SessionTypes'
  <2> HIDE DEF Heartbeats, Sockets, Closes
  <2>1. hb' \in Heartbeats
    BY HeartbeatUpdates DEF SessionTypes
  <2>2. pending' \in BOOLEAN /\ lag' \in 0..MaxLag + 1
    BY DEF SessionTypes
  <2> QED
    BY <2>1, <2>2 DEF SessionTypes
<1>2. Held' /\ Attributed' /\ VerdictMatchesClose'
  BY DEF SessionTypes, Held, Attributed, VerdictMatchesClose, Served, Monitoring
<1>3. Watched' /\ Paced'
  BY DEF SessionTypes, Watched, Paced, Monitoring, Served
<1> QED
  BY <1>1, <1>2, <1>3

LEMMA BeatNotSentIsSound == ASSUME IInv, BeatNotSent PROVE IInv'
BY FailureIsSound DEF BeatNotSent, history

LEMMA ExpiresIsSound == ASSUME IInv, Expires PROVE IInv'
BY FailureIsSound DEF Expires, Monitoring, history

LEMMA HeartbeatCancelledIsSound == ASSUME IInv, HeartbeatCancelled PROVE IInv'
<1> USE DEF IInv, HeartbeatCancelled, history
<1>1. SessionTypes' /\ ~conn
  <2> HIDE DEF Heartbeats, Sockets, Closes
  <2>1. socket' \in Sockets
    <3>1. socket' \in {[socket EXCEPT !.st = "closed"], [socket EXCEPT !.st = socket.st]}
      OBVIOUS
    <3>2. [socket EXCEPT !.st = socket.st] = socket
      BY DEF SessionTypes, Sockets
    <3> QED
      BY <3>1, <3>2, SocketAbandoned DEF SessionTypes
  <2>2. hb' \in Heartbeats
    BY HeartbeatUpdates DEF SessionTypes
  <2> QED
    BY <2>1, <2>2 DEF SessionTypes, Held
<1>2. Held' /\ Attributed' /\ VerdictMatchesClose'
  BY <1>1 DEF SessionTypes, Held, Attributed, VerdictMatchesClose, Served, Monitoring
<1>3. Watched' /\ Paced'
  BY <1>1 DEF SessionTypes, Watched, Paced, Monitoring
<1> QED
  BY <1>1, <1>2, <1>3

LEMMA HandleHeartbeatResponseIsSound ==
  ASSUME IInv, NEW reply \in {"pending", "stale"}, HandleHeartbeatResponse(reply)
  PROVE  IInv'
<1> USE ReconnectAssumption DEF IInv, HandleHeartbeatResponse, Allowed, link
<1>1. SessionTypes'
  <2>1. deadline' \in 0..Threshold
    BY DEF SessionTypes
  <2>2. quiet' \in 0..Threshold + 1
    BY DEF SessionTypes
  <2>3. pending' \in BOOLEAN
    BY DEF SessionTypes
  <2> QED
    BY <2>1, <2>2, <2>3 DEF SessionTypes
<1>2. Held' /\ Attributed' /\ VerdictMatchesClose'
  BY DEF Held, Attributed, VerdictMatchesClose, Served, Monitoring
<1>3. Watched'
  BY DEF SessionTypes, Watched, Monitoring, Answered, TooLate
<1>4. Paced'
  BY DEF SessionTypes, Paced, Monitoring, Served, Answered, TooLate
<1> QED
  BY <1>1, <1>2, <1>3, <1>4

\* The server, the network, the application and time.
LEMMA ConnectionClosesIsSound ==
  ASSUME IInv, NEW code \in Codes, ConnectionCloses(code) PROVE IInv'
<1> USE DEF IInv, ConnectionCloses, beats, history
<1>1. SessionTypes'
  <2> HIDE DEF Heartbeats, Sockets, Closes
  <2>1. socket' \in Sockets
    BY SocketCloses DEF SessionTypes
  <2> QED
    BY <2>1 DEF SessionTypes
<1>2. Held' /\ Attributed' /\ VerdictMatchesClose'
  BY DEF SessionTypes, Held, Attributed, VerdictMatchesClose, Served, Monitoring
<1>3. Watched' /\ Paced'
  BY DEF SessionTypes, Watched, Paced, Monitoring, Served
<1> QED
  BY <1>1, <1>2, <1>3

LEMMA ClosingEndsIsSound ==
  ASSUME IInv, NEW code \in Codes, ClosingEnds(code) PROVE IInv'
<1> USE DEF IInv, ClosingEnds, history
<1>1. SessionTypes'
  <2> HIDE DEF Heartbeats, Sockets, Closes
  <2>1. socket' \in Sockets
    BY SocketCloses DEF SessionTypes
  <2>2. hb' \in Heartbeats
    <3>1. hb' \in {[hb EXCEPT !.pc = "done"], [hb EXCEPT !.pc = hb.pc]}
      OBVIOUS
    <3>2. [hb EXCEPT !.pc = hb.pc] = hb
      BY DEF SessionTypes, Heartbeats
    <3> QED
      BY <3>1, <3>2, HeartbeatUpdates DEF SessionTypes
  <2> QED
    BY <2>1, <2>2 DEF SessionTypes
<1>2. Held' /\ Attributed' /\ VerdictMatchesClose'
  BY DEF SessionTypes, Held, Attributed, VerdictMatchesClose, Served, Monitoring, NoSocket
<1>3. Watched' /\ Paced'
  BY DEF SessionTypes, Watched, Paced, Monitoring, Served
<1> QED
  BY <1>1, <1>2, <1>3

LEMMA ServerAnswersIsSound ==
  ASSUME IInv, NEW reply \in {"pending", "stale"}, ServerAnswers(reply) PROVE IInv'
<1> USE DEF IInv, ServerAnswers, link, history
<1>1. SessionTypes' /\ Held' /\ Attributed' /\ VerdictMatchesClose'
  BY DEF SessionTypes, Held, Attributed, VerdictMatchesClose, Served, Monitoring
<1>2. Watched' /\ Paced'
  BY DEF Watched, Paced, Monitoring, Served
<1> QED
  BY <1>1, <1>2

LEMMA CloseConnectionIsSound == ASSUME IInv, CloseConnection PROVE IInv'
<1> USE DEF IInv, CloseConnection, ForceClose, beats, history
<1>1. SessionTypes'
  <2> HIDE DEF Heartbeats, Sockets, Closes
  <2>1. socket' \in Sockets
    BY SocketClosing DEF SessionTypes
  <2> QED
    BY <2>1 DEF SessionTypes
<1>2. Held' /\ Attributed' /\ VerdictMatchesClose'
  BY DEF SessionTypes, Held, Attributed, VerdictMatchesClose, Served, Monitoring
<1>3. Watched' /\ Paced'
  BY DEF SessionTypes, Watched, Paced, Monitoring, Served
<1> QED
  BY <1>1, <1>2, <1>3

\* A tick passes only while no timer is due and a prompt server is in time.
LEMMA TickIsSound == ASSUME IInv, Tick PROVE IInv'
<1> USE ReconnectAssumption DEF IInv
<1>1. /\ UNCHANGED <<mode, pc, stop, terminal, conn, socket, routing, forced, close, pending>>
      /\ hb' = [hb EXCEPT !.sleep = IF hb.pc = "sleeping" THEN LessOne(hb.sleep) ELSE hb.sleep]
      /\ deadline' = LessOne(deadline)
      /\ lag' = IF pending /\ mode.prompt THEN SmallerOf(lag + 1, MaxLag + 1) ELSE lag
      /\ quiet' = IF conn /\ mode.enforced THEN SmallerOf(quiet + 1, Threshold + 1) ELSE quiet
  BY DEF Tick, link
<1>2. /\ hb' \in Heartbeats /\ hb'.pc = hb.pc /\ hb'.cancelled = hb.cancelled
      /\ hb.sleep = 0 => hb'.sleep = hb.sleep
      /\ hb.pc = "sleeping" /\ hb.sleep # 0 => hb'.sleep = hb.sleep - 1
  BY <1>1 DEF SessionTypes, LessOne
<1>3. SessionTypes'
  <2>1. deadline' \in 0..Threshold /\ quiet' \in 0..Threshold + 1 /\ lag' \in 0..MaxLag + 1
    BY <1>1 DEF SessionTypes, LessOne, SmallerOf
  <2> QED
    BY <1>1, <1>2, <2>1 DEF SessionTypes
<1>4. Held' /\ Attributed' /\ VerdictMatchesClose'
  BY <1>1, <1>2 DEF Held, Attributed, VerdictMatchesClose, Served, Monitoring, NoHeartbeat,
     SessionTypes
<1>5. conn /\ Monitoring /\ mode.enforced =>
        deadline > 0 /\ (hb.pc = "sleeping" => hb.sleep > 0)
  BY DEF Tick, TimersAreDue, Held, SessionTypes
<1>6. Watched'
  BY <1>1, <1>2, <1>5 DEF Watched, Monitoring, SessionTypes, LessOne, SmallerOf
<1>7. Paced'
  <2>1. Served /\ mode.prompt => hb.pc # "sending" /\ (pending => lag < MaxLag)
    BY DEF Tick, PromptServerIsLate, SessionTypes
  <2>2. Served => conn
    BY DEF Held
  <2> QED
    BY <1>1, <1>2, <1>5, <2>1, <2>2
    DEF Paced, Monitoring, Served, SessionTypes, LessOne, SmallerOf
<1> QED
  BY <1>3, <1>4, <1>6, <1>7

\* Every step keeps it.
LEMMA StepIsSound == IInv /\ [Next]_vars => IInv'
<1> SUFFICES ASSUME IInv, [Next]_vars PROVE IInv'
  OBVIOUS
<1>1. CASE Supervisor
  BY <1>1, ConnectFailsIsSound, AdoptsTooLateIsSound, AdoptsIsSound, SessionStartedIsSound,
     RoutingEndsIsSound, EndSessionIsSound, CleanupDoneIsSound, DecideReconnectIsSound,
     WaitEndsIsSound
  DEF Supervisor, Connects
<1>2. CASE Heartbeat
  BY <1>2, BeatsIsSound, BeatSentIsSound, BeatNotSentIsSound, ExpiresIsSound,
     HeartbeatCancelledIsSound, HandleHeartbeatResponseIsSound
  DEF Heartbeat
<1>3. CASE Environment
  BY <1>3, ConnectionClosesIsSound, ClosingEndsIsSound, ServerAnswersIsSound,
     CloseConnectionIsSound, ShutdownIsSound
  DEF Environment
<1>4. CASE StopSupervisor \/ Tick
  BY <1>4, StopSupervisorIsSound, TickIsSound
<1>5. CASE UNCHANGED vars
  BY <1>5 DEF vars, link, beats, history, IInv, SessionTypes, Held, Attributed,
     VerdictMatchesClose, Watched, Paced, Served, Monitoring
<1> QED
  BY <1>1, <1>2, <1>3, <1>4, <1>5 DEF Next

\* So it holds throughout, for every policy, interval and threshold.
LEMMA InvariantHolds == Spec => []IInv
BY InitIsSound, StepIsSound, PTL DEF Spec

-----------------------------------------------------------------------------
(* The theorems *)

\* For every policy, schedule of the heartbeat and order of closes: a policy
\* violation is final if and only if the server closed the session with it.
THEOREM VerdictIsTheServers == Spec => []VerdictMatchesClose
<1>1. IInv => VerdictMatchesClose
  BY DEF IInv
<1> QED
  BY <1>1, InvariantHolds, PTL

\* For every interval and threshold: an open connection that is enforced is never
\* silent for longer than the threshold (_heartbeat_loop).
THEOREM SilenceBound == Spec => []SilenceIsBounded
<1>1. IInv => SilenceIsBounded
  BY ReconnectAssumption DEF IInv, SilenceIsBounded, Watched, SessionTypes
<1> QED
  BY <1>1, InvariantHolds, PTL

\* For every interval and threshold: a server that answers every beat within
\* Threshold - Interval - 1 ticks is never taken for a dead one.
THEOREM PromptServer == Spec => []PromptServerIsKept
<1>1. IInv => PromptServerIsKept
  BY ReconnectAssumption DEF IInv, PromptServerIsKept, Paced, SessionTypes, Monitoring
<1> QED
  BY <1>1, InvariantHolds, PTL

\* For every policy: once shutdown() was called, no refusal or close becomes the
\* error of run_forever() (_retry_after_connect_failure, _decide_reconnect).
THEOREM StopIsNoError == Spec => NoVerdictAfterStop
<1>1. [Next]_vars => [stop => terminal' = terminal]_vars
  <2> SUFFICES ASSUME Next, stop PROVE terminal' = terminal
    BY DEF vars
  <2>1. CASE Supervisor
    BY <2>1 DEF Supervisor, Connects, ConnectFails, FailureIsDecided, AdoptsTooLate, Adopts,
       SessionStarted, RoutingEnds, EndSession, CleanupDone, DecideReconnect, WaitEnds, Exit
  <2>2. CASE Heartbeat
    BY <2>2 DEF Heartbeat, Beats, BeatSent, BeatNotSent, Expires, HeartbeatCancelled,
       HandleHeartbeatResponse
  <2>3. CASE Environment
    BY <2>3 DEF Environment, ConnectionCloses, ClosingEnds, ServerAnswers, CloseConnection,
       Shutdown
  <2> QED
    BY <2>1, <2>2, <2>3 DEF Next, StopSupervisor, Tick
<1> QED
  BY <1>1, PTL DEF Spec, NoVerdictAfterStop

-----------------------------------------------------------------------------
(* Naturals *)

HIDE DEF Sockets, Closes, Heartbeats

\* A set of naturals that is not empty has a least element.
LEMMA Least ==
  ASSUME NEW S \in SUBSET Nat, S # {}
  PROVE  \E n \in S : \A m \in S : n <= m
<1> DEFINE T == {0 .. n : n \in S}
<1>1. T # {}
  OBVIOUS
<1>2. T \subseteq FiniteSubsetsOf(Nat)
  <2>1. \A n \in S : IsFiniteSet(0 .. n) /\ 0 .. n \in SUBSET Nat
    BY FS_Interval
  <2> QED
    BY <2>1 DEF FiniteSubsetsOf
<1>3. IsWellFoundedOn(StrictSubsetOrdering(Nat), FiniteSubsetsOf(Nat))
  BY FS_StrictSubsetOrderingWellFounded
<1>4. PICK x \in T : \A y \in T : ~(<<y, x>> \in StrictSubsetOrdering(Nat))
  <2> HIDE DEF T
  <2> QED
    BY <1>1, <1>2, <1>3, WFMin
<1>5. PICK n \in S : x = 0 .. n
  OBVIOUS
<1>6. ASSUME NEW m \in S, m < n
      PROVE  FALSE
  <2>1. 0 .. m \in T /\ 0 .. m \in SUBSET Nat /\ 0 .. n \in SUBSET Nat
    OBVIOUS
  <2>2. 0 .. m \subseteq 0 .. n /\ n \in 0 .. n /\ n \notin 0 .. m
    BY <1>6
  <2>3. 0 .. m # 0 .. n
    BY <2>2
  <2>4. <<0 .. m, 0 .. n>> \in StrictSubsetOrdering(Nat)
    BY <2>1, <2>2, <2>3 DEF StrictSubsetOrdering
  <2> QED
    BY <1>4, <1>5, <2>1, <2>4
<1> QED
  BY <1>6

-----------------------------------------------------------------------------
(* The arithmetic of delays *)

\* Z3 finds the sign of a product only where nothing else is to be shown.
LEMMA ProductIsNat ==
  ASSUME NEW a \in Nat, NEW b \in Nat PROVE a * b \in Nat
OBVIOUS

LEMMA QuarterIsNat ==
  ASSUME NEW a \in Nat, NEW b \in Nat
  PROVE  (a * b) \div 4 \in Nat /\ a \div 2 \in Nat
OBVIOUS

\* Every delay of the policy is one that the supervisor can wait for.
LEMMA BackoffsAreDelays ==
  ASSUME NEW attempt \in 0..MaxAttempt, ~Overflows(attempt), NEW count \in Nat
  PROVE  Backoffs(attempt, count) \subseteq Nat
<1> USE ReconnectDeciderAssumption
<1>1. ExponentialDelay(attempt) \in Nat
  <2>1. Policy.factor ^ attempt \in Nat
    BY PowersAssumption DEF Overflows
  <2>2. Policy.base_delay \in Nat /\ Policy.max_delay \in Nat
    BY DEF PolicyFields
  <2>3. Policy.base_delay * Policy.factor ^ attempt \in Nat
    BY <2>1, <2>2, ProductIsNat
  <2> QED
    BY <2>2, <2>3 DEF ExponentialDelay, SmallerOf
<1>2. RapidFloor(count) \in Nat
  <2>1. /\ Policy.rapid_first_min \in Nat /\ Policy.rapid_second_min \in Nat
        /\ Policy.rapid_cooldown_base \in Nat /\ Policy.rapid_cooldown_step \in Nat
        /\ Policy.rapid_cooldown_max \in Nat
    BY DEF PolicyFields
  <2>2. ASSUME NEW steps \in Nat PROVE CooldownFloor(steps) \in Nat
    <3>1. Policy.rapid_cooldown_step * steps \in Nat
      BY <2>1, ProductIsNat
    <3> QED
      BY <2>1, <3>1 DEF CooldownFloor, SmallerOf
  <2>3. CASE count \in {0, 1, 2}
    BY <2>1, <2>3 DEF RapidFloor
  <2>4. CASE count \notin {0, 1, 2}
    <3>1. count - 3 \in Nat
      BY <2>4
    <3>2. RapidFloor(count) = CooldownFloor(count - 3)
      BY <2>4 DEF RapidFloor
    <3> QED
      BY <2>2, <3>1, <3>2
  <2> QED
    BY <2>3, <2>4
<1>3. Policy.hold_down_low \in Nat /\ Policy.hold_down_high \in Nat
  BY DEF PolicyFields
<1> DEFINE delay == LargerOf(ExponentialDelay(attempt), RapidFloor(count))
<1>4. delay \in Nat
  BY <1>1, <1>2 DEF LargerOf
<1> HIDE DEF delay
<1>5. /\ delay \div 2 \in Nat
      /\ (delay * Policy.hold_down_low) \div 4 \in Nat
      /\ (delay * Policy.hold_down_high) \div 4 \in Nat
  BY <1>3, <1>4, QuarterIsNat
<1>6. Backoffs(attempt, count) \subseteq
        {delay \div 2, delay, (delay * Policy.hold_down_low) \div 4,
         (delay * Policy.hold_down_high) \div 4}
  BY DEF Backoffs, delay
<1> QED
  BY <1>4, <1>5, <1>6

LEMMA CloseDelaysAreDelays ==
  ASSUME NEW code PROVE CloseDelays(code) \subseteq Nat
<1>1. /\ Policy.service_restart_min \in Nat /\ Policy.service_restart_max \in Nat
      /\ Policy.try_again_later_min \in Nat /\ Policy.try_again_later_max \in Nat
  BY ReconnectDeciderAssumption DEF PolicyFields
<1> QED
  BY <1>1 DEF CloseDelays

-----------------------------------------------------------------------------
(* The churn history *)

\* The window, and the first age that is out of it.
LEMMA WindowIsNat ==
  Policy.rapid_window \in Nat /\ Expired = Policy.rapid_window + 1 /\ Expired \in Nat
<1>1. Policy.rapid_window \in Nat
  BY ReconnectDeciderAssumption DEF PolicyFields
<1> QED
  BY <1>1 DEF Expired

\* The oldest come first.
Ordered(ages) == \A i, j \in DOMAIN ages : i < j => ages[i] >= ages[j]

\* So many of the oldest are out of the window.
OutOfWindow(ages, n) ==
  /\ n \in 0..Len(ages)
  /\ \A i \in 1..n : ages[i] > Policy.rapid_window
  /\ n < Len(ages) => ages[n + 1] <= Policy.rapid_window

\* There always is such a number: it is the least that leaves nothing old in front.
LEMMA SomeAreOut ==
  ASSUME NEW ages \in Seq(Nat) PROVE \E n : OutOfWindow(ages, n)
<1>0. Policy.rapid_window \in Nat /\ Len(ages) \in Nat
  BY ReconnectDeciderAssumption DEF PolicyFields
<1> DEFINE S == {n \in 0..Len(ages) : n < Len(ages) => ages[n + 1] <= Policy.rapid_window}
<1>1. Len(ages) \in S
  BY <1>0
<1>2. S \in SUBSET Nat /\ S # {}
  BY <1>0, <1>1
<1>3. PICK n \in S : \A m \in S : n <= m
  <2> HIDE DEF S
  <2> QED
    BY <1>2, Least
<1>4. ASSUME NEW i \in 1..n PROVE ages[i] > Policy.rapid_window
  <2>1. i - 1 \in 0..Len(ages) /\ i - 1 < Len(ages) /\ (i - 1) + 1 = i
    BY <1>0
  <2>2. i - 1 \notin S
    <3>1. n \in 0..Len(ages)
      OBVIOUS
    <3>2. ~(n <= i - 1)
      BY <3>1, <1>0
    <3> HIDE DEF S
    <3> QED
      BY <1>3, <3>2
  <2>3. ~(ages[(i - 1) + 1] <= Policy.rapid_window)
    BY <2>1, <2>2
  <2>4. ages[i] \in Nat
    BY <1>0
  <2> QED
    BY <1>0, <2>1, <2>3, <2>4
<1> QED
  BY <1>4 DEF OutOfWindow

\* Recent drops just these.
LEMMA RecentDrops ==
  ASSUME NEW ages \in Seq(Nat)
  PROVE  \E n : OutOfWindow(ages, n) /\ Recent(ages) = SubSeq(ages, n + 1, Len(ages))
<1> DEFINE P(n) == /\ \A i \in 1..n : ages[i] > Policy.rapid_window
                   /\ n < Len(ages) => ages[n + 1] <= Policy.rapid_window
           dropped == CHOOSE n \in 0..Len(ages) : P(n)
<1>1. \E n \in 0..Len(ages) : P(n)
  BY SomeAreOut DEF OutOfWindow
<1>2. dropped \in 0..Len(ages) /\ P(dropped)
  <2> HIDE DEF P
  <2> QED
    BY <1>1
<1>3. OutOfWindow(ages, dropped)
  <2> HIDE DEF dropped
  <2> QED
    BY <1>2 DEF OutOfWindow
<1>4. Recent(ages) = SubSeq(ages, dropped + 1, Len(ages))
  BY DEF Recent
<1> QED
  BY <1>3, <1>4

\* What is left when a prefix is dropped.
LEMMA Suffix ==
  ASSUME NEW T, NEW s \in Seq(T), NEW n \in 0..Len(s)
  PROVE  LET rest == SubSeq(s, n + 1, Len(s))
         IN  /\ rest \in Seq(T) /\ Len(rest) = Len(s) - n
             /\ \A i \in 1..Len(s) - n : rest[i] = s[i + n]
<1>1. Len(s) \in Nat
  OBVIOUS
<1>2. n + 1 \in 1..Len(s) + 1 /\ Len(s) \in n..Len(s)
  BY <1>1
<1>3. SubSeq(s, n + 1, Len(s)) \in Seq(T)
  BY <1>1, <1>2, SubSeqProperties
<1>4. Len(SubSeq(s, n + 1, Len(s))) = Len(s) - n
  BY <1>1, <1>2, SubSeqProperties
<1>5. \A i \in 1..Len(s) - n : SubSeq(s, n + 1, Len(s))[i] = s[i + n]
  BY <1>1, <1>2, SubSeqProperties
<1> QED
  BY <1>3, <1>4, <1>5

\* What the decider remembers agrees with what happened, the latest disconnect
\* with the latest: it may still hold those that are out of the window, and may
\* have forgotten those that leave it by now.
Mirrored(rapid, ages) ==
  LET shift == Len(ages) - Len(rapid)
  IN  /\ Ordered(rapid) /\ Ordered(ages)
      /\ \A j \in 1..Len(ages) : ages[j] <= Policy.rapid_window
      /\ \A i \in 1..Len(rapid) :
           IF i + shift \in 1..Len(ages) THEN rapid[i] = ages[i + shift]
           ELSE rapid[i] = Expired
      /\ \A j \in 1..Len(ages) :
           j - shift \in 1..Len(rapid) \/ ages[j] >= Policy.rapid_window

\* A disconnect is the same news for both.
LEMMA MirroredDisconnect ==
  ASSUME NEW rapid \in Seq(0..Expired), NEW ages \in Seq(Nat), NEW uptime \in Nat,
         Mirrored(rapid, ages)
  PROVE  /\ WithDisconnect(rapid, uptime) \in Seq(0..Expired)
         /\ WithDisconnect(ages, uptime) \in Seq(Nat)
         /\ Mirrored(WithDisconnect(rapid, uptime), WithDisconnect(ages, uptime))
<1>0. Policy.rapid_window \in Nat /\ Expired \in Nat
  BY WindowIsNat
<1>1. CASE ~(uptime < Policy.rapid_disconnect_uptime)
  BY <1>1 DEF WithDisconnect
<1>2. CASE uptime < Policy.rapid_disconnect_uptime
  <2> DEFINE r == Append(rapid, 0)
             c == Append(ages, 0)
             shift == Len(ages) - Len(rapid)
  <2>1. /\ r \in Seq(0..Expired) /\ Len(r) = Len(rapid) + 1 /\ r[Len(rapid) + 1] = 0
        /\ \A i \in 1..Len(rapid) : r[i] = rapid[i]
    BY <1>0
  <2>2. /\ c \in Seq(Nat) /\ Len(c) = Len(ages) + 1 /\ c[Len(ages) + 1] = 0
        /\ \A i \in 1..Len(ages) : c[i] = ages[i]
    OBVIOUS
  <2>3. Len(rapid) \in Nat /\ Len(ages) \in Nat /\ Len(c) - Len(r) = shift
    BY <2>1, <2>2
  <2>4. \A i \in 1..Len(rapid) : rapid[i] \in Nat
    BY <1>0
  <2>5. \A i \in 1..Len(ages) : ages[i] \in Nat
    OBVIOUS
  <2>6. DOMAIN rapid = 1..Len(rapid) /\ DOMAIN ages = 1..Len(ages)
        /\ DOMAIN r = 1..Len(r) /\ DOMAIN c = 1..Len(c)
    BY <2>1, <2>2
  <2>d. shift = Len(ages) - Len(rapid)
    OBVIOUS
  <2> HIDE DEF r, c, shift
  <2>m. /\ Ordered(rapid) /\ Ordered(ages)
        /\ \A j \in 1..Len(ages) : ages[j] <= Policy.rapid_window
        /\ \A i \in 1..Len(rapid) :
             IF i + shift \in 1..Len(ages) THEN rapid[i] = ages[i + shift]
             ELSE rapid[i] = Expired
        /\ \A j \in 1..Len(ages) :
             j - shift \in 1..Len(rapid) \/ ages[j] >= Policy.rapid_window
    BY <2>d DEF Mirrored
  <2>7. Ordered(r)
    <3> SUFFICES ASSUME NEW i \in 1..Len(r), NEW j \in 1..Len(r), i < j
                 PROVE  r[i] >= r[j]
      BY <2>6 DEF Ordered
    <3>1. i \in 1..Len(rapid)
      BY <2>1, <2>3
    <3>2. CASE j = Len(rapid) + 1
      BY <2>1, <2>4, <3>1, <3>2
    <3>3. CASE j \in 1..Len(rapid)
      BY <2>1, <2>4, <2>6, <2>m, <3>1, <3>3 DEF Ordered
    <3> QED
      BY <2>1, <2>3, <3>2, <3>3
  <2>8. Ordered(c)
    <3> SUFFICES ASSUME NEW i \in 1..Len(c), NEW j \in 1..Len(c), i < j
                 PROVE  c[i] >= c[j]
      BY <2>6 DEF Ordered
    <3>1. i \in 1..Len(ages)
      BY <2>2, <2>3
    <3>2. CASE j = Len(ages) + 1
      BY <2>2, <2>5, <3>1, <3>2
    <3>3. CASE j \in 1..Len(ages)
      BY <2>2, <2>5, <2>6, <2>m, <3>1, <3>3 DEF Ordered
    <3>4. Len(c) = Len(ages) + 1 /\ Len(ages) \in Nat
      BY <2>2, <2>3
    <3>5. j = Len(ages) + 1 \/ j \in 1..Len(ages)
      BY <3>4
    <3> QED
      BY <3>2, <3>3, <3>5
  <2>9. ASSUME NEW j \in 1..Len(c) PROVE c[j] <= Policy.rapid_window
    <3>1. CASE j = Len(ages) + 1
      BY <1>0, <2>2, <3>1
    <3>2. CASE j \in 1..Len(ages)
      BY <2>2, <2>m, <3>2
    <3> QED
      BY <2>2, <2>3, <3>1, <3>2
  <2>10. ASSUME NEW i \in 1..Len(r)
         PROVE  IF i + shift \in 1..Len(c) THEN r[i] = c[i + shift] ELSE r[i] = Expired
    <3>1. CASE i = Len(rapid) + 1
      <4>1. i + shift = Len(ages) + 1 /\ i + shift \in 1..Len(c)
        BY <2>2, <2>3, <2>d, <3>1
      <4> QED
        BY <2>1, <2>2, <3>1, <4>1
    <3>2. CASE i \in 1..Len(rapid)
      <4>1. i + shift \in 1..Len(c) <=> i + shift \in 1..Len(ages)
        BY <2>2, <2>3, <2>d, <3>2
      <4> QED
        BY <2>1, <2>2, <2>m, <3>2, <4>1
    <3> QED
      BY <2>1, <2>3, <3>1, <3>2
  <2>12. ASSUME NEW j \in 1..Len(c)
         PROVE  j - shift \in 1..Len(r) \/ c[j] >= Policy.rapid_window
    <3>1. CASE j = Len(ages) + 1
      BY <2>1, <2>2, <2>3, <2>d, <3>1
    <3>2. CASE j \in 1..Len(ages)
      <4>1. j - shift \in 1..Len(rapid) => j - shift \in 1..Len(r)
        BY <2>1, <2>3
      <4> QED
        BY <2>2, <2>m, <3>2, <4>1
    <3> QED
      BY <2>2, <2>3, <3>1, <3>2
  <2>11. Mirrored(r, c)
    BY <2>3, <2>7, <2>8, <2>9, <2>10, <2>12 DEF Mirrored
  <2> QED
    BY <1>2, <2>1, <2>2, <2>11 DEF WithDisconnect, r, c
<1> QED
  BY <1>1, <1>2

\* Forgetting what is out of the window leaves only what is within it.
LEMMA MirroredRecent ==
  ASSUME NEW rapid \in Seq(0..Expired), NEW ages \in Seq(Nat), Mirrored(rapid, ages)
  PROVE  /\ Mirrored(Recent(rapid), ages)
         /\ \A i \in 1..Len(Recent(rapid)) : Recent(rapid)[i] <= Policy.rapid_window
<1>0. Policy.rapid_window \in Nat /\ Expired \in Nat
  BY WindowIsNat
<1>1. rapid \in Seq(Nat)
  BY <1>0
<1>2. PICK n : OutOfWindow(rapid, n) /\ Recent(rapid) = SubSeq(rapid, n + 1, Len(rapid))
  BY <1>1, RecentDrops
<1> DEFINE r == Recent(rapid)
           shift == Len(ages) - Len(rapid)
<1>3. n \in 0..Len(rapid) /\ Len(rapid) \in Nat /\ Len(ages) \in Nat
  BY <1>2 DEF OutOfWindow
<1>4. /\ r \in Seq(Nat) /\ Len(r) = Len(rapid) - n
      /\ \A i \in 1..Len(rapid) - n : r[i] = rapid[i + n]
  BY <1>1, <1>2, <1>3, Suffix
<1>5. DOMAIN rapid = 1..Len(rapid) /\ DOMAIN r = 1..Len(r)
  BY <1>4
<1>6. \A i \in 1..Len(rapid) : rapid[i] \in Nat
  BY <1>1
<1>d. shift = Len(ages) - Len(rapid) /\ Len(ages) - Len(r) = shift + n
  BY <1>3, <1>4
<1> HIDE DEF r, shift
<1>7. Ordered(r)
  <2> SUFFICES ASSUME NEW i \in 1..Len(r), NEW j \in 1..Len(r), i < j
               PROVE  r[i] >= r[j]
    BY <1>5 DEF Ordered
  <2>1. i + n \in 1..Len(rapid) /\ j + n \in 1..Len(rapid) /\ i + n < j + n
    BY <1>3, <1>4
  <2> QED
    BY <1>3, <1>4, <1>5, <2>1 DEF Mirrored, Ordered
<1>8. ASSUME NEW i \in 1..Len(r) PROVE r[i] <= Policy.rapid_window
  <2>1. n < Len(rapid) /\ r[i] = rapid[i + n] /\ i + n \in 1..Len(rapid)
    BY <1>3, <1>4
  <2>2. rapid[n + 1] <= Policy.rapid_window /\ n + 1 \in 1..Len(rapid)
    BY <1>2, <1>3, <2>1 DEF OutOfWindow
  <2>3. rapid[n + 1] >= rapid[i + n]
    <3>1. CASE i = 1
      BY <3>1, <1>3, <1>6, <2>2
    <3>2. CASE i # 1
      <4>1. n + 1 < i + n
        BY <3>2, <1>3, <1>4
      <4> QED
        BY <4>1, <1>5, <2>1, <2>2 DEF Mirrored, Ordered
    <3> QED
      BY <3>1, <3>2
  <2> QED
    BY <1>0, <1>6, <2>1, <2>2, <2>3
<1>9. ASSUME NEW i \in 1..Len(r)
      PROVE  IF i + (shift + n) \in 1..Len(ages) THEN r[i] = ages[i + (shift + n)]
             ELSE r[i] = Expired
  <2>1. i + n \in 1..Len(rapid) /\ (i + n) + shift = i + (shift + n)
    BY <1>3, <1>4, <1>d
  <2>2. IF (i + n) + shift \in 1..Len(ages) THEN rapid[i + n] = ages[(i + n) + shift]
        ELSE rapid[i + n] = Expired
    BY <2>1, <1>d DEF Mirrored
  <2> QED
    BY <1>4, <2>1, <2>2
<1>10. ASSUME NEW j \in 1..Len(ages)
       PROVE  j - (shift + n) \in 1..Len(r) \/ ages[j] >= Policy.rapid_window
  <2>1. j - shift \in 1..Len(rapid) \/ ages[j] >= Policy.rapid_window
    BY <1>d DEF Mirrored
  <2>2. CASE j - shift \in 1..n
    <3>1. rapid[j - shift] > Policy.rapid_window
      BY <1>2, <2>2 DEF OutOfWindow
    <3>2. (j - shift) + shift = j /\ j - shift \in 1..Len(rapid)
      BY <1>3, <1>d, <2>2
    <3>3. rapid[j - shift] = ages[j]
      BY <3>2, <1>d DEF Mirrored
    <3>4. ages[j] \in Nat
      OBVIOUS
    <3> QED
      BY <1>0, <3>1, <3>3, <3>4
  <2>3. CASE j - shift \in 1..Len(rapid) /\ j - shift \notin 1..n
    <3>1. j - (shift + n) \in 1..Len(r)
      BY <1>3, <1>4, <1>d, <2>3
    <3> QED
      BY <3>1
  <2> QED
    BY <2>1, <2>2, <2>3
<1>11. Ordered(ages) /\ \A j \in 1..Len(ages) : ages[j] <= Policy.rapid_window
  BY DEF Mirrored
<1>12. Mirrored(r, ages)
  BY <1>d, <1>7, <1>9, <1>10, <1>11 DEF Mirrored
<1> QED
  BY <1>8, <1>12 DEF r

\* A stable connection clears what the decider remembers of disconnects that are
\* at least as old as the connection.
LEMMA MirroredCleared ==
  ASSUME NEW rapid, NEW ages \in Seq(Nat), Mirrored(rapid, ages),
         \A j \in 1..Len(ages) : ages[j] >= Policy.rapid_window
  PROVE  Mirrored(<<>>, ages)
<1>1. Len(<<>>) = 0 /\ Ordered(<<>>)
  BY DEF Ordered
<1>2. Ordered(ages) /\ \A j \in 1..Len(ages) : ages[j] <= Policy.rapid_window
  BY DEF Mirrored
<1> QED
  BY <1>1, <1>2 DEF Mirrored

\* The rapid disconnects within the window are all remembered ...
LEMMA RapidAreRemembered ==
  ASSUME NEW rapid \in Seq(0..Expired), NEW ages \in Seq(Nat), Mirrored(rapid, ages)
  PROVE  Cardinality({j \in DOMAIN ages : ages[j] < Policy.rapid_window}) <= Len(rapid)
<1> DEFINE shift == Len(ages) - Len(rapid)
           latest == shift + 1 .. shift + Len(rapid)
           young == {j \in DOMAIN ages : ages[j] < Policy.rapid_window}
<1>1. Len(ages) \in Nat /\ Len(rapid) \in Nat /\ shift \in Int
  OBVIOUS
<1>2. Policy.rapid_window \in Nat
  BY ReconnectDeciderAssumption DEF PolicyFields
<1>3. young \subseteq latest
  <2> SUFFICES ASSUME NEW j \in young PROVE j \in latest
    OBVIOUS
  <2>1. j \in 1..Len(ages) /\ ages[j] < Policy.rapid_window /\ ages[j] \in Nat
    OBVIOUS
  <2>2. ~(ages[j] >= Policy.rapid_window)
    BY <1>2, <2>1
  <2>3. j - shift \in 1..Len(rapid)
    BY <2>1, <2>2 DEF Mirrored
  <2> QED
    BY <1>1, <2>1, <2>3
<1>4. IsFiniteSet(latest) /\ Cardinality(latest) = Len(rapid)
  <2> HIDE DEF shift
  <2>0. shift + 1 \in Int /\ shift + Len(rapid) \in Int
    BY <1>1
  <2>1. /\ IsFiniteSet(latest)
        /\ Cardinality(latest) =
             IF shift + 1 > shift + Len(rapid) THEN 0
             ELSE (shift + Len(rapid)) - (shift + 1) + 1
    BY <2>0, FS_Interval
  <2> QED
    BY <1>1, <2>1
<1> HIDE DEF latest, young
<1>5. Cardinality(young) <= Cardinality(latest)
  BY <1>3, <1>4, FS_Subset
<1> QED
  BY <1>4, <1>5 DEF young

\* ... and after forgetting, nothing else is.
LEMMA RememberedAreRapid ==
  ASSUME NEW rapid \in Seq(0..Expired), NEW ages \in Seq(Nat), Mirrored(rapid, ages),
         \A i \in 1..Len(rapid) : rapid[i] <= Policy.rapid_window
  PROVE  Cardinality({j \in DOMAIN ages : ages[j] < Policy.rapid_window + 1})
           >= Len(rapid)
<1> DEFINE shift == Len(ages) - Len(rapid)
           latest == shift + 1 .. shift + Len(rapid)
           young == {j \in DOMAIN ages : ages[j] < Policy.rapid_window + 1}
<1>1. Len(ages) \in Nat /\ Len(rapid) \in Nat /\ shift \in Int
  OBVIOUS
<1>2. Policy.rapid_window \in Nat /\ Expired = Policy.rapid_window + 1
  BY WindowIsNat
<1>3. latest \subseteq young
  <2> SUFFICES ASSUME NEW j \in latest PROVE j \in young
    OBVIOUS
  <2>1. j - shift \in 1..Len(rapid) /\ (j - shift) + shift = j
    BY <1>1
  <2>2. rapid[j - shift] <= Policy.rapid_window /\ rapid[j - shift] \in Nat
    BY <1>2, <2>1
  <2>3. IF (j - shift) + shift \in 1..Len(ages)
        THEN rapid[j - shift] = ages[(j - shift) + shift]
        ELSE rapid[j - shift] = Expired
    BY <2>1 DEF Mirrored
  <2>4. j \in 1..Len(ages) /\ ages[j] <= Policy.rapid_window
    <3> HIDE DEF shift, latest
    <3> QED
      BY <1>2, <2>1, <2>2, <2>3
  <2>5. ages[j] \in Nat /\ DOMAIN ages = 1..Len(ages)
    BY <2>4
  <2>6. ages[j] < Policy.rapid_window + 1
    BY <1>2, <2>4, <2>5
  <2> QED
    BY <2>4, <2>5, <2>6
<1>4. Cardinality(latest) = Len(rapid)
  <2> HIDE DEF shift
  <2>0. shift + 1 \in Int /\ shift + Len(rapid) \in Int
    BY <1>1
  <2>1. /\ IsFiniteSet(latest)
        /\ Cardinality(latest) =
             IF shift + 1 > shift + Len(rapid) THEN 0
             ELSE (shift + Len(rapid)) - (shift + 1) + 1
    BY <2>0, FS_Interval
  <2> QED
    BY <1>1, <2>1
<1>5. IsFiniteSet(young)
  <2>1. IsFiniteSet(1..Len(ages))
    BY <1>1, FS_Interval
  <2>2. young \subseteq 1..Len(ages)
    OBVIOUS
  <2> HIDE DEF young
  <2> QED
    BY <2>1, <2>2, FS_Subset
<1> HIDE DEF latest, young
<1>6. Cardinality(latest) <= Cardinality(young) /\ Cardinality(young) \in Nat
  BY <1>3, <1>5, FS_Subset, FS_CardinalityType
<1> QED
  BY <1>1, <1>4, <1>6 DEF young

\* Time makes every age grow alike.
Older(ages, ticks) == [i \in DOMAIN ages |-> ages[i] + ticks]

Remembered(rapid, ticks) ==
  [i \in DOMAIN rapid |-> SmallerOf(rapid[i] + ticks, Expired)]

\* What a tick drops of the history is its oldest part.
LEMMA StaleAreOldest ==
  ASSUME NEW ages \in Seq(Nat), Ordered(ages)
  PROVE  LET stale == {i \in DOMAIN ages : ages[i] > Policy.rapid_window}
         IN  /\ OutOfWindow(ages, Cardinality(stale))
             /\ \A i \in 1..Len(ages) :
                  i > Cardinality(stale) => ages[i] <= Policy.rapid_window
<1> DEFINE stale == {i \in DOMAIN ages : ages[i] > Policy.rapid_window}
<1>1. PICK n : OutOfWindow(ages, n)
  BY SomeAreOut
<1>2. n \in 0..Len(ages) /\ Len(ages) \in Nat /\ DOMAIN ages = 1..Len(ages)
  BY <1>1 DEF OutOfWindow
<1>3. ASSUME NEW i \in 1..Len(ages), i > n PROVE ages[i] <= Policy.rapid_window
  <2>1. n + 1 \in 1..Len(ages) /\ ages[n + 1] <= Policy.rapid_window
    BY <1>1, <1>2, <1>3 DEF OutOfWindow
  <2>2. ages[n + 1] \in Nat /\ ages[i] \in Nat
    BY <2>1
  <2>3. ages[n + 1] >= ages[i]
    <3>1. CASE i = n + 1
      BY <2>2, <3>1
    <3>2. CASE i # n + 1
      <4>1. n + 1 < i
        BY <1>2, <1>3, <3>2
      <4> QED
        BY <1>2, <2>1, <4>1 DEF Ordered
    <3> QED
      BY <3>1, <3>2
  <2> QED
    BY <2>1, <2>2, <2>3, WindowIsNat
<1>4. stale = 1..n
  <2>1. ASSUME NEW i \in 1..Len(ages) PROVE ages[i] > Policy.rapid_window <=> i <= n
    <3>1. ages[i] \in Nat /\ Policy.rapid_window \in Nat
      BY WindowIsNat
    <3>2. CASE i <= n
      <4>1. i \in 1..n
        BY <1>2, <3>2
      <4> QED
        BY <1>1, <3>2, <4>1 DEF OutOfWindow
    <3>3. CASE ~(i <= n)
      <4>1. i > n
        BY <1>2, <3>3
      <4> QED
        BY <1>3, <3>1, <3>3, <4>1
    <3> QED
      BY <3>2, <3>3
  <2>2. stale = {i \in 1..Len(ages) : i <= n}
    BY <1>2, <2>1
  <2> QED
    BY <1>2, <2>2
<1>5. Cardinality(1..n) = n
  <2>1. Cardinality(1..n) = IF 1 > n THEN 0 ELSE n - 1 + 1
    BY <1>2, FS_Interval
  <2> QED
    BY <1>2, <2>1
<1> HIDE DEF stale
<1>6. Cardinality(stale) = n
  BY <1>4, <1>5
<1>7. OutOfWindow(ages, Cardinality(stale))
  BY <1>1, <1>6
<1>8. \A i \in 1..Len(ages) : i > Cardinality(stale) => ages[i] <= Policy.rapid_window
  BY <1>3, <1>6
<1> QED
  BY <1>7, <1>8 DEF stale

LEMMA SmallerIsMonotone ==
  ASSUME NEW a \in Nat, NEW b \in Nat, a >= b, NEW ticks \in Nat, NEW top \in Nat
  PROVE  SmallerOf(a + ticks, top) >= SmallerOf(b + ticks, top)
BY DEF SmallerOf

\* So the two still agree when time has passed.
LEMMA MirroredOlder ==
  ASSUME NEW rapid \in Seq(0..Expired), NEW ages \in Seq(Nat), NEW ticks \in Nat,
         NEW n, OutOfWindow(Older(ages, ticks), n),
         \A i \in 1..Len(Older(ages, ticks)) :
           i > n => Older(ages, ticks)[i] <= Policy.rapid_window,
         Mirrored(rapid, ages)
  PROVE  Mirrored(Remembered(rapid, ticks),
                  SubSeq(Older(ages, ticks), n + 1, Len(Older(ages, ticks))))
<1> DEFINE older == Older(ages, ticks)
           r == Remembered(rapid, ticks)
           c == SubSeq(older, n + 1, Len(older))
           shift == Len(ages) - Len(rapid)
<1>0. Policy.rapid_window \in Nat /\ Expired = Policy.rapid_window + 1 /\ Expired \in Nat
  BY WindowIsNat
<1>1. /\ older \in Seq(Nat) /\ Len(older) = Len(ages)
      /\ \A i \in 1..Len(ages) : older[i] = ages[i] + ticks
  BY DEF Older
<1>2. /\ Len(r) = Len(rapid) /\ DOMAIN r = 1..Len(rapid)
      /\ \A i \in 1..Len(rapid) : r[i] = SmallerOf(rapid[i] + ticks, Expired)
  BY DEF Remembered
<1>3. n \in 0..Len(ages) /\ Len(ages) \in Nat /\ Len(rapid) \in Nat
  BY <1>1 DEF OutOfWindow
<1>4. /\ c \in Seq(Nat) /\ Len(c) = Len(ages) - n
      /\ \A i \in 1..Len(ages) - n : c[i] = older[i + n]
  <2>1. n \in 0..Len(older)
    BY <1>1, <1>3
  <2> HIDE DEF older
  <2> QED
    BY <1>1, <2>1, Suffix
<1>5. /\ \A i \in 1..Len(rapid) : rapid[i] \in Nat /\ rapid[i] <= Expired
      /\ \A j \in 1..Len(ages) : ages[j] \in Nat
      /\ DOMAIN rapid = 1..Len(rapid) /\ DOMAIN ages = 1..Len(ages)
      /\ DOMAIN c = 1..Len(c)
  <2>1. \A i \in 1..Len(rapid) : rapid[i] \in 0..Expired
    BY ElementOfSeq
  <2>2. \A i \in 1..Len(rapid) : rapid[i] \in Nat /\ rapid[i] <= Expired
    BY <1>0, <2>1
  <2>3. DOMAIN c = 1..Len(c)
    BY <1>4
  <2>4. DOMAIN rapid = 1..Len(rapid)
    BY LenProperties
  <2>5. \A j \in 1..Len(ages) : ages[j] \in Nat
    BY ElementOfSeq
  <2>6. DOMAIN ages = 1..Len(ages)
    OBVIOUS
  <2> QED
    BY <2>2, <2>3, <2>4, <2>5, <2>6
<1>6. /\ \A j \in 1..n : older[j] > Policy.rapid_window
      /\ \A i \in 1..Len(ages) : i > n => older[i] <= Policy.rapid_window
  BY <1>1 DEF OutOfWindow
<1>d. shift = Len(ages) - Len(rapid) /\ Len(c) - Len(r) = shift - n /\ shift \in Int
  BY <1>2, <1>3, <1>4
<1>m. /\ Ordered(rapid) /\ Ordered(ages)
      /\ \A i \in 1..Len(rapid) :
           IF i + shift \in 1..Len(ages) THEN rapid[i] = ages[i + shift]
           ELSE rapid[i] = Expired
      /\ \A j \in 1..Len(ages) :
           j - shift \in 1..Len(rapid) \/ ages[j] >= Policy.rapid_window
  BY <1>d DEF Mirrored
<1> HIDE DEF older, r, c, shift
<1>7. Ordered(r)
  <2> SUFFICES ASSUME NEW i \in 1..Len(rapid), NEW j \in 1..Len(rapid), i < j
               PROVE  r[i] >= r[j]
    BY <1>2 DEF Ordered
  <2>1. rapid[i] >= rapid[j]
    BY <1>5, <1>m DEF Ordered
  <2>2. /\ r[i] = SmallerOf(rapid[i] + ticks, Expired)
        /\ r[j] = SmallerOf(rapid[j] + ticks, Expired)
        /\ rapid[i] \in Nat /\ rapid[j] \in Nat
    BY <1>2, <1>5
  <2> QED
    BY <1>0, <2>1, <2>2, SmallerIsMonotone
<1>8. Ordered(c)
  <2> SUFFICES ASSUME NEW i \in 1..Len(c), NEW j \in 1..Len(c), i < j
               PROVE  c[i] >= c[j]
    BY <1>5 DEF Ordered
  <2>1. i + n \in 1..Len(ages) /\ j + n \in 1..Len(ages) /\ i + n < j + n
    BY <1>3, <1>4
  <2>2. ages[i + n] >= ages[j + n]
    BY <1>5, <1>m, <2>1 DEF Ordered
  <2>3. c[i] = ages[i + n] + ticks /\ c[j] = ages[j + n] + ticks
    BY <1>1, <1>4, <2>1
  <2> QED
    BY <1>5, <2>1, <2>2, <2>3
<1>9. ASSUME NEW j \in 1..Len(c) PROVE c[j] <= Policy.rapid_window
  <2>1. j + n \in 1..Len(ages) /\ j + n > n /\ c[j] = older[j + n]
    BY <1>3, <1>4
  <2> QED
    BY <1>6, <2>1
<1>10. ASSUME NEW i \in 1..Len(rapid)
       PROVE  IF i + (shift - n) \in 1..Len(c) THEN r[i] = c[i + (shift - n)]
              ELSE r[i] = Expired
  <2>1. r[i] = SmallerOf(rapid[i] + ticks, Expired) /\ rapid[i] \in Nat
    BY <1>2, <1>5
  <2>2. CASE i + shift \in 1..Len(ages)
    <3>1. older[i + shift] = rapid[i] + ticks /\ older[i + shift] \in Nat
      BY <1>1, <1>m, <2>1, <2>2
    <3>2. CASE i + shift > n
      <4>1. older[i + shift] <= Policy.rapid_window
        BY <1>6, <2>2, <3>2
      <4>2. r[i] = older[i + shift]
        BY <1>0, <2>1, <3>1, <4>1 DEF SmallerOf
      <4>3. i + (shift - n) \in 1..Len(c) /\ (i + (shift - n)) + n = i + shift
        BY <1>3, <1>4, <1>d, <2>2, <3>2
      <4>4. c[i + (shift - n)] = older[i + shift]
        BY <1>4, <4>3
      <4> QED
        BY <4>2, <4>3, <4>4
    <3>3. CASE ~(i + shift > n)
      <4>1. i + shift \in 1..n
        BY <1>3, <1>d, <2>2, <3>3
      <4>2. older[i + shift] > Policy.rapid_window
        BY <1>6, <4>1
      <4>3. r[i] = Expired
        BY <1>0, <2>1, <3>1, <4>2 DEF SmallerOf
      <4>4. i + (shift - n) \notin 1..Len(c)
        BY <1>3, <1>d, <4>1
      <4> QED
        BY <4>3, <4>4
    <3> QED
      BY <3>2, <3>3
  <2>3. CASE i + shift \notin 1..Len(ages)
    <3>1. r[i] = Expired
      BY <1>0, <1>m, <2>1, <2>3 DEF SmallerOf
    <3>2. i + (shift - n) \notin 1..Len(c)
      BY <1>3, <1>4, <1>d, <2>3
    <3> QED
      BY <3>1, <3>2
  <2> QED
    BY <2>2, <2>3
<1>11. ASSUME NEW j \in 1..Len(c)
       PROVE  j - (shift - n) \in 1..Len(rapid) \/ c[j] >= Policy.rapid_window
  <2>l. Len(c) = Len(ages) - n
    BY <1>4
  <2>0. j \in 1..Len(ages) - n /\ j + n \in 1..Len(ages)
    BY <1>3, <2>l
  <2>1. c[j] = ages[j + n] + ticks /\ ages[j + n] \in Nat
    BY <1>1, <1>4, <1>5, <2>0
  <2>2. (j + n) - shift \in 1..Len(rapid) \/ ages[j + n] >= Policy.rapid_window
    BY <1>m, <2>0
  <2>3. (j + n) - shift = j - (shift - n)
    BY <1>3, <1>4, <1>d
  <2> QED
    BY <1>0, <2>1, <2>2, <2>3
<1>12. Mirrored(r, c)
  <2>1. \A i \in 1..Len(r) :
          IF i + (shift - n) \in 1..Len(c) THEN r[i] = c[i + (shift - n)]
          ELSE r[i] = Expired
    BY <1>2, <1>10
  <2>2. \A j \in 1..Len(c) :
          j - (shift - n) \in 1..Len(r) \/ c[j] >= Policy.rapid_window
    BY <1>2, <1>11
  <2> QED
    BY <1>d, <1>7, <1>8, <1>9, <2>1, <2>2 DEF Mirrored
<1> QED
  BY <1>12 DEF r, c, older

-----------------------------------------------------------------------------
(* What the decider answers *)

LEMMA LaterIsBounded ==
  ASSUME NEW attempt \in 0..MaxAttempt PROVE Later(attempt) \in 0..MaxAttempt
BY ReconnectDeciderAssumption DEF Later, SmallerOf

\* What is dropped and what is added are ages like the others.
LEMMA RecordedIsTyped ==
  ASSUME NEW d \in Decider, NEW uptime \in Nat
  PROVE  Recorded(d, uptime) \in Seq(0..Expired)
<1>1. d.rapid_disconnects \in Seq(0..Expired)
  BY DEF Decider
<1> DEFINE ages == WithDisconnect(d.rapid_disconnects, uptime)
<1>2. 0 \in 0..Expired /\ 0..Expired \subseteq Nat
  BY WindowIsNat
<1>3. ages \in Seq(0..Expired)
  BY <1>1, <1>2, AppendProperties DEF WithDisconnect
<1> HIDE DEF ages
<1>4. ages \in Seq(Nat)
  BY <1>2, <1>3, SeqMonotonic
<1>5. PICK n : OutOfWindow(ages, n) /\ Recent(ages) = SubSeq(ages, n + 1, Len(ages))
  BY <1>4, RecentDrops
<1>6. n \in 0..Len(ages)
  BY <1>5 DEF OutOfWindow
<1>7. Recent(ages) \in Seq(0..Expired)
  BY <1>3, <1>5, <1>6, Suffix
<1> QED
  BY <1>7 DEF Recorded, ages

\* What an answer says, and what it leaves the decider with.
Proper(answer) ==
  /\ answer.decider \in Decider
  /\ answer.decision.delay \in Nat
  /\ answer.decision.error \in Errors \cup {"none"}

LEMMA StopsAreProper ==
  ASSUME NEW d \in Decider, NEW error \in Errors \cup {"none"},
         NEW answer \in Answers(d, {Stop(error)})
  PROVE  /\ Proper(answer) /\ answer.decider = d
         /\ ~answer.decision.should_reconnect /\ answer.decision.error = error
BY DEF Answers, Stop, Proper

LEMMA RetriesAreProper ==
  ASSUME NEW d \in Decider, NEW attempt \in 0..MaxAttempt, NEW floors \in SUBSET Nat,
         NEW answer \in Retries(d, attempt, floors)
  PROVE  /\ Proper(answer) /\ answer.decider = d
         /\ answer.decision.error # "suppressed"
<1>1. CASE Overflows(attempt)
  <2>1. answer \in Answers(d, {Stop("failed")})
    BY <1>1 DEF Retries
  <2>2. "failed" \in Errors \cup {"none"}
    BY DEF Errors
  <2> QED
    BY <2>1, <2>2, StopsAreProper
<1>2. CASE ~Overflows(attempt)
  <2>1. PICK floor \in floors, backoff \in Backoffs(attempt, Len(d.rapid_disconnects)) :
          answer = [decider |-> d, decision |-> Retry(LargerOf(backoff, floor))]
    BY <1>2 DEF Retries, Answers
  <2>2. Len(d.rapid_disconnects) \in Nat
    BY LenProperties DEF Decider
  <2>3. backoff \in Nat /\ floor \in Nat
    BY <1>2, <2>2, BackoffsAreDelays
  <2>4. LargerOf(backoff, floor) \in Nat
    BY <2>3 DEF LargerOf
  <2> QED
    BY <2>1, <2>4 DEF Retry, Proper
<1> QED
  BY <1>1, <1>2

\* A close that is retried leaves the disconnects within the window, or none after a
\* stable connection; only too many of them are answered with the suppression.
LEMMA CloseIsAnswered ==
  ASSUME NEW d \in Decider, NEW code, NEW answer \in AfterClose(d, code)
  PROVE  /\ Proper(answer)
         /\ answer.decision.should_reconnect =>
              /\ ~Suppressed(Recorded(d, d.uptime))
              /\ answer.decider.rapid_disconnects =
                   IF d.uptime >= Policy.stable_reset THEN <<>>
                   ELSE Recorded(d, d.uptime)
         /\ answer.decision.error = "suppressed" => Suppressed(Recorded(d, d.uptime))
<1> DEFINE rapid == Recorded(d, d.uptime)
           next == AfterRetriedClose(d, rapid)
<1>1. LongUptime \in Nat
  BY ReconnectDeciderAssumption DEF PolicyFields, LongUptime, LargerOf
<1>2. d.uptime \in Nat
  BY <1>1 DEF Decider
<1>3. rapid \in Seq(0..Expired)
  BY <1>2, RecordedIsTyped
<1> HIDE DEF rapid
<1>4. next \in Decider
  <2>1. d.attempt \in 0..MaxAttempt /\ Later(d.attempt) \in 0..MaxAttempt
        /\ 0 \in 0..MaxAttempt
    BY LaterIsBounded, ReconnectDeciderAssumption DEF Decider
  <2>2. <<>> \in Seq(0..Expired)
    OBVIOUS
  <2> QED
    BY <1>3, <2>1, <2>2 DEF AfterRetriedClose, Decider
<1>5. next.rapid_disconnects = IF d.uptime >= Policy.stable_reset THEN <<>> ELSE rapid
  BY DEF AfterRetriedClose, Decider
<1>6. [d EXCEPT !.rapid_disconnects = rapid] \in Decider
  BY <1>3 DEF Decider
<1>7. next.attempt \in 0..MaxAttempt
  BY <1>4 DEF Decider
<1> HIDE DEF next
<1>8. CASE StopsForClose(code)
  <2>1. PICK error \in {"policy", "none"} : answer \in Answers(d, {Stop(error)})
    BY <1>8 DEF AfterClose
  <2>2. error \in Errors \cup {"none"} /\ error # "suppressed"
    BY DEF Errors
  <2> QED
    BY <2>1, <2>2, StopsAreProper
<1>9. CASE ~StopsForClose(code) /\ Suppressed(rapid)
  <2>1. answer \in Answers([d EXCEPT !.rapid_disconnects = rapid], {Stop("suppressed")})
    BY <1>9 DEF AfterClose, rapid
  <2>2. "suppressed" \in Errors \cup {"none"}
    BY DEF Errors
  <2>3. Proper(answer) /\ ~answer.decision.should_reconnect
    BY <1>6, <2>1, <2>2, StopsAreProper
  <2> QED
    BY <1>9, <2>3 DEF rapid
<1>10. CASE ~StopsForClose(code) /\ ~Suppressed(rapid)
  <2>1. answer \in Retries(next, next.attempt, CloseDelays(code))
    BY <1>10 DEF AfterClose, rapid, next
  <2>2. /\ Proper(answer) /\ answer.decider = next
        /\ answer.decision.error # "suppressed"
    BY <1>4, <1>7, <2>1, RetriesAreProper, CloseDelaysAreDelays
  <2> QED
    BY <1>5, <1>10, <2>2 DEF rapid
<1> QED
  BY <1>8, <1>9, <1>10

LEMMA FailureIsAnswered ==
  ASSUME NEW d \in Decider, NEW forbidden \in BOOLEAN,
         NEW answer \in AfterConnectFailure(d, forbidden)
  PROVE  /\ Proper(answer)
         /\ answer.decision.should_reconnect =>
              /\ ~Suppressed(Recorded(d, 0))
              /\ answer.decider.rapid_disconnects = Recorded(d, 0)
         /\ answer.decision.error = "suppressed" => Suppressed(Recorded(d, 0))
<1> DEFINE rapid == Recorded(d, 0)
           recorded == [d EXCEPT !.rapid_disconnects = rapid]
           counted == [recorded EXCEPT !.attempt = Later(@)]
           next == IF Overflows(d.attempt) THEN recorded ELSE counted
<1>1. rapid \in Seq(0..Expired)
  BY RecordedIsTyped
<1> HIDE DEF rapid
<1>2. d.attempt \in 0..MaxAttempt
  BY DEF Decider
<1>3. recorded \in Decider /\ recorded.rapid_disconnects = rapid
  BY <1>1 DEF Decider
<1>4. counted \in Decider /\ counted.rapid_disconnects = rapid
  <2>1. recorded.attempt \in 0..MaxAttempt
    BY <1>3 DEF Decider
  <2>2. Later(recorded.attempt) \in 0..MaxAttempt
    BY <2>1, LaterIsBounded
  <2> HIDE DEF recorded
  <2> QED
    BY <1>3, <2>2 DEF Decider
<1>5. next \in Decider /\ next.rapid_disconnects = rapid
  <2> HIDE DEF recorded, counted
  <2> QED
    BY <1>3, <1>4
<1>6. CASE forbidden
  <2>1. answer \in Answers(d, {Stop("forbidden")})
    BY <1>6 DEF AfterConnectFailure
  <2>2. "forbidden" \in Errors \cup {"none"}
    BY DEF Errors
  <2> QED
    BY <2>1, <2>2, StopsAreProper
<1>7. CASE ~forbidden /\ Suppressed(rapid)
  <2>1. answer \in Answers(recorded, {Stop("suppressed")})
    BY <1>7 DEF AfterConnectFailure, rapid
  <2>2. "suppressed" \in Errors \cup {"none"}
    BY DEF Errors
  <2> HIDE DEF recorded
  <2>3. Proper(answer) /\ ~answer.decision.should_reconnect
    BY <1>3, <2>1, <2>2, StopsAreProper
  <2> QED
    BY <1>7, <2>3 DEF rapid
<1>8. CASE ~forbidden /\ ~Suppressed(rapid)
  <2>1. answer \in Retries(next, d.attempt, {0})
    BY <1>8 DEF AfterConnectFailure, rapid
  <2>2. {0} \in SUBSET Nat
    OBVIOUS
  <2> HIDE DEF next
  <2>3. /\ Proper(answer) /\ answer.decider = next
        /\ answer.decision.error # "suppressed"
    BY <1>2, <1>5, <2>1, <2>2, RetriesAreProper
  <2> QED
    BY <1>5, <1>8, <2>3 DEF rapid
<1> QED
  BY <1>6, <1>7, <1>8

-----------------------------------------------------------------------------
(* Type correctness *)

\* With SessionTypes, the types of all variables.
Typed ==
  /\ mode \in Modes /\ decider \in Decider /\ wait \in Nat
  /\ terminal \in Errors \cup {"none"}
  /\ replies \subseteq {"pending", "stale"}
  /\ churn \in Seq(Nat)

LEMMA InitIsTyped == Init => Typed
<1>1. NewDecider \in Decider
  <2>1. LongUptime \in Nat
    BY ReconnectDeciderAssumption DEF PolicyFields, LongUptime, LargerOf
  <2>2. 0 \in 0..MaxAttempt /\ 0 \in 0..LongUptime /\ <<>> \in Seq(0..Expired)
    BY <2>1, ReconnectDeciderAssumption
  <2> QED
    BY <2>2 DEF NewDecider, Decider
<1> QED
  BY <1>1 DEF Init, Typed

LEMMA WithDisconnectIsTyped ==
  ASSUME NEW ages \in Seq(Nat), NEW uptime \in Nat
  PROVE  WithDisconnect(ages, uptime) \in Seq(Nat)
BY AppendProperties DEF WithDisconnect

LEMMA FollowIsTyped ==
  ASSUME Typed, NEW answer, Proper(answer), Follow(answer.decision),
         decider' = answer.decider
  PROVE  decider' \in Decider /\ wait' \in Nat /\ terminal' \in Errors \cup {"none"}
BY DEF Typed, Proper, Follow

\* Time leaves ages ages, also where it stops counting.
LEMMA AgedIsTyped ==
  ASSUME NEW d \in Decider, NEW ticks \in Nat
  PROVE  /\ Aged(d, ticks) \in Decider
         /\ Aged(d, ticks).rapid_disconnects = Remembered(d.rapid_disconnects, ticks)
         /\ Aged(d, ticks).uptime = SmallerOf(d.uptime + ticks, LongUptime)
<1>1. LongUptime \in Nat
  BY ReconnectDeciderAssumption DEF PolicyFields, LongUptime, LargerOf
<1>2. /\ d.rapid_disconnects \in Seq(0..Expired) /\ d.uptime \in 0..LongUptime
      /\ d.attempt \in 0..MaxAttempt
  BY DEF Decider
<1> DEFINE rapid == d.rapid_disconnects
<1>3. Remembered(rapid, ticks) \in Seq(0..Expired)
  <2>1. Len(rapid) \in Nat /\ DOMAIN rapid = 1..Len(rapid)
        /\ \A i \in 1..Len(rapid) : rapid[i] \in 0..Expired
    BY <1>2, LenProperties, ElementOfSeq
  <2>2. \A i \in 1..Len(rapid) : SmallerOf(rapid[i] + ticks, Expired) \in 0..Expired
    BY <2>1, WindowIsNat DEF SmallerOf
  <2>3. Remembered(rapid, ticks) \in [1..Len(rapid) -> 0..Expired]
    BY <2>1, <2>2 DEF Remembered
  <2> QED
    BY <2>1, <2>3, SeqDef
<1>4. SmallerOf(d.uptime + ticks, LongUptime) \in 0..LongUptime
  BY <1>1, <1>2 DEF SmallerOf
<1>5. Aged(d, ticks) = [d EXCEPT !.rapid_disconnects = Remembered(rapid, ticks),
                                 !.uptime = SmallerOf(d.uptime + ticks, LongUptime)]
  BY DEF Aged, Remembered, Decider
<1> HIDE DEF rapid
<1> QED
  BY <1>2, <1>3, <1>4, <1>5 DEF Decider, rapid

LEMMA TicksIsNat ==
  ASSUME Typed PROVE Ticks \in Nat
BY DEF Typed, Ticks

\* What a tick leaves of the history.
LEMMA TickDrops ==
  ASSUME Typed, Tick
  PROVE  LET older == Older(churn, Ticks)
             stale == {i \in DOMAIN older : older[i] > Policy.rapid_window}
         IN  /\ older \in Seq(Nat)
             /\ churn' = SubSeq(older, Cardinality(stale) + 1, Len(older))
<1>1. Older(churn, Ticks) \in Seq(Nat)
  BY TicksIsNat DEF Typed, Older
<1>2. [i \in DOMAIN churn |-> churn[i] + Ticks] = Older(churn, Ticks)
  BY DEF Older
<1> QED
  BY <1>1, <1>2 DEF Tick

LEMMA TickIsTyped ==
  ASSUME Typed, Tick PROVE Typed'
<1>1. decider' \in Decider
  BY TicksIsNat, AgedIsTyped DEF Typed, Tick
<1> DEFINE older == Older(churn, Ticks)
           stale == {i \in DOMAIN older : older[i] > Policy.rapid_window}
<1>2. older \in Seq(Nat) /\ churn' = SubSeq(older, Cardinality(stale) + 1, Len(older))
  BY TickDrops
<1>3. IsFiniteSet(stale)
  <2>1. IsFiniteSet(1..Len(older))
    BY <1>2, LenProperties, FS_Interval
  <2>2. stale \subseteq 1..Len(older)
    BY <1>2
  <2> HIDE DEF stale, older
  <2> QED
    BY <2>1, <2>2, FS_Subset
<1>4. Cardinality(stale) \in Nat
  BY <1>3, FS_CardinalityType
<1> HIDE DEF stale, older
<1>5. \A i \in Cardinality(stale) + 1..Len(older) : older[i] \in Nat
  BY <1>2, <1>4
<1>6. churn' \in Seq(Nat)
  BY <1>2, <1>4, <1>5, LenProperties, SubSeqProperties
<1> QED
  BY <1>1, <1>6 DEF Typed, Tick

LEMMA StepIsTyped ==
  ASSUME Typed, [Next]_vars PROVE Typed'
<1> USE DEF Typed, link, beats, history
<1>0. LongUptime \in Nat
  BY ReconnectDeciderAssumption DEF PolicyFields, LongUptime, LargerOf
<1>1. ASSUME NEW forbidden \in BOOLEAN, ConnectFails(forbidden) PROVE Typed'
  <2>1. churn' \in Seq(Nat)
    BY <1>1, WithDisconnectIsTyped DEF ConnectFails
  <2>2. decider' \in Decider /\ wait' \in Nat /\ terminal' \in Errors \cup {"none"}
    <3>1. CASE Exit
      BY <3>1 DEF Exit
    <3>2. CASE Decide(AfterConnectFailure(decider, forbidden))
      <4>1. PICK answer \in AfterConnectFailure(decider, forbidden) :
              decider' = answer.decider /\ Follow(answer.decision)
        BY <3>2 DEF Decide
      <4> QED
        BY <4>1, FailureIsAnswered, FollowIsTyped
    <3> QED
      BY <1>1, <3>1, <3>2 DEF ConnectFails
  <2> QED
    BY <1>1, <2>1, <2>2 DEF ConnectFails
<1>2. CASE DecideReconnect
  <2>1. decider.uptime \in Nat
    BY <1>0 DEF Decider
  <2>2. churn' \in Seq(Nat)
    BY <1>2, <2>1, WithDisconnectIsTyped DEF DecideReconnect
  <2>3. decider' \in Decider /\ wait' \in Nat /\ terminal' \in Errors \cup {"none"}
    <3>1. CASE Exit
      BY <3>1 DEF Exit
    <3>2. CASE Decide(AfterClose(decider, DecidedCode))
      <4>1. PICK answer \in AfterClose(decider, DecidedCode) :
              decider' = answer.decider /\ Follow(answer.decision)
        BY <3>2 DEF Decide
      <4> QED
        BY <4>1, CloseIsAnswered, FollowIsTyped
    <3> QED
      BY <1>2, <3>1, <3>2 DEF DecideReconnect
  <2> QED
    BY <1>2, <2>2, <2>3 DEF DecideReconnect
<1>3. CASE Adopts
  <2>1. AfterConnected(decider) \in Decider
    BY <1>0 DEF AfterConnected, Decider
  <2> QED
    BY <1>3, <2>1 DEF Adopts
<1>4. CASE AdoptsTooLate \/ SessionStarted \/ RoutingEnds \/ EndSession \/ CleanupDone
           \/ WaitEnds
  BY <1>4 DEF AdoptsTooLate, MayStart, Exit, SessionStarted, RoutingEnds, EndSession, CleanupDone,
     WaitEnds
<1>5. CASE Heartbeat
  BY <1>5 DEF Heartbeat, Beats, BeatSent, BeatNotSent, Expires, HeartbeatCancelled,
     HandleHeartbeatResponse
<1>6. CASE Environment
  BY <1>6 DEF Environment, ConnectionCloses, ClosingEnds, ServerAnswers, CloseConnection,
     Shutdown
<1>7. CASE StopSupervisor
  BY <1>7 DEF StopSupervisor
<1>8. CASE Tick
  BY <1>8, TickIsTyped
<1>9. CASE UNCHANGED vars
  BY <1>9 DEF vars
<1> QED
  BY <1>1, <1>2, <1>3, <1>4, <1>5, <1>6, <1>7, <1>8, <1>9 DEF Next, Supervisor, Connects

LEMMA TypedHolds == Spec => []Typed
BY InitIsTyped, StepIsTyped, PTL DEF Spec

\* For every policy, interval and threshold: every variable keeps its type.  In
\* particular no timer runs below zero and every answer of the decider is a delay
\* that can be waited for.
THEOREM TypeCorrect == Spec => []TypeOK
<1>1. IInv /\ Typed => TypeOK
  BY DEF IInv, SessionTypes, Sockets, Closes, Heartbeats, Typed, TypeOK
<1> QED
  BY <1>1, InvariantHolds, TypedHolds, PTL

-----------------------------------------------------------------------------
(* Churn is stopped *)

\* While the client runs, the decider remembers what happened within the window, and
\* no disconnect is younger than the connection it ended before.
Churned ==
  /\ mode.auto /\ pc # "exited" =>
       /\ Mirrored(decider.rapid_disconnects, churn)
       /\ Len(decider.rapid_disconnects) < Policy.rapid_suppress_disconnect_count
       /\ InSession => \A j \in 1..Len(churn) : churn[j] >= decider.uptime
  /\ terminal = "suppressed" =>
       Rapid(Policy.rapid_window + 1) >= Policy.rapid_suppress_disconnect_count

\* A policy that suppresses at all, and takes no connection for stable that a rapid
\* disconnect ends or that is shorter than the window.
Calibrated ==
  /\ Policy.rapid_suppress_disconnect_count > 0
  /\ Policy.rapid_window <= Policy.stable_reset
  /\ Policy.rapid_disconnect_uptime <= Policy.stable_reset

\* A disconnect that is recorded is one more for both, and as many are remembered
\* as are within the window.
LEMMA RecordedIsMirrored ==
  ASSUME NEW rapid \in Seq(0..Expired), NEW ages \in Seq(Nat), NEW uptime \in Nat,
         Mirrored(rapid, ages)
  PROVE  LET recorded == Recent(WithDisconnect(rapid, uptime))
             recent == WithDisconnect(ages, uptime)
         IN  /\ Mirrored(recorded, recent)
             /\ Cardinality({j \in DOMAIN recent : recent[j] < Policy.rapid_window + 1})
                  >= Len(recorded)
<1> DEFINE more == WithDisconnect(rapid, uptime)
           recent == WithDisconnect(ages, uptime)
           recorded == Recent(more)
<1>1. more \in Seq(0..Expired) /\ recent \in Seq(Nat) /\ Mirrored(more, recent)
  BY MirroredDisconnect
<1> HIDE DEF more, recent
<1>2. /\ Mirrored(recorded, recent)
      /\ \A i \in 1..Len(recorded) : recorded[i] <= Policy.rapid_window
  BY <1>1, MirroredRecent
<1>3. recorded \in Seq(0..Expired)
  <2>1. 0..Expired \subseteq Nat
    BY WindowIsNat
  <2>2. more \in Seq(Nat)
    BY <1>1, <2>1, SeqMonotonic
  <2>3. PICK n : OutOfWindow(more, n) /\ Recent(more) = SubSeq(more, n + 1, Len(more))
    BY <2>2, RecentDrops
  <2>4. n \in 0..Len(more)
    BY <2>3 DEF OutOfWindow
  <2> QED
    BY <1>1, <2>3, <2>4, Suffix
<1> HIDE DEF recorded
<1>4. Cardinality({j \in DOMAIN recent : recent[j] < Policy.rapid_window + 1})
        >= Len(recorded)
  BY <1>1, <1>2, <1>3, RememberedAreRapid
<1> QED
  BY <1>2, <1>4 DEF recorded, recent, more

\* Steps that neither decide nor let time pass.
LEMMA ChurnedFrame ==
  ASSUME Churned, UNCHANGED <<decider, churn, mode, terminal>>,
         pc' # "exited" => pc # "exited" /\ (InSession' => InSession)
  PROVE  Churned'
BY DEF Churned, Rapid

\* What the limit of the policy means for an answer.
LEMMA SuppressionCounts ==
  ASSUME Calibrated, NEW rapid, Len(rapid) \in Nat
  PROVE  Suppressed(rapid) <=> Len(rapid) >= Policy.rapid_suppress_disconnect_count
BY DEF Calibrated, Suppressed

LEMMA LimitIsNat == Policy.rapid_suppress_disconnect_count \in Nat
BY ReconnectDeciderAssumption DEF PolicyFields

\* A decision that retries remembers fewer disconnects than the limit; one that
\* suppresses has counted as many within the window.
LEMMA DecisionIsChurned ==
  ASSUME Calibrated, Typed, Churned, mode.auto, pc # "exited", terminal = "none",
         NEW uptime \in Nat, NEW answer, NEW cleared \in BOOLEAN,
         churn' = WithDisconnect(churn, uptime),
         decider' = answer.decider, Follow(answer.decision),
         answer.decision.should_reconnect =>
           /\ ~Suppressed(Recorded(decider, uptime))
           /\ answer.decider.rapid_disconnects =
                IF cleared THEN <<>> ELSE Recorded(decider, uptime),
         answer.decision.error = "suppressed" => Suppressed(Recorded(decider, uptime)),
         cleared => /\ ~(uptime < Policy.rapid_disconnect_uptime)
                    /\ \A j \in 1..Len(churn) : churn[j] >= Policy.rapid_window
  PROVE  Churned'
<1> DEFINE recorded == Recorded(decider, uptime)
           recent == WithDisconnect(churn, uptime)
<1>1. decider.rapid_disconnects \in Seq(0..Expired) /\ churn \in Seq(Nat)
  BY DEF Typed, Decider
<1>2. Mirrored(decider.rapid_disconnects, churn)
  BY DEF Churned
<1>3. /\ Mirrored(recorded, recent)
      /\ Cardinality({j \in DOMAIN recent : recent[j] < Policy.rapid_window + 1})
           >= Len(recorded)
  BY <1>1, <1>2, RecordedIsMirrored DEF Recorded
<1>4. recorded \in Seq(0..Expired) /\ Len(recorded) \in Nat
  BY RecordedIsTyped, LenProperties DEF Typed
<1>5. Policy.rapid_suppress_disconnect_count \in Nat
      /\ Policy.rapid_suppress_disconnect_count > 0
  BY LimitIsNat DEF Calibrated
<1>6. Suppressed(recorded) <=> Len(recorded) >= Policy.rapid_suppress_disconnect_count
  BY <1>4, SuppressionCounts
<1>7. recent \in Seq(Nat) /\ Policy.rapid_window \in Nat
  BY <1>1, WithDisconnectIsTyped, WindowIsNat
<1>8. churn' = recent
  OBVIOUS
<1> HIDE DEF recorded, recent
<1>9. CASE answer.decision.should_reconnect
  <2>1. pc' = "waiting" /\ terminal' = "none"
    BY <1>9 DEF Follow
  <2>2. Len(recorded) < Policy.rapid_suppress_disconnect_count
    BY <1>4, <1>5, <1>6, <1>9 DEF recorded
  <2>3. decider'.rapid_disconnects = IF cleared THEN <<>> ELSE recorded
    BY <1>9 DEF recorded
  <2>4. Mirrored(decider'.rapid_disconnects, churn')
    <3>1. CASE cleared
      <4>1. recent = churn
        BY <3>1 DEF recent, WithDisconnect
      <4>2. Mirrored(<<>>, churn)
        BY <1>1, <1>2, <3>1, MirroredCleared
      <4> QED
        BY <1>8, <2>3, <3>1, <4>1, <4>2
    <3>2. CASE ~cleared
      BY <1>3, <1>8, <2>3, <3>2
    <3> QED
      BY <3>1, <3>2
  <2>5. Len(decider'.rapid_disconnects) < Policy.rapid_suppress_disconnect_count
    <3>1. Len(<<>>) = 0
      OBVIOUS
    <3> QED
      BY <1>5, <2>2, <2>3, <3>1
  <2>6. ~InSession'
    BY <2>1 DEF InSession
  <2> QED
    BY <2>1, <2>4, <2>5, <2>6 DEF Churned
<1>10. CASE ~answer.decision.should_reconnect
  <2>1. pc' = "exited" /\ terminal' \in {"none", answer.decision.error}
    BY <1>10 DEF Follow
  <2>2. ASSUME terminal' = "suppressed"
        PROVE  Rapid(Policy.rapid_window + 1)' >= Policy.rapid_suppress_disconnect_count
    <3>1. Len(recorded) >= Policy.rapid_suppress_disconnect_count
      BY <1>6, <2>1, <2>2 DEF recorded
    <3> DEFINE young == {j \in DOMAIN recent : recent[j] < Policy.rapid_window + 1}
    <3>2. IsFiniteSet(young)
      <4>1. IsFiniteSet(1..Len(recent))
        BY <1>7, LenProperties, FS_Interval
      <4>2. young \subseteq 1..Len(recent)
        BY <1>7
      <4> HIDE DEF young
      <4> QED
        BY <4>1, <4>2, FS_Subset
    <3>3. Cardinality(young) \in Nat
      <4> HIDE DEF young
      <4> QED
        BY <3>2, FS_CardinalityType
    <3>4. Rapid(Policy.rapid_window + 1)' = Cardinality(young)
      BY <1>8 DEF Rapid
    <3>5. Cardinality(young) >= Len(recorded)
      BY <1>3
    <3> HIDE DEF young
    <3> QED
      BY <1>4, <1>5, <3>1, <3>3, <3>4, <3>5
  <2> QED
    BY <2>1, <2>2 DEF Churned
<1> QED
  BY <1>9, <1>10

LEMMA InitIsChurned ==
  ASSUME Calibrated, Init PROVE Churned
<1>1. decider.rapid_disconnects = <<>> /\ churn = <<>> /\ terminal = "none"
  BY DEF Init, NewDecider
<1>2. Len(<<>>) = 0 /\ DOMAIN <<>> = {}
  OBVIOUS
<1>3. Mirrored(<<>>, <<>>)
  BY <1>2 DEF Mirrored, Ordered
<1>4. Len(<<>>) < Policy.rapid_suppress_disconnect_count
  BY <1>2, LimitIsNat DEF Calibrated
<1>5. \A j \in 1..Len(churn) : churn[j] >= decider.uptime
  BY <1>1, <1>2
<1> QED
  BY <1>1, <1>3, <1>4, <1>5 DEF Churned

LEMMA ConnectFailsIsChurned ==
  ASSUME Calibrated, IInv, Typed, Churned, NEW forbidden \in BOOLEAN,
         ConnectFails(forbidden)
  PROVE  Churned'
<1>1. pc = "connecting" /\ terminal = "none" /\ mode' = mode
  BY DEF ConnectFails, IInv, Held
<1>2. CASE ~FailureIsDecided
  BY <1>1, <1>2 DEF ConnectFails, Exit, Churned
<1>3. CASE FailureIsDecided
  <2>1. PICK answer \in AfterConnectFailure(decider, forbidden) :
          decider' = answer.decider /\ Follow(answer.decision)
    BY <1>3 DEF ConnectFails, Decide
  <2>2. /\ answer.decision.should_reconnect =>
             /\ ~Suppressed(Recorded(decider, 0))
             /\ answer.decider.rapid_disconnects = Recorded(decider, 0)
        /\ answer.decision.error = "suppressed" => Suppressed(Recorded(decider, 0))
    BY FailureIsAnswered DEF Typed
  <2>3. mode.auto /\ churn' = WithDisconnect(churn, 0)
    BY <1>3 DEF FailureIsDecided, ConnectFails
  <2> QED
    BY <1>1, <2>1, <2>2, <2>3, DecisionIsChurned
<1> QED
  BY <1>2, <1>3

\* Only a connection that is older than the window is stable, and then no disconnect
\* is within it.
LEMMA DecideReconnectIsChurned ==
  ASSUME Calibrated, IInv, Typed, Churned, DecideReconnect PROVE Churned'
<1>1. pc = "disconnected" /\ terminal = "none" /\ mode' = mode
  BY DEF DecideReconnect, IInv, Held
<1>2. CASE Exit
  BY <1>1, <1>2 DEF Exit, Churned
<1>3. CASE ~Exit
  <2>1. PICK answer \in AfterClose(decider, DecidedCode) :
          decider' = answer.decider /\ Follow(answer.decision)
    BY <1>3 DEF DecideReconnect, Decide
  <2>2. mode.auto /\ churn' = WithDisconnect(churn, decider.uptime)
    BY <1>3 DEF DecideReconnect
  <2> DEFINE cleared == decider.uptime >= Policy.stable_reset
  <2>3. /\ answer.decision.should_reconnect =>
             /\ ~Suppressed(Recorded(decider, decider.uptime))
             /\ answer.decider.rapid_disconnects =
                  IF cleared THEN <<>> ELSE Recorded(decider, decider.uptime)
        /\ answer.decision.error = "suppressed" =>
             Suppressed(Recorded(decider, decider.uptime))
    BY CloseIsAnswered DEF Typed
  <2>4. LongUptime \in Nat /\ Policy.stable_reset \in Nat
        /\ Policy.rapid_disconnect_uptime \in Nat /\ Policy.rapid_window \in Nat
    BY ReconnectDeciderAssumption DEF PolicyFields, LongUptime, LargerOf
  <2>5. decider.uptime \in Nat
    BY <2>4 DEF Typed, Decider
  <2>6. cleared => /\ ~(decider.uptime < Policy.rapid_disconnect_uptime)
                   /\ \A j \in 1..Len(churn) : churn[j] >= Policy.rapid_window
    <3> SUFFICES ASSUME cleared
                 PROVE  /\ ~(decider.uptime < Policy.rapid_disconnect_uptime)
                        /\ \A j \in 1..Len(churn) : churn[j] >= Policy.rapid_window
      OBVIOUS
    <3>1. \A j \in 1..Len(churn) : churn[j] \in Nat /\ churn[j] >= decider.uptime
      BY <1>1, <2>2, ElementOfSeq DEF Churned, InSession, Typed
    <3>2. decider.uptime >= Policy.rapid_window
      BY <2>4, <2>5 DEF Calibrated
    <3>3. ~(decider.uptime < Policy.rapid_disconnect_uptime)
      BY <2>4, <2>5 DEF Calibrated
    <3>4. ASSUME NEW j \in 1..Len(churn) PROVE churn[j] >= Policy.rapid_window
      BY <2>4, <2>5, <3>1, <3>2
    <3> QED
      BY <3>3, <3>4
  <2>7. cleared \in BOOLEAN
    OBVIOUS
  <2> HIDE DEF cleared
  <2> QED
    BY <1>1, <2>1, <2>2, <2>3, <2>5, <2>6, <2>7, DecisionIsChurned
<1> QED
  BY <1>2, <1>3

\* A new connection is younger than every disconnect.
LEMMA AdoptsIsChurned ==
  ASSUME IInv, Typed, Churned, Adopts PROVE Churned'
<1>1. /\ pc = "connecting" /\ UNCHANGED <<mode, churn, terminal>>
      /\ decider' = IF mode.auto THEN AfterConnected(decider) ELSE decider
  BY DEF Adopts
<1>2. ASSUME mode.auto
      PROVE  decider'.rapid_disconnects = decider.rapid_disconnects /\ decider'.uptime = 0
  BY <1>1, <1>2 DEF AfterConnected, Typed, Decider
<1>3. \A j \in 1..Len(churn) : churn[j] >= 0
  <2>1. \A j \in 1..Len(churn) : churn[j] \in Nat
    BY ElementOfSeq DEF Typed
  <2> QED
    BY <2>1
<1> QED
  BY <1>1, <1>2, <1>3 DEF Churned, Rapid

\* What happened and what is remembered of it grow old together.
LEMMA TickIsChurned ==
  ASSUME IInv, Typed, Churned, Tick PROVE Churned'
<1>1. pc # "exited" /\ terminal = "none" /\ UNCHANGED <<mode, pc, terminal>>
  BY DEF Tick, IInv, Held
<1>2. CASE ~mode.auto
  BY <1>1, <1>2 DEF Churned
<1>3. CASE mode.auto
  <2> DEFINE older == Older(churn, Ticks)
             stale == {i \in DOMAIN older : older[i] > Policy.rapid_window}
             n == Cardinality(stale)
  <2>1. /\ decider.rapid_disconnects \in Seq(0..Expired) /\ churn \in Seq(Nat)
        /\ Ticks \in Nat /\ decider \in Decider
    BY TicksIsNat DEF Typed, Decider
  <2>2. /\ Mirrored(decider.rapid_disconnects, churn)
        /\ Len(decider.rapid_disconnects) < Policy.rapid_suppress_disconnect_count
        /\ InSession => \A j \in 1..Len(churn) : churn[j] >= decider.uptime
    BY <1>1, <1>3 DEF Churned
  <2>3. older \in Seq(Nat) /\ churn' = SubSeq(older, n + 1, Len(older))
    BY TickDrops
  <2>4. /\ Len(older) = Len(churn) /\ Len(churn) \in Nat
        /\ \A j \in 1..Len(churn) : churn[j] \in Nat /\ older[j] = churn[j] + Ticks
    <3>1. Len(churn) \in Nat /\ DOMAIN churn = 1..Len(churn)
          /\ \A j \in 1..Len(churn) : churn[j] \in Nat
      BY <2>1, LenProperties, ElementOfSeq
    <3> QED
      BY <3>1 DEF Older
  <2>5. Ordered(older)
    <3>1. Ordered(churn) /\ DOMAIN churn = 1..Len(churn) /\ DOMAIN older = 1..Len(churn)
      BY <2>1, <2>2, <2>3, <2>4, LenProperties DEF Mirrored
    <3> SUFFICES ASSUME NEW i \in 1..Len(churn), NEW j \in 1..Len(churn), i < j
                 PROVE  older[i] >= older[j]
      BY <3>1 DEF Ordered
    <3>2. churn[i] >= churn[j]
      BY <3>1 DEF Ordered
    <3>3. /\ older[i] = churn[i] + Ticks /\ older[j] = churn[j] + Ticks
          /\ churn[i] \in Nat /\ churn[j] \in Nat
      BY <2>4
    <3> QED
      BY <2>1, <3>2, <3>3
  <2>6. /\ OutOfWindow(older, n)
        /\ \A i \in 1..Len(older) : i > n => older[i] <= Policy.rapid_window
    BY <2>3, <2>5, StaleAreOldest
  <2>7. /\ decider'.rapid_disconnects = Remembered(decider.rapid_disconnects, Ticks)
        /\ decider'.uptime = SmallerOf(decider.uptime + Ticks, LongUptime)
    BY <2>1, AgedIsTyped DEF Tick
  <2> HIDE DEF n, stale
  <2>8. Mirrored(decider'.rapid_disconnects, churn')
    BY <2>1, <2>2, <2>3, <2>6, <2>7, MirroredOlder
  <2>9. Len(decider'.rapid_disconnects) = Len(decider.rapid_disconnects)
    <3>1. DOMAIN Remembered(decider.rapid_disconnects, Ticks)
            = 1..Len(decider.rapid_disconnects)
      BY <2>1, LenProperties DEF Remembered
    <3>2. decider'.rapid_disconnects \in Seq(0..Expired)
      BY <2>1, <2>7, AgedIsTyped DEF Tick, Decider
    <3>3. DOMAIN decider'.rapid_disconnects = 1..Len(decider'.rapid_disconnects)
          /\ Len(decider'.rapid_disconnects) \in Nat
          /\ Len(decider.rapid_disconnects) \in Nat
      BY <2>1, <3>2, LenProperties
    <3> QED
      BY <2>7, <3>1, <3>3
  <2>10. InSession => \A j \in 1..Len(churn') : churn'[j] >= decider'.uptime
    <3> SUFFICES ASSUME InSession, NEW j \in 1..Len(churn')
                 PROVE  churn'[j] >= decider'.uptime
      OBVIOUS
    <3>1. n \in 0..Len(older)
      BY <2>6 DEF OutOfWindow
    <3>2. Len(churn') = Len(older) - n /\ \A i \in 1..Len(older) - n : churn'[i] = older[i + n]
      <4> HIDE DEF older
      <4> QED
        BY <2>3, <3>1, Suffix
    <3>3. j \in 1..Len(older) - n /\ j + n \in 1..Len(churn)
      BY <2>4, <3>1, <3>2
    <3>4. churn'[j] = churn[j + n] + Ticks /\ churn[j + n] \in Nat
      BY <2>4, <3>2, <3>3
    <3>5. churn[j + n] >= decider.uptime
      BY <2>2, <3>3
    <3>6. LongUptime \in Nat /\ decider.uptime \in Nat
      <4>1. LongUptime \in Nat
        BY ReconnectDeciderAssumption DEF PolicyFields, LongUptime, LargerOf
      <4> QED
        BY <2>1, <4>1 DEF Decider
    <3> QED
      BY <2>1, <2>7, <3>4, <3>5, <3>6 DEF SmallerOf
  <2>11. InSession' <=> InSession
    BY <1>1 DEF InSession
  <2> HIDE DEF older
  <2> QED
    BY <1>1, <2>2, <2>8, <2>9, <2>10, <2>11 DEF Churned
<1> QED
  BY <1>2, <1>3

LEMMA StepIsChurned ==
  ASSUME Calibrated, IInv, Typed, Churned, [Next]_vars PROVE Churned'
<1> USE DEF link, beats, history
<1>1. CASE AdoptsTooLate \/ SessionStarted \/ RoutingEnds \/ EndSession \/ CleanupDone
           \/ WaitEnds
  <2>1. /\ UNCHANGED <<decider, churn, mode, terminal>>
        /\ pc' # "exited" => pc # "exited" /\ (InSession' => InSession)
    BY <1>1 DEF AdoptsTooLate, MayStart, Exit, SessionStarted, RoutingEnds, EndSession, CleanupDone,
       WaitEnds, InSession
  <2> QED
    BY <2>1, ChurnedFrame
<1>2. CASE Heartbeat
  <2>1. UNCHANGED <<decider, churn, mode, terminal, pc>>
    BY <1>2 DEF Heartbeat, Beats, BeatSent, BeatNotSent, Expires, HeartbeatCancelled,
       HandleHeartbeatResponse
  <2> QED
    BY <2>1, ChurnedFrame DEF InSession
<1>3. CASE Environment
  <2>1. UNCHANGED <<decider, churn, mode, terminal, pc>>
    BY <1>3 DEF Environment, ConnectionCloses, ClosingEnds, ServerAnswers,
       CloseConnection, Shutdown
  <2> QED
    BY <2>1, ChurnedFrame DEF InSession
<1>4. CASE StopSupervisor
  BY <1>4, ChurnedFrame DEF StopSupervisor
<1>5. CASE UNCHANGED vars
  BY <1>5, ChurnedFrame DEF vars, InSession
<1> QED
  BY <1>1, <1>2, <1>3, <1>4, <1>5, ConnectFailsIsChurned, DecideReconnectIsChurned,
     AdoptsIsChurned, TickIsChurned
  DEF Next, Supervisor, Connects

\* For every policy that suppresses and whose stable connections outlast the window:
\* the client never runs on with as many rapid disconnects within one window as the
\* policy allows, and none stops it before (_suppressed, _after_close).
THEOREM ChurnStops ==
  ASSUME Calibrated PROVE Spec => []ChurnIsStopped
<1>1. Init => Churned
  BY InitIsChurned
<1>2. IInv /\ Typed /\ Churned /\ [Next]_vars => Churned'
  BY StepIsChurned
<1>3. IInv /\ Typed /\ Churned => ChurnIsStopped
  <2> SUFFICES ASSUME Typed, Churned PROVE ChurnIsStopped
    OBVIOUS
  <2>1. ASSUME mode.auto, pc # "exited"
        PROVE  Rapid(Policy.rapid_window) < Policy.rapid_suppress_disconnect_count
    <3>1. /\ decider.rapid_disconnects \in Seq(0..Expired) /\ churn \in Seq(Nat)
          /\ Len(decider.rapid_disconnects) \in Nat
      BY LenProperties DEF Typed, Decider
    <3>2. /\ Mirrored(decider.rapid_disconnects, churn)
          /\ Len(decider.rapid_disconnects) < Policy.rapid_suppress_disconnect_count
      BY <2>1 DEF Churned
    <3>3. Rapid(Policy.rapid_window) <= Len(decider.rapid_disconnects)
      BY <3>1, <3>2, RapidAreRemembered DEF Rapid
    <3>4. Rapid(Policy.rapid_window) \in Nat
      <4> DEFINE young == {i \in DOMAIN churn : churn[i] < Policy.rapid_window}
      <4>1. IsFiniteSet(1..Len(churn)) /\ DOMAIN churn = 1..Len(churn)
        BY <3>1, LenProperties, FS_Interval
      <4>2. young \subseteq 1..Len(churn)
        BY <4>1
      <4> HIDE DEF young
      <4>3. Cardinality(young) \in Nat
        BY <4>1, <4>2, FS_Subset, FS_CardinalityType
      <4> QED
        BY <4>3 DEF Rapid, young
    <3> QED
      BY <3>1, <3>2, <3>3, <3>4, LimitIsNat
  <2> QED
    BY <2>1 DEF Churned, ChurnIsStopped
<1> QED
  BY <1>1, <1>2, <1>3, InvariantHolds, TypedHolds, PTL DEF Spec

-----------------------------------------------------------------------------
(* The connections come in turn *)

\* A connection that nobody has is closed.
Abandoned ==
  ~conn /\ pc # "cleaning" => socket.st \in {"none", "closed"}

\* A step of one of these parts only: SessionLoop sees a socket that closes, or nothing.
LEMMA SameLoop ==
  ASSUME IInv, Abandoned, UNCHANGED <<stop, conn>>,
         pc' = pc \/ (pc = "starting" /\ pc' = "serving"),
         socket' = socket \/ socket'.st = "closed"
           \/ (socket.st \in {"open", "closing"} /\ socket'.st \in {"open", "closing"})
  PROVE  Abandoned' /\ [Loop!Next]_(Loop!loop)
<1> DEFINE isOpen == socket.st \in {"open", "closing"}
<1>0. isOpen \in BOOLEAN /\ isOpen' \in BOOLEAN
  OBVIOUS
<1>1. Phase' = Phase /\ Holder' = Holder
  BY DEF Phase, Holder
<1>2. Abandoned'
  BY DEF Abandoned, IInv, Held
<1>3. isOpen => Holder # "nobody"
  BY DEF Abandoned, Holder
<1>4. isOpen' => isOpen
  OBVIOUS
<1>5. CASE isOpen <=> isOpen'
  <2>1. isOpen' = isOpen
    <3> HIDE DEF isOpen
    <3> QED
      BY <1>0, <1>5
  <2> QED
    BY <1>1, <1>2, <2>1 DEF Loop!loop
<1>6. CASE isOpen /\ ~isOpen'
  <2>1. isOpen' = FALSE
    <3> HIDE DEF isOpen
    <3> QED
      BY <1>0, <1>6
  <2> QED
    BY <1>1, <1>2, <1>3, <1>6, <2>1 DEF Loop!Next, Loop!Shut
<1> QED
  BY <1>2, <1>4, <1>5, <1>6

\* The supervisor connects, ends a session, decides, or is stopped.
LEMMA TurnTaken ==
  ASSUME IInv, Abandoned,
         Connects \/ EndSession \/ CleanupDone \/ DecideReconnect \/ WaitEnds \/ StopSupervisor
  PROVE  Abandoned' /\ [Loop!Next]_(Loop!loop)
<1> DEFINE isOpen == socket.st \in {"open", "closing"}
<1>1. /\ stop \in BOOLEAN /\ conn \in BOOLEAN /\ socket \in Sockets
      /\ pc \in {"connecting", "starting", "serving", "cleaning", "disconnected",
                 "waiting", "exited"}
  BY DEF IInv, SessionTypes
<1>2. /\ pc \in {"connecting", "disconnected", "waiting"} => ~conn /\ ~isOpen
      /\ pc \in {"starting", "serving"} => conn
      /\ pc = "cleaning" => ~conn
  BY DEF IInv, Held, Abandoned
<1>3. CASE Adopts
  <2>1. pc = "connecting" /\ ~stop /\ pc' = "starting" /\ conn' = TRUE /\ isOpen'
        /\ stop' = stop
    BY <1>3 DEF Adopts, MayStart, OpenSocket
  <2>2. Phase = "down" /\ Phase' = "up" /\ Holder = "nobody" /\ Holder' = "session"
    BY <1>2, <2>1 DEF Phase, Holder
  <2> QED
    BY <1>2, <2>1, <2>2 DEF Abandoned, Loop!Next, Loop!Open, Loop!Free, Loop!Hold
<1>4. CASE AdoptsTooLate
  <2>1. pc = "connecting" /\ stop /\ pc' = "exited" /\ conn' = TRUE /\ isOpen'
        /\ stop' = stop
    BY <1>4 DEF AdoptsTooLate, MayStart, OpenSocket, Exit
  <2>2. Phase = "down" /\ Phase' = "over" /\ Holder = "nobody" /\ Holder' = "session"
    BY <1>2, <2>1 DEF Phase, Holder
  <2> QED
    BY <1>2, <2>1, <2>2 DEF Abandoned, Loop!Next, Loop!OpenTooLate, Loop!Free, Loop!Hold
\* Between two connections the supervisor stays, or ends.
<1>5. ASSUME pc \in {"connecting", "disconnected", "waiting"},
             pc' \in {"connecting", "waiting", "exited"},
             UNCHANGED <<stop, conn>>, ~isOpen', socket'.st \in {"none", "closed"}
      PROVE  Abandoned' /\ [Loop!Next]_(Loop!loop)
  <2>1. Phase = "down" /\ Phase' \in {"down", "over"} /\ Holder = "nobody" /\ Holder' = Holder
    BY <1>2, <1>5 DEF Phase, Holder
  <2>2. CASE Phase' = "down"
    BY <1>2, <1>5, <2>1, <2>2 DEF Abandoned, Loop!loop
  <2>3. CASE Phase' = "over"
    BY <1>2, <1>5, <2>1, <2>3 DEF Abandoned, Loop!Next, Loop!End, Loop!Free
  <2> QED
    BY <2>1, <2>2, <2>3
<1>6. ASSUME NEW forbidden \in BOOLEAN, ConnectFails(forbidden)
      PROVE  Abandoned' /\ [Loop!Next]_(Loop!loop)
  <2>1. pc = "connecting" /\ pc' \in {"waiting", "exited"} /\ UNCHANGED <<stop, conn, socket>>
    BY <1>6 DEF ConnectFails, Exit, Decide, Follow, link
  <2> QED
    BY <1>1, <1>2, <1>5, <2>1 DEF Sockets
<1>7. CASE DecideReconnect
  <2>1. pc = "disconnected" /\ pc' \in {"waiting", "exited"} /\ UNCHANGED <<stop, conn, socket>>
    BY <1>7 DEF DecideReconnect, Exit, Decide, Follow, link
  <2> QED
    BY <1>1, <1>2, <1>5, <2>1 DEF Sockets
<1>8. CASE WaitEnds
  <2>1. pc = "waiting" /\ pc' \in {"connecting", "exited"} /\ UNCHANGED <<stop, conn>>
        /\ socket'.st = "none"
    BY <1>8 DEF WaitEnds, NoSocket
  <2> QED
    BY <1>5, <2>1
<1>9. CASE EndSession
  <2>1. pc = "serving" /\ pc' = "cleaning" /\ conn' = FALSE /\ UNCHANGED <<stop, socket>>
    BY <1>9 DEF EndSession
  <2>2. Phase = "up" /\ Phase' = "down" /\ Holder = "session" /\ Holder' = "cleanup"
    BY <1>2, <2>1 DEF Phase, Holder
  <2> QED
    BY <2>1, <2>2 DEF Abandoned, Loop!Next, Loop!EndSession
<1>10. CASE CleanupDone
  <2>1. pc = "cleaning" /\ pc' = "disconnected" /\ socket'.st = "closed"
        /\ UNCHANGED <<stop, conn>>
    BY <1>1, <1>10 DEF CleanupDone, Sockets
  <2>2. Phase' = Phase /\ Holder = "cleanup" /\ Holder' = "nobody"
    BY <1>2, <2>1 DEF Phase, Holder
  <2> QED
    BY <2>1, <2>2 DEF Abandoned, Loop!Next, Loop!CleanUp, Loop!GiveUp
<1>11. CASE StopSupervisor
  <2>1. stop /\ (pc # "exited" \/ conn) /\ pc' = "exited" /\ conn' = FALSE /\ stop' = stop
        /\ socket'.st \in {"none", "closed"}
    BY <1>1, <1>11 DEF StopSupervisor, Sockets
  <2>2. Phase' = "over" /\ Holder' = "nobody"
    BY <2>1 DEF Phase, Holder
  <2>3. CASE pc # "exited"
    <3>1. Phase # "over"
      BY <2>3 DEF Phase
    <3> QED
      BY <2>1, <2>2, <3>1 DEF Abandoned, Loop!Next, Loop!End, Loop!GiveUp
  <2>4. CASE pc = "exited"
    <3>1. Phase = "over" /\ Holder = "session"
      BY <2>1, <2>4 DEF Phase, Holder
    <3> QED
      BY <2>1, <2>2, <3>1 DEF Abandoned, Loop!Next, Loop!CleanUp, Loop!GiveUp
  <2> QED
    BY <2>3, <2>4
<1> QED
  BY <1>3, <1>4, <1>6, <1>7, <1>8, <1>9, <1>10, <1>11 DEF Connects

\* Every step is one of SessionLoop, or none.
LEMMA StepInTurn ==
  ASSUME IInv, Abandoned, [Next]_vars
  PROVE  Abandoned' /\ [Loop!Next]_(Loop!loop)
<1>1. socket \in Sockets
  BY DEF IInv, SessionTypes
<1>2. ASSUME SessionStarted \/ RoutingEnds \/ Beats \/ BeatSent \/ Tick \/ UNCHANGED vars
             \/ (\E reply \in {"pending", "stale"} : HandleHeartbeatResponse(reply)
                                                     \/ ServerAnswers(reply))
      PROVE  Abandoned' /\ [Loop!Next]_(Loop!loop)
  <2>1. /\ UNCHANGED <<stop, conn, socket>>
        /\ pc' = pc \/ (pc = "starting" /\ pc' = "serving")
    BY <1>2 DEF SessionStarted, RoutingEnds, Beats, BeatSent, Tick, HandleHeartbeatResponse,
                ServerAnswers, vars, link
  <2> QED
    BY <2>1, SameLoop
<1>3. ASSUME BeatNotSent \/ Expires \/ HeartbeatCancelled \/ CloseConnection
      PROVE  Abandoned' /\ [Loop!Next]_(Loop!loop)
  <2>1. UNCHANGED <<stop, conn, pc>>
    BY <1>3 DEF BeatNotSent, Expires, HeartbeatCancelled, CloseConnection
  <2>2. socket' = socket \/ socket'.st = "closed"
          \/ (socket.st = "open" /\ socket'.st = "closing")
    <3>1. CASE HeartbeatCancelled
      BY <1>1, <3>1 DEF HeartbeatCancelled, Sockets
    <3>2. CASE BeatNotSent \/ Expires \/ CloseConnection
      BY <1>1, <3>2 DEF BeatNotSent, Expires, CloseConnection, HeartbeatFailed, ForceClose, Sockets
    <3> QED
      BY <1>3, <3>1, <3>2
  <2> QED
    BY <2>1, <2>2, SameLoop
<1>4. ASSUME NEW code \in Codes, ConnectionCloses(code) \/ ClosingEnds(code)
      PROVE  Abandoned' /\ [Loop!Next]_(Loop!loop)
  <2>1. UNCHANGED <<stop, conn, pc>>
    BY <1>4 DEF ConnectionCloses, ClosingEnds
  <2>2. socket'.st = "closed"
    <3>1. CASE ConnectionCloses(code)
      BY <3>1 DEF ConnectionCloses
    <3>2. CASE ClosingEnds(code)
      BY <1>1, <3>2 DEF ClosingEnds, Sockets
    <3> QED
      BY <1>4, <3>1, <3>2
  <2> QED
    BY <2>1, <2>2, SameLoop
<1>5. CASE Shutdown
  <2>1. stop' = TRUE /\ UNCHANGED <<pc, conn, socket>>
    BY <1>5 DEF Shutdown, link
  <2>2. Phase' = Phase /\ Holder' = Holder
    BY <2>1 DEF Phase, Holder
  <2> QED
    BY <2>1, <2>2 DEF Abandoned, Loop!Next, Loop!Ask
<1> QED
  BY <1>2, <1>3, <1>4, <1>5, TurnTaken DEF Next, Supervisor, Heartbeat, Environment

\* The connection implements SessionLoop, for every policy, interval and threshold:
\* also a socket that is being forced closed is closed before the next one opens.
THEOREM ConnectionTakesTurns == Spec => ConnectionsInTurn
<1>1. Init => Abandoned /\ Loop!Init
  BY DEF Init, Abandoned, NoSocket, Loop!Init, Phase, Holder
<1>2. IInv /\ Abandoned /\ [Next]_vars => Abandoned' /\ [Loop!Next]_(Loop!loop)
  BY StepInTurn
<1> QED
  BY <1>1, <1>2, InvariantHolds, PTL DEF Spec, ConnectionsInTurn, Loop!Spec

=============================================================================
