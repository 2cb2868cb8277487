----------------------------- MODULE Reconnect -----------------------------
(***************************************************************************)
(* The life of the connection, without channels: the supervisor's loop of  *)
(* connecting, serving and reconnecting, the heartbeat of each session and *)
(* its deadline, forced closes, and the built-in decider that is asked     *)
(* after every close and every failed attempt.                             *)
(*                                                                         *)
(* Time passes in ticks.  A tick waits for the timers that are due: the    *)
(* event loop may run everything else as late as it likes.  Only whether a *)
(* heartbeat reply carries the pending ref is kept of the refs.            *)
(***************************************************************************)
EXTENDS ReconnectDecider, FiniteSets

CONSTANTS
  Interval,    \* heartbeat_interval_s
  Threshold,   \* heartbeat_dead_threshold_s, where it is enforced
  MaxLag,      \* a prompt server answers a beat within as many ticks
  MaxUptime,   \* bound of the ticks from the adoption of a connection to its decision
  Modes,       \* the clients and servers of this instance
  Codes,       \* what a close may be received with; "none" is no close frame
  Env          \* the other environment events of this instance

Mode == [auto : BOOLEAN,       \* auto_reconnect
         enforced : BOOLEAN,   \* heartbeat_dead_threshold_s is given
         prompt : BOOLEAN]     \* the server answers within MaxLag

ASSUME ReconnectAssumption ==
  /\ Interval \in Nat \ {0} /\ MaxLag \in Nat /\ MaxUptime \in Nat
  /\ Threshold \in Nat /\ Interval + MaxLag < Threshold
  /\ Modes \subseteq Mode
  /\ Codes \subseteq {"none", "normal", "policy", "restart", "later"}
  /\ Env \subseteq {"refuse", "forbid", "garble", "force", "sendfail",
                    "stale", "shutdown", "close", "accept", "answer", "slow"}

VARIABLES
  decider,   \* the DefaultReconnectDecider of this run
  mode,      \* the options of this run
  pc,        \* the supervisor task
  wait,      \* ticks left of the delay it waits for
  stop,      \* shutdown_event
  terminal,  \* terminal_error
  conn,      \* whether connection is set
  socket,    \* the newest websocket: its state, and which close ended it
  routing,   \* the message routing task
  forced,    \* forced_close_pending
  close,     \* the CloseDetails of the session that ended
  hb,        \* the heartbeat task: where it is, and the ticks left to sleep
  deadline,  \* ticks left of heartbeat_timeout
  pending,   \* whether pending_heartbeat_ref is set
  replies,   \* heartbeat replies on their way: to the pending ref, or stale
  quiet,     \* history, where enforced: ticks since the last answer or the adoption
  lag,       \* history, where prompt: ticks since the pending beat was sent
  churn      \* history: ages of the rapid disconnects within the window

beats == <<hb, deadline, pending, replies, lag>>
link == <<conn, socket, routing, forced>>
history == <<quiet, churn>>
vars == <<decider, mode, pc, wait, stop, terminal, link, close, beats, history>>

NoSocket == [st |-> "none", code |-> "none", by |-> "nobody"]
OpenSocket == [st |-> "open", code |-> "none", by |-> "nobody"]

NoClose == [code |-> "none", forced |-> FALSE]

TypeOK ==
  /\ decider \in Decider
  /\ mode \in Modes
  /\ pc \in {"connecting", "starting", "serving", "cleaning", "disconnected",
             "waiting", "exited"}
  /\ wait \in Nat
  /\ stop \in BOOLEAN
  /\ terminal \in Errors \cup {"none"}
  /\ conn \in BOOLEAN
  /\ socket \in [st : {"none", "open", "closing", "closed"}, code : Codes \cup {"none"},
                 by : {"nobody", "client", "server"}]
  /\ routing \in {"none", "running", "ended"}
  /\ forced \in BOOLEAN
  /\ close \in [code : Codes \cup {"none"}, forced : BOOLEAN]
  /\ hb \in [pc : {"off", "sleeping", "sending", "forcing", "done"},
             sleep : 0..Interval, cancelled : BOOLEAN]
  /\ deadline \in 0..Threshold
  /\ pending \in BOOLEAN
  /\ replies \subseteq {"pending", "stale"}
  /\ quiet \in 0..Threshold + 1 /\ lag \in 0..MaxLag + 1
  /\ churn \in Seq(Nat)

NoHeartbeat == [pc |-> "off", sleep |-> 0, cancelled |-> FALSE]

Init ==
  /\ decider = NewDecider
  /\ mode \in Modes
  /\ pc = "connecting" /\ wait = 0
  /\ stop = FALSE /\ terminal = "none"
  /\ conn = FALSE /\ socket = NoSocket /\ routing = "none" /\ forced = FALSE
  /\ close = NoClose
  /\ hb = NoHeartbeat /\ deadline = 0 /\ pending = FALSE /\ replies = {} /\ lag = 0
  /\ quiet = 0 /\ churn = <<>>

Monitoring == hb.pc \in {"sleeping", "sending"}

-----------------------------------------------------------------------------
(* The supervisor *)

\* A decision sends the supervisor to wait, or ends it with its verdict.
Follow(decision) ==
  /\ wait' = decision.delay
  /\ IF decision.should_reconnect
     THEN pc' = "waiting" /\ UNCHANGED terminal
     ELSE pc' = "exited"
          /\ terminal' = IF decision.error = "none" THEN terminal ELSE decision.error

Exit == pc' = "exited" /\ UNCHANGED <<decider, wait, terminal>>

\* Mutant of FailureIsDecided: a refusal is judged although shutdown() began.
FailureAlwaysDecided == mode.auto

\* A requested stop outranks a refusal's terminal error.
FailureIsDecided == mode.auto /\ ~stop

\* The answer to a close or a failure is taken over by the supervisor.
Decide(answers) ==
  \E answer \in answers : decider' = answer.decider /\ Follow(answer.decision)

ConnectFails(forbidden) ==
  /\ pc = "connecting"
  /\ (IF forbidden THEN "forbid" ELSE "refuse") \in Env
  /\ \/ ~FailureIsDecided /\ Exit
     \/ FailureIsDecided /\ Decide(AfterConnectFailure(decider, forbidden))
  /\ churn' = WithDisconnect(churn, 0)
  /\ UNCHANGED <<mode, stop, link, close, beats, quiet>>

\* Mutant of MayStart: a stop during the handshake goes unnoticed.
AlwaysStarts == TRUE

\* Whether a connection that was just opened becomes a session.
MayStart == ~stop

\* _adopt_connection when shutdown() began during the handshake.
AdoptsTooLate ==
  /\ pc = "connecting" /\ ~MayStart /\ "accept" \in Env
  /\ conn' = TRUE /\ socket' = OpenSocket
  /\ Exit
  /\ UNCHANGED <<mode, stop, routing, forced, close, beats, history>>

\* heartbeat_dead_threshold_s, or None.
Allowed == IF mode.enforced THEN Threshold ELSE 0

\* _adopt_connection and the start of _start_session.
Adopts ==
  /\ pc = "connecting" /\ MayStart /\ "accept" \in Env
  /\ conn' = TRUE /\ socket' = OpenSocket /\ routing' = "running"
  /\ decider' = IF mode.auto THEN AfterConnected(decider) ELSE decider
  /\ hb' = [pc |-> "sleeping", sleep |-> Interval, cancelled |-> FALSE]
  /\ deadline' = Allowed /\ pending' = FALSE /\ replies' = {} /\ lag' = 0
  /\ quiet' = 0
  /\ pc' = "starting"
  /\ UNCHANGED <<mode, wait, stop, terminal, forced, close, churn>>

\* The rejoins and on_reconnect are over.
SessionStarted ==
  /\ pc = "starting"
  /\ pc' = "serving"
  /\ UNCHANGED <<decider, mode, wait, stop, terminal, link, close, beats, history>>

\* Routing drains what was received before it meets the end of the connection, and
\* fails on a frame that does not decode.
RoutingEnds ==
  /\ routing = "running"
  /\ \/ socket.st = "closed" /\ replies = {}
     \/ "garble" \in Env
  /\ routing' = "ended"
  /\ UNCHANGED <<decider, mode, pc, wait, stop, terminal, conn, socket, forced, close,
                 beats, history>>

\* Mutant of Cancelled: the heartbeat is waited for, not cancelled.
Awaited == hb

Cancelled == [hb EXCEPT !.cancelled = Monitoring \/ hb.pc = "forcing"]

\* Mutant of ForgetForced: cleanup leaves forced_close_pending set.
KeepForced == forced' = forced

ForgetForced == forced' = FALSE

\* _end_session up to the await of _cleanup_connection.
EndSession ==
  /\ pc = "serving" /\ routing = "ended"
  /\ close' = [code |-> socket.code, forced |-> forced]
  /\ conn' = FALSE /\ ForgetForced
  /\ hb' = Cancelled /\ pending' = FALSE
  /\ pc' = "cleaning"
  /\ UNCHANGED <<decider, mode, wait, stop, terminal, socket, routing, deadline, replies,
                 lag, history>>

\* The heartbeat is over and _close_websocket has closed what was still open.
CleanupDone ==
  /\ pc = "cleaning" /\ hb.pc \in {"off", "done"}
  /\ socket' = [socket EXCEPT !.st = "closed"]
  /\ routing' = "none" /\ hb' = NoHeartbeat
  /\ deadline' = 0 /\ replies' = {} /\ lag' = 0 /\ quiet' = 0
  /\ pc' = "disconnected"
  /\ UNCHANGED <<decider, mode, wait, stop, terminal, conn, forced, close, pending, churn>>

\* The code the decider is asked about: a forced close carries none.
DecidedCode == IF close.forced THEN "none" ELSE close.code

\* on_disconnect is over; _decide_reconnect.
DecideReconnect ==
  /\ pc = "disconnected"
  /\ \/ (stop \/ ~mode.auto) /\ Exit /\ UNCHANGED churn
     \/ /\ ~stop /\ mode.auto
        /\ Decide(AfterClose(decider, DecidedCode))
        /\ churn' = WithDisconnect(churn, decider.uptime)
  /\ close' = NoClose
  /\ UNCHANGED <<mode, stop, link, beats, quiet>>

WaitEnds ==
  /\ pc = "waiting" /\ (wait = 0 \/ stop)
  /\ pc' = IF stop THEN "exited" ELSE "connecting"
  /\ wait' = 0 /\ socket' = NoSocket
  /\ UNCHANGED <<decider, mode, stop, terminal, conn, routing, forced, close, beats, history>>

\* shutdown(): everybody sees the stop before its task takes its first step.
Shutdown ==
  /\ "shutdown" \in Env /\ ~stop /\ pc # "exited"
  /\ stop' = TRUE
  /\ UNCHANGED <<decider, mode, pc, wait, terminal, link, close, beats, history>>

\* _stop_supervisor and the _cleanup_connection that follows it.
StopSupervisor ==
  /\ stop /\ (pc # "exited" \/ conn)
  /\ pc' = "exited" /\ wait' = 0
  /\ conn' = FALSE /\ ForgetForced /\ routing' = "none"
  /\ socket' = [socket EXCEPT !.st = IF @ = "none" THEN @ ELSE "closed"]
  /\ hb' = NoHeartbeat /\ deadline' = 0 /\ pending' = FALSE /\ replies' = {}
  /\ UNCHANGED <<decider, mode, stop, terminal, close, lag, history>>

-----------------------------------------------------------------------------
(* The heartbeat *)

\* _force_close_connection: whoever calls it waits for the closing handshake.
ForceClose ==
  /\ forced' = TRUE
  /\ socket' = [socket EXCEPT !.st = "closing", !.by = "client"]

\* The heartbeat failed: its deadline expired, or it could not be sent.
HeartbeatFailed ==
  IF mode.enforced /\ socket.st = "open"
  THEN ForceClose /\ hb' = [hb EXCEPT !.pc = "forcing", !.sleep = 0]
  ELSE hb' = [hb EXCEPT !.pc = "done", !.sleep = 0] /\ UNCHANGED <<forced, socket>>

\* Mutant of BeatSkipped: an enforced beat is sent although one is outstanding.
BeatNeverSkipped == FALSE

\* Enforcement keeps one outstanding beat.
BeatSkipped == pending /\ mode.enforced

\* The sleep of _send_heartbeats is over.
Beats ==
  /\ hb.pc = "sleeping" /\ ~hb.cancelled /\ (hb.sleep = 0 \/ stop)
  /\ \/ stop /\ hb' = [hb EXCEPT !.pc = "done"] /\ UNCHANGED <<pending, replies, lag>>
     \/ ~stop /\ BeatSkipped /\ hb' = [hb EXCEPT !.sleep = Interval]
        /\ UNCHANGED <<pending, replies, lag>>
     \/ ~stop /\ ~BeatSkipped /\ hb' = [hb EXCEPT !.pc = "sending"]
        /\ pending' = TRUE /\ lag' = 0
        /\ replies' = IF replies = {} THEN {} ELSE {"stale"}
  /\ UNCHANGED <<decider, mode, pc, wait, stop, terminal, link, close, deadline, history>>

BeatSent ==
  /\ hb.pc = "sending" /\ ~hb.cancelled /\ socket.st = "open"
  /\ hb' = [hb EXCEPT !.pc = "sleeping", !.sleep = Interval]
  /\ UNCHANGED <<decider, mode, pc, wait, stop, terminal, link, close, deadline, pending,
                 replies, lag, history>>

BeatNotSent ==
  /\ hb.pc = "sending" /\ ~hb.cancelled
  /\ socket.st # "open" \/ ("sendfail" \in Env /\ ~mode.prompt)
  /\ HeartbeatFailed
  /\ UNCHANGED <<decider, mode, pc, wait, stop, terminal, conn, routing, close, deadline,
                 pending, replies, lag, history>>

Expires ==
  /\ mode.enforced /\ Monitoring /\ ~hb.cancelled /\ deadline = 0
  /\ HeartbeatFailed
  /\ UNCHANGED <<decider, mode, pc, wait, stop, terminal, conn, routing, close, deadline,
                 pending, replies, lag, history>>

\* A cancelled heartbeat ends; the close it was waiting for is aborted.
HeartbeatCancelled ==
  /\ hb.cancelled
  /\ hb' = [hb EXCEPT !.pc = "done", !.cancelled = FALSE]
  /\ socket' = [socket EXCEPT !.st = IF hb.pc = "forcing" THEN "closed" ELSE @]
  /\ UNCHANGED <<decider, mode, pc, wait, stop, terminal, conn, routing, forced, close,
                 deadline, pending, replies, lag, history>>

\* Mutant of Answered: any heartbeat reply acknowledges the pending beat.
AnsweredByAny(reply) == pending

Answered(reply) == reply = "pending" /\ pending

\* No running timer, or one that is due.
TooLate == ~Monitoring \/ deadline = 0

\* _handle_heartbeat_response, in the routing task.
HandleHeartbeatResponse(reply) ==
  /\ routing = "running" /\ reply \in replies
  /\ replies' = replies \ {reply}
  /\ IF Answered(reply) /\ ~(mode.enforced /\ TooLate)
     THEN pending' = FALSE /\ deadline' = Allowed
     ELSE UNCHANGED <<pending, deadline>>
  /\ quiet' = IF reply = "pending" /\ pending /\ quiet < Threshold THEN 0 ELSE quiet
  /\ UNCHANGED <<decider, mode, pc, wait, stop, terminal, link, close, hb, lag, churn>>

-----------------------------------------------------------------------------
(* The server, the network, the application and time *)

\* The server or the network ends the connection; nobody reads of it in a cleanup.
ConnectionCloses(code) ==
  /\ "close" \in Env /\ conn /\ socket.st = "open"
  /\ socket' = [st |-> "closed", code |-> code, by |-> "server"]
  /\ UNCHANGED <<decider, mode, pc, wait, stop, terminal, conn, routing, forced, close,
                 beats, history>>

\* The closing handshake ends, with whatever code the server puts in its frame.
ClosingEnds(code) ==
  /\ socket.st = "closing"
  /\ socket' = [socket EXCEPT !.st = "closed", !.code = code]
  /\ hb' = [hb EXCEPT !.pc = IF @ = "forcing" /\ ~hb.cancelled THEN "done" ELSE @]
  /\ UNCHANGED <<decider, mode, pc, wait, stop, terminal, conn, routing, forced, close,
                 deadline, pending, replies, lag, history>>

ServerAnswers(reply) ==
  /\ conn /\ socket.st = "open" /\ reply \notin replies
  /\ \/ reply = "pending" /\ "answer" \in Env /\ pending /\ Monitoring
     \/ reply = "stale" /\ "stale" \in Env
  /\ replies' = replies \cup {reply}
  /\ UNCHANGED <<decider, mode, pc, wait, stop, terminal, link, close, hb, deadline,
                 pending, lag, history>>

\* Client.close_connection.
CloseConnection ==
  /\ "force" \in Env /\ conn /\ socket.st = "open"
  /\ ForceClose
  /\ UNCHANGED <<decider, mode, pc, wait, stop, terminal, conn, routing, close, beats,
                 history>>

\* The routing task of an open connection reads the answers of a live server.
Served == routing = "running" /\ socket.st = "open"

TimersAreDue ==
  \/ pc = "waiting" /\ wait = 0
  \/ /\ Monitoring /\ ~hb.cancelled
     /\ \/ hb.pc = "sleeping" /\ hb.sleep = 0
        \/ mode.enforced /\ deadline = 0

\* A prompt server also reads what is written to it.
PromptServerIsLate ==
  mode.prompt /\ Served /\ ((pending /\ lag >= MaxLag) \/ hb.pc = "sending")

InSession == pc \in {"starting", "serving", "cleaning", "disconnected"}

\* Mutant of LessOne: a timer that is not running counts down, too.
AlwaysLess(n) == n - 1

LessOne(n) == IF n = 0 THEN 0 ELSE n - 1

\* Nothing else has a timer while the supervisor waits: its delay passes at once.
Ticks == IF pc = "waiting" THEN wait ELSE 1

Tick ==
  /\ pc # "exited" /\ ~TimersAreDue /\ ~PromptServerIsLate
  /\ pc = "connecting" => "slow" \in Env
  /\ InSession => decider.uptime < MaxUptime
  /\ decider' = Aged(decider, Ticks)
  /\ wait' = 0
  /\ hb' = [hb EXCEPT !.sleep = IF hb.pc = "sleeping" THEN LessOne(@) ELSE @]
  /\ deadline' = LessOne(deadline)
  /\ lag' = IF pending /\ mode.prompt THEN SmallerOf(lag + 1, MaxLag + 1) ELSE lag
  /\ quiet' = IF conn /\ mode.enforced THEN SmallerOf(quiet + 1, Threshold + 1) ELSE quiet
  /\ LET aged == [i \in DOMAIN churn |-> churn[i] + Ticks]
         stale == {i \in DOMAIN aged : aged[i] > Policy.rapid_window}
     IN  churn' = SubSeq(aged, Cardinality(stale) + 1, Len(aged))
  /\ UNCHANGED <<mode, pc, stop, terminal, link, close, pending, replies>>

-----------------------------------------------------------------------------

Connects == Adopts \/ AdoptsTooLate \/ \E forbidden \in BOOLEAN : ConnectFails(forbidden)

Supervisor ==
  \/ Connects \/ SessionStarted \/ RoutingEnds \/ EndSession \/ CleanupDone
  \/ DecideReconnect \/ WaitEnds

Heartbeat ==
  \/ Beats \/ BeatSent \/ BeatNotSent \/ Expires \/ HeartbeatCancelled
  \/ \E reply \in {"pending", "stale"} : HandleHeartbeatResponse(reply)

Environment ==
  \/ \E code \in Codes : ConnectionCloses(code) \/ ClosingEnds(code)
  \/ \E reply \in {"pending", "stale"} : ServerAnswers(reply)
  \/ CloseConnection \/ Shutdown

Next == Supervisor \/ Heartbeat \/ Environment \/ StopSupervisor \/ Tick

Spec == Init /\ [][Next]_vars

\* asyncio runs what is ready and every timer that is due; connecting and the
\* closing handshake have timeouts of their own; rejoins and callbacks end.
Fairness ==
  /\ WF_vars(Connects) /\ WF_vars(SessionStarted) /\ WF_vars(RoutingEnds)
  /\ WF_vars(EndSession) /\ WF_vars(CleanupDone) /\ WF_vars(DecideReconnect)
  /\ WF_vars(WaitEnds) /\ WF_vars(StopSupervisor)
  /\ WF_vars(Beats) /\ WF_vars(Expires) /\ WF_vars(HeartbeatCancelled)
  /\ WF_vars(\E reply \in {"pending", "stale"} : HandleHeartbeatResponse(reply))
  /\ WF_vars(\E code \in Codes : ClosingEnds(code))
  /\ WF_vars(Tick)

FairSpec == Spec /\ Fairness

-----------------------------------------------------------------------------
(* Properties *)

\* With heartbeat_dead_threshold_s, an open connection is never without an
\* answer to its outstanding beat for longer than the threshold: a late or a
\* foreign reply does not prolong it and a failed send does not end the
\* monitoring (_heartbeat_loop, _handle_heartbeat_response).
SilenceIsBounded ==
  mode.enforced /\ conn /\ socket.st = "open" /\ ~stop => quiet <= Threshold

\* A server that answers every beat within Threshold - Interval is never closed
\* by the heartbeat, whenever the beats that are skipped fall due.
PromptServerIsKept ==
  mode.enforced /\ mode.prompt /\ Served /\ Monitoring => deadline > 0

\* A policy violation stops the client if and only if the server closed the
\* session with it: the code of a forced close is not taken for a verdict, and a
\* forced close colours no later decision (forced_close_pending).
VerdictMatchesClose ==
  /\ terminal = "policy" => socket.by = "server" /\ socket.code = "policy"
  /\ pc = "waiting" /\ Policy.policy_violation_is_terminal =>
       ~(socket.by = "server" /\ socket.code = "policy")

Rapid(limit) == Cardinality({i \in DOMAIN churn : churn[i] < limit})

\* As many rapid disconnects as the policy allows within one window always stop
\* the client, and fewer never do, although the decider forgets them only when
\* it is asked and a stable connection clears them (_suppressed).
ChurnIsStopped ==
  /\ mode.auto /\ pc # "exited" =>
       Rapid(Policy.rapid_window) < Policy.rapid_suppress_disconnect_count
  /\ terminal = "suppressed" =>
       Rapid(Policy.rapid_window + 1) >= Policy.rapid_suppress_disconnect_count

\* What SessionLoop sees of the supervisor, the connection and the newest websocket.
Phase ==
  CASE pc \in {"starting", "serving"} -> "up"
    [] pc = "exited" -> "over"
    [] OTHER -> "down"

Holder ==
  CASE conn -> "session"
    [] ~conn /\ pc = "cleaning" -> "cleanup"
    [] OTHER -> "nobody"

Loop == INSTANCE SessionLoop WITH
  phase <- Phase, asked <- stop, holder <- Holder,
  open <- (socket.st \in {"open", "closing"})

\* The connection implements SessionLoop, also with forced closes that wait for a
\* closing handshake and are aborted in it: no connection is opened while the one
\* before is still closing, or becomes a session after a stop (_adopt_connection,
\* _cleanup_connection, _force_close_connection).
ConnectionsInTurn == Loop!Spec

\* Once shutdown() was called, nothing that still fails or closes turns the
\* requested stop into an error of run_forever() (_retry_after_connect_failure,
\* _decide_reconnect).
NoVerdictAfterStop == [][stop => terminal' = terminal]_vars

\* However the session ended, and whatever its heartbeat was doing, the client
\* connects again or stops (_cleanup_connection waits for the heartbeat task).
LossIsHandled == routing = "ended" ~> pc \in {"connecting", "exited"}

\* The client ends with an error only for the reasons the README names: a
\* refused handshake, a terminal close, or rapid disconnects.
StopsForAReason == terminal # "failed"

=============================================================================
