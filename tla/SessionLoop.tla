---------------------------- MODULE SessionLoop ----------------------------
(***************************************************************************)
(* What the supervisor promises of its connections, without channels,      *)
(* heartbeats or decisions: they come in turn.  A connection is opened     *)
(* when the one before is closed and nobody holds it; it becomes a session *)
(* only before a stop is asked for; one that arrives later is held all the *)
(* same, for the shutdown to close.  Whoever gives up a connection has it  *)
(* closed, so an open socket always has somebody to close it.              *)
(***************************************************************************)

VARIABLES
  phase,   \* the supervisor is between sessions, in one, or gone
  asked,   \* a stop was asked for
  holder,  \* who has the connection: a session, a cleanup, or nobody
  open     \* whether a socket is open

loop == <<phase, asked, holder, open>>

Init == phase = "down" /\ asked = FALSE /\ holder = "nobody" /\ open = FALSE

-----------------------------------------------------------------------------

\* The connection before is over, and its socket closed.
Free == holder = "nobody" /\ ~open

Hold == holder' = "session" /\ open' = TRUE

GiveUp == holder' = "nobody" /\ open' = FALSE

Open ==
  /\ phase = "down" /\ ~asked /\ Free
  /\ phase' = "up" /\ Hold
  /\ UNCHANGED asked

\* A connection that was under way as the stop was asked for ends the supervisor.
OpenTooLate ==
  /\ phase = "down" /\ asked /\ Free
  /\ phase' = "over" /\ Hold
  /\ UNCHANGED asked

\* The peer, the network, or whoever has the connection closes its socket.
Shut ==
  /\ open /\ holder # "nobody"
  /\ open' = FALSE
  /\ UNCHANGED <<phase, asked, holder>>

\* The session is over: its connection goes to the cleanup.
EndSession ==
  /\ phase = "up" /\ holder = "session"
  /\ phase' = "down" /\ holder' = "cleanup"
  /\ UNCHANGED <<asked, open>>

\* The shutdown takes the connection of a supervisor that is gone.
TakeDown ==
  /\ phase = "over" /\ asked /\ holder = "session"
  /\ holder' = "cleanup"
  /\ UNCHANGED <<phase, asked, open>>

\* A cleanup gives up the connection, and so does a shutdown that does all at once.
CleanUp ==
  /\ holder = "cleanup" \/ (holder = "session" /\ phase = "over" /\ asked)
  /\ GiveUp
  /\ UNCHANGED <<phase, asked>>

Ask ==
  /\ asked' = TRUE
  /\ UNCHANGED <<phase, holder, open>>

\* The supervisor ends between two connections, or wherever a stop meets it; then the
\* connection stays with whoever has it, or is given up at once.
End ==
  /\ phase # "over" /\ (asked \/ (phase = "down" /\ Free))
  /\ phase' = "over"
  /\ UNCHANGED <<holder, open>> \/ GiveUp
  /\ UNCHANGED asked

Next == Open \/ OpenTooLate \/ Shut \/ EndSession \/ TakeDown \/ CleanUp \/ Ask \/ End

Spec == Init /\ [][Next]_loop

=============================================================================
