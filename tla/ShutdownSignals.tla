--------------------------- MODULE ShutdownSignals --------------------------
(***************************************************************************)
(* The process signals of run_forever(): the handlers that                 *)
(* handle_shutdown_signals installs and restores, the waiters they wake,   *)
(* and the host's own handlers before, around and after them.              *)
(*                                                                         *)
(* The main thread runs one piece of code at a time, and a signal handler  *)
(* interrupts it between any two of the steps below, also within           *)
(* _install, _unregister and _restore.  A loop that is closed without      *)
(* unwinding leaves its waiters behind, for the garbage collector to end   *)
(* in the main thread or in another one.                                   *)
(***************************************************************************)
EXTENDS Naturals, FiniteSets

CONSTANTS
  Waiters,     \* the calls of run_forever()
  MaxSignals,  \* bound: signals that arrive
  MaxHost,     \* bound: handlers of the host, per signal
  MaxLoop,     \* bound: event loops, one after the other
  Env          \* the environment events this instance allows

ASSUME SignalsAssumption ==
  /\ MaxSignals \in Nat /\ MaxHost \in Nat \ {0} /\ MaxLoop \in Nat \ {0}
  /\ Env \subseteq {"cancel", "stop", "close", "install"}

\* SHUTDOWN_SIGNALS, in the order of the loops over them: SIGTERM and SIGINT.
Signals == {1, 2}

\* A handler of the host is known by its number; 0 is one set outside Python, which
\* cannot be restored.
Ours == MaxHost + 1
Unset == MaxHost + 2

NoSignal == 0
Absent == 3

VARIABLES
  handler,    \* the handler table of the process
  host,       \* the last handler that the host installed
  chains,     \* whether that one calls ours, too
  previous,   \* the module's dict
  waiters,    \* the module's dict: the last signal each waiter took
  call,       \* run_forever()
  scheduled,  \* event.set is among the callbacks of the loop
  event,      \* the waiter's event
  loopOf,     \* the event loop of each, 0 before it enters
  loop,       \* the loop that runs; the ones before are closed
  main,       \* where the main thread is in _install or _unregister
  arrived,    \* the signals so far, which are numbered
  took,       \* history: the latest that each waiter took, 0 for none: it keeps one for all
  since,      \* history: how many there were when each waiter entered
  answered    \* history: those that a client acted on or that reached the host

vars == <<handler, host, chains, previous, waiters, call, scheduled, event, loopOf, loop,
          main, arrived, took, since, answered>>

Idle == [pc |-> "idle", who |-> "none", sig |-> 1, replaced |-> 0, received |-> NoSignal,
         consumed |-> FALSE]

TypeOK ==
  /\ handler \in [Signals -> 0..Ours]
  /\ host \in [Signals -> 0..MaxHost] /\ chains \in [Signals -> BOOLEAN]
  /\ previous \in [Signals -> 0..Unset]
  /\ waiters \in [Waiters -> {NoSignal, Absent} \cup Signals]
  /\ call \in [Waiters -> {"new", "entering", "waiting", "leaving", "done"}]
  /\ scheduled \in [Waiters -> BOOLEAN] /\ event \in [Waiters -> BOOLEAN]
  /\ loop \in 1..MaxLoop /\ loopOf \in [Waiters -> 0..MaxLoop]
  /\ main \in [pc : {"idle", "install", "record", "pop", "sweep", "restore", "handback"},
               who : Waiters \cup {"none"}, sig : Signals, replaced : 0..MaxHost,
               received : {NoSignal} \cup Signals, consumed : BOOLEAN]
  /\ arrived \in 0..MaxSignals
  /\ took \in [Waiters -> 0..MaxSignals] /\ since \in [Waiters -> 0..MaxSignals]
  /\ answered \subseteq 1..MaxSignals

Init ==
  /\ host \in [Signals -> {0, 1}] /\ handler = host
  /\ chains = [s \in Signals |-> FALSE]
  /\ previous = [s \in Signals |-> Unset]
  /\ waiters = [w \in Waiters |-> Absent]
  /\ call = [w \in Waiters |-> "new"]
  /\ scheduled = [w \in Waiters |-> FALSE] /\ event = [w \in Waiters |-> FALSE]
  /\ loop = 1 /\ loopOf = [w \in Waiters |-> 0]
  /\ main = Idle
  /\ arrived = 0
  /\ took = [w \in Waiters |-> 0] /\ since = [w \in Waiters |-> 0]
  /\ answered = {}

-----------------------------------------------------------------------------

Owned(s) == handler[s] = Ours

\* A waiter's loop is not closed.
Live(w) == loopOf[w] >= loop

Registered == {w \in Waiters : waiters[w] # Absent}

LiveWaiters == {w \in Registered : Live(w)}

\* _restore, in one piece: within the signal handler.
Restored(table) == [s \in Signals |-> IF table[s] = Ours THEN previous[s] ELSE table[s]]

Wakes(w) == w \in LiveWaiters

\* Mutant of Schedules: a waiter that is not waiting yet is not woken.
SchedulesIfWaiting(w) == Wakes(w) /\ call[w] = "waiting"

\* The handler calls call_soon_threadsafe for every waiter it wakes.
Schedules(w) == Wakes(w)

\* _on_shutdown_signal, but for handing back: signal s, the i-th, wakes every live waiter
\* of the table.
Wake(table, s, i) ==
  /\ waiters' = [w \in Waiters |-> IF Wakes(w) THEN s ELSE table[w]]
  /\ scheduled' = [w \in Waiters |-> scheduled[w] \/ Schedules(w)]
  /\ took' = [w \in Waiters |-> IF Wakes(w) /\ i > took[w] THEN i ELSE took[w]]

\* The handler in place runs, and it is the host's.  It may call ours, which then only wakes.
HostHandles(table, s, i) ==
  /\ answered' = answered \cup {i}
  /\ IF chains[s] THEN Wake(table, s, i)
     ELSE waiters' = table /\ UNCHANGED <<scheduled, took>>

\* Mutant of HandsBack: a signal that no loop waits for is dropped.
Swallows(s) == FALSE

\* No loop that waits is left: the signal is the host's.
HandsBack(s) == LiveWaiters = {}

\* A signal interrupts the main thread, wherever that is.
Signal(s) ==
  /\ arrived < MaxSignals
  /\ arrived' = arrived + 1
  /\ IF Owned(s)
     THEN /\ Wake(waiters, s, arrived + 1)
          /\ handler' = IF HandsBack(s) THEN Restored(handler) ELSE handler
          /\ answered' = IF HandsBack(s) THEN answered \cup {arrived + 1} ELSE answered
     ELSE HostHandles(waiters, s, arrived + 1) /\ UNCHANGED handler
  /\ UNCHANGED <<host, chains, previous, call, event, loopOf, loop, main, since>>

-----------------------------------------------------------------------------
(* Entering *)

\* The steps over both signals: the next one, or what follows the last.
NextSignal(m, pc) == IF m.sig = 1 THEN [m EXCEPT !.sig = 2] ELSE [m EXCEPT !.pc = pc, !.sig = 1]

\* The waiter is registered before the handlers are installed.
Enter(w) ==
  /\ main.pc = "idle" /\ call[w] = "new"
  /\ loopOf' = [loopOf EXCEPT ![w] = loop]
  /\ waiters' = [waiters EXCEPT ![w] = NoSignal]
  /\ call' = [call EXCEPT ![w] = "entering"]
  /\ since' = [since EXCEPT ![w] = arrived]
  /\ main' = [Idle EXCEPT !.pc = "install", !.who = w]
  /\ UNCHANGED <<handler, host, chains, previous, scheduled, event, loop, arrived, took,
                 answered>>

Entered(m) == IF m.pc = "entered" THEN Idle ELSE m

\* _install, one signal: a handler that is ours already, or was set outside Python, stays.
Install ==
  /\ main.pc = "install"
  /\ IF Owned(main.sig) \/ handler[main.sig] = 0
     THEN /\ main' = Entered(NextSignal(main, "entered"))
          /\ call' = IF main.sig = 2 THEN [call EXCEPT ![main.who] = "waiting"] ELSE call
          /\ UNCHANGED handler
     ELSE /\ handler' = [handler EXCEPT ![main.sig] = Ours]
          /\ main' = [main EXCEPT !.pc = "record", !.replaced = handler[main.sig]]
          /\ UNCHANGED call
  /\ UNCHANGED <<host, chains, previous, waiters, scheduled, event, loopOf, loop, arrived,
                 took, since, answered>>

\* What signal.signal returned is stored.
Record ==
  /\ main.pc = "record"
  /\ previous' = [previous EXCEPT ![main.sig] = main.replaced]
  /\ main' = Entered(NextSignal([main EXCEPT !.pc = "install"], "entered"))
  /\ call' = IF main.sig = 2 THEN [call EXCEPT ![main.who] = "waiting"] ELSE call
  /\ UNCHANGED <<handler, host, chains, waiters, scheduled, event, loopOf, loop, arrived,
                 took, since, answered>>

-----------------------------------------------------------------------------
(* Waiting and leaving *)

\* The loop runs the callback that the handler scheduled.
SetEvent(w) ==
  /\ main.pc = "idle" /\ scheduled[w] /\ loopOf[w] = loop
  /\ scheduled' = [scheduled EXCEPT ![w] = FALSE]
  /\ event' = [event EXCEPT ![w] = TRUE]
  /\ UNCHANGED <<handler, host, chains, previous, waiters, call, loopOf, loop, main,
                 arrived, took, since, answered>>

Leave(w, consumed) ==
  /\ main.pc = "idle" /\ call[w] = "waiting"
  /\ call' = [call EXCEPT ![w] = "leaving"]
  /\ main' = [Idle EXCEPT !.pc = "pop", !.who = w, !.consumed = consumed]
  /\ UNCHANGED <<handler, host, chains, previous, waiters, scheduled, event, loopOf, loop,
                 arrived, took, since, answered>>

\* The event is set or the supervisor is done: the body completes.
Completes(w) == loopOf[w] = loop /\ (event[w] \/ "stop" \in Env) /\ Leave(w, event[w])

\* run_forever() is cancelled.
Cancelled(w) == "cancel" \in Env /\ loopOf[w] = loop /\ Leave(w, FALSE)

\* The generator of a closed loop is finalized in the main thread.
Finalized(w) == ~Live(w) /\ Leave(w, FALSE)

Pop ==
  /\ main.pc = "pop"
  /\ main' = [main EXCEPT !.pc = "sweep",
                          !.received = IF waiters[main.who] = Absent THEN NoSignal
                                       ELSE waiters[main.who]]
  /\ waiters' = [waiters EXCEPT ![main.who] = Absent]
  /\ UNCHANGED <<handler, host, chains, previous, call, scheduled, event, loopOf, loop,
                 arrived, took, since, answered>>

\* Mutant of IsLast: every waiter that leaves restores the handlers.
IsLastOrNot == TRUE

IsLast == LiveWaiters = {}

\* The waiters of closed loops never block a restore.
Swept == [w \in Waiters |-> IF Live(w) THEN waiters[w] ELSE Absent]

\* The last waiter restores.
Sweep ==
  /\ main.pc = "sweep"
  /\ waiters' = Swept
  /\ main' = [main EXCEPT !.pc = IF IsLast THEN "restore" ELSE "handback"]
  /\ UNCHANGED <<handler, host, chains, previous, call, scheduled, event, loopOf, loop,
                 arrived, took, since, answered>>

Restore ==
  /\ main.pc = "restore"
  /\ handler' = [handler EXCEPT ![main.sig] = Restored(handler)[main.sig]]
  /\ main' = NextSignal(main, "handback")
  /\ UNCHANGED <<host, chains, previous, waiters, call, scheduled, event, loopOf, loop,
                 arrived, took, since, answered>>

\* Mutant of Returned: a signal is the client's once its event is set.
ReturnedUnset(m) == m.received # NoSignal /\ ~event[m.who] /\ ~Owned(m.received)

\* A signal that was taken and not consumed is raised again.
Returned(m) == m.received # NoSignal /\ ~m.consumed /\ ~Owned(m.received)

\* w is gone from the table.  The signal it received goes back to the host, or is the
\* client's, which shuts down.
Gone(w, table, received, consumed, returned) ==
  /\ call' = [call EXCEPT ![w] = "done"]
  /\ IF returned
     THEN HostHandles(table, received, took[w])
     ELSE /\ waiters' = table
          /\ answered' = IF consumed THEN answered \cup {took[w]} ELSE answered
          /\ UNCHANGED <<scheduled, took>>

HandBack ==
  /\ main.pc = "handback"
  /\ main' = Idle
  /\ Gone(main.who, waiters, main.received, main.consumed, Returned(main))
  /\ UNCHANGED <<handler, host, chains, previous, event, loopOf, loop, arrived, since>>

\* The generator of a closed loop is finalized in another thread, which cannot restore.
FinalizedElsewhere(w) ==
  /\ ~Live(w) /\ call[w] = "waiting"
  /\ Gone(w, Swept, waiters[w], FALSE, waiters[w] \in Signals /\ ~Owned(waiters[w]))
  /\ UNCHANGED <<handler, host, chains, previous, event, loopOf, loop, main, arrived,
                 since>>

-----------------------------------------------------------------------------
(* The host *)

\* The loop that runs is closed, with what still waits in it.
CloseLoop ==
  /\ "close" \in Env /\ main.pc = "idle" /\ loop < MaxLoop
  /\ loop' = loop + 1
  /\ UNCHANGED <<handler, host, chains, previous, waiters, call, scheduled, event, loopOf,
                 main, arrived, took, since, answered>>

\* The host installs a handler while ours is there, which may call ours.
HostInstalls(s) ==
  /\ "install" \in Env /\ main.pc = "idle" /\ host[s] < MaxHost
  /\ host' = [host EXCEPT ![s] = @ + 1]
  /\ handler' = [handler EXCEPT ![s] = host[s] + 1]
  /\ \E chained \in {FALSE, Owned(s)} : chains' = [chains EXCEPT ![s] = chained]
  /\ UNCHANGED <<previous, waiters, call, scheduled, event, loopOf, loop, main, arrived,
                 took, since, answered>>

-----------------------------------------------------------------------------

MainGoesOn == Install \/ Record \/ Pop \/ Sweep \/ Restore \/ HandBack

Waiter(w) ==
  \/ Enter(w) \/ SetEvent(w) \/ Completes(w) \/ Cancelled(w)
  \/ Finalized(w) \/ FinalizedElsewhere(w)

Next ==
  \/ \E s \in Signals : Signal(s) \/ HostInstalls(s)
  \/ MainGoesOn \/ CloseLoop
  \/ \E w \in Waiters : Waiter(w)

\* The main thread goes on, and a loop that runs runs what is ready.  Nothing is assumed
\* of the host, of further signals, or of the garbage collector.
Fairness ==
  /\ WF_vars(MainGoesOn)
  /\ \A w \in Waiters : WF_vars(SetEvent(w)) /\ WF_vars(event[w] /\ Completes(w))

Spec == Init /\ [][Next]_vars /\ Fairness

-----------------------------------------------------------------------------

\* The latest signal is never just dropped: a client acted on it, or it reached the host, or
\* a waiter holds it.  The code does lose one in two cases, which the property names: with
\* the loop of a waiter that took it, and when a waiter that entered after it, and so never
\* saw it, keeps the handlers from being restored as another one gives it up.
SignalIsKept ==
  \/ arrived = 0 \/ arrived \in answered
  \/ \E w \in Waiters : took[w] = arrived /\ (call[w] # "done" \/ ~Live(w))
  \/ \E w \in Waiters : call[w] # "new" /\ since[w] >= arrived

\* Between the calls the table holds the host's last handler, or ours, which then knows that
\* one.  Ours is there for every waiter, unless the host replaced it since, and for nobody
\* else, unless a loop was closed: no order of entering and leaving, no handler that the
\* host installs meanwhile and no signal in the middle of it disturbs that.
HandlersAreThose ==
  main.pc = "idle" =>
    \A s \in Signals :
      /\ handler[s] = host[s] \/ (handler[s] = Ours /\ previous[s] = host[s])
      /\ handler[s] = Ours => LiveWaiters # {} \/ loop > 1
      /\ LiveWaiters # {} => handler[s] \in {0, Ours} \/ handler[s] # previous[s]

\* A signal that a waiter took ends its wait, unless its loop is closed first.
SignalStops ==
  \A w \in Waiters :
    call[w] = "waiting" /\ Live(w) /\ took[w] # 0 ~> call[w] # "waiting" \/ ~Live(w)

=============================================================================
