------------------------ MODULE ShutdownSignalsProofs -----------------------
(***************************************************************************)
(* Proofs about the process signals of run_forever(): for any calls and    *)
(* any number of signals, host handlers and loops, the table of handlers   *)
(* is between the calls as the host left it, or ours is in place of that.  *)
(***************************************************************************)
EXTENDS ShutdownSignals, TLAPS

Places == {"idle", "install", "record", "pop", "sweep", "restore", "handback"}

MainStates ==
  [pc : Places, who : Waiters \cup {"none"}, sig : Signals, replaced : 0..MaxHost,
   received : {NoSignal} \cup Signals, consumed : BOOLEAN]

WaiterTable == [Waiters -> {NoSignal, Absent} \cup Signals]

\* The steps over both signals, whose number main.sig is.
Stepping == {"install", "record", "restore"}

\* Where the main thread is in a call, and with whom: the waiter that installs is there,
\* and nobody is when the handlers are restored.
Placed ==
  /\ \A w \in Waiters : loopOf[w] <= loop
  /\ main.pc # "idle" => main.who \in Waiters
  /\ main.pc \in {"install", "record"} => main.who \in LiveWaiters
  /\ main.pc = "restore" => LiveWaiters = {}
  /\ main.pc \notin Stepping => main.sig = 1

\* Who took a signal knows which.
Taken ==
  /\ \A w \in Waiters : waiters[w] \in Signals \/ scheduled[w] \/ event[w] => took[w] > 0
  /\ main.received # NoSignal \/ main.consumed => main.who \in Waiters /\ took[main.who] > 0

\* Between the replacement of a handler and its record, only the main thread knows it.
Recording(s) == main.pc = "record" /\ main.sig = s

Tables ==
  \A s \in Signals :
    /\ previous[s] = Unset \/ previous[s] <= host[s]
    /\ IF Recording(s) THEN handler[s] = Ours /\ main.replaced = host[s]
       ELSE handler[s] = host[s] \/ (handler[s] = Ours /\ previous[s] = host[s])

\* Ours is there for somebody, or about to be taken away.
Needed ==
  loop = 1 => \A s \in Signals : handler[s] = Ours =>
    \/ LiveWaiters # {} \/ main.pc = "sweep" \/ (main.pc = "restore" /\ s >= main.sig)

\* Whoever waits has ours in place, or a handler of the host that is newer.
Installed ==
  LiveWaiters # {} => \A s \in Signals :
    \/ main.pc \in {"install", "record"} /\ s >= main.sig
    \/ handler[s] \in {0, Ours} \/ handler[s] # previous[s]

\* The inductive invariant.
IInv == TypeOK /\ Placed /\ Taken /\ Tables /\ Needed /\ Installed

-----------------------------------------------------------------------------
(* The steps of the main thread *)

\* The main thread comes to another place, or to the other signal.
LEMMA PlaceUpdate ==
  ASSUME NEW r \in MainStates, NEW v \in Places
  PROVE  [r EXCEPT !.pc = v] =
           [pc |-> v, who |-> r.who, sig |-> r.sig, replaced |-> r.replaced,
            received |-> r.received, consumed |-> r.consumed]
BY DEF MainStates

\* A step to another place and another signal.
LEMMA BothUpdated ==
  ASSUME NEW r \in MainStates, NEW v \in Places \cup {"entered"}, NEW n \in Signals,
         NEW q, q = [r EXCEPT !.pc = v, !.sig = n]
  PROVE  q = [pc |-> v, who |-> r.who, sig |-> n, replaced |-> r.replaced,
              received |-> r.received, consumed |-> r.consumed]
BY DEF MainStates

\* What follows one of the two signals.
LEMMA NextSignalIs ==
  ASSUME NEW r \in MainStates, NEW v \in Places \cup {"entered"}
  PROVE  NextSignal(r, v) =
           [pc |-> IF r.sig = 1 THEN r.pc ELSE v, who |-> r.who,
            sig |-> IF r.sig = 1 THEN 2 ELSE 1, replaced |-> r.replaced,
            received |-> r.received, consumed |-> r.consumed]
<1>1. [r EXCEPT !.sig = 2] =
        [pc |-> r.pc, who |-> r.who, sig |-> 2, replaced |-> r.replaced,
         received |-> r.received, consumed |-> r.consumed]
  BY DEF MainStates
<1>2. [r EXCEPT !.pc = v, !.sig = 1] =
        [pc |-> v, who |-> r.who, sig |-> 1, replaced |-> r.replaced,
         received |-> r.received, consumed |-> r.consumed]
  <2>1. 1 \in Signals
    BY DEF Signals
  <2> QED
    BY <2>1, BothUpdated, Zenon
<1> QED
  BY <1>1, <1>2 DEF NextSignal

\* The next signal to install, or the end of the entry.
LEMMA InstallGoesOn ==
  ASSUME NEW r \in MainStates, r.pc = "install"
  PROVE  /\ Entered(NextSignal(r, "entered")) \in MainStates
         /\ r.sig = 1 => Entered(NextSignal(r, "entered")) =
              [pc |-> "install", who |-> r.who, sig |-> 2, replaced |-> r.replaced,
               received |-> r.received, consumed |-> r.consumed]
         /\ r.sig # 1 => Entered(NextSignal(r, "entered")) = Idle
<1>1. Idle \in MainStates
  BY SignalsAssumption DEF Idle, MainStates, Places, Signals, NoSignal
<1>2. CASE r.sig = 1
  <2>1. NextSignal(r, "entered") =
          [pc |-> "install", who |-> r.who, sig |-> 2, replaced |-> r.replaced,
           received |-> r.received, consumed |-> r.consumed]
    BY <1>2, NextSignalIs
  <2>2. Entered(NextSignal(r, "entered")) = NextSignal(r, "entered")
    BY <2>1 DEF Entered
  <2> QED
    BY <1>2, <2>1, <2>2 DEF MainStates, Places, Signals
<1>3. CASE r.sig # 1
  <2>1. NextSignal(r, "entered").pc = "entered"
    BY <1>3, NextSignalIs
  <2> QED
    BY <1>1, <1>3, <2>1 DEF Entered
<1> QED
  BY <1>2, <1>3

-----------------------------------------------------------------------------
(* Who waits *)

\* The waiters of closed loops do not count.
LEMMA SweptKeeps ==
  ASSUME TypeOK
  PROVE  /\ Swept \in WaiterTable
         /\ \A w \in Waiters : Swept[w] = waiters[w] \/ (Swept[w] = Absent /\ ~Live(w))
BY DEF Swept, TypeOK, WaiterTable, Absent

\* As long as nobody is registered or forgotten in a loop that runs, the same ones wait.
LEMMA SameWait ==
  ASSUME UNCHANGED <<loopOf, loop>>,
         \A w \in Waiters : Live(w) => (waiters'[w] = Absent <=> waiters[w] = Absent)
  PROVE  LiveWaiters' = LiveWaiters
BY DEF LiveWaiters, Registered, Live

\* A handler that wakes changes neither who waits nor anything of the main thread.
LEMMA WakeKeeps ==
  ASSUME TypeOK, Taken, NEW table \in WaiterTable, NEW s \in Signals, NEW i \in 1..MaxSignals,
         \A w \in Waiters : table[w] = waiters[w] \/ (table[w] = Absent /\ ~Live(w)),
         Wake(table, s, i)
  PROVE  /\ waiters' \in WaiterTable /\ scheduled' \in [Waiters -> BOOLEAN]
         /\ took' \in [Waiters -> 0..MaxSignals]
         /\ \A w \in Waiters : Live(w) => (waiters'[w] = Absent <=> waiters[w] = Absent)
         /\ \A w \in Waiters : took'[w] >= took[w]
         /\ \A w \in Waiters : waiters'[w] \in Signals \/ scheduled'[w] => took'[w] > 0
<1> USE SignalsAssumption
<1>1. /\ waiters' = [w \in Waiters |-> IF Wakes(w) THEN s ELSE table[w]]
      /\ scheduled' = [w \in Waiters |-> scheduled[w] \/ Schedules(w)]
      /\ took' = [w \in Waiters |-> IF Wakes(w) /\ i > took[w] THEN i ELSE took[w]]
  BY DEF Wake
<1>2. waiters' \in WaiterTable
  BY <1>1 DEF WaiterTable
<1>3. scheduled' \in [Waiters -> BOOLEAN]
  BY <1>1 DEF TypeOK, Schedules, Wakes
<1>4. took' \in [Waiters -> 0..MaxSignals] /\ \A w \in Waiters : took'[w] >= took[w]
  BY <1>1 DEF TypeOK
<1>5. \A w \in Waiters : Wakes(w) => waiters[w] # Absent /\ took'[w] > 0
  BY <1>1 DEF Wakes, LiveWaiters, Registered, TypeOK
<1>6. \A w \in Waiters : Live(w) => (waiters'[w] = Absent <=> waiters[w] = Absent)
  BY <1>1, <1>5 DEF Signals, Absent
<1>7. ASSUME NEW w \in Waiters, waiters'[w] \in Signals \/ scheduled'[w]
      PROVE  took'[w] > 0
  <2>1. CASE Wakes(w)
    BY <1>5, <2>1
  <2>2. CASE ~Wakes(w)
    <3>1. waiters'[w] = table[w] /\ took'[w] = took[w]
      BY <1>1, <2>2
    <3>3. scheduled'[w] => scheduled[w]
      BY <1>1, <2>2, Zenon DEF Schedules
    <3>2. table[w] \in Signals => waiters[w] \in Signals
      BY DEF Signals, Absent
    <3> QED
      BY <1>7, <3>1, <3>2, <3>3 DEF Taken
  <2> QED
    BY <2>1, <2>2
<1> QED
  BY <1>2, <1>3, <1>4, <1>6, <1>7

\* So does the host's handler, whether it calls ours or not.
LEMMA HostHandlesKeeps ==
  ASSUME TypeOK, Taken, NEW table \in WaiterTable, NEW s \in Signals, NEW i \in 1..MaxSignals,
         \A w \in Waiters : table[w] = waiters[w] \/ (table[w] = Absent /\ ~Live(w)),
         HostHandles(table, s, i)
  PROVE  /\ waiters' \in WaiterTable /\ scheduled' \in [Waiters -> BOOLEAN]
         /\ took' \in [Waiters -> 0..MaxSignals] /\ answered' \subseteq 1..MaxSignals
         /\ \A w \in Waiters : Live(w) => (waiters'[w] = Absent <=> waiters[w] = Absent)
         /\ \A w \in Waiters : took'[w] >= took[w]
         /\ \A w \in Waiters : waiters'[w] \in Signals \/ scheduled'[w] => took'[w] > 0
<1>1. answered' \subseteq 1..MaxSignals
  BY DEF HostHandles, TypeOK
<1>2. CASE chains[s]
  BY <1>1, <1>2, WakeKeeps DEF HostHandles
<1>3. CASE ~chains[s]
  <2>1. waiters' = table /\ UNCHANGED <<scheduled, took>>
    BY <1>3 DEF HostHandles
  <2>2. \A w \in Waiters : table[w] \in Signals => waiters[w] \in Signals
    BY DEF Signals, Absent
  <2>3. \A w \in Waiters : took[w] \in 0..MaxSignals
    BY DEF TypeOK
  <2> QED
    BY <1>1, <2>1, <2>2, <2>3, SignalsAssumption DEF Taken, TypeOK
<1> QED
  BY <1>2, <1>3

\* Whatever leaves the handlers, the main thread and those who wait alone keeps the rest.
LEMMA OthersKeep ==
  ASSUME IInv, TypeOK', Taken', LiveWaiters' = LiveWaiters,
         UNCHANGED <<handler, host, previous, main, loopOf, loop>>
  PROVE  IInv'
BY DEF IInv, Placed, Tables, Recording, Needed, Installed

-----------------------------------------------------------------------------
(* Entering *)

\* The main thread is somewhere, with somebody.
LEMMA MainIsTyped ==
  ASSUME TypeOK
  PROVE  main \in MainStates /\ Idle \in MainStates
BY SignalsAssumption DEF TypeOK, MainStates, Places, Idle, Signals, NoSignal

\* Who enters is registered before anything is installed, so that somebody waits for ours.
LEMMA EnterKeeps ==
  ASSUME IInv, NEW w \in Waiters, Enter(w)
  PROVE  IInv'
<1> USE SignalsAssumption DEF IInv
<1>1. /\ main.pc = "idle"
      /\ main' = [pc |-> "install", who |-> w, sig |-> 1, replaced |-> 0,
                  received |-> NoSignal, consumed |-> FALSE]
  BY DEF Enter, Idle
<1>2. /\ loopOf' = [loopOf EXCEPT ![w] = loop] /\ waiters' = [waiters EXCEPT ![w] = NoSignal]
      /\ call' = [call EXCEPT ![w] = "entering"] /\ since' = [since EXCEPT ![w] = arrived]
      /\ UNCHANGED <<handler, host, chains, previous, scheduled, event, loop, arrived, took,
                     answered>>
  BY DEF Enter
<1>3. TypeOK'
  <2>1. main' \in MainStates
    BY <1>1 DEF MainStates, Places, Signals, NoSignal
  <2>2. /\ loopOf' \in [Waiters -> 0..MaxLoop] /\ call' \in
             [Waiters -> {"new", "entering", "waiting", "leaving", "done"}]
        /\ since' \in [Waiters -> 0..MaxSignals]
    BY <1>2 DEF TypeOK
  <2>3. waiters' \in [Waiters -> {NoSignal, Absent} \cup Signals]
    BY <1>2 DEF TypeOK
  <2> QED
    BY <1>2, <2>1, <2>2, <2>3 DEF TypeOK, MainStates, Places
<1>4. w \in LiveWaiters'
  BY <1>2 DEF LiveWaiters, Registered, Live, TypeOK, NoSignal, Absent
<1>5. Placed'
  BY <1>1, <1>2, <1>4 DEF Placed, TypeOK, Stepping
<1>6. Taken'
  <2>1. \A x \in Waiters : waiters'[x] \in Signals => waiters[x] \in Signals
    BY <1>2 DEF TypeOK, NoSignal, Signals
  <2> QED
    BY <1>1, <1>2, <2>1 DEF Taken
<1>7. Tables'
  BY <1>1, <1>2 DEF Tables, Recording
<1>8. Needed' /\ Installed'
  BY <1>1, <1>4 DEF Needed, Installed, Signals
<1> QED
  BY <1>3, <1>5, <1>6, <1>7, <1>8

\* What installing one signal, and going on to the next, must keep.
LEMMA InstallKeeps ==
  ASSUME IInv, Install
  PROVE  IInv'
<1> USE SignalsAssumption DEF IInv
<1> DEFINE s == main.sig
<1>1. /\ main \in MainStates /\ Idle \in MainStates /\ main.pc = "install"
      /\ main.who \in LiveWaiters /\ main.who \in Waiters /\ s \in Signals
  BY MainIsTyped DEF Install, Placed, MainStates
<1>2. UNCHANGED <<host, chains, previous, waiters, scheduled, event, loopOf, loop, arrived,
                  took, since, answered>>
  BY DEF Install
<1>3. LiveWaiters' = LiveWaiters
  BY <1>2 DEF LiveWaiters, Registered, Live
<1>4. CASE Owned(s) \/ handler[s] = 0
  <2>1. /\ main' = Entered(NextSignal(main, "entered")) /\ UNCHANGED handler
        /\ call' = IF s = 2 THEN [call EXCEPT ![main.who] = "waiting"] ELSE call
    BY <1>4 DEF Install
  <2>2. TypeOK'
    <3>1. main' \in MainStates
      BY <1>1, <2>1, InstallGoesOn
    <3>2. call' \in [Waiters -> {"new", "entering", "waiting", "leaving", "done"}]
      BY <1>1, <2>1 DEF TypeOK
    <3> QED
      BY <1>2, <2>1, <3>1, <3>2 DEF TypeOK, MainStates, Places
  <2>3. \/ s = 1 /\ main'.pc = "install" /\ main'.who = main.who /\ main'.sig = 2
           /\ main'.received = main.received /\ main'.consumed = main.consumed
        \/ s = 2 /\ main'.pc = "idle" /\ main'.sig = 1
           /\ main'.received = NoSignal /\ main'.consumed = FALSE
    BY <1>1, <2>1, InstallGoesOn DEF Idle, Signals
  <2>4. Placed'
    BY <1>1, <1>2, <1>3, <2>3 DEF Placed, Stepping
  <2>5. Taken'
    BY <1>2, <2>3 DEF Taken
  <2>6. Tables'
    BY <1>1, <1>2, <2>1, <2>3 DEF Tables, Recording
  <2>7. Needed'
    BY <1>1, <1>3 DEF Needed
  <2>8. Installed'
    BY <1>1, <1>2, <1>3, <1>4, <2>1, <2>3 DEF Installed, Signals, Owned
  <2> QED
    BY <2>2, <2>4, <2>5, <2>6, <2>7, <2>8
<1>5. CASE ~(Owned(s) \/ handler[s] = 0)
  <2>1. /\ main' = [main EXCEPT !.pc = "record", !.replaced = handler[s]]
        /\ handler' = [handler EXCEPT ![s] = Ours] /\ UNCHANGED call
    BY <1>5 DEF Install
  <2>2. /\ main'.pc = "record" /\ main'.who = main.who /\ main'.sig = s
        /\ main'.replaced = handler[s] /\ main'.received = main.received
        /\ main'.consumed = main.consumed
    BY <1>1, <2>1 DEF MainStates
  <2>3. handler[s] \in 0..MaxHost
    BY <1>1, <1>5 DEF TypeOK, Owned, Ours
  <2>4. TypeOK'
    <3>1. main' \in MainStates
      BY <1>1, <2>1, <2>3 DEF MainStates, Places
    <3>2. handler' \in [Signals -> 0..Ours]
      BY <1>1, <2>1 DEF TypeOK, Ours
    <3> QED
      BY <1>2, <2>1, <3>1, <3>2 DEF TypeOK, MainStates, Places
  <2>5. Placed'
    BY <1>1, <1>2, <1>3, <2>2 DEF Placed, Stepping
  <2>6. Taken'
    BY <1>2, <2>2 DEF Taken
  <2>7. Tables'
    <3>1. ASSUME NEW t \in Signals
          PROVE  handler'[t] = IF t = s THEN Ours ELSE handler[t]
      BY <2>1 DEF TypeOK
    <3>2. handler[s] = host[s]
      BY <1>1, <1>5 DEF Tables, Recording, Owned
    <3> QED
      BY <1>1, <1>2, <2>2, <3>1, <3>2 DEF Tables, Recording
  <2>8. Needed'
    BY <1>1, <1>3 DEF Needed
  <2>9. Installed'
    BY <1>1, <1>2, <1>3, <2>1, <2>2 DEF Installed, Signals, TypeOK
  <2> QED
    BY <2>4, <2>5, <2>6, <2>7, <2>8, <2>9
<1> QED
  BY <1>4, <1>5

\* What was replaced is recorded before the next signal is installed.
LEMMA RecordKeeps ==
  ASSUME IInv, Record
  PROVE  IInv'
<1> USE SignalsAssumption DEF IInv
<1> DEFINE s == main.sig
           r == [main EXCEPT !.pc = "install"]
<1>1. /\ main \in MainStates /\ Idle \in MainStates /\ main.pc = "record"
      /\ main.who \in LiveWaiters /\ main.who \in Waiters /\ s \in Signals
  BY MainIsTyped DEF Record, Placed, MainStates
<1>2. /\ previous' = [previous EXCEPT ![s] = main.replaced]
      /\ main' = Entered(NextSignal(r, "entered"))
      /\ call' = IF s = 2 THEN [call EXCEPT ![main.who] = "waiting"] ELSE call
      /\ UNCHANGED <<handler, host, chains, waiters, scheduled, event, loopOf, loop, arrived,
                     took, since, answered>>
  BY DEF Record
<1>3. LiveWaiters' = LiveWaiters
  BY <1>2 DEF LiveWaiters, Registered, Live
<1>4. /\ r \in MainStates /\ r.pc = "install" /\ r.who = main.who /\ r.sig = s
      /\ r.received = main.received /\ r.consumed = main.consumed
  BY <1>1 DEF MainStates, Places
<1>5. TypeOK'
  <2>1. main' \in MainStates
    <3> HIDE DEF r
    <3> QED
      BY <1>2, <1>4, InstallGoesOn
  <2>2. call' \in [Waiters -> {"new", "entering", "waiting", "leaving", "done"}]
    BY <1>1, <1>2 DEF TypeOK
  <2>3. previous' \in [Signals -> 0..Unset]
    BY <1>1, <1>2 DEF TypeOK, MainStates, Unset
  <2> QED
    BY <1>2, <2>1, <2>2, <2>3 DEF TypeOK, MainStates, Places
<1>6. \/ s = 1 /\ main'.pc = "install" /\ main'.who = main.who /\ main'.sig = 2
         /\ main'.received = main.received /\ main'.consumed = main.consumed
      \/ s = 2 /\ main'.pc = "idle" /\ main'.sig = 1
         /\ main'.received = NoSignal /\ main'.consumed = FALSE
  <2> HIDE DEF r
  <2> QED
    BY <1>1, <1>2, <1>4, InstallGoesOn DEF Idle, Signals
<1>7. Placed'
  BY <1>1, <1>2, <1>3, <1>6 DEF Placed, Stepping
<1>8. Taken'
  BY <1>2, <1>6 DEF Taken
<1>9. ASSUME NEW t \in Signals
      PROVE  previous'[t] = IF t = s THEN main.replaced ELSE previous[t]
  BY <1>2 DEF TypeOK
<1>10. handler[s] = Ours /\ main.replaced = host[s]
  BY <1>1 DEF Tables, Recording
<1>11. Tables'
  <2>1. host[s] <= host[s]
    BY <1>1 DEF TypeOK
  <2> QED
    BY <1>1, <1>2, <1>6, <1>9, <1>10, <2>1 DEF Tables, Recording
<1>12. Needed'
  BY <1>1, <1>3 DEF Needed
<1>13. Installed'
  BY <1>1, <1>2, <1>3, <1>6, <1>9, <1>10 DEF Installed, Signals
<1> QED
  BY <1>5, <1>7, <1>8, <1>11, <1>12, <1>13

-----------------------------------------------------------------------------
(* Waiting and leaving *)

\* The callback of the loop concerns its waiter only.
LEMMA SetEventKeeps ==
  ASSUME IInv, NEW w \in Waiters, SetEvent(w)
  PROVE  IInv'
<1>1. /\ scheduled[w] /\ scheduled' = [scheduled EXCEPT ![w] = FALSE]
      /\ event' = [event EXCEPT ![w] = TRUE]
      /\ UNCHANGED <<handler, host, chains, previous, waiters, call, loopOf, loop, main,
                     arrived, took, since, answered>>
  BY DEF SetEvent
<1>2. TypeOK'
  BY <1>1 DEF IInv, TypeOK
<1>3. Taken'
  BY <1>1 DEF IInv, Taken, TypeOK
<1>4. LiveWaiters' = LiveWaiters
  BY <1>1 DEF LiveWaiters, Registered, Live
<1> QED
  BY <1>1, <1>2, <1>3, <1>4, OthersKeep

\* A waiter begins to leave; the handlers stay.
LEMMA LeaveKeeps ==
  ASSUME IInv, NEW w \in Waiters, NEW b \in BOOLEAN, b => took[w] > 0, Leave(w, b)
  PROVE  IInv'
<1> USE SignalsAssumption DEF IInv
<1>1. /\ main.pc = "idle" /\ call' = [call EXCEPT ![w] = "leaving"]
      /\ main' = [pc |-> "pop", who |-> w, sig |-> 1, replaced |-> 0,
                  received |-> NoSignal, consumed |-> b]
      /\ UNCHANGED <<handler, host, chains, previous, waiters, scheduled, event, loopOf, loop,
                     arrived, took, since, answered>>
  BY DEF Leave, Idle
<1>2. LiveWaiters' = LiveWaiters
  BY <1>1 DEF LiveWaiters, Registered, Live
<1>3. TypeOK'
  <2>1. main' \in MainStates
    BY <1>1 DEF MainStates, Places, Signals, NoSignal
  <2>2. call' \in [Waiters -> {"new", "entering", "waiting", "leaving", "done"}]
    BY <1>1 DEF TypeOK
  <2> QED
    BY <1>1, <2>1, <2>2 DEF TypeOK, MainStates, Places
<1>4. Placed' /\ Taken' /\ Tables'
  BY <1>1, <1>2 DEF Placed, Taken, Tables, Recording, Stepping
<1>5. Needed' /\ Installed'
  BY <1>1, <1>2 DEF Needed, Installed
<1> QED
  BY <1>3, <1>4, <1>5

\* However a waiter leaves, what it consumed is a signal that it took.
LEMMA LeavingKeeps ==
  ASSUME IInv, NEW w \in Waiters, Completes(w) \/ Cancelled(w) \/ Finalized(w)
  PROVE  IInv'
<1>1. event[w] \in BOOLEAN /\ (event[w] => took[w] > 0)
  BY DEF IInv, TypeOK, Taken
<1>2. CASE Completes(w)
  BY <1>1, <1>2, LeaveKeeps DEF Completes
<1>3. CASE Cancelled(w)
  BY <1>3, LeaveKeeps DEF Cancelled
<1>4. CASE Finalized(w)
  BY <1>4, LeaveKeeps DEF Finalized
<1> QED
  BY <1>2, <1>3, <1>4

\* The waiter goes, and ours may stay behind until the sweep has looked.
LEMMA PopKeeps ==
  ASSUME IInv, Pop
  PROVE  IInv'
<1> USE SignalsAssumption DEF IInv
<1> DEFINE w == main.who
           taken == IF waiters[w] = Absent THEN NoSignal ELSE waiters[w]
<1>1. /\ main \in MainStates /\ main.pc = "pop" /\ w \in Waiters /\ main.sig = 1
  BY MainIsTyped DEF Pop, Placed, Stepping
<1>2. /\ main' = [main EXCEPT !.pc = "sweep", !.received = taken]
      /\ waiters' = [waiters EXCEPT ![w] = Absent]
      /\ UNCHANGED <<handler, host, chains, previous, call, scheduled, event, loopOf, loop,
                     arrived, took, since, answered>>
  BY DEF Pop
<1>3. taken \in {NoSignal} \cup Signals
  BY <1>1 DEF TypeOK
<1>4. /\ main' \in MainStates /\ main'.pc = "sweep" /\ main'.who = w /\ main'.sig = 1
      /\ main'.received = taken /\ main'.consumed = main.consumed
  <2> HIDE DEF taken
  <2> QED
    BY <1>1, <1>2, <1>3 DEF MainStates, Places
<1>5. \A x \in Waiters : waiters'[x] = IF x = w THEN Absent ELSE waiters[x]
  BY <1>2 DEF TypeOK
<1>6. LiveWaiters' \subseteq LiveWaiters
  BY <1>2, <1>5 DEF LiveWaiters, Registered, Live
<1>7. TypeOK'
  <2>1. waiters' \in [Waiters -> {NoSignal, Absent} \cup Signals]
    BY <1>1, <1>2 DEF TypeOK
  <2> QED
    BY <1>2, <1>4, <2>1 DEF TypeOK, MainStates, Places
<1>8. Placed'
  BY <1>1, <1>2, <1>4 DEF Placed, Stepping
<1>9. Taken'
  <2>1. Absent \notin Signals
    BY DEF Absent, Signals
  <2>2. \A x \in Waiters : waiters'[x] \in Signals => waiters[x] \in Signals
    BY <1>5, <2>1
  <2>3. taken # NoSignal => took[w] > 0
    BY <1>1, <1>3 DEF Taken
  <2> QED
    BY <1>1, <1>2, <1>4, <2>2, <2>3 DEF Taken
<1>10. Tables'
  BY <1>1, <1>2, <1>4 DEF Tables, Recording
<1>11. Needed'
  BY <1>4 DEF Needed
<1>12. Installed'
  BY <1>1, <1>2, <1>4, <1>6 DEF Installed
<1> QED
  BY <1>7, <1>8, <1>9, <1>10, <1>11, <1>12

\* The sweep decides: the last one restores, others leave ours in place.
LEMMA SweepKeeps ==
  ASSUME IInv, Sweep
  PROVE  IInv'
<1> USE SignalsAssumption DEF IInv
<1> DEFINE next == IF IsLast THEN "restore" ELSE "handback"
<1>1. /\ main \in MainStates /\ main.pc = "sweep" /\ main.who \in Waiters /\ main.sig = 1
  BY MainIsTyped DEF Sweep, Placed, Stepping
<1>2. /\ waiters' = Swept /\ main' = [main EXCEPT !.pc = next]
      /\ UNCHANGED <<handler, host, chains, previous, call, scheduled, event, loopOf, loop,
                     arrived, took, since, answered>>
  BY DEF Sweep
<1>3. next \in {"restore", "handback"} /\ (next = "restore" <=> LiveWaiters = {})
  BY DEF IsLast
<1>4. /\ main' \in MainStates /\ main'.pc = next /\ main'.who = main.who /\ main'.sig = 1
      /\ main'.received = main.received /\ main'.consumed = main.consumed
  <2> HIDE DEF next
  <2> QED
    BY <1>1, <1>2, <1>3 DEF MainStates, Places
<1>5. /\ Swept \in WaiterTable
      /\ \A w \in Waiters : Swept[w] = waiters[w] \/ (Swept[w] = Absent /\ ~Live(w))
  BY SweptKeeps
<1>6. LiveWaiters' = LiveWaiters
  BY <1>2, <1>5, SameWait
<1>7. TypeOK'
  BY <1>2, <1>4, <1>5 DEF TypeOK, MainStates, Places, WaiterTable
<1>8. Placed'
  BY <1>1, <1>2, <1>3, <1>4, <1>6 DEF Placed, Stepping
<1>9. Taken'
  <2>1. \A w \in Waiters : waiters'[w] \in Signals => waiters[w] \in Signals
    BY <1>2, <1>5 DEF Absent, Signals
  <2> QED
    BY <1>2, <1>4, <2>1 DEF Taken
<1>10. Tables'
  BY <1>1, <1>2, <1>3, <1>4 DEF Tables, Recording
<1>11. Needed'
  BY <1>2, <1>3, <1>4, <1>6 DEF Needed, Signals
<1>12. Installed'
  BY <1>1, <1>2, <1>4, <1>6 DEF Installed
<1> QED
  BY <1>7, <1>8, <1>9, <1>10, <1>11, <1>12

\* What is restored is the host's, when ours is in its record.
LEMMA RestoredIsTheHosts ==
  ASSUME IInv, NEW s \in Signals, main.pc # "record"
  PROVE  /\ Restored(handler)[s] = host[s] /\ Restored(handler)[s] \in 0..MaxHost
         /\ Restored(handler)[s] # Ours
<1>1. Restored(handler)[s] = IF handler[s] = Ours THEN previous[s] ELSE handler[s]
  BY DEF Restored
<1>2. handler[s] = host[s] \/ (handler[s] = Ours /\ previous[s] = host[s])
  BY DEF IInv, Tables, Recording
<1>3. host[s] \in 0..MaxHost
  BY DEF IInv, TypeOK
<1> QED
  BY <1>1, <1>2, <1>3, SignalsAssumption DEF Ours

\* One signal after the other goes back to the host.
LEMMA RestoreKeeps ==
  ASSUME IInv, Restore
  PROVE  IInv'
<1> USE SignalsAssumption DEF IInv
<1> DEFINE s == main.sig
<1>1. /\ main \in MainStates /\ main.pc = "restore" /\ main.who \in Waiters /\ s \in Signals
      /\ LiveWaiters = {}
  BY MainIsTyped DEF Restore, Placed, MainStates
<1>2. /\ handler' = [handler EXCEPT ![s] = Restored(handler)[s]]
      /\ main' = NextSignal(main, "handback")
      /\ UNCHANGED <<host, chains, previous, waiters, call, scheduled, event, loopOf, loop,
                     arrived, took, since, answered>>
  BY DEF Restore
<1>3. /\ Restored(handler)[s] = host[s] /\ Restored(handler)[s] \in 0..MaxHost
      /\ Restored(handler)[s] # Ours
  BY <1>1, RestoredIsTheHosts
<1>4. main' = [pc |-> IF s = 1 THEN "restore" ELSE "handback", who |-> main.who,
               sig |-> IF s = 1 THEN 2 ELSE 1, replaced |-> main.replaced,
               received |-> main.received, consumed |-> main.consumed]
  BY <1>1, <1>2, NextSignalIs DEF Places
<1>5. LiveWaiters' = {}
  BY <1>1, <1>2 DEF LiveWaiters, Registered, Live
<1>6. \A t \in Signals : handler'[t] = IF t = s THEN host[s] ELSE handler[t]
  BY <1>2, <1>3 DEF TypeOK
<1>7. TypeOK'
  <2>1. main' \in MainStates
    BY <1>1, <1>4 DEF MainStates, Places, Signals
  <2>2. handler' \in [Signals -> 0..Ours]
    BY <1>1, <1>2, <1>3 DEF TypeOK, Ours
  <2> QED
    BY <1>2, <2>1, <2>2 DEF TypeOK, MainStates, Places
<1>8. Placed'
  BY <1>1, <1>2, <1>4, <1>5 DEF Placed, Stepping, Signals
<1>9. Taken'
  BY <1>2, <1>4 DEF Taken
<1>10. Tables'
  BY <1>1, <1>2, <1>4, <1>6 DEF Tables, Recording
<1>11. Needed'
  BY <1>1, <1>2, <1>3, <1>4, <1>6 DEF Needed, Signals
<1>12. Installed'
  BY <1>5 DEF Installed
<1> QED
  BY <1>7, <1>8, <1>9, <1>10, <1>11, <1>12

\* A waiter that is gone changes as little, whether its signal goes back to the host or not.
LEMMA GoneKeeps ==
  ASSUME TypeOK, Taken, NEW w \in Waiters, NEW table \in WaiterTable,
         NEW s \in {NoSignal} \cup Signals, NEW consumed \in BOOLEAN, NEW returned \in BOOLEAN,
         returned => s \in Signals, s # NoSignal \/ consumed => took[w] > 0,
         \A x \in Waiters : table[x] = waiters[x] \/ (table[x] = Absent /\ ~Live(x)),
         Gone(w, table, s, consumed, returned),
         UNCHANGED <<handler, host, chains, previous, event, loopOf, loop, arrived, since>>,
         main' \in MainStates
  PROVE  /\ TypeOK' /\ LiveWaiters' = LiveWaiters
         /\ \A x \in Waiters : took'[x] >= took[x]
         /\ \A x \in Waiters : waiters'[x] \in Signals \/ scheduled'[x] => took'[x] > 0
<1> USE SignalsAssumption
<1>1. call' = [call EXCEPT ![w] = "done"]
  BY DEF Gone
<1>2. call' \in [Waiters -> {"new", "entering", "waiting", "leaving", "done"}]
  BY <1>1 DEF TypeOK
<1>3. consumed => took[w] \in 1..MaxSignals
  BY DEF TypeOK
<1>4. returned => took[w] \in 1..MaxSignals
  BY DEF TypeOK, NoSignal, Signals
<1>5. /\ waiters' \in WaiterTable /\ scheduled' \in [Waiters -> BOOLEAN]
      /\ took' \in [Waiters -> 0..MaxSignals] /\ answered' \subseteq 1..MaxSignals
      /\ \A x \in Waiters : Live(x) => (waiters'[x] = Absent <=> waiters[x] = Absent)
      /\ \A x \in Waiters : took'[x] >= took[x]
      /\ \A x \in Waiters : waiters'[x] \in Signals \/ scheduled'[x] => took'[x] > 0
  <2>1. CASE returned
    BY <1>4, <2>1, HostHandlesKeeps DEF Gone
  <2>2. CASE ~returned
    <3>1. /\ waiters' = table /\ UNCHANGED <<scheduled, took>>
          /\ answered' = IF consumed THEN answered \cup {took[w]} ELSE answered
      BY <2>2 DEF Gone
    <3>2. answered' \subseteq 1..MaxSignals
      BY <1>3, <3>1 DEF TypeOK
    <3>3. \A x \in Waiters : table[x] \in Signals => waiters[x] \in Signals
      BY DEF Signals, Absent
    <3>4. \A x \in Waiters : took[x] \in 0..MaxSignals
      BY DEF TypeOK
    <3> QED
      BY <3>1, <3>2, <3>3, <3>4 DEF Taken, TypeOK
  <2> QED
    BY <2>1, <2>2
<1>6. TypeOK'
  BY <1>2, <1>5 DEF TypeOK, MainStates, Places, WaiterTable
<1>7. LiveWaiters' = LiveWaiters
  BY <1>5, SameWait
<1> QED
  BY <1>5, <1>6, <1>7

\* The history of what was taken only grows, so whoever took a signal still did.
LEMMA TakenIsKept ==
  ASSUME TypeOK, TypeOK', Taken, \A x \in Waiters : took'[x] >= took[x],
         \A x \in Waiters : waiters'[x] \in Signals \/ scheduled'[x] => took'[x] > 0,
         UNCHANGED event, UNCHANGED main \/ main' = Idle
  PROVE  Taken'
<1>1. \A x \in Waiters : took[x] \in 0..MaxSignals /\ took'[x] \in 0..MaxSignals
  BY DEF TypeOK
<1>2. \A x \in Waiters : took[x] > 0 => took'[x] > 0
  BY <1>1, SignalsAssumption
<1>3. main' = Idle => main'.received = NoSignal /\ main'.consumed = FALSE
  BY DEF Idle
<1> QED
  BY <1>2, <1>3 DEF Taken

\* A handler of the host that is called changes no table of handlers.
LEMMA HandBackKeeps ==
  ASSUME IInv, HandBack
  PROVE  IInv'
<1> USE DEF IInv
<1> DEFINE w == main.who
<1>1. /\ main \in MainStates /\ main.pc = "handback" /\ w \in Waiters /\ main' = Idle
      /\ Idle \in MainStates
  BY MainIsTyped DEF HandBack, Placed
<1>2. /\ Gone(w, waiters, main.received, main.consumed, Returned(main))
      /\ UNCHANGED <<handler, host, chains, previous, event, loopOf, loop, arrived, since>>
  BY DEF HandBack
<1>3. /\ main.received \in {NoSignal} \cup Signals /\ main.consumed \in BOOLEAN
      /\ Returned(main) \in BOOLEAN /\ (Returned(main) => main.received \in Signals)
      /\ waiters \in WaiterTable
  BY <1>1 DEF MainStates, Returned, TypeOK, WaiterTable
<1>4. main.received # NoSignal \/ main.consumed => took[w] > 0
  BY DEF Taken
<1>5. /\ TypeOK' /\ LiveWaiters' = LiveWaiters
      /\ \A x \in Waiters : took'[x] >= took[x]
      /\ \A x \in Waiters : waiters'[x] \in Signals \/ scheduled'[x] => took'[x] > 0
  BY <1>1, <1>2, <1>3, <1>4, GoneKeeps
<1>6. Taken'
  BY <1>1, <1>2, <1>5, TakenIsKept
<1>7. /\ main'.pc = "idle" /\ main'.sig = 1
  BY <1>1 DEF Idle
<1>8. Placed'
  BY <1>2, <1>5, <1>7 DEF Placed
<1>9. Tables' /\ Needed' /\ Installed'
  BY <1>1, <1>2, <1>5, <1>7 DEF Tables, Recording, Needed, Installed
<1> QED
  BY <1>5, <1>6, <1>8, <1>9

\* A waiter of a closed loop is in nobody's way.
LEMMA FinalizedElsewhereKeeps ==
  ASSUME IInv, NEW w \in Waiters, FinalizedElsewhere(w)
  PROVE  IInv'
<1> USE DEF IInv
<1> DEFINE back == waiters[w] \in Signals /\ ~Owned(waiters[w])
<1>1. /\ Gone(w, Swept, waiters[w], FALSE, back)
      /\ UNCHANGED <<handler, host, chains, previous, event, loopOf, loop, main, arrived,
                     since>>
  BY DEF FinalizedElsewhere
<1>2. main \in MainStates /\ main' \in MainStates
  BY <1>1, MainIsTyped
<1>3. /\ Swept \in WaiterTable
      /\ \A x \in Waiters : Swept[x] = waiters[x] \/ (Swept[x] = Absent /\ ~Live(x))
  BY SweptKeeps
<1>4. /\ TypeOK' /\ LiveWaiters' = LiveWaiters
      /\ \A x \in Waiters : took'[x] >= took[x]
      /\ \A x \in Waiters : waiters'[x] \in Signals \/ scheduled'[x] => took'[x] > 0
  <2>1. CASE waiters[w] # Absent
    <3>1. waiters[w] \in {NoSignal} \cup Signals /\ back \in BOOLEAN
      BY <2>1 DEF TypeOK
    <3>2. waiters[w] # NoSignal \/ FALSE => took[w] > 0
      BY <3>1 DEF Taken
    <3>3. back => waiters[w] \in Signals
      OBVIOUS
    <3> HIDE DEF back
    <3> QED
      BY <1>1, <1>2, <1>3, <3>1, <3>2, <3>3, GoneKeeps
  <2>2. CASE waiters[w] = Absent
    <3>1. back = FALSE
      BY <2>2 DEF Absent, Signals
    <3>2. Gone(w, Swept, NoSignal, FALSE, FALSE)
      BY <1>1, <3>1 DEF Gone
    <3> QED
      BY <1>1, <1>2, <1>3, <3>2, GoneKeeps
  <2> QED
    BY <2>1, <2>2
<1>5. Taken'
  BY <1>1, <1>4, TakenIsKept
<1> QED
  BY <1>1, <1>4, <1>5, OthersKeep

-----------------------------------------------------------------------------
(* Signals and the host *)

\* A signal in the middle of it wakes, or restores when nobody is left to wait.
LEMMA SignalKeeps ==
  ASSUME IInv, NEW s \in Signals, Signal(s)
  PROVE  IInv'
<1> USE SignalsAssumption DEF IInv
<1> DEFINE i == arrived + 1
<1>1. /\ i \in 1..MaxSignals /\ arrived' = i
      /\ UNCHANGED <<host, chains, previous, call, event, loopOf, loop, main, since>>
  BY DEF Signal, TypeOK
<1>2. /\ waiters \in WaiterTable
      /\ \A w \in Waiters : waiters[w] = waiters[w] \/ (waiters[w] = Absent /\ ~Live(w))
  BY DEF TypeOK, WaiterTable
<1>3. CASE ~Owned(s)
  <2>1. HostHandles(waiters, s, i) /\ UNCHANGED handler
    BY <1>3 DEF Signal
  <2>2. /\ waiters' \in WaiterTable /\ scheduled' \in [Waiters -> BOOLEAN]
        /\ took' \in [Waiters -> 0..MaxSignals] /\ answered' \subseteq 1..MaxSignals
        /\ \A w \in Waiters : Live(w) => (waiters'[w] = Absent <=> waiters[w] = Absent)
        /\ \A w \in Waiters : took'[w] >= took[w]
        /\ \A w \in Waiters : waiters'[w] \in Signals \/ scheduled'[w] => took'[w] > 0
    BY <1>1, <1>2, <2>1, HostHandlesKeeps
  <2>3. TypeOK'
    BY <1>1, <2>1, <2>2 DEF TypeOK, WaiterTable
  <2>4. Taken'
    BY <1>1, <2>2, <2>3, TakenIsKept
  <2>5. LiveWaiters' = LiveWaiters
    BY <1>1, <2>2, SameWait
  <2> QED
    BY <1>1, <2>1, <2>3, <2>4, <2>5, OthersKeep
<1>4. CASE Owned(s)
  <2>1. /\ Wake(waiters, s, i)
        /\ handler' = IF HandsBack(s) THEN Restored(handler) ELSE handler
        /\ answered' = IF HandsBack(s) THEN answered \cup {arrived + 1} ELSE answered
    BY <1>4 DEF Signal
  <2>2. /\ waiters' \in WaiterTable /\ scheduled' \in [Waiters -> BOOLEAN]
        /\ took' \in [Waiters -> 0..MaxSignals]
        /\ \A w \in Waiters : Live(w) => (waiters'[w] = Absent <=> waiters[w] = Absent)
        /\ \A w \in Waiters : took'[w] >= took[w]
        /\ \A w \in Waiters : waiters'[w] \in Signals \/ scheduled'[w] => took'[w] > 0
    BY <1>1, <1>2, <2>1, WakeKeeps
  <2>3. answered' \subseteq 1..MaxSignals
    BY <1>1, <2>1 DEF TypeOK
  <2>4. LiveWaiters' = LiveWaiters
    BY <1>1, <2>2, SameWait
  <2>5. CASE LiveWaiters # {}
    <3>1. UNCHANGED handler
      BY <2>1, <2>5 DEF HandsBack
    <3>2. TypeOK'
      BY <1>1, <2>2, <2>3, <3>1 DEF TypeOK, WaiterTable
    <3>3. Taken'
      BY <1>1, <2>2, <3>2, TakenIsKept
    <3> QED
      BY <1>1, <2>4, <3>1, <3>2, <3>3, OthersKeep
  <2>6. CASE LiveWaiters = {}
    <3>1. handler' = Restored(handler)
      BY <2>1, <2>6 DEF HandsBack
    <3>2. main.pc # "record"
      BY <2>6 DEF Placed
    <3>3. \A t \in Signals : handler'[t] = host[t] /\ handler'[t] \in 0..MaxHost
                             /\ handler'[t] # Ours
      BY <3>1, <3>2, RestoredIsTheHosts DEF IInv
    <3>4. handler' \in [Signals -> 0..Ours]
      <4>1. handler' = [t \in Signals |-> IF handler[t] = Ours THEN previous[t] ELSE handler[t]]
        BY <3>1 DEF Restored
      <4> QED
        BY <3>3, <4>1 DEF Ours
    <3>5. TypeOK'
      BY <1>1, <2>2, <2>3, <3>4 DEF TypeOK, WaiterTable
    <3>6. Taken'
      BY <1>1, <2>2, <3>5, TakenIsKept
    <3>7. Placed'
      BY <1>1, <2>4 DEF Placed
    <3>8. Tables'
      BY <1>1, <3>2, <3>3 DEF Tables, Recording
    <3>9. Needed' /\ Installed'
      BY <2>4, <2>6, <3>3 DEF Needed, Installed, Ours
    <3> QED
      BY <3>5, <3>6, <3>7, <3>8, <3>9
  <2> QED
    BY <2>5, <2>6
<1> QED
  BY <1>3, <1>4

\* The waiters of a loop that is closed do not count any more.
LEMMA CloseLoopKeeps ==
  ASSUME IInv, CloseLoop
  PROVE  IInv'
<1> USE SignalsAssumption DEF IInv
<1>1. /\ main.pc = "idle" /\ loop < MaxLoop /\ loop' = loop + 1
      /\ UNCHANGED <<handler, host, chains, previous, waiters, call, scheduled, event, loopOf,
                     main, arrived, took, since, answered>>
  BY DEF CloseLoop
<1>2. loop \in Nat /\ loop >= 1 /\ \A w \in Waiters : loopOf[w] \in Nat /\ loopOf[w] <= loop
  BY DEF TypeOK, Placed
<1>3. TypeOK'
  BY <1>1 DEF TypeOK
<1>4. LiveWaiters' = {}
  BY <1>1, <1>2 DEF LiveWaiters, Registered, Live
<1>5. Placed' /\ Taken' /\ Tables'
  BY <1>1, <1>2 DEF Placed, Taken, Tables, Recording
<1>6. Needed' /\ Installed'
  BY <1>1, <1>2, <1>4 DEF Needed, Installed
<1> QED
  BY <1>3, <1>5, <1>6

\* A new handler of the host is newer than what ours has recorded.
LEMMA HostInstallsKeeps ==
  ASSUME IInv, NEW s \in Signals, HostInstalls(s)
  PROVE  IInv'
<1> USE SignalsAssumption DEF IInv
<1>1. /\ main.pc = "idle" /\ host[s] < MaxHost
      /\ host' = [host EXCEPT ![s] = host[s] + 1]
      /\ handler' = [handler EXCEPT ![s] = host[s] + 1]
      /\ UNCHANGED <<previous, waiters, call, scheduled, event, loopOf, loop, main, arrived,
                     took, since, answered>>
  BY DEF HostInstalls
<1>2. PICK chained \in {FALSE, Owned(s)} : chains' = [chains EXCEPT ![s] = chained]
  BY DEF HostInstalls
<1>3. host[s] \in Nat /\ host[s] + 1 \in 0..MaxHost /\ host[s] + 1 # Ours
  BY <1>1 DEF TypeOK, Ours
<1>4. TypeOK'
  <2>1. chained \in BOOLEAN
    BY DEF Owned
  <2>2. chains' \in [Signals -> BOOLEAN]
    BY <1>2, <2>1 DEF TypeOK
  <2>3. host' \in [Signals -> 0..MaxHost]
    BY <1>1, <1>3 DEF TypeOK
  <2>4. handler' \in [Signals -> 0..Ours]
    BY <1>1, <1>3 DEF TypeOK, Ours
  <2> QED
    BY <1>1, <2>2, <2>3, <2>4 DEF TypeOK
<1>5. \A t \in Signals : /\ handler'[t] = IF t = s THEN host[s] + 1 ELSE handler[t]
                         /\ host'[t] = IF t = s THEN host[s] + 1 ELSE host[t]
  BY <1>1 DEF TypeOK
<1>6. LiveWaiters' = LiveWaiters
  BY <1>1 DEF LiveWaiters, Registered, Live
<1>7. Placed' /\ Taken'
  BY <1>1, <1>6 DEF Placed, Taken
<1>8. Tables'
  <2>1. \A t \in Signals : previous[t] \in Nat
    BY DEF TypeOK, Unset
  <2> QED
    BY <1>1, <1>3, <1>5, <2>1 DEF Tables, Recording
<1>9. Needed'
  BY <1>1, <1>3, <1>5, <1>6 DEF Needed
<1>10. Installed'
  <2>1. previous[s] # host[s] + 1
    BY <1>3 DEF Tables, Unset, TypeOK
  <2> QED
    BY <1>1, <1>5, <1>6, <2>1 DEF Installed
<1> QED
  BY <1>4, <1>7, <1>8, <1>9, <1>10

-----------------------------------------------------------------------------
(* The invariant *)

\* The invariant holds before the first call.
LEMMA InitInvariant == Init => IInv
<1> SUFFICES ASSUME Init PROVE IInv
  OBVIOUS
<1> USE SignalsAssumption
<1>1. /\ host \in [Signals -> {0, 1}] /\ handler = host /\ loop = 1
      /\ chains = [s \in Signals |-> FALSE] /\ previous = [s \in Signals |-> Unset]
      /\ waiters = [w \in Waiters |-> Absent] /\ call = [w \in Waiters |-> "new"]
      /\ scheduled = [w \in Waiters |-> FALSE] /\ event = [w \in Waiters |-> FALSE]
      /\ loopOf = [w \in Waiters |-> 0] /\ main = Idle /\ arrived = 0
      /\ took = [w \in Waiters |-> 0] /\ since = [w \in Waiters |-> 0] /\ answered = {}
  BY DEF Init
<1>2. host \in [Signals -> 0..MaxHost] /\ handler \in [Signals -> 0..Ours]
  <2>1. {0, 1} \subseteq 0..MaxHost /\ {0, 1} \subseteq 0..Ours
    BY DEF Ours
  <2> QED
    BY <1>1, <2>1
<1>3. previous \in [Signals -> 0..Unset]
  BY <1>1 DEF Unset
<1>4. main \in MainStates
  BY <1>1 DEF Idle, MainStates, Places, Signals, NoSignal
<1>5. TypeOK
  <2>1. /\ loop \in 1..MaxLoop /\ loopOf \in [Waiters -> 0..MaxLoop]
        /\ arrived \in 0..MaxSignals /\ took \in [Waiters -> 0..MaxSignals]
        /\ since \in [Waiters -> 0..MaxSignals] /\ answered \subseteq 1..MaxSignals
    BY <1>1
  <2>2. /\ waiters \in [Waiters -> {NoSignal, Absent} \cup Signals]
        /\ call \in [Waiters -> {"new", "entering", "waiting", "leaving", "done"}]
        /\ scheduled \in [Waiters -> BOOLEAN] /\ event \in [Waiters -> BOOLEAN]
        /\ chains \in [Signals -> BOOLEAN]
    BY <1>1
  <2> QED
    BY <1>2, <1>3, <1>4, <2>1, <2>2 DEF TypeOK, MainStates, Places
<1>6. main.pc = "idle" /\ main.sig = 1 /\ main.received = NoSignal /\ main.consumed = FALSE
  BY <1>1 DEF Idle
<1>7. LiveWaiters = {}
  BY <1>1 DEF LiveWaiters, Registered
<1>8. Placed
  BY <1>1, <1>6 DEF Placed
<1>9. Taken
  BY <1>1, <1>6 DEF Taken, Absent, Signals
<1>10. \A s \in Signals : handler[s] \in {0, 1} /\ handler[s] # Ours
  BY <1>1 DEF Ours
<1>11. Tables /\ Needed /\ Installed
  BY <1>1, <1>6, <1>7, <1>10 DEF Tables, Recording, Needed, Installed
<1> QED
  BY <1>5, <1>8, <1>9, <1>11 DEF IInv

\* Every step keeps it.
LEMMA NextInvariant == IInv /\ [Next]_vars => IInv'
<1> SUFFICES ASSUME IInv, [Next]_vars PROVE IInv'
  OBVIOUS
<1>1. CASE UNCHANGED vars
  <2>1. TypeOK' /\ Taken' /\ LiveWaiters' = LiveWaiters
    BY <1>1 DEF vars, IInv, TypeOK, Taken, LiveWaiters, Registered, Live
  <2> QED
    BY <1>1, <2>1, OthersKeep DEF vars
<1>2. ASSUME NEW s \in Signals, Signal(s) \/ HostInstalls(s)
      PROVE  IInv'
  BY <1>2, SignalKeeps, HostInstallsKeeps
<1>3. CASE MainGoesOn
  BY <1>3, InstallKeeps, RecordKeeps, PopKeeps, SweepKeeps, RestoreKeeps, HandBackKeeps
  DEF MainGoesOn
<1>4. CASE CloseLoop
  BY <1>4, CloseLoopKeeps
<1>5. ASSUME NEW w \in Waiters, Waiter(w)
      PROVE  IInv'
  BY <1>5, EnterKeeps, SetEventKeeps, LeavingKeeps, FinalizedElsewhereKeeps DEF Waiter
<1> QED
  BY <1>1, <1>2, <1>3, <1>4, <1>5 DEF Next

\* The invariant holds throughout.
THEOREM Invariance == Spec => []IInv
<1> QED
  BY InitInvariant, NextInvariant, PTL DEF Spec

\* Every variable keeps its type.
THEOREM TypeCorrect == Spec => []TypeOK
<1>1. IInv => TypeOK
  BY DEF IInv
<1> QED
  BY <1>1, Invariance, PTL

\* Between the calls the table of handlers is the host's, or ours in place of that, for as
\* long as somebody waits.
THEOREM HandlersAreKept == Spec => []HandlersAreThose
<1>1. IInv => HandlersAreThose
  <2> SUFFICES ASSUME IInv, main.pc = "idle" PROVE HandlersAreThose
    BY DEF HandlersAreThose
  <2>1. loop \in Nat /\ loop >= 1
    BY SignalsAssumption DEF IInv, TypeOK
  <2>2. ASSUME NEW s \in Signals
        PROVE  /\ handler[s] = host[s] \/ (handler[s] = Ours /\ previous[s] = host[s])
               /\ handler[s] = Ours => LiveWaiters # {} \/ loop > 1
               /\ LiveWaiters # {} => handler[s] \in {0, Ours} \/ handler[s] # previous[s]
    BY <2>1 DEF IInv, Tables, Recording, Needed, Installed
  <2> QED
    BY <2>2 DEF HandlersAreThose
<1> QED
  BY <1>1, Invariance, PTL

-----------------------------------------------------------------------------
(* No signal is lost *)

\* A waiter that leaves is out of the table.
Leaving == {"sweep", "restore", "handback"}

\* Who is in the table: nobody before entering and after leaving, and whoever is in
\* between, unless its loop was closed.
InTable ==
  \A w \in Waiters :
    /\ call[w] = "new" => waiters[w] = Absent /\ took[w] = 0
    /\ call[w] = "done" => waiters[w] = Absent
    /\ call[w] \in {"entering", "waiting"} /\ Live(w) => waiters[w] # Absent

\* Whom the main thread enters or leaves with.
Called ==
  /\ main.pc \in {"install", "record"} => call[main.who] = "entering"
  /\ main.pc = "pop" =>
       call[main.who] = "leaving" /\ (Live(main.who) => waiters[main.who] # Absent)
  /\ main.pc \in Leaving => call[main.who] = "leaving" /\ waiters[main.who] = Absent

\* Whoever waits has taken the latest signal, unless it entered later or the host has it.
Told ==
  \A w \in Waiters :
    /\ took[w] <= arrived
    /\ waiters[w] = NoSignal => took[w] = 0
    /\ w \in LiveWaiters => took[w] = arrived \/ since[w] >= arrived \/ arrived \in answered

\* Whoever leaves takes it along.
TakenAlong ==
  main.pc \in Leaving /\ Live(main.who) /\ took[main.who] > 0 => main.received # NoSignal

\* As the last waiter hands its signal back, our handlers are gone.
Away ==
  \A s \in Signals :
    /\ main.pc = "restore" /\ s < main.sig => handler[s] # Ours
    /\ main.pc = "handback" /\ LiveWaiters = {} => handler[s] # Ours

\* The inductive invariant, beyond IInv.
KeptInv == InTable /\ Called /\ Told /\ TakenAlong /\ Away /\ SignalIsKept

\* What a handler does to the table: whoever waits takes signal i.
Heard(i) ==
  \A w \in Waiters :
    \/ /\ w \in LiveWaiters /\ waiters'[w] \in Signals
       /\ took'[w] = IF i > took[w] THEN i ELSE took[w]
    \/ /\ took'[w] = took[w]
       /\ waiters'[w] = waiters[w] \/ (waiters'[w] = Absent /\ ~Live(w))

\* Our handler tells every waiter.
LEMMA WakeIsHeard ==
  ASSUME TypeOK, NEW table \in WaiterTable, NEW s \in Signals, NEW i \in 1..MaxSignals,
         \A w \in Waiters : table[w] = waiters[w] \/ (table[w] = Absent /\ ~Live(w)),
         Wake(table, s, i)
  PROVE  Heard(i) /\ \A w \in LiveWaiters : took'[w] >= i
<1>1. /\ waiters' = [w \in Waiters |-> IF Wakes(w) THEN s ELSE table[w]]
      /\ took' = [w \in Waiters |-> IF Wakes(w) /\ i > took[w] THEN i ELSE took[w]]
  BY DEF Wake
<1>2. Heard(i)
  BY <1>1 DEF Heard, Wakes
<1>3. ASSUME NEW w \in LiveWaiters
      PROVE  took'[w] >= i
  <2>1. w \in Waiters /\ took[w] \in 0..MaxSignals
    BY DEF LiveWaiters, Registered, TypeOK
  <2> QED
    BY <1>1, <2>1, SignalsAssumption DEF Wakes
<1> QED
  BY <1>2, <1>3

\* The host's handler answers, and tells them if it calls ours.
LEMMA HostIsHeard ==
  ASSUME TypeOK, NEW table \in WaiterTable, NEW s \in Signals, NEW i \in 1..MaxSignals,
         \A w \in Waiters : table[w] = waiters[w] \/ (table[w] = Absent /\ ~Live(w)),
         HostHandles(table, s, i)
  PROVE  Heard(i) /\ answered' = answered \cup {i}
<1>1. CASE chains[s]
  BY <1>1, WakeIsHeard DEF HostHandles
<1>2. CASE ~chains[s]
  BY <1>2 DEF HostHandles, Heard
<1> QED
  BY <1>1, <1>2

\* A waiter that is gone leaves its signal with the client or the host.
LEMMA GoneIsHeard ==
  ASSUME TypeOK, NEW w \in Waiters, NEW table \in WaiterTable,
         NEW s \in {NoSignal} \cup Signals, NEW consumed \in BOOLEAN, NEW returned \in BOOLEAN,
         returned => s \in Signals /\ took[w] > 0,
         \A x \in Waiters : table[x] = waiters[x] \/ (table[x] = Absent /\ ~Live(x)),
         Gone(w, table, s, consumed, returned)
  PROVE  /\ Heard(took[w]) /\ answered \subseteq answered'
         /\ returned \/ consumed => took[w] \in answered'
         /\ call' = [call EXCEPT ![w] = "done"]
<1>1. call' = [call EXCEPT ![w] = "done"]
  BY DEF Gone
<1>2. CASE returned
  <2>1. took[w] \in 1..MaxSignals
    BY <1>2, SignalsAssumption DEF TypeOK
  <2>2. HostHandles(table, s, took[w])
    BY <1>2 DEF Gone
  <2> QED
    BY <1>1, <1>2, <2>1, <2>2, HostIsHeard
<1>3. CASE ~returned
  <2>1. /\ waiters' = table /\ UNCHANGED <<scheduled, took>>
        /\ answered' = IF consumed THEN answered \cup {took[w]} ELSE answered
    BY <1>3 DEF Gone
  <2> QED
    BY <1>1, <1>3, <2>1 DEF Heard
<1> QED
  BY <1>2, <1>3

\* The table keeps who is in it, and what they know.
LEMMA HeardIsTold ==
  ASSUME TypeOK, Told, NEW i \in Nat, Heard(i), i <= arrived',
         LiveWaiters' = LiveWaiters, UNCHANGED since, answered \subseteq answered',
         \/ UNCHANGED arrived
         \/ arrived' = arrived + 1
            /\ (arrived' \in answered' \/ \A w \in LiveWaiters : took'[w] >= arrived')
  PROVE  Told'
<1> USE SignalsAssumption
<1>1. arrived \in Nat /\ \A w \in Waiters : took[w] \in Nat /\ since[w] \in Nat
  BY DEF TypeOK
<1> SUFFICES ASSUME NEW w \in Waiters
             PROVE  /\ took'[w] <= arrived'
                    /\ waiters'[w] = NoSignal => took'[w] = 0
                    /\ w \in LiveWaiters => \/ took'[w] = arrived' \/ since[w] >= arrived'
                                            \/ arrived' \in answered'
  BY DEF Told
<1>2. took[w] <= arrived /\ arrived <= arrived'
  BY <1>1 DEF Told
<1>3. took'[w] <= arrived' /\ took'[w] >= took[w] /\ took'[w] \in Nat
  BY <1>1, <1>2 DEF Heard
<1>4. waiters'[w] = NoSignal => took'[w] = 0
  BY DEF Heard, Told, NoSignal, Absent, Signals
<1>5. ASSUME w \in LiveWaiters
      PROVE  took'[w] = arrived' \/ since[w] >= arrived' \/ arrived' \in answered'
  <2>1. CASE UNCHANGED arrived
    BY <1>1, <1>2, <1>3, <1>5, <2>1 DEF Told
  <2>2. CASE ~UNCHANGED arrived
    BY <1>1, <1>3, <1>5, <2>2
  <2> QED
    BY <2>1, <2>2
<1> QED
  BY <1>3, <1>4, <1>5

\* A handler lets nobody into the table or out of it.
LEMMA HeardInTable ==
  ASSUME InTable, NEW i, Heard(i), UNCHANGED <<loop, loopOf>>,
         \A w \in Waiters : call'[w] = call[w] \/ (call'[w] = "done" /\ waiters'[w] = Absent)
  PROVE  InTable'
<1> SUFFICES ASSUME NEW w \in Waiters
             PROVE  /\ call'[w] = "new" => waiters'[w] = Absent /\ took'[w] = 0
                    /\ call'[w] = "done" => waiters'[w] = Absent
                    /\ call'[w] \in {"entering", "waiting"} /\ Live(w)' => waiters'[w] # Absent
  BY DEF InTable
<1>1. waiters[w] = Absent => w \notin LiveWaiters
  BY DEF LiveWaiters, Registered
<1>2. waiters[w] = Absent => waiters'[w] = Absent /\ took'[w] = took[w]
  BY <1>1 DEF Heard
<1>3. Live(w) /\ waiters[w] # Absent => waiters'[w] # Absent
  BY DEF Heard, Absent, Signals
<1>4. Live(w)' <=> Live(w)
  BY DEF Live
<1> QED
  BY <1>2, <1>3, <1>4 DEF InTable

\* What the main thread knows of the waiter it is with stays true.
LEMMA HeardIsCalled ==
  ASSUME Placed, Called, TakenAlong, NEW i, Heard(i), UNCHANGED <<loop, loopOf, main>>,
         main.pc # "idle" => call'[main.who] = call[main.who]
  PROVE  Called' /\ TakenAlong'
<1> DEFINE w == main.who
<1>1. CASE main.pc = "idle"
  BY <1>1 DEF Called, TakenAlong, Leaving
<1>2. CASE main.pc # "idle"
  <2>1. w \in Waiters
    BY <1>2 DEF Placed
  <2>2. waiters[w] = Absent => w \notin LiveWaiters
    BY DEF LiveWaiters, Registered
  <2>3. waiters[w] = Absent => waiters'[w] = Absent /\ took'[w] = took[w]
    BY <2>1, <2>2 DEF Heard
  <2>4. Live(w) /\ waiters[w] # Absent => waiters'[w] # Absent
    BY <2>1 DEF Heard, Absent, Signals
  <2>5. Live(w)' <=> Live(w)
    BY DEF Live
  <2>6. Called'
    BY <1>2, <2>3, <2>4, <2>5 DEF Called
  <2>7. TakenAlong'
    BY <2>3, <2>5 DEF Called, TakenAlong
  <2> QED
    BY <2>6, <2>7
<1> QED
  BY <1>1, <1>2

\* A step that only moves a call on loses nothing.
LEMMA MovesOn ==
  ASSUME KeptInv, UNCHANGED <<waiters, loopOf, loop, arrived, took, since, answered>>,
         \A w \in Waiters : \/ call'[w] = call[w]
                            \/ call[w] = "entering" /\ call'[w] = "waiting"
                            \/ call[w] = "waiting" /\ call'[w] = "leaving"
  PROVE  InTable' /\ Told' /\ SignalIsKept' /\ LiveWaiters' = LiveWaiters
<1>1. InTable'
  BY DEF KeptInv, InTable, Live
<1>2. LiveWaiters' = LiveWaiters
  BY DEF LiveWaiters, Registered, Live
<1>3. Told'
  BY <1>2 DEF KeptInv, Told
<1>4. \A w \in Waiters : /\ call[w] # "done" => call'[w] # "done"
                         /\ call[w] # "new" => call'[w] # "new"
                         /\ ~Live(w) => ~Live(w)'
  BY DEF Live
<1>5. SignalIsKept'
  BY <1>4 DEF KeptInv, SignalIsKept
<1> QED
  BY <1>1, <1>2, <1>3, <1>5

\* The steps of an entry keep what the waiters know.
LEMMA KeptByInstall ==
  ASSUME IInv, KeptInv, Install \/ Record
  PROVE  KeptInv'
<1>1. /\ main \in MainStates /\ main.pc \in {"install", "record"} /\ main.who \in Waiters
      /\ call[main.who] = "entering"
  BY MainIsTyped DEF IInv, Install, Record, Placed, KeptInv, Called
<1>2. /\ UNCHANGED <<waiters, loopOf, loop, arrived, took, since, answered>>
      /\ UNCHANGED call \/ call' = [call EXCEPT ![main.who] = "waiting"]
  BY DEF Install, Record
<1>3. InTable' /\ Told' /\ SignalIsKept'
  <2>1. ASSUME NEW w \in Waiters
        PROVE  call'[w] = call[w] \/ (call[w] = "entering" /\ call'[w] = "waiting")
    <3>1. call' # call => call'[w] = IF w = main.who THEN "waiting" ELSE call[w]
      BY <1>2 DEF IInv, TypeOK
    <3> QED
      BY <1>1, <3>1
  <2> QED
    BY <1>2, <2>1, MovesOn
<1>4. \/ main'.pc = "idle"
      \/ main'.pc \in {"install", "record"} /\ main'.who = main.who /\ UNCHANGED call
  <2>1. CASE Install /\ (Owned(main.sig) \/ handler[main.sig] = 0)
    <3>1. /\ main' = Entered(NextSignal(main, "entered")) /\ main.pc = "install"
          /\ call' = IF main.sig = 2 THEN [call EXCEPT ![main.who] = "waiting"] ELSE call
      BY <2>1 DEF Install
    <3> QED
      BY <1>1, <3>1, InstallGoesOn DEF Idle
  <2>2. CASE Install /\ ~(Owned(main.sig) \/ handler[main.sig] = 0)
    <3>1. /\ main' = [main EXCEPT !.pc = "record", !.replaced = handler[main.sig]]
          /\ UNCHANGED call
      BY <2>2 DEF Install
    <3> QED
      BY <1>1, <3>1 DEF MainStates
  <2>3. CASE Record
    <3> DEFINE r == [main EXCEPT !.pc = "install"]
    <3>1. r \in MainStates /\ r.pc = "install" /\ r.who = main.who /\ r.sig = main.sig
      BY <1>1 DEF MainStates, Places
    <3>2. /\ main' = Entered(NextSignal(r, "entered"))
          /\ call' = IF main.sig = 2 THEN [call EXCEPT ![main.who] = "waiting"] ELSE call
      BY <2>3 DEF Record
    <3> HIDE DEF r
    <3> QED
      BY <1>1, <3>1, <3>2, InstallGoesOn DEF Idle
  <2> QED
    BY <2>1, <2>2, <2>3
<1>5. Called' /\ TakenAlong' /\ Away'
  BY <1>1, <1>4 DEF Called, TakenAlong, Away, Leaving
<1> QED
  BY <1>3, <1>5 DEF KeptInv

\* After both signals were restored ours is in neither place.
LEMMA KeptByRestore ==
  ASSUME IInv, KeptInv, Restore
  PROVE  KeptInv'
<1>1. /\ main \in MainStates /\ main.pc = "restore" /\ main.who \in Waiters
      /\ main.sig \in Signals
  BY MainIsTyped DEF IInv, Restore, Placed, MainStates
<1>2. /\ handler' = [handler EXCEPT ![main.sig] = Restored(handler)[main.sig]]
      /\ main' = NextSignal(main, "handback")
      /\ UNCHANGED <<waiters, call, loopOf, loop, arrived, took, since, answered>>
  BY DEF Restore
<1>3. InTable' /\ Told' /\ SignalIsKept'
  BY <1>2, MovesOn
<1>4. main' = [pc |-> IF main.sig = 1 THEN "restore" ELSE "handback", who |-> main.who,
               sig |-> IF main.sig = 1 THEN 2 ELSE 1, replaced |-> main.replaced,
               received |-> main.received, consumed |-> main.consumed]
  BY <1>1, <1>2, NextSignalIs DEF Places
<1>5. Called' /\ TakenAlong'
  BY <1>1, <1>2, <1>4 DEF KeptInv, Called, TakenAlong, Leaving, Live
<1>6. Away'
  <2>1. Restored(handler)[main.sig] # Ours
    BY <1>1, RestoredIsTheHosts
  <2>2. handler'[main.sig] # Ours /\ \A s \in Signals : s < main.sig => handler'[s] # Ours
    BY <1>1, <1>2, <2>1 DEF IInv, TypeOK, KeptInv, Away, Signals
  <2> QED
    BY <1>1, <1>4, <2>2 DEF Away, Signals
<1> QED
  BY <1>3, <1>5, <1>6 DEF KeptInv

\* The event, and the beginning of a leave, keep it.
LEMMA KeptByWaiting ==
  ASSUME IInv, KeptInv, NEW w \in Waiters,
         SetEvent(w) \/ Completes(w) \/ Cancelled(w) \/ Finalized(w)
  PROVE  KeptInv'
<1>1. CASE SetEvent(w)
  <2>1. /\ main.pc = "idle"
        /\ UNCHANGED <<main, waiters, call, loopOf, loop, arrived, took, since, answered>>
    BY <1>1 DEF SetEvent
  <2>2. InTable' /\ Told' /\ SignalIsKept'
    BY <2>1, MovesOn
  <2> QED
    BY <2>1, <2>2 DEF KeptInv, Called, TakenAlong, Away, Leaving
<1>2. ASSUME NEW b \in BOOLEAN, Leave(w, b)
      PROVE  KeptInv'
  <2>1. /\ call[w] = "waiting" /\ call' = [call EXCEPT ![w] = "leaving"]
        /\ main' = [pc |-> "pop", who |-> w, sig |-> 1, replaced |-> 0,
                    received |-> NoSignal, consumed |-> b]
        /\ UNCHANGED <<waiters, loopOf, loop, arrived, took, since, answered>>
    BY <1>2 DEF Leave, Idle
  <2>2. InTable' /\ Told' /\ SignalIsKept'
    <3>1. ASSUME NEW x \in Waiters
          PROVE  call'[x] = call[x] \/ (call[x] = "waiting" /\ call'[x] = "leaving")
      <4>1. call'[x] = IF x = w THEN "leaving" ELSE call[x]
        BY <2>1 DEF IInv, TypeOK
      <4> QED
        BY <2>1, <4>1
    <3> QED
      BY <2>1, <3>1, MovesOn
  <2>3. Called' /\ TakenAlong' /\ Away'
    BY <2>1 DEF IInv, TypeOK, KeptInv, InTable, Called, TakenAlong, Away, Leaving, Live
  <2> QED
    BY <2>2, <2>3 DEF KeptInv
<1>3. event[w] \in BOOLEAN
  BY DEF IInv, TypeOK
<1> QED
  BY <1>1, <1>2, <1>3 DEF Completes, Cancelled, Finalized

\* Whoever leaves takes its signal out of the table.
LEMMA KeptByPop ==
  ASSUME IInv, KeptInv, Pop
  PROVE  KeptInv'
<1> DEFINE w == main.who
           taken == IF waiters[w] = Absent THEN NoSignal ELSE waiters[w]
<1>1. /\ main \in MainStates /\ main.pc = "pop" /\ w \in Waiters
      /\ call[w] = "leaving" /\ (Live(w) => waiters[w] # Absent)
  BY MainIsTyped DEF IInv, Pop, Placed, KeptInv, Called
<1>2. /\ main' = [main EXCEPT !.pc = "sweep", !.received = taken]
      /\ waiters' = [waiters EXCEPT ![w] = Absent]
      /\ UNCHANGED <<call, loopOf, loop, arrived, took, since, answered>>
  BY DEF Pop
<1>3. main'.pc = "sweep" /\ main'.who = w /\ main'.received = taken
  <2> HIDE DEF taken
  <2> QED
    BY <1>1, <1>2 DEF MainStates
<1>4. \A x \in Waiters : waiters'[x] = IF x = w THEN Absent ELSE waiters[x]
  BY <1>2 DEF IInv, TypeOK
<1>5. LiveWaiters' \subseteq LiveWaiters
  BY <1>2, <1>4 DEF LiveWaiters, Registered, Live
<1>6. InTable'
  BY <1>1, <1>2, <1>4 DEF KeptInv, InTable, Live
<1>7. Told'
  BY <1>2, <1>4, <1>5 DEF KeptInv, Told, Absent, NoSignal
<1>8. Called' /\ Away'
  BY <1>1, <1>2, <1>3, <1>4 DEF Called, Away, Leaving
<1>9. TakenAlong'
  <2>1. Live(w) /\ took[w] > 0 => taken # NoSignal
    BY <1>1 DEF KeptInv, Told, IInv, TypeOK
  <2> QED
    BY <1>2, <1>3, <2>1 DEF TakenAlong, Live
<1>10. SignalIsKept'
  BY <1>2 DEF KeptInv, SignalIsKept, Live
<1> QED
  BY <1>6, <1>7, <1>8, <1>9, <1>10 DEF KeptInv

\* The sweep takes nobody out of the table whose loop runs.
LEMMA KeptBySweep ==
  ASSUME IInv, KeptInv, Sweep
  PROVE  KeptInv'
<1> DEFINE next == IF IsLast THEN "restore" ELSE "handback"
<1>1. /\ main \in MainStates /\ main.pc = "sweep" /\ main.who \in Waiters /\ main.sig = 1
  BY MainIsTyped DEF IInv, Sweep, Placed, Stepping
<1>2. /\ waiters' = Swept /\ main' = [main EXCEPT !.pc = next]
      /\ UNCHANGED <<handler, call, loopOf, loop, arrived, took, since, answered>>
  BY DEF Sweep
<1>3. next \in {"restore", "handback"} /\ (next = "handback" => LiveWaiters # {})
  BY DEF IsLast
<1>4. /\ main'.pc = next /\ main'.who = main.who /\ main'.sig = 1
      /\ main'.received = main.received
  <2> HIDE DEF next
  <2> QED
    BY <1>1, <1>2, <1>3 DEF MainStates
<1>5. \A w \in Waiters : Swept[w] = waiters[w] \/ (Swept[w] = Absent /\ ~Live(w))
  BY SweptKeeps DEF IInv
<1>6. Heard(0)
  BY <1>2, <1>5 DEF Heard
<1>7. LiveWaiters' = LiveWaiters
  BY <1>2, <1>5, SameWait
<1>8. InTable' /\ Told'
  <2>1. 0 \in Nat /\ 0 <= arrived' /\ answered \subseteq answered'
    BY <1>2 DEF IInv, TypeOK
  <2>2. InTable'
    BY <1>2, <1>6, HeardInTable DEF KeptInv
  <2>3. Told'
    BY <1>2, <1>6, <1>7, <2>1, HeardIsTold DEF KeptInv, IInv
  <2> QED
    BY <2>2, <2>3
<1>9. Called' /\ TakenAlong'
  BY <1>1, <1>2, <1>3, <1>4, <1>5 DEF KeptInv, Called, TakenAlong, Leaving, Live
<1>10. Away'
  BY <1>3, <1>4, <1>7 DEF Away, Signals
<1>11. SignalIsKept'
  BY <1>2 DEF KeptInv, SignalIsKept, Live
<1> QED
  BY <1>8, <1>9, <1>10, <1>11 DEF KeptInv

\* Who enters knows no signal, and is newer than all of them.
LEMMA KeptByEnter ==
  ASSUME IInv, KeptInv, NEW w \in Waiters, Enter(w)
  PROVE  KeptInv'
<1> USE SignalsAssumption
<1>1. /\ call[w] = "new" /\ main' = [pc |-> "install", who |-> w, sig |-> 1, replaced |-> 0,
                                     received |-> NoSignal, consumed |-> FALSE]
      /\ loopOf' = [loopOf EXCEPT ![w] = loop] /\ waiters' = [waiters EXCEPT ![w] = NoSignal]
      /\ call' = [call EXCEPT ![w] = "entering"] /\ since' = [since EXCEPT ![w] = arrived]
      /\ UNCHANGED <<loop, arrived, took, answered>>
  BY DEF Enter, Idle
<1>2. waiters[w] = Absent /\ took[w] = 0
  BY <1>1 DEF KeptInv, InTable
<1>3. /\ loopOf'[w] = loop /\ waiters'[w] = NoSignal /\ call'[w] = "entering"
      /\ since'[w] = arrived
  BY <1>1 DEF IInv, TypeOK
<1>4. ASSUME NEW x \in Waiters, x # w
      PROVE  /\ waiters'[x] = waiters[x] /\ call'[x] = call[x] /\ since'[x] = since[x]
             /\ (Live(x)' <=> Live(x))
  BY <1>1, <1>4 DEF IInv, TypeOK, Live
<1>5. LiveWaiters' \subseteq LiveWaiters \cup {w}
  BY <1>4 DEF LiveWaiters, Registered
<1>6. InTable'
  BY <1>1, <1>3, <1>4 DEF KeptInv, InTable, NoSignal, Absent
<1>7. Told'
  <2>1. arrived \in Nat
    BY DEF IInv, TypeOK
  <2>2. ASSUME NEW x \in Waiters
        PROVE  /\ took'[x] <= arrived' /\ (waiters'[x] = NoSignal => took'[x] = 0)
               /\ x \in LiveWaiters' => \/ took'[x] = arrived' \/ since'[x] >= arrived'
                                        \/ arrived' \in answered'
    <3>1. CASE x = w
      BY <1>1, <1>2, <1>3, <2>1, <3>1
    <3>2. CASE x # w
      BY <1>1, <1>4, <1>5, <3>2 DEF KeptInv, Told
    <3> QED
      BY <3>1, <3>2
  <2> QED
    BY <2>2 DEF Told
<1>8. Called' /\ TakenAlong' /\ Away'
  BY <1>1, <1>3 DEF Called, TakenAlong, Away, Leaving
<1>9. SignalIsKept'
  <2>1. arrived \in Nat
    BY DEF IInv, TypeOK
  <2>2. CASE arrived = 0 \/ arrived \in answered
    BY <1>1, <2>2 DEF SignalIsKept
  <2>3. CASE arrived # 0 /\ \E x \in Waiters : took[x] = arrived /\ (call[x] # "done" \/ ~Live(x))
    <3>1. PICK x \in Waiters : took[x] = arrived /\ (call[x] # "done" \/ ~Live(x))
      BY <2>3
    <3>2. x # w
      BY <1>2, <2>3, <3>1
    <3> QED
      BY <1>1, <1>4, <3>1, <3>2 DEF SignalIsKept
  <2>4. CASE \E x \in Waiters : call[x] # "new" /\ since[x] >= arrived
    <3>1. PICK x \in Waiters : call[x] # "new" /\ since[x] >= arrived
      BY <2>4
    <3>2. x # w
      BY <1>1, <3>1
    <3> QED
      BY <1>1, <1>4, <3>1, <3>2 DEF SignalIsKept
  <2> QED
    BY <2>2, <2>3, <2>4 DEF KeptInv, SignalIsKept
<1> QED
  BY <1>6, <1>7, <1>8, <1>9 DEF KeptInv

\* What the waiters of a closed loop held is a case of its own.
LEMMA KeptByCloseLoop ==
  ASSUME IInv, KeptInv, CloseLoop
  PROVE  KeptInv'
<1> USE SignalsAssumption
<1>1. /\ main.pc = "idle" /\ loop' = loop + 1
      /\ UNCHANGED <<waiters, call, loopOf, main, arrived, took, since, answered>>
  BY DEF CloseLoop
<1>2. \A w \in Waiters : ~Live(w)'
  <2>1. loop \in Nat /\ \A w \in Waiters : loopOf[w] \in Nat /\ loopOf[w] <= loop
    BY DEF IInv, TypeOK, Placed
  <2> QED
    BY <1>1, <2>1 DEF Live
<1>3. LiveWaiters' = {}
  BY <1>2 DEF LiveWaiters, Registered
<1>4. InTable' /\ Told'
  BY <1>1, <1>2, <1>3 DEF KeptInv, InTable, Told
<1>5. Called' /\ TakenAlong' /\ Away'
  BY <1>1 DEF Called, TakenAlong, Away, Leaving
<1>6. SignalIsKept'
  BY <1>1, <1>2 DEF KeptInv, SignalIsKept
<1> QED
  BY <1>4, <1>5, <1>6 DEF KeptInv

\* A handler of the host takes no signal away.
LEMMA KeptByHostInstalls ==
  ASSUME IInv, KeptInv, NEW s \in Signals, HostInstalls(s)
  PROVE  KeptInv'
<1>1. /\ main.pc = "idle"
      /\ UNCHANGED <<waiters, call, loopOf, loop, main, arrived, took, since, answered>>
  BY DEF HostInstalls
<1>2. InTable' /\ Told' /\ SignalIsKept'
  BY <1>1, MovesOn
<1> QED
  BY <1>1, <1>2 DEF KeptInv, Called, TakenAlong, Away, Leaving

\* A new signal is everybody's, or the host's.
LEMMA KeptBySignal ==
  ASSUME IInv, KeptInv, NEW s \in Signals, Signal(s)
  PROVE  KeptInv'
<1> USE SignalsAssumption
<1> DEFINE i == arrived + 1
<1>1. /\ arrived \in Nat /\ i \in 1..MaxSignals /\ arrived' = i
      /\ UNCHANGED <<call, loopOf, loop, main, since>>
  BY DEF Signal, IInv, TypeOK
<1>2. /\ waiters \in WaiterTable
      /\ \A w \in Waiters : waiters[w] = waiters[w] \/ (waiters[w] = Absent /\ ~Live(w))
  BY DEF IInv, TypeOK, WaiterTable
<1>3. /\ Heard(i) /\ answered \subseteq answered'
      /\ i \in answered' \/ (LiveWaiters # {} /\ \A w \in LiveWaiters : took'[w] >= i)
  <2>1. CASE Owned(s)
    <3>1. /\ Wake(waiters, s, i)
          /\ answered' = IF HandsBack(s) THEN answered \cup {i} ELSE answered
      BY <2>1 DEF Signal
    <3>2. Heard(i) /\ \A w \in LiveWaiters : took'[w] >= i
      BY <1>1, <1>2, <3>1, WakeIsHeard DEF IInv
    <3> QED
      BY <3>1, <3>2 DEF HandsBack
  <2>2. CASE ~Owned(s)
    <3>1. HostHandles(waiters, s, i)
      BY <2>2 DEF Signal
    <3> QED
      BY <1>1, <1>2, <3>1, HostIsHeard DEF IInv
  <2> QED
    BY <2>1, <2>2
<1>4. LiveWaiters' = LiveWaiters
  <2>1. \A w \in Waiters : Live(w) => (waiters'[w] = Absent <=> waiters[w] = Absent)
    BY <1>3 DEF Heard, LiveWaiters, Registered, Absent, Signals
  <2> QED
    BY <1>1, <2>1, SameWait
<1>5. Told'
  BY <1>1, <1>3, <1>4, HeardIsTold DEF IInv, KeptInv
<1>6. InTable'
  BY <1>1, <1>3, HeardInTable DEF KeptInv
<1>7. Called' /\ TakenAlong'
  BY <1>1, <1>3, HeardIsCalled DEF IInv, KeptInv
<1>8. Away'
  <2>1. \A t \in Signals : handler[t] # Ours => handler'[t] # Ours
    <3>1. CASE UNCHANGED handler
      BY <3>1
    <3>2. CASE handler' = Restored(handler)
      BY <3>2 DEF Restored
    <3> QED
      BY <3>1, <3>2 DEF Signal
  <2> QED
    BY <1>1, <1>4, <2>1 DEF KeptInv, Away
<1>9. SignalIsKept'
  <2>1. CASE i \in answered'
    BY <1>1, <2>1 DEF SignalIsKept
  <2>2. CASE LiveWaiters # {} /\ \A w \in LiveWaiters : took'[w] >= i
    <3>1. PICK w \in LiveWaiters : took'[w] >= i
      BY <2>2
    <3>2. w \in Waiters /\ waiters[w] # Absent
      BY DEF LiveWaiters, Registered
    <3>3. call[w] # "done"
      BY <3>2 DEF KeptInv, InTable
    <3>4. took'[w] = i
      <4>1. took[w] \in Nat /\ took[w] <= arrived
        BY <3>2 DEF IInv, TypeOK, KeptInv, Told
      <4> QED
        BY <1>1, <1>3, <3>1, <3>2, <4>1 DEF Heard
    <3> QED
      BY <1>1, <3>2, <3>3, <3>4 DEF SignalIsKept
  <2> QED
    BY <1>3, <2>1, <2>2
<1> QED
  BY <1>5, <1>6, <1>7, <1>8, <1>9 DEF KeptInv

\* A signal that its waiter does not give back to the host is the client's, or another
\* waiter's.
LEMMA KeptByHandBack ==
  ASSUME IInv, KeptInv, HandBack
  PROVE  KeptInv'
<1> USE SignalsAssumption
<1> DEFINE w == main.who
<1>1. /\ main \in MainStates /\ main.pc = "handback" /\ w \in Waiters /\ main' = Idle
      /\ waiters[w] = Absent
  BY MainIsTyped DEF IInv, HandBack, Placed, KeptInv, Called, Leaving
<1>2. /\ Gone(w, waiters, main.received, main.consumed, Returned(main))
      /\ UNCHANGED <<handler, loopOf, loop, arrived, since>>
  BY DEF HandBack
<1>3. /\ main.received \in {NoSignal} \cup Signals /\ main.consumed \in BOOLEAN
      /\ Returned(main) \in BOOLEAN /\ waiters \in WaiterTable
      /\ Returned(main) => main.received \in Signals /\ took[w] > 0
  BY <1>1 DEF MainStates, Returned, IInv, TypeOK, WaiterTable, Taken
<1>4. /\ Heard(took[w]) /\ answered \subseteq answered'
      /\ Returned(main) \/ main.consumed => took[w] \in answered'
      /\ call' = [call EXCEPT ![w] = "done"]
  BY <1>1, <1>2, <1>3, GoneIsHeard DEF IInv
<1>5. /\ \A x \in Waiters : call'[x] = IF x = w THEN "done" ELSE call[x]
      /\ w \notin LiveWaiters /\ took'[w] = took[w] /\ waiters'[w] = Absent
      /\ \A x \in Waiters : took[x] \in Nat /\ took[x] <= arrived
      /\ arrived \in Nat
  BY <1>1, <1>4 DEF IInv, TypeOK, Heard, LiveWaiters, Registered, KeptInv, Told
<1>6. LiveWaiters' = LiveWaiters
  <2>1. \A x \in Waiters : Live(x) => (waiters'[x] = Absent <=> waiters[x] = Absent)
    BY <1>4 DEF Heard, LiveWaiters, Registered, Absent, Signals
  <2> QED
    BY <1>2, <2>1, SameWait
<1>7. Told'
  BY <1>1, <1>2, <1>4, <1>5, <1>6, HeardIsTold DEF IInv, KeptInv
<1>8. InTable'
  BY <1>2, <1>4, <1>5, HeardInTable DEF KeptInv
<1>9. Called' /\ TakenAlong' /\ Away'
  BY <1>1 DEF Idle, Called, TakenAlong, Away, Leaving
<1>10. ASSUME NEW x \in Waiters, took[x] = arrived, x # w \/ ~Live(x),
              call[x] # "done" \/ ~Live(x)
       PROVE  SignalIsKept'
  <2>1. took'[x] = arrived
    <3>1. ~(took[w] > took[x])
      BY <1>1, <1>5, <1>10
    <3> QED
      BY <1>4, <1>10, <3>1 DEF Heard
  <2>2. call'[x] # "done" \/ ~Live(x)'
    BY <1>2, <1>5, <1>10 DEF Live
  <2> QED
    BY <1>2, <2>1, <2>2 DEF SignalIsKept
<1>11. ASSUME NEW x \in Waiters, call[x] # "new", since[x] >= arrived
       PROVE  SignalIsKept'
  BY <1>2, <1>5, <1>11 DEF SignalIsKept
<1>12. ASSUME arrived = 0 \/ arrived \in answered
       PROVE  SignalIsKept'
  BY <1>2, <1>4, <1>12 DEF SignalIsKept
<1>13. ASSUME arrived # 0, took[w] = arrived, Live(w)
       PROVE  SignalIsKept'
  <2>1. main.received # NoSignal
    BY <1>1, <1>5, <1>13 DEF KeptInv, TakenAlong, Leaving
  <2>2. CASE Returned(main) \/ main.consumed
    BY <1>2, <1>4, <1>13, <2>2 DEF SignalIsKept
  <2>3. CASE ~(Returned(main) \/ main.consumed)
    <3>1. Owned(main.received) /\ main.received \in Signals
      BY <1>3, <2>1, <2>3 DEF Returned
    <3>2. LiveWaiters # {}
      BY <1>1, <3>1 DEF KeptInv, Away, Owned
    <3>3. PICK x \in LiveWaiters : TRUE
      BY <3>2
    <3>4. x \in Waiters /\ waiters[x] # Absent /\ x # w
      BY <1>1, <3>3 DEF LiveWaiters, Registered
    <3>5. call[x] # "new" /\ call[x] # "done"
      BY <3>4 DEF KeptInv, InTable
    <3>6. took[x] = arrived \/ since[x] >= arrived \/ arrived \in answered
      BY <3>3, <3>4 DEF KeptInv, Told
    <3> QED
      BY <1>10, <1>11, <1>12, <3>4, <3>5, <3>6
  <2> QED
    BY <2>2, <2>3
<1>14. SignalIsKept'
  BY <1>10, <1>11, <1>12, <1>13 DEF KeptInv, SignalIsKept
<1> QED
  BY <1>7, <1>8, <1>9, <1>14 DEF KeptInv

\* A waiter of a closed loop gives up its own signal only.
LEMMA KeptByFinalizedElsewhere ==
  ASSUME IInv, KeptInv, NEW w \in Waiters, FinalizedElsewhere(w)
  PROVE  KeptInv'
<1> USE SignalsAssumption
<1> DEFINE back == waiters[w] \in Signals /\ ~Owned(waiters[w])
           held == IF waiters[w] = Absent THEN NoSignal ELSE waiters[w]
<1>1. /\ ~Live(w) /\ call[w] = "waiting" /\ Gone(w, Swept, waiters[w], FALSE, back)
      /\ UNCHANGED <<handler, loopOf, loop, main, arrived, since>>
  BY DEF FinalizedElsewhere
<1>2. /\ Swept \in WaiterTable
      /\ \A x \in Waiters : Swept[x] = waiters[x] \/ (Swept[x] = Absent /\ ~Live(x))
  BY SweptKeeps DEF IInv
<1>3. /\ held \in {NoSignal} \cup Signals /\ back \in BOOLEAN
      /\ back => held \in Signals /\ held = waiters[w] /\ took[w] > 0
  BY DEF IInv, TypeOK, Taken, Absent, Signals
<1>4. Gone(w, Swept, held, FALSE, back)
  BY <1>1, <1>3 DEF Gone
<1>5. /\ Heard(took[w]) /\ answered \subseteq answered'
      /\ call' = [call EXCEPT ![w] = "done"]
  <2> HIDE DEF back, held
  <2> QED
    BY <1>2, <1>3, <1>4, GoneIsHeard DEF IInv
<1>6. waiters'[w] = Absent
  <2>1. Swept[w] = Absent
    BY <1>1 DEF Swept
  <2>2. CASE back /\ chains[waiters[w]]
    BY <1>1, <2>1, <2>2 DEF Gone, HostHandles, Wake, Wakes, LiveWaiters
  <2>3. CASE ~(back /\ chains[waiters[w]])
    BY <1>1, <2>1, <2>3 DEF Gone, HostHandles
  <2> QED
    BY <2>2, <2>3
<1>7. /\ \A x \in Waiters : call'[x] = IF x = w THEN "done" ELSE call[x]
      /\ \A x \in Waiters : took[x] \in Nat /\ took[x] <= arrived
      /\ arrived \in Nat
  BY <1>5 DEF IInv, TypeOK, KeptInv, Told
<1>8. LiveWaiters' = LiveWaiters
  <2>1. \A x \in Waiters : Live(x) => (waiters'[x] = Absent <=> waiters[x] = Absent)
    BY <1>5 DEF Heard, LiveWaiters, Registered, Absent, Signals
  <2> QED
    BY <1>1, <2>1, SameWait
<1>9. Told'
  BY <1>1, <1>5, <1>7, <1>8, HeardIsTold DEF IInv, KeptInv
<1>10. InTable'
  BY <1>1, <1>5, <1>6, <1>7, HeardInTable DEF KeptInv
<1>11. Called' /\ TakenAlong'
  <2>1. main.pc # "idle" => main.who # w
    <3>1. main.pc # "idle" => call[main.who] \in {"entering", "leaving"}
      <4>1. main.pc \in Places
        BY MainIsTyped DEF IInv, MainStates
      <4> QED
        BY <4>1 DEF KeptInv, Called, Leaving, Places
    <3> QED
      BY <1>1, <3>1
  <2>2. main.pc # "idle" => call'[main.who] = call[main.who]
    BY <1>7, <2>1 DEF IInv, Placed
  <2> QED
    BY <1>1, <1>5, <2>2, HeardIsCalled DEF IInv, KeptInv
<1>12. Away'
  BY <1>1, <1>8 DEF KeptInv, Away
<1>13. SignalIsKept'
  <2>1. \A x \in Waiters : /\ call[x] # "new" => call'[x] # "new"
                           /\ call[x] # "done" \/ ~Live(x) => call'[x] # "done" \/ ~Live(x)'
                           /\ took[x] = arrived => took'[x] = arrived
    BY <1>1, <1>5, <1>7 DEF Heard, Live
  <2> QED
    BY <1>1, <1>5, <2>1 DEF KeptInv, SignalIsKept
<1> QED
  BY <1>9, <1>10, <1>11, <1>12, <1>13 DEF KeptInv

\* The latest signal is acted on, reaches the host or is still held, but for the two cases
\* that SignalIsKept names.
THEOREM NoSignalIsLost == Spec => []SignalIsKept
<1>1. Init => KeptInv
  <2> SUFFICES ASSUME Init PROVE KeptInv
    OBVIOUS
  <2>1. /\ \A w \in Waiters : waiters[w] = Absent /\ call[w] = "new" /\ took[w] = 0
        /\ arrived = 0 /\ main.pc = "idle"
    BY DEF Init, Idle
  <2>2. InTable /\ Told
    BY <2>1 DEF InTable, Told, LiveWaiters, Registered, NoSignal, Absent
  <2> QED
    BY <2>1, <2>2 DEF KeptInv, Called, TakenAlong, Away, SignalIsKept, Leaving
<1>2. IInv /\ KeptInv /\ [Next]_vars => KeptInv'
  <2> SUFFICES ASSUME IInv, KeptInv, [Next]_vars PROVE KeptInv'
    OBVIOUS
  <2>1. CASE UNCHANGED vars
    <3>1. InTable' /\ Told' /\ SignalIsKept' /\ LiveWaiters' = LiveWaiters
      BY <2>1, MovesOn DEF vars
    <3> QED
      BY <2>1, <3>1 DEF vars, KeptInv, Called, TakenAlong, Away, Live
  <2>2. ASSUME NEW s \in Signals, Signal(s) \/ HostInstalls(s)
        PROVE  KeptInv'
    BY <2>2, KeptBySignal, KeptByHostInstalls
  <2>3. CASE MainGoesOn
    BY <2>3, KeptByInstall, KeptByPop, KeptBySweep, KeptByRestore, KeptByHandBack
    DEF MainGoesOn
  <2>4. CASE CloseLoop
    BY <2>4, KeptByCloseLoop
  <2>5. ASSUME NEW w \in Waiters, Waiter(w)
        PROVE  KeptInv'
    BY <2>5, KeptByEnter, KeptByWaiting, KeptByFinalizedElsewhere DEF Waiter
  <2> QED
    BY <2>1, <2>2, <2>3, <2>4, <2>5 DEF Next
<1>3. KeptInv => SignalIsKept
  BY DEF KeptInv
<1> QED
  BY <1>1, <1>2, <1>3, Invariance, PTL DEF Spec

=============================================================================
