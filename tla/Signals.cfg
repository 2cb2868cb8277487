CONSTANTS
  Waiters <- Calls
  MaxSignals = 2
  MaxHost = 2
  MaxLoop = 2
  Env <- Everything
SPECIFICATION Spec
INVARIANTS SignalIsKept HandlersAreThose
PROPERTIES SignalStops
CHECK_DEADLOCK FALSE
