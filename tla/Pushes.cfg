SPECIFICATION Spec
CONSTANTS
  p1 = p1
  c1 = c1
  Pushes = {p1}
  Channels = {c1}
  ChannelOf <- Alone
  MaxJoin = 2
  MaxConn = 2
  Env <- Everything
INVARIANTS LeftIsQuiet
PROPERTIES CallsAreKept PushReturns SendEnds
CHECK_DEADLOCK FALSE
