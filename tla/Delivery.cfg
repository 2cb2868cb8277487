SPECIFICATION Spec
CONSTANTS
  Capacity = 2
  MaxMsg = 4
  MaxJoin = 3
  Env <- Ordinary
INVARIANTS TypeOK JoinedIsServed LeftIsSilent
PROPERTIES HandedOver GraceIsKept TeardownEnds MessagesAreHandled
CHECK_DEADLOCK FALSE
