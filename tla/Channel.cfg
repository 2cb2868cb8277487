SPECIFICATION Spec
CONSTANTS
  h1 = h1
  h2 = h2
  t1 = t1
  t2 = t2
  NoHandle = NoHandle
  Handles = {h1}
  Topics = {t1}
  TopicOf <- OneTopic
  Required = {h1}
  JoinReplies = {"ok", "error", "malformed"}
  ServerEnds = {"error", "close"}
  Env = {"drop", "leave", "timeout", "cancel", "hook", "params", "giveup"}
  MaxJoin = 3
  MaxRef = 4
  MaxConn = 2
INVARIANTS TypeOK JoinedAgreesWithServer NoOrphan LossHasAReporter LossReportedOnce
PROPERTIES LeftIsFinal
CHECK_DEADLOCK FALSE
