SPECIFICATION FairSpec
CONSTANTS
  h1 = h1
  h2 = h2
  t1 = t1
  t2 = t2
  NoHandle = NoHandle
  Handles = {h1}
  Topics = {t1}
  TopicOf <- OneTopic
  Required = {h1}
  JoinReplies = {"ok"}
  ServerEnds = {"close"}
  Env = {"drop", "shutdown", "timeout", "garble", "giveup"}
  MaxJoin = 2
  MaxRef = 3
  MaxConn = 2
INVARIANT ShutdownLeavesNothing
PROPERTIES ConnectionsInTurn NoInvalidTransition LeaveCompletes JoinCompletes ShutdownCompletes LossIsReported
CHECK_DEADLOCK FALSE
