SPECIFICATION Spec
CONSTANTS
  h1 = h1
  h2 = h2
  t1 = t1
  t2 = t2
  NoHandle = NoHandle
  Handles = {h1}
  Topics = {t1}
  TopicOf <- OneTopic
  Required = {h1}
  JoinReplies = {"ok"}
  ServerEnds = {"error"}
  Env = {"drop"}
  MaxJoin = 2
  MaxRef = 3
  MaxConn = 2
INVARIANT TransientFailuresAreRetried
CHECK_DEADLOCK FALSE
