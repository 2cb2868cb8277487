SPECIFICATION Spec
CONSTANTS
  h1 = h1
  h2 = h2
  t1 = t1
  t2 = t2
  NoHandle = NoHandle
  Handles = {h1}
  Topics = {t1}
  TopicOf <- OneTopic
  Required = {h1}
  JoinReplies = {"ok"}
  ServerEnds = {"error"}
  Env = {"timeout", "params"}
  MaxJoin = 3
  MaxRef = 4
  MaxConn = 1
INVARIANT FreeNameHasNoMember
CHECK_DEADLOCK FALSE
