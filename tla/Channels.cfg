SPECIFICATION Spec
CONSTANTS
  h1 = h1
  h2 = h2
  t1 = t1
  t2 = t2
  NoHandle = NoHandle
  Handles = {h1, h2}
  Topics = {t1, t2}
  TopicOf <- TwoTopics
  Required = {h1}
  JoinReplies = {"ok"}
  ServerEnds = {}
  Env = {"drop"}
  MaxJoin = 4
  MaxRef = 6
  MaxConn = 2
INVARIANTS NoOrphan
PROPERTY ReconnectBarrier
CHECK_DEADLOCK FALSE
