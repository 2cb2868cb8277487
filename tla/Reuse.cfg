SPECIFICATION Spec
CONSTANTS
  h1 = h1
  h2 = h2
  t1 = t1
  t2 = t2
  NoHandle = NoHandle
  Handles = {h1, h2}
  Topics = {t1}
  TopicOf <- OneTopic
  Required = {h1}
  JoinReplies = {"ok", "error"}
  ServerEnds = {"close"}
  Env = {"leave", "timeout"}
  MaxJoin = 3
  MaxRef = 5
  MaxConn = 1
INVARIANTS SingleOwner ReservationCoversMembership WritesHaveTheOwner
CHECK_DEADLOCK FALSE
