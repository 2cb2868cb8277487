SPECIFICATION FairSpec
CONSTANTS
  Policy <- ShortPolicy
  MaxExponent = 9
  MaxAttempt = 1
  Interval = 1
  Threshold = 3
  MaxLag = 1
  MaxUptime = 9
  Modes <- AllModes
  Codes = {"none", "normal", "policy"}
  Env = {"accept", "slow", "refuse", "forbid", "close", "force", "garble", "sendfail", "stale", "answer", "shutdown"}
INVARIANTS TypeOK SilenceIsBounded PromptServerIsKept VerdictMatchesClose ChurnIsStopped
PROPERTIES ConnectionsInTurn NoVerdictAfterStop LossIsHandled
CHECK_DEADLOCK FALSE
