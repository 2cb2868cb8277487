SPECIFICATION FairSpec
CONSTANTS
  Policy <- DefaultPolicy
  MaxExponent = 8
  MaxAttempt = 9
  Interval = 20
  Threshold = 40
  MaxLag = 1
  MaxUptime = 0
  Modes <- WarnOnly
  Codes = {"none"}
  Env = {"refuse"}
INVARIANT StopsForAReason
CHECK_DEADLOCK FALSE
