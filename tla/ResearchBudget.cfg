\* Two containers, two symbols, an allowance of two calls, and a cap of two allowances and a half.
SPECIFICATION FairSpec
CONSTANTS
  r1 = r1
  r2 = r2
  s1 = s1
  s2 = s2
  None = None
  Runners = {r1, r2}
  Queue <- MCQueue
  Tokens = {1, 2, 3, 4}
  Cap = 5
  Amount = 2
  Headroom = 1
  FailedCost = 1
  MaxAttempts = 2
  MaxFaults = 1
INVARIANTS
  AllowancesHold
  BilledWithinCap
  PaidOnce
PROPERTIES
  RecordKept
  Answered
CHECK_DEADLOCK FALSE
