\* One job at a time, and no fault at all.
SPECIFICATION OrdersSpec
CONSTANTS
  Shares = 2
  OthersShares = 1
  MaxTries = 2
  MaxSells = 1
  MaxOverlaps = 0
  MaxMishaps = 0
INVARIANTS
  NeverOversold
CHECK_DEADLOCK FALSE
