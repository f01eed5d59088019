\* Both jobs in turn, with crashes, refusals and lost answers.
SPECIFICATION OrdersFairSpec
CONSTANTS
  Shares = 3
  OthersShares = 3
  MaxTries = 2
  MaxSells = 3
  MaxOverlaps = 1
  MaxMishaps = 2
INVARIANTS
  EntryHolds
  SharesHold
  DoneHolds
PROPERTIES
  DeadlineKept
CHECK_DEADLOCK FALSE
