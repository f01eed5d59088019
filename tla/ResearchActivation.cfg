\* Two artifacts that may serve one lane in turn, one kill or failure anywhere.
SPECIFICATION FairSpec
CONSTANTS
  x = x
  y = y
  None = None
  Artifacts = {x, y}
  SampleSize = 2
  MinWins = 2
  InvalidShare = 10
  MaxDays = 2
  LeaseWindow = 1
  Reserve = 1
  ModelLife = 2
  TTL = 1
  MaxTries = 2
  MaxClock = 3
  Here = {"job", "review", "delete"}
  Starts <- MCStarts
INVARIANTS
  ServedHolds
  LaneHolds
  ProofHolds
PROPERTIES
  LaneSettles
CHECK_DEADLOCK FALSE
