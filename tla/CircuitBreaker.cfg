\* Three threads race through every method and never stop asking.
SPECIFICATION FairSpec
CONSTANTS
  c1 = c1
  c2 = c2
  c3 = c3
  None = None
  Callers = {c1, c2, c3}
  Threshold = 2
  Cooldown = 2
  HalfOpenMax = 2
  Window = 2
  RateMax = 2
  MaxStamps = 3
INVARIANTS
  BreakerHolds
PROPERTY AskedAgain
