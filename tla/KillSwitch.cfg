\* Two processes that scan and a dashboard; a human resumes once or one transaction fails.
SPECIFICATION KillFairSpec
CONSTANTS
  c1 = c1
  c2 = c2
  r1 = r1
  Unset = Unset
  Cycles = {c1, c2}
  Readers = {r1}
  KillWindow = 2
  Floor = 2
  Streak = 1
  MinSamples = 1
  Recency = 2
  KillCooldown = 1
  Grace = 1
  MaxPicks = 4
  MaxOpen = 1
  MaxFaults = 1
INVARIANTS
  SwitchHolds
PROPERTY PauseEnds
CHECK_DEADLOCK FALSE
