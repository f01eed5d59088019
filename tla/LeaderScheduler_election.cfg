\* Two replicas that crash, drain and lose sessions; the job may hang for ever.
SPECIFICATION FairSpec
CONSTANTS
  p1 = p1
  p2 = p2
  j1 = j1
  None = None
  Procs = {p1, p2}
  Jobs = {j1}
  Hanging = {j1}
  Threads = 2
  MaxBoots = 2
  MaxFaults = 1
INVARIANTS
  PoolHolds
  NoForgottenLock
PROPERTIES
  LeadershipSettles
  DueJobsRun
  StaleLeaderStepsDown
CHECK_DEADLOCK FALSE
