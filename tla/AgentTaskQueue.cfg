\* One task that two agents must agree on, stale clocks, repairs; time and the sweep are
\* fair, agents may stop at any point.
SPECIFICATION FairSpec
CONSTANTS
  t1 = t1
  t2 = t2
  a1 = a1
  a2 = a2
  good = good
  typo = typo
  None = None
  Tasks = {t1, t2}
  Agents = {a1, a2}
  Bodies = {good, typo}
  Check <- MCCheck
  Request <- MCRequest
  LeaseTimes <- MCLeaseTimes
  Cooldown = 2
  MaxRepairs = 1
  MaxTasks = 1
  MaxClock = 3
  MaxDelay = 1
INVARIANTS
  QuorumExact
  OneVoicePerAgent
  LeasesHold
  EvidenceHolds
  ReleaseCoolsDown
PROPERTIES
  ImplementsConsensus
  QueueSettles
