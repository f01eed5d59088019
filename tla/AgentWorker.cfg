\* Two workers, one of either kind, and one task that needs both.
SPECIFICATION WorkerSpec
CONSTANTS
  t1 = t1
  t2 = t2
  claude = claude
  codex = codex
  good = good
  typo = typo
  None = None
  Tasks = {t1}
  Agents = {claude, codex}
  CodexAgents = {codex}
  Bodies = {good, typo}
  Check <- MCCheck
  Request <- MCRequest
  LeaseTimes <- MCLeaseTimes
  Cooldown = 1
  MaxRepairs = 2
  WorkerRepairs = 1
  HeartbeatTime = 3
  HeartbeatMax = 1
  OnlineTime = 2
  PauseAfter = 2
  PauseTime = 1
  MaxTasks = 1
  MaxClock = 3
  MaxDelay = 0
  MaxLost = 1
INVARIANTS
  WorkHolds
  CountsHold
