SPECIFICATION FairSpec
CONSTANTS
  watchdog = watchdog
  reconcile = reconcile
  Resolvers <- MCResolvers
  Kind <- MCKind
  Cycles = {c1}
  Prices = {0, 2, 3}
  Entry = 2
  Directions = {"UP"}
  Hold = 2
  None = None
  Days = 3
  MaxPicks = 1
  MaxFaults = 1
INVARIANT OutcomesHold
PROPERTIES OutcomeFinal PickEnds
CHECK_DEADLOCK FALSE
