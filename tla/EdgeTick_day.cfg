SPECIFICATION Spec
CONSTANTS
  r1 = r1
  r2 = r2
  n1 = n1
  n2 = n2
  x = x
  y = y
  s = s
  t = t
  none = none
  None = none
  Runners <- MCRunners
  Names <- MCNames
  Refs <- MCRefs
  Specs <- MCSpecs
  MaxPerDay = 1
  MaxOutlived = 1
  MaxFaults = 1
  MaxExclusions = 1
SYMMETRY Symmetry
INVARIANTS
  OneSpec
  CardHolds
PROPERTIES
  ImplementsLedger
