SPECIFICATION Spec
CONSTANTS
  p1 = p1
  p2 = p2
  i1 = i1
  i2 = i2
  i3 = i3
  a = a
  b = b
  z = z
  NoRecord = NoRecord
  NoAnswer = NoAnswer
  Unused = Unused
SYMMETRY Interchangeable
CHECK_DEADLOCK FALSE
INVARIANTS
  PaidOnceAndCovered
  ExperimentsAreTrue
  BalanceMissesOnlyEnded
  ReadyMeansAffordable
  RebuildLosesNothing
