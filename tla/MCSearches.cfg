SPECIFICATION Spec
CONSTANTS
  Procs = {p, q}
  None = None
  Unused = Unused
SYMMETRY ProcsInterchangeable
CHECK_DEADLOCK FALSE
INVARIANTS
  MeaningIsKept
  NothingCheaperIsMissed
  EventsAreBacked
  ReplayIsExact
  MemoryAgreesWithRows
  AttemptsFollowOneAnother
PROPERTIES
  BestIsKept
