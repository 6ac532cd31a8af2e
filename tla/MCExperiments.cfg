SPECIFICATION Spec
CONSTANT Unused = Unused
CHECK_DEADLOCK FALSE
INVARIANTS
  LockedEvidenceHolds
  BenchmarkIsSealed
  InferenceIsSound
  LessonsAreConfirmed
