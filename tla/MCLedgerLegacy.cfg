SPECIFICATION MCSpec
CONSTANTS
  r1 = r1
  canary = canary
  Runs = {r1, r2}
  Stages = {canary, pilot}
  StageCap <- MCStageCap
  ChildCap <- MCChildCap
  Scope <- MCScope
  ScopeCap <- MCScopeCap
  Hashes = {h1}
  NoRecord = NoRecord
  Observations = {o1}
  RequestCap = 3
  Ids = {i1, i2, i3}
  Records = {u1, u2}
  Amounts = {1, 2}
  Billed = {}
  Overrides = {3, 9}
  PhaseCap = 5
  ProjectCap = 6
  OpeningBalance = 2
  Dual = FALSE
  CashCap = 0
  SafetyBuffer = 0
  OpeningBilled = 0
  MaxCheckpoints = 0
SYMMETRY Interchangeable
CHECK_DEADLOCK FALSE
INVARIANTS
  LedgerTypeOK
  CapsRespected
PROPERTIES
  SettlementsRelease
  SettledIsFinal
  ScopeIsAccount
