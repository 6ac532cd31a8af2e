SPECIFICATION MCSpec
CONSTANTS
  r1 = r1
  canary = canary
  Runs = {r1}
  Stages = {canary}
  StageCap <- MCStageCap
  ChildCap <- MCChildCap
  Scope <- MCScope
  ScopeCap <- MCScopeCap
  Hashes = {h1}
  NoRecord = NoRecord
  Observations = {o1}
  RequestCap = 3
  Ids = {i1}
  Records = {u1}
  Amounts = {1, 2}
  Billed = {1, 3}
  Overrides = {9}
  PhaseCap = 5
  ProjectCap = 0
  OpeningBalance = 1
  Dual = TRUE
  CashCap = 6
  SafetyBuffer = 1
  OpeningBilled = 1
  MaxCheckpoints = 3
CHECK_DEADLOCK FALSE
INVARIANT
  LatestBillCounts
