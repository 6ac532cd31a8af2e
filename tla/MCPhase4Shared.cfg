SPECIFICATION Spec
CONSTANTS
  Runs = {r1, r2}
  Stages = {pilot}
  Ids <- MCIds
  Hashes <- MCHashes
  Records <- MCRecords
  Observations = {}
  Amounts = {4}
  Billed = {}
  Overrides = {9}
  RequestCap = 4
  PhaseLimit = 9
  PhaseCap = 9
  ProjectCap = 9
  OpeningBalance = 0
  StageCap <- MCStageCap
  ChildLimit = 6
  ChildCap <- MCChildCap
  Dual = FALSE
  CashCap = 0
  SafetyBuffer = 0
  OpeningBilled = 0
  NoRecord = NoRecord
  RunStage <- MCRunStage
  RequestHash <- MCRequestHash
  InitialCandidates = 0
  BatchSize = 1
  ModelRequestCap = 2
  ItemCap = 1
  OracleCap = 1
  TokenCap = 3
  MaxRetries = 1
  RetryableCategories = {"malformed"}
  TokenBound = 2
  Usages = {2}
  CostOf <- MCCostOf
  MaxCost = 4
  MaxCrashes = 1
  Nothing = Nothing
SYMMETRY RunsInterchangeable
CHECK_DEADLOCK FALSE
INVARIANTS
  SpendIsCommitted
  BudgetMatchesRows
  BudgetStaysValid
