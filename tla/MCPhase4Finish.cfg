SPECIFICATION Spec
CONSTANTS
  Runs = {r1}
  Stages = {pilot}
  Ids <- MCIds
  Hashes <- MCHashes
  Records <- MCRecords
  Observations = {}
  Amounts = {2}
  Billed = {}
  Overrides = {8}
  RequestCap = 2
  PhaseLimit = 8
  PhaseCap = 8
  ProjectCap = 8
  OpeningBalance = 0
  StageCap <- MCStageCap
  ChildLimit = 5
  ChildCap <- MCChildCap
  Dual = FALSE
  CashCap = 0
  SafetyBuffer = 0
  OpeningBilled = 0
  NoRecord = NoRecord
  RunStage <- MCRunStage
  RequestHash <- MCRequestHash
  InitialCandidates = 1
  BatchSize = 2
  ModelRequestCap = 4
  ItemCap = 3
  OracleCap = 4
  TokenCap = 3
  MaxRetries = 1
  RetryableCategories = {"malformed", "rate-limit"}
  TokenBound = 1
  Usages = {0, 1}
  CostOf <- MCCostOf
  MaxCost = 2
  MaxCrashes = 1
  Nothing = Nothing
CHECK_DEADLOCK FALSE
PROPERTY
  InterruptedRunsFinish
