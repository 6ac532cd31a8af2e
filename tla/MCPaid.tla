------------------------------- MODULE MCPaid -------------------------------
(***************************************************************************)
(* What pays and what watches the money beside the Phase 4 runs, on small  *)
(* instances: the Phase 5 experiments, the reader of a balance, the dry    *)
(* run and the rebuild of a lost ledger.  Each works on a ledger of its    *)
(* own, so that one behaviour is about one of them: scenario says which,   *)
(* and the variables of the others are Unused.                             *)
(***************************************************************************)
EXTENDS Integers, Sequences, FiniteSets, TLC, Phase5Cases

CONSTANTS p1, p2, i1, i2, i3, a, b, z,   \* processes, reservations, runs
          NoRecord, NoAnswer, Unused

VARIABLES scenario,
  reservation, cash_checkpoint, observed,   \* every scenario
  proc, crashes,                            \* Phase 5 and the rebuild
  files, tree, calls,                       \* Phase 5
  pc, seen, before,                  \* the reader
  canary, status,                           \* the dry run
  present, rows, responses, cache, marker, temporary, command, origin,
  charged, refusal                \* the rebuild

ledgerVars == <<reservation, cash_checkpoint, observed>>
processVars == <<proc, crashes>>
phase5Vars == <<files, tree, calls>>
readerVars == <<pc, seen, before>>
dryRunVars == <<canary, status>>
rebuildVars == <<present, rows, responses, cache, marker, temporary, command, origin,
                 charged, refusal>>
allVars == <<scenario, ledgerVars, processVars, phase5Vars, readerVars, dryRunVars, rebuildVars>>

-----------------------------------------------------------------------------
(* One process executes a canary and a pilot of two requests per child; two  *)
(* processes execute one canary.  A crash and an edit of the tree.           *)
Both == {"canary", "pilot"}
BothRequests == RequestsOf(Both, 2, 1)
Pilot == INSTANCE Phase5Live WITH
  Experiments <- Both, Plan <- PlanOf(Both, 2, 4), Requires <- RequiresOf(Both),
  Authority <- AuthorityOf(Both), Policy <- PolicyOf(2, 8),
  Runs <- ChildrenOf(Both), ChildCap <- [c \in ChildrenOf(Both) |-> 4],
  Ids <- BothRequests, Hashes <- BothRequests, Records <- RecordsOf(BothRequests),
  Stages <- Both, StageCap <- [s \in Both |-> 100],
  ConditionC <- "c", ConditionD <- "d", Answers <- AnswersOf,
  RequestMax <- 2, CostBound <- 2, InputBound <- 2, OutputBound <- 1,
  Observations <- {}, Amounts <- {2}, Billed <- {}, Overrides <- OverridesOf(PolicyOf(2, 8)),
  RequestCap <- 2, PhaseCap <- 100, ProjectCap <- 100, OpeningBalance <- 0,
  Dual <- TRUE, CashCap <- 100, SafetyBuffer <- 0, OpeningBilled <- 0,
  Procs <- {p1}, MaxCrashes <- 1, MaxEdits <- 1

CanaryRequests == RequestsOf({"canary"}, 1, 1)
Shared == INSTANCE Phase5Live WITH
  Experiments <- {"canary"}, Plan <- PlanOf({"canary"}, 1, 2),
  Requires <- RequiresOf({"canary"}), Authority <- AuthorityOf({"canary"}),
  Policy <- PolicyOf(1, 4),
  Runs <- ChildrenOf({"canary"}), ChildCap <- [c \in ChildrenOf({"canary"}) |-> 2],
  Ids <- CanaryRequests, Hashes <- CanaryRequests, Records <- RecordsOf(CanaryRequests),
  Stages <- Both, StageCap <- [s \in Both |-> 100],
  ConditionC <- "c", ConditionD <- "d", Answers <- AnswersOf,
  RequestMax <- 2, CostBound <- 2, InputBound <- 2, OutputBound <- 1,
  Observations <- {}, Amounts <- {2}, Billed <- {}, Overrides <- OverridesOf(PolicyOf(1, 4)),
  RequestCap <- 2, PhaseCap <- 100, ProjectCap <- 100, OpeningBalance <- 0,
  Dual <- TRUE, CashCap <- 100, SafetyBuffer <- 0, OpeningBilled <- 0,
  Procs <- {p1, p2}, MaxCrashes <- 1, MaxEdits <- 1

(* A balance is read beside a run with two reservations and an operator.     *)
Reader == INSTANCE LedgerReader WITH
  Ids <- {"i", "j"}, Runs <- {"r"}, Stages <- {"s"}, Hashes <- {"h"}, Records <- {"u"},
  Observations <- {"o"}, StageCap <- [s |-> 5], ChildCap <- [r |-> 5],
  Amounts <- {1, 2}, Billed <- {1, 3}, Overrides <- {9},
  RequestCap <- 3, PhaseCap <- 5, ProjectCap <- 0, OpeningBalance <- 1,
  Dual <- TRUE, CashCap <- 6, SafetyBuffer <- 1, OpeningBilled <- 1

(* A plan of two children that may spend two each: the stage and the cash    *)
(* ceiling just hold it; another run spends before it, in its stage or not.  *)
ChildOfCondition(task, seed, condition) == condition
Canaries ==
  {[readable |-> TRUE, exact |-> TRUE, status |-> "completed", live |-> live,
    completed |-> 1, valid |-> 1] : live \in BOOLEAN}
DryRun == INSTANCE Phase4Forecast WITH
  Ids <- {i1, i2, i3}, Runs <- {a, b, z}, Stages <- {"pilot", "other"}, Hashes <- {"h"},
  Records <- {"u"}, Observations <- {"o"},
  StageCap <- [s \in {"pilot", "other"} |-> 4], ChildCap <- [r \in {a, b, z} |-> 2],
  Amounts <- {1, 2}, Billed <- {1, 2}, Overrides <- {9},
  RequestCap <- 2, PhaseCap <- 9, ProjectCap <- 9, OpeningBalance <- 0,
  Dual <- TRUE, CashCap <- 6, SafetyBuffer <- 1, OpeningBilled <- 1,
  PlannedStage <- "pilot", PlanTasks <- {1}, PlanSeeds <- {1}, PlanConditions <- {a, b},
  ChildOf <- ChildOfCondition, ChildExposure <- 2, CanaryRecords <- Canaries,
  MinimumItems <- 1, MaxCheckpoints <- 2

(* Two runs of one request each; one process or command may die.             *)
TwoRuns == {"a", "b"}
RebuildRecords ==
  {<<"run", r, i, kind>> : r \in TwoRuns, i \in 1..2, kind \in {"response", "failed", "uncertain"}}
    \cup {<<"rebuilt", r, i, x>> : r \in TwoRuns, i \in 1..2, x \in BOOLEAN}
Rebuild == INSTANCE LedgerRebuild WITH
  Runs <- TwoRuns, Stages <- {"s"}, PathOrder <- <<"a", "b">>, RunStage <- [r \in TwoRuns |-> "s"],
  Hashes <- {"h1", "h2"}, RequestHash <- [a |-> <<"h1">>, b |-> <<"h2">>],
  Ids <- TwoRuns \X (1..2), Records <- RebuildRecords, Observations <- {"o"},
  StageCap <- [s |-> 5], ChildCap <- [r \in TwoRuns |-> 4],
  Amounts <- {2}, Billed <- {}, Overrides <- {9},
  RequestCap <- 2, PhaseCap <- 3, ProjectCap <- 5, OpeningBalance <- 0,
  Dual <- FALSE, CashCap <- 0, SafetyBuffer <- 0, OpeningBilled <- 0,
  Cost <- 2, Charges <- {1, 2}, MaxCrashes <- 1, Nothing <- NoAnswer

ASSUME Pilot!Phase5Constants /\ Shared!Phase5Constants /\ Rebuild!RebuildConstants

-----------------------------------------------------------------------------
NoProcess == proc = Unused /\ crashes = Unused
NoPhase5 == files = Unused /\ tree = Unused /\ calls = Unused
NoReader == pc = Unused /\ seen = Unused /\ before = Unused
NoDryRun == canary = Unused /\ status = Unused
NoRebuild ==
  /\ present = Unused /\ rows = Unused /\ responses = Unused /\ cache = Unused
  /\ marker = Unused /\ temporary = Unused /\ command = Unused /\ origin = Unused
  /\ charged = Unused /\ refusal = Unused

Init ==
  \/ scenario = "pilot" /\ Pilot!Init /\ NoReader /\ NoDryRun /\ NoRebuild
  \/ scenario = "shared" /\ Shared!Init /\ NoReader /\ NoDryRun /\ NoRebuild
  \/ scenario = "reader" /\ Reader!Init /\ NoProcess /\ NoPhase5 /\ NoDryRun /\ NoRebuild
  \/ scenario = "dry run" /\ DryRun!Init /\ NoProcess /\ NoPhase5 /\ NoReader /\ NoRebuild
  \/ scenario = "rebuild" /\ Rebuild!Init /\ NoPhase5 /\ NoReader /\ NoDryRun

Next ==
  /\ \/ /\ scenario = "pilot" /\ Pilot!Next
        /\ UNCHANGED <<readerVars, dryRunVars, rebuildVars>>
     \/ /\ scenario = "shared" /\ Shared!Next
        /\ UNCHANGED <<readerVars, dryRunVars, rebuildVars>>
     \/ /\ scenario = "reader" /\ Reader!Next /\ Len(cash_checkpoint') <= 1
        /\ UNCHANGED <<processVars, phase5Vars, dryRunVars, rebuildVars>>
     \/ /\ scenario = "dry run" /\ DryRun!Next
        /\ UNCHANGED <<processVars, phase5Vars, readerVars, rebuildVars>>
     \/ /\ scenario = "rebuild" /\ Rebuild!Next
        /\ UNCHANGED <<phase5Vars, readerVars, dryRunVars>>
  /\ UNCHANGED scenario

Spec == Init /\ [][Next]_allVars

Interchangeable == Permutations({i1, i2, i3})

-----------------------------------------------------------------------------
(* Phase 5: "may already be paid; do not duplicate".  Whatever happens to    *)
(* one process after another, a request of a child reaches the provider      *)
(* once, and the ledger never knows less than the provider bills             *)
(* (_execute_request).                                                       *)
PaidOnceAndCovered == scenario = "pilot" => Pilot!PaidOnceAndCovered

(* Phase 5: a summary on disk is one that replay accepts, a child keeps to   *)
(* one source tree, also with two processes; what a summary reports is what  *)
(* the ledger has, and no pilot spends before its canary has passed.         *)
ExperimentsAreTrue ==
  /\ scenario = "pilot" => /\ Pilot!CompletedReplays
                           /\ Pilot!ChildHasOneTree
                           /\ Pilot!SummaryMatchesLedger
                           /\ Pilot!PilotFollowsCanary
  /\ scenario = "shared" => /\ Shared!Phase5TypeOK
                            /\ Shared!CompletedReplays
                            /\ Shared!ChildHasOneTree

(* A balance read query by query beside the runs is never refused, counts    *)
(* nothing twice, and misses nothing but reservations that ended while it    *)
(* was read (cash_balance, status).                                          *)
BalanceMissesOnlyEnded == scenario = "reader" => Reader!BalanceMissesOnlyEnded

(* The dry run reads the ledger as reserve() does, with queries of its own,  *)
(* and the children of a benchmark it calls ready are never refused by the   *)
(* cash ceiling, and by their stage only for what others have spent in it    *)
(* (phase4_dry_run).                                                         *)
ReadyMeansAffordable ==
  scenario = "dry run" => /\ DryRun!ForecastTypeOK
                          /\ DryRun!ForecastAgreesWithLedger
                          /\ DryRun!ReadyPlanIsNotRefused

(* A ledger that was rebuilt while there was none has all the provider has   *)
(* charged the runs, agrees with their finalized requests and holds the      *)
(* money of the others, wherever runs and rebuilds have died                 *)
(* (rebuild_project_ledger).                                                 *)
RebuildLosesNothing ==
  scenario = "rebuild" => /\ Rebuild!RebuildTypeOK
                          /\ Rebuild!RebuiltCoversSpend
                          /\ Rebuild!RebuiltAgreesWithRows
=============================================================================
