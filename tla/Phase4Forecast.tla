---------------------------- MODULE Phase4Forecast ----------------------------
(***************************************************************************)
(* phase4_dry_run (evaluation/phase4_experiment.py): before the benchmark  *)
(* is paid for, its worst case is compared with the caps and with the      *)
(* project ledger.  The dry run opens the ledger read-only and has queries *)
(* of its own, next to those of ProjectLedger.                             *)
(***************************************************************************)
EXTENDS Ledger, FiniteSets

CONSTANTS
  PlannedStage,    \* base.phase4_policy.stage
  PlanTasks, PlanSeeds, PlanConditions,   \* the registry: the children are their product
  ChildOf(_, _, _),   \* _child_id
  ChildExposure,   \* phase4_budget.child_nano_usd_cap, that of every child
  CanaryRecords,   \* what may be found of the prerequisite canary
  MinimumItems,
  MaxCheckpoints   \* bound: checkpoints

VARIABLES
  canary,    \* manifest and results of the prerequisite canary
  status     \* what the dry run reported

vars == <<reservation, cash_checkpoint, observed, canary, status>>

-----------------------------------------------------------------------------
(* _ledger_balance *)

(* The three sums of rows with rowid > from. *)
ForecastExposure(from) ==
  Total([k \in Rowids |->
     IF k <= from THEN 0
     ELSE CASE reservation[k].state = "reconciled" -> reservation[k].actual
            [] reservation[k].state = "uncertain"  -> reservation[k].uncertain
            [] reservation[k].state = "active"     -> reservation[k].reserved])

(* The file is there: SUMs without a WHERE clause, and the cash checkpoint.   *)
ExistingBalance ==
  [committed |-> OpeningBalance + Total([k \in Rowids |-> Exposure(reservation[k])]),
   upper |-> LatestBilled + ForecastExposure(LatestCovered) + SafetyBuffer]

(* It is not. *)
MissingBalance == [committed |-> OpeningBalance, upper |-> OpeningBilled + SafetyBuffer]

(* "cash checkpoint covers unfinished or uncertain reservations".             *)
BalanceRaises == Dual /\ \E k \in Rowids : k <= LatestCovered /\ reservation[k].state # "reconciled"

-----------------------------------------------------------------------------
(* _canary_prerequisite_status: the exact canary, completed live. *)
CanaryPassed ==
  /\ canary.readable
  /\ canary.exact
  /\ canary.status = "completed" /\ canary.live
  /\ canary.completed >= 1
  /\ canary.valid >= MinimumItems

(* Mutant: the three conditions of a task and seed are counted once. *)
PlannedExposurePerPair == Cardinality(PlanTasks \X PlanSeeds) * ChildExposure

PlannedExposure == Cardinality(PlanTasks \X PlanSeeds \X PlanConditions) * ChildExposure

(* The forecast's blockers are absent. *)
Forecast(balance) ==
  /\ PlannedExposure <= StageCap[PlannedStage]
  /\ Dual => balance.upper + PlannedExposure <= CashCap
  /\ CanaryPassed

-----------------------------------------------------------------------------
PlannedRuns == {ChildOf(t, s, c) : t \in PlanTasks, s \in PlanSeeds, c \in PlanConditions}

Init == LedgerInit /\ canary \in CanaryRecords /\ status = "none"

(* Others spend before the dry run, in any stage, the benchmark's children    *)
(* and nobody else after it.  A bill that has grown by no more than what was  *)
(* charged may arrive at any time.                                            *)
Spend ==
  \/ \E q \in Request, o \in Overrides :
       /\ q.run_id \in PlannedRuns <=> status # "none"
       /\ q.run_id \in PlannedRuns => q.stage = PlannedStage
       /\ Reserve(q, o, o)
  \/ \E id \in Ids, a \in 0..RequestCap, rec \in Records : Reconcile(id, a, rec)
  \/ \E id \in Ids, rec \in Records : MarkUncertain(id, rec)
Bill ==
  \E b \in Billed, o \in Observations :
    /\ b - LatestBilled <= CoveredPublished(ReconcilableThrough) - CoveredPublished(LatestCovered)
    /\ AppendCashCheckpointCurrent(b, o, FALSE)
    /\ Len(cash_checkpoint') <= MaxCheckpoints

(* phase4_dry_run, by the file it finds. *)
DryRun ==
  /\ status = "none"
  /\ \/ /\ reservation = <<>> /\ cash_checkpoint = <<>>
        /\ status' = IF Forecast(MissingBalance) THEN "ready" ELSE "blocked"
     \/ /\ ~BalanceRaises
        /\ status' = IF Forecast(ExistingBalance) THEN "ready" ELSE "blocked"
  /\ UNCHANGED <<reservation, cash_checkpoint, observed, canary>>

Next == ((Spend \/ Bill) /\ UNCHANGED <<canary, status>>) \/ DryRun
Spec == Init /\ [][Next]_vars

-----------------------------------------------------------------------------
(* Types of what the ledger's own invariant does not cover; nothing is ready  *)
(* without a canary that passed.                                              *)
ForecastTypeOK == /\ canary \in CanaryRecords
                  /\ status \in {"none", "blocked", "ready"}
                  /\ status = "ready" => canary.live /\ canary.valid >= MinimumItems

(* The dry run's own queries never disagree with the ledger's: committed      *)
(* amount and cash bound are the ones by which reserve() decides, and it      *)
(* refuses to read a ledger exactly when reserve() would.                     *)
ForecastAgreesWithLedger ==
  /\ ExistingBalance.committed = ProjectCommitted
  /\ ExistingBalance.upper = CashUpperBound
  /\ BalanceRaises <=> ~CoverageValid
  /\ reservation = <<>> /\ cash_checkpoint = <<>> => MissingBalance = ExistingBalance

(* What runs other than the benchmark's own hold and have paid in its stage.  *)
StageSpentByOthers == Committed((Runs \ PlannedRuns) \X {PlannedStage})

(* Whatever the children of a ready benchmark have spent, each can still      *)
(* reserve up to its own cap, as far as the cash ceiling is concerned: the    *)
(* forecast has added what was spent before.  The stage cap is compared with  *)
(* the planned exposure alone, so that a child is refused by its stage, and   *)
(* then by no more than what other runs have spent in it: a canary in stage   *)
(* pilot, or a Phase 5 pilot, before the dry run (phase4_dry_run).            *)
ReadyPlanIsNotRefused ==
  status = "ready" =>
    \A q \in Request :
      /\ q.stage = PlannedStage /\ q.run_id \in PlannedRuns
      /\ Committed(ChildScope(q.run_id)) + q.amount <= ChildExposure
      => /\ Committed(StageScope(PlannedStage)) + q.amount
              <= StageCap[PlannedStage] + StageSpentByOthers
         /\ Dual => CashUpperBound + q.amount <= CashCap
=============================================================================
