------------------------------- MODULE Ledger -------------------------------
(***************************************************************************)
(* ProjectLedger (model/ledger.py): the SQLite file in which every paid    *)
(* request of every run reserves its worst-case cost before it is sent and *)
(* settles it afterwards.  Many processes share the file; each method runs *)
(* in one BEGIN IMMEDIATE transaction, so one action is one transaction    *)
(* and the interleaving of processes is the interleaving of actions.  A    *)
(* transaction that raises is rolled back: it is an action that is not     *)
(* enabled.                                                                *)
(*                                                                         *)
(* Money is nano-USD, a natural number.  reservation_id, request_hash, the *)
(* hash of a usage record and the observation fields of a cash checkpoint  *)
(* are opaque values compared only for equality.                           *)
(***************************************************************************)
EXTENDS RowSum, Sequences

CONSTANTS
  Ids,            \* reservation_id values
  Runs,           \* run_id values
  Stages,         \* stage values
  Hashes,         \* request_hash values
  Records,        \* record_hash values of usage and failure records
  Observations,   \* (observed_at, scope, source, verification) of a checkpoint
  Amounts,        \* worst-case costs a caller may reserve
  Billed,         \* cumulative billed amounts an operator may observe
  Overrides,      \* *_cap_override arguments; None is one that is >= the cap
  RequestCap, PhaseCap, ProjectCap, OpeningBalance,   \* PricePolicy
  StageCap,       \* PricePolicy.stage_cap
  ChildCap,       \* child_nano_usd_cap of each run's configuration
  Dual,           \* PricePolicy.uses_reconciled_cash_budget
  CashCap, SafetyBuffer, OpeningBilled,   \* CashBudgetPolicy
  NoRecord        \* a reservation without a usage record

ASSUME LedgerConstants ==
  /\ Amounts \subseteq Nat /\ Billed \subseteq Nat /\ Overrides \subseteq Nat
  /\ RequestCap \in Nat /\ PhaseCap \in Nat /\ ProjectCap \in Nat
  /\ OpeningBalance \in Nat
  /\ StageCap \in [Stages -> Nat] /\ ChildCap \in [Runs -> Nat]
  /\ Dual \in BOOLEAN
  /\ CashCap \in Nat /\ SafetyBuffer \in Nat /\ OpeningBilled \in Nat
  /\ NoRecord \notin Records

VARIABLES
  reservation,     \* table reservation with its usage_record, in rowid order
  cash_checkpoint, \* table cash_checkpoint, in checkpoint_sequence order
  observed         \* the bill passed to the last accepted append_cash_checkpoint

ledgerVars == <<reservation, cash_checkpoint, observed>>

ReservationRow ==
  [reservation_id : Ids, run_id : Runs, stage : Stages, request_hash : Hashes,
   reserved : Nat, state : {"active", "reconciled", "uncertain"},
   actual : Nat, uncertain : Nat, released : Nat,
   record : Records \cup {NoRecord}]

CheckpointRow ==
  [billed : Nat, covered : Nat, published : Nat,
   observation : Observations, decrease_authorized : BOOLEAN]

LedgerTypeOK ==
  /\ reservation \in Seq(ReservationRow)
  /\ cash_checkpoint \in Seq(CheckpointRow)
  /\ observed \in Nat

LedgerInit ==
  /\ reservation = <<>>
  /\ cash_checkpoint = <<>>
  /\ observed = OpeningBilled

-----------------------------------------------------------------------------
(* The SUM(...) expressions. *)

Rowids == 1..Len(reservation)

(* actual + uncertain + CASE WHEN state='active' THEN reserved ELSE 0 END *)
Exposure(row) ==
  row.actual + row.uncertain + (IF row.state = "active" THEN row.reserved ELSE 0)

Total(column) == RunningSum(column)[Len(reservation)]

(* WHERE clauses: a scope is the set of <<run_id, stage>> whose rows count. *)
PhaseScope == Runs \X Stages
StageScope(s) == Runs \X {s}
ChildScope(r) == {r} \X Stages

ExposureColumn(scope) ==
  [k \in Rowids |-> IF <<reservation[k].run_id, reservation[k].stage>> \in scope
                   THEN Exposure(reservation[k]) ELSE 0]

Committed(scope) == Total(ExposureColumn(scope))
ProjectCommitted == OpeningBalance + Committed(PhaseScope)

(* Published cost of the reconciled reservations with rowid <= covered. *)
ActualColumn ==
  [k \in Rowids |-> IF reservation[k].state = "reconciled" THEN reservation[k].actual ELSE 0]
CoveredPublished(covered) == OpeningBalance + RunningSum(ActualColumn)[covered]

(* _opening_checkpoint and _latest_checkpoint: its covered sequence and amount. *)
LatestCovered ==
  IF cash_checkpoint = <<>> THEN 0 ELSE cash_checkpoint[Len(cash_checkpoint)].covered
LatestBilled ==
  IF cash_checkpoint = <<>> THEN OpeningBilled ELSE cash_checkpoint[Len(cash_checkpoint)].billed

(* Mutant: the covered row is counted again. *)
UncoveredColumnInclusive ==
  [k \in Rowids |->
     IF k >= LatestCovered
     THEN CASE reservation[k].state = "reconciled" -> reservation[k].actual
            [] reservation[k].state = "uncertain"  -> reservation[k].uncertain
            [] reservation[k].state = "active"     -> reservation[k].reserved
     ELSE 0]

(* _cash_balance_locked: unreconciled actual, uncertain and active sums over *)
(* the rows after the latest checkpoint's coverage.                          *)
UncoveredColumn ==
  [k \in Rowids |->
     IF k > LatestCovered
     THEN CASE reservation[k].state = "reconciled" -> reservation[k].actual
            [] reservation[k].state = "uncertain"  -> reservation[k].uncertain
            [] reservation[k].state = "active"     -> reservation[k].reserved
     ELSE 0]

CashUpperBound == LatestBilled + Total(UncoveredColumn) + SafetyBuffer

(* Mutant: the last covered row is not looked at. *)
FinishedThroughExclusive(n) == \A k \in Rowids : k < n => reservation[k].state = "reconciled"

(* No reservation with rowid <= n is still active or uncertain. *)
FinishedThrough(n) == \A k \in Rowids : k <= n => reservation[k].state = "reconciled"

(* _reconcilable_through_sequence: the end of the reconciled prefix. *)
ReconcilableThrough ==
  CHOOSE n \in 0..Len(reservation) :
    /\ FinishedThrough(n)
    /\ n < Len(reservation) => reservation[n + 1].state # "reconciled"

-----------------------------------------------------------------------------
MinOf(a, b) == IF a <= b THEN a ELSE b

RowOf(id) == {k \in Rowids : reservation[k].reservation_id = id}

(* Arguments of reserve(). *)
Request == [reservation_id : Ids, run_id : Runs, stage : Stages,
            request_hash : Hashes, amount : Amounts]

SameIdentity(row, q) ==
  /\ row.run_id = q.run_id /\ row.stage = q.stage
  /\ row.request_hash = q.request_hash /\ row.reserved = q.amount

(* The latest checkpoint covers finished usage only, else reserve() raises. *)
CoverageValid == Dual => FinishedThrough(LatestCovered)

(* Mutant: the run's own cap is not checked. *)
FitsCapsNoChild(q, phaseOverride, stageOverride) ==
  /\ Committed(PhaseScope) + q.amount <= MinOf(PhaseCap, phaseOverride)
  /\ Committed(StageScope(q.stage)) + q.amount <= MinOf(StageCap[q.stage], stageOverride)
  /\ IF Dual THEN CashUpperBound + q.amount <= CashCap
             ELSE ProjectCommitted + q.amount <= ProjectCap

(* Mutant: the cash ceiling is compared before the new amount is added. *)
FitsCapsLateCash(q, phaseOverride, stageOverride) ==
  /\ Committed(PhaseScope) + q.amount <= MinOf(PhaseCap, phaseOverride)
  /\ Committed(StageScope(q.stage)) + q.amount <= MinOf(StageCap[q.stage], stageOverride)
  /\ Committed(ChildScope(q.run_id)) + q.amount <= ChildCap[q.run_id]
  /\ IF Dual THEN CashUpperBound <= CashCap
             ELSE ProjectCommitted + q.amount <= ProjectCap

(* Every cap of the hierarchy, with the row that is about to be inserted. *)
FitsCaps(q, phaseOverride, stageOverride) ==
  /\ Committed(PhaseScope) + q.amount <= MinOf(PhaseCap, phaseOverride)
  /\ Committed(StageScope(q.stage)) + q.amount <= MinOf(StageCap[q.stage], stageOverride)
  /\ Committed(ChildScope(q.run_id)) + q.amount <= ChildCap[q.run_id]
  /\ IF Dual THEN CashUpperBound + q.amount <= CashCap
             ELSE ProjectCommitted + q.amount <= ProjectCap

NewRow(q) ==
  [reservation_id |-> q.reservation_id, run_id |-> q.run_id, stage |-> q.stage,
   request_hash |-> q.request_hash, reserved |-> q.amount, state |-> "active",
   actual |-> 0, uncertain |-> 0, released |-> 0, record |-> NoRecord]

(* reserve(): the first call inserts, an identical later call changes nothing. *)
Reserve(q, phaseOverride, stageOverride) ==
  /\ q.amount <= RequestCap
  /\ \/ /\ RowOf(q.reservation_id) = {}
        /\ CoverageValid
        /\ FitsCaps(q, phaseOverride, stageOverride)
        /\ reservation' = Append(reservation, NewRow(q))
     \/ /\ \E k \in RowOf(q.reservation_id) : SameIdentity(reservation[k], q)
        /\ UNCHANGED reservation
  /\ UNCHANGED <<cash_checkpoint, observed>>

(* reserve() raises BudgetExhaustedError. *)
ReserveRefused(q, phaseOverride, stageOverride) ==
  \/ q.amount > RequestCap
  \/ /\ RowOf(q.reservation_id) = {}
     /\ CoverageValid
     /\ ~ FitsCaps(q, phaseOverride, stageOverride)

(* Mutant: a late answer also settles a reservation already marked uncertain. *)
ReconcileLate(id, actual, record) ==
  /\ \E k \in RowOf(id) :
       /\ reservation[k].state # "reconciled"
       /\ actual <= reservation[k].reserved
       /\ reservation' = [reservation EXCEPT ![k] =
            [@ EXCEPT !.state = "reconciled", !.actual = actual,
                      !.released = reservation[k].reserved - actual,
                      !.record = record]]
  /\ UNCHANGED <<cash_checkpoint, observed>>

(* Mutant: the charge is not compared with the reservation. *)
ReconcileUnbounded(id, actual, record) ==
  /\ \E k \in RowOf(id) :
       /\ reservation[k].state = "active"
       /\ reservation' = [reservation EXCEPT ![k] =
            [@ EXCEPT !.state = "reconciled", !.actual = actual,
                      !.released = reservation[k].reserved - actual,
                      !.record = record]]
  /\ UNCHANGED <<cash_checkpoint, observed>>

(* reconcile(): settle an active reservation at its actual cost; a repetition *)
(* is accepted only with the same cost and the same usage record.             *)
Reconcile(id, actual, record) ==
  /\ \E k \in RowOf(id) :
       \/ /\ reservation[k].state = "active"
          /\ actual <= reservation[k].reserved
          /\ reservation' = [reservation EXCEPT ![k] =
               [@ EXCEPT !.state = "reconciled", !.actual = actual,
                         !.released = reservation[k].reserved - actual,
                         !.record = record]]
       \/ /\ reservation[k].state = "reconciled"
          /\ reservation[k].actual = actual
          /\ reservation[k].record = record
          /\ UNCHANGED reservation
  /\ UNCHANGED <<cash_checkpoint, observed>>

(* mark_uncertain(): retain the whole reservation. *)
MarkUncertain(id, record) ==
  /\ \E k \in RowOf(id) :
       \/ /\ reservation[k].state = "active"
          /\ reservation' = [reservation EXCEPT ![k] =
               [@ EXCEPT !.state = "uncertain",
                         !.uncertain = reservation[k].reserved,
                         !.record = record]]
       \/ /\ reservation[k].state = "uncertain"
          /\ reservation[k].record = record
          /\ UNCHANGED reservation
  /\ UNCHANGED <<cash_checkpoint, observed>>

(* append_cash_checkpoint(): record an observed cumulative bill that covers  *)
(* the reservations up to target.  A record whose hash is already in the     *)
(* table is not inserted again.                                              *)
AppendCashCheckpoint(billed, target, observation, allow_decrease) ==
  LET record == [billed |-> billed, covered |-> target,
                 published |-> CoveredPublished(target),
                 observation |-> observation, decrease_authorized |-> allow_decrease]
      seen == \E c \in 1..Len(cash_checkpoint) : cash_checkpoint[c] = record
  IN  /\ Dual
      /\ LatestCovered <= target /\ target <= Len(reservation)
      /\ FinishedThrough(target)
      /\ billed >= LatestBilled \/ allow_decrease
      /\ cash_checkpoint' = IF seen THEN cash_checkpoint
                                    ELSE Append(cash_checkpoint, record)
      /\ observed' = billed
      /\ UNCHANGED reservation

(* covered_reservation_sequence=None: through all current finalized usage. *)
AppendCashCheckpointCurrent(billed, observation, allow_decrease) ==
  AppendCashCheckpoint(billed, ReconcilableThrough, observation, allow_decrease)

(* A charge above RequestCap exceeds every reservation and is refused. *)
LedgerNext ==
  \/ \E q \in Request, p, s \in Overrides : Reserve(q, p, s)
  \/ \E id \in Ids, a \in 0..RequestCap, rec \in Records : Reconcile(id, a, rec)
  \/ \E id \in Ids, rec \in Records : MarkUncertain(id, rec)
  \/ \E b \in Billed, t \in 0..Len(reservation), o \in Observations, d \in BOOLEAN :
       AppendCashCheckpoint(b, t, o, d)
  \/ \E b \in Billed, o \in Observations, d \in BOOLEAN :
       AppendCashCheckpointCurrent(b, o, d)

LedgerSpec == LedgerInit /\ [][LedgerNext]_ledgerVars

-----------------------------------------------------------------------------
(* Safety. *)

(* However reservations, settlements and retries of many runs interleave,   *)
(* the committed amount of the phase, of each stage and of each run stays    *)
(* within its cap, and so does the project's under the first policy: the     *)
(* checks of reserve() add up to a bound on the whole table.                 *)
CapsRespected ==
  /\ Committed(PhaseScope) <= PhaseCap
  /\ \A s \in Stages : Committed(StageScope(s)) <= StageCap[s]
  /\ \A r \in Runs : Committed(ChildScope(r)) <= ChildCap[r]
  /\ ~ Dual /\ reservation # <<>> => ProjectCommitted <= ProjectCap

(* A cash checkpoint never goes stale: the reservations it covers stay       *)
(* reconciled, and the published amount it recorded when it was appended is  *)
(* the one the table yields at every later time.  _cash_balance_locked       *)
(* raises, and no run can reserve any more, in a state where this fails.     *)
CheckpointsStayValid ==
  \A c \in 1..Len(cash_checkpoint) :
    /\ cash_checkpoint[c].covered <= Len(reservation)
    /\ FinishedThrough(cash_checkpoint[c].covered)
    /\ cash_checkpoint[c].published = CoveredPublished(cash_checkpoint[c].covered)

(* The published amount the latest checkpoint replaces by a bill. *)
LatestPublished ==
  IF cash_checkpoint = <<>> THEN OpeningBalance
                            ELSE cash_checkpoint[Len(cash_checkpoint)].published

(* The two halves of the cash bound meet: what the latest checkpoint covers  *)
(* and what _cash_balance_locked adds on top of it make up the committed     *)
(* amount of the project exactly, so that no reservation is counted twice    *)
(* and none is lost between a checkpoint and the rows after it.              *)
NothingFallsBetween == ProjectCommitted = LatestPublished + Total(UncoveredColumn)

(* A settlement only gives money back: without a new reservation no scope's  *)
(* committed amount grows.                                                   *)
SettlementsRelease ==
  [][Len(reservation') = Len(reservation) =>
       \A scope \in {PhaseScope} \cup {StageScope(s) : s \in Stages}
                     \cup {ChildScope(r) : r \in Runs} :
         Committed(scope)' <= Committed(scope)]_ledgerVars

(* A settled reservation is final: the usage record of a late or repeated    *)
(* answer never replaces what reconcile or mark_uncertain recorded, and no   *)
(* row is ever dropped or renumbered.                                        *)
SettledIsFinal ==
  [][/\ Len(reservation') >= Len(reservation)
     /\ \A k \in Rowids :
          reservation[k].state # "active" => reservation'[k] = reservation[k]]_ledgerVars

(* Only an observed bill can push the cash bound over the ceiling: no        *)
(* reservation and no settlement does.                                       *)
OnlyBillsBreachCeiling ==
  [][Dual /\ cash_checkpoint' = cash_checkpoint =>
       CashUpperBound' <= CashUpperBound \/ CashUpperBound' <= CashCap]_ledgerVars

(* The cash bound starts from the bill that was observed last: an accepted   *)
(* append_cash_checkpoint makes its observation the latest checkpoint.       *)
LatestBillCounts == LatestBilled = observed
=============================================================================
