--------------------------- MODULE LedgerAccount ----------------------------
(***************************************************************************)
(* The ledger implements a spending limit for the phase, for every stage   *)
(* and for every run, each over its own selection of the one table.        *)
(***************************************************************************)
EXTENDS Ledger

CONSTANTS Scope, ScopeCap    \* one limit of the hierarchy

ASSUME ScopeAssumption ==
  \/ Scope = PhaseScope /\ ScopeCap = PhaseCap
  \/ \E s \in Stages : Scope = StageScope(s) /\ ScopeCap = StageCap[s]
  \/ \E r \in Runs : Scope = ChildScope(r) /\ ScopeCap = ChildCap[r]

(* The active part of a scope's exposure, and the settled part. *)
HeldColumn(scope) ==
  [k \in Rowids |-> IF /\ <<reservation[k].run_id, reservation[k].stage>> \in scope
                       /\ reservation[k].state = "active"
                    THEN reservation[k].reserved ELSE 0]
SpentColumn(scope) ==
  [k \in Rowids |-> IF <<reservation[k].run_id, reservation[k].stage>> \in scope
                    THEN reservation[k].actual + reservation[k].uncertain ELSE 0]

ScopeAccount ==
  INSTANCE SpendAccount WITH Cap <- ScopeCap, held <- Total(HeldColumn(Scope)),
                             spent <- Total(SpentColumn(Scope))

(* Every limit of the hierarchy is implemented by reserve, reconcile and     *)
(* mark_uncertain: however other runs' transactions on the same table are    *)
(* interleaved, the selected rows behave as one account with its own cap, in *)
(* which a recorded charge is never taken back.                              *)
ScopeIsAccount == ScopeAccount!AccountSpec
=============================================================================
