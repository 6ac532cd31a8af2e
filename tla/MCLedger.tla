------------------------------ MODULE MCLedger ------------------------------
(***************************************************************************)
(* Small ledgers for TLC: two runs in two stages share the file, and every *)
(* cap is tight enough to be hit.                                          *)
(***************************************************************************)
EXTENDS LedgerAccount, TLC

CONSTANTS MaxCheckpoints, r1, canary

MCStageCap == [s \in Stages |-> IF s = canary THEN 3 ELSE 4]
MCChildCap == [r \in Runs |-> IF r = r1 THEN 3 ELSE 4]

(* The reservation table is bounded by Ids, the checkpoint table by this. *)
MCNext == LedgerNext /\ Len(cash_checkpoint') <= MaxCheckpoints
MCSpec == LedgerInit /\ [][MCNext]_ledgerVars

(* The limit whose account is looked at: that of the first run. *)
MCScope == ChildScope(r1)
MCScopeCap == MCChildCap[r1]

Interchangeable == Permutations(Ids) \cup Permutations(Records)
=============================================================================
