------------------------------- MODULE RowSum -------------------------------
(***************************************************************************)
(* COALESCE(SUM(expression), 0) over the rows of a table, the aggregate    *)
(* every cap of the ledger and every counter of a run is computed with.    *)
(* A table is a sequence in rowid order, so a column is a function v with  *)
(* domain 1..n.                                                            *)
(***************************************************************************)
EXTENDS Integers

(* The value the aggregate sees at rowid k: nothing when the row is absent. *)
ValueAt(v, k) == IF k \in DOMAIN v THEN v[k] ELSE 0

(* RunningSum(v)[k] is the aggregate over the rows with rowid <= k. *)
RunningSum(v) ==
  LET sum[k \in Nat] == IF k = 0 THEN 0 ELSE sum[k - 1] + ValueAt(v, k)
  IN  sum
=============================================================================
