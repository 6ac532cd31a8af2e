----------------------------- MODULE MCPhase4Run -----------------------------
(***************************************************************************)
(* Small Phase 4 runs for TLC.  Hashes number the logical calls and batch  *)
(* sizes, so that all runs build the same requests and meet in the cache;  *)
(* an empty batch, which is never requested, has one hash.                 *)
(***************************************************************************)
EXTENDS Phase4Run, TLC

CONSTANTS PhaseLimit, ChildLimit

MCStageCap == [s \in Stages |-> PhaseLimit]
MCChildCap == [r \in Runs |-> ChildLimit]
MCRunStage == [r \in Runs |-> CHOOSE s \in Stages : TRUE]
MCRequestHash ==
  [call \in Runs \X (0..ModelRequestCap) \X (0..BatchSize) |->
     IF call[3] = 0 THEN 0 ELSE call[2] * BatchSize + call[3]]
MCHashes == 0..((ModelRequestCap + 1) * BatchSize)
MCIds == Runs \X (1..ModelRequestCap) \X MCHashes
MCRecords == Runs \X (1..ModelRequestCap) \X Answers
MCCostOf == [usage \in Usages |-> 2 * usage]

(* For safety only. *)
RunsInterchangeable == Permutations(Runs)
=============================================================================
