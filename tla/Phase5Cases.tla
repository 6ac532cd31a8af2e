----------------------------- MODULE Phase5Cases -----------------------------
(***************************************************************************)
(* Small Phase 5 experiments for TLC: a canary of one request, and a pilot *)
(* of one task and seed under both conditions.                             *)
(***************************************************************************)
EXTENDS Integers, Sequences

Caps(stage, tasks, conditions, requests, inputCap) ==
  [stage |-> stage, tasks |-> tasks, seeds |-> <<1>>, conditions |-> conditions,
   requests |-> requests, itemCap |-> requests, oracleCap |-> requests,
   inputCap |-> inputCap, outputCap |-> requests, totalCap |-> inputCap + requests]

PlanOf(experiments, requests, inputCap) ==
  [e \in experiments |->
     IF e = "canary" THEN Caps("training-canary", <<"t">>, <<"d">>, 1, 2)
                     ELSE Caps("development-pilot", <<"u">>, <<"c", "d">>, requests, inputCap)]
RequiresOf(experiments) ==
  [e \in experiments |-> IF e = "pilot" THEN experiments \ {"pilot"} ELSE {}]
AuthorityOf(experiments) ==
  [e \in experiments |->
     [status |-> "authorized", evidence |-> TRUE,
      granted |-> {"model_calls", "oracle_access", "reviewed", "authorized"}]]
PolicyOf(requests, limit) ==
  [request |-> 2, child |-> 2 * requests, canary |-> limit, development |-> 2 * limit,
   sealed |-> 0, total |-> 3 * limit]
OverridesOf(policy) == {policy.canary, policy.development, policy.total}

ChildrenOf(experiments) ==
  {<<"canary", "t", 1, "d">>}
    \cup (IF "pilot" \in experiments THEN {<<"pilot", "u", 1, c>> : c \in {"c", "d"}} ELSE {})
RequestsOf(experiments, requests, edits) ==
  {<<c, i, v>> : c \in ChildrenOf(experiments), i \in 1..requests, v \in 0..edits}

(* A valid answer that costs less than the bound, and an invalid one.        *)
AnswersOf ==
  {[valid |-> TRUE, exact |-> TRUE, input |-> 1, output |-> 1, cost |-> 1, latency |-> 1],
   [valid |-> FALSE, exact |-> FALSE, input |-> 2, output |-> 1, cost |-> 2, latency |-> 1]}
RecordsOf(requests) == requests \cup (requests \X AnswersOf)
=============================================================================
