------------------------------ MODULE Statistics ------------------------------
(***************************************************************************)
(* The paired analyses of Phases 3 and 4 (evaluation/phase3_experiment.py, *)
(* evaluation/phase4_experiment.py) over rows of one number per task,      *)
(* search seed and condition.                                              *)
(*                                                                         *)
(* Every task has the same seeds, so that all means of one analysis are    *)
(* over the same number of pairs and sums take their place.  A difference is an integer; a p-value counts    *)
(* in units of 1 / (Replicates + 1).  The random generator is a table:     *)
(* Draws[g][r][j] is what generator g gives as the j-th choice of           *)
(* replicate r, among n if n is asked for.                                 *)
(***************************************************************************)
EXTENDS Integers, Sequences, FiniteSetsExt, SequencesExt

CONSTANTS
  Tasks, Seeds,        \* sequences, in sorted order
  Values,              \* normalized_exact_auc, scaled to integers
  Draws,
  Replicates

Conditions == {"A", "B", "C"}
Cells == ToSet(Tasks) \X ToSet(Seeds)
Draw(g, r, j, n) == (Draws[g][r][j] % n) + 1

-----------------------------------------------------------------------------
(* Differences of two conditions. *)

SumOver(n, term(_)) == FoldLeftDomain(LAMBDA sum, k : sum + term(k), 0, [k \in 1..n |-> k])
SumSeq(values) == FoldSeq(LAMBDA v, sum : v + sum, 0, values)

(* by_task: the differences of a task, over its seeds, for every task among   *)
(* the rows.                                                                  *)
Differences(indexed, left, right) ==
  LET Of(t, s) == indexed[<<t, s, left>>] - indexed[<<t, s, right>>]
      Among(t, s) == \E key \in DOMAIN indexed : key[1] = t /\ key[2] = s
      tasks == SelectSeq(Tasks, LAMBDA t : \E key \in DOMAIN indexed : key[1] = t)
      SeedsOf(t) == SelectSeq(Seeds, LAMBDA s : Among(t, s))
  IN  [k \in DOMAIN tasks |->
         [j \in DOMAIN SeedsOf(tasks[k]) |-> Of(tasks[k], SeedsOf(tasks[k])[j])]]

Point(byTask) == SumSeq(FlattenSeq(byTask))

(* _bootstrap_samples of Phase 4, _task_clustered_bootstrap_interval of       *)
(* Phase 3: as many tasks as there are, each with all its pairs.              *)
Clustered(byTask, g, r) ==
  SumOver(Len(byTask), LAMBDA j : SumSeq(byTask[Draw(g, r, j, Len(byTask))]))

(* _bootstrap_samples unclustered, _bootstrap_interval of Phase 3.            *)
Paired(byTask, g, r) ==
  LET pairs == FlattenSeq(byTask)
  IN  SumOver(Len(pairs), LAMBDA j : pairs[Draw(g, r, j, Len(pairs))])

Samples(sample(_)) == [r \in 1..Replicates |-> sample(r)]
Larger(a, b) == IF a > b THEN a ELSE b
Smaller(a, b) == IF a < b THEN a ELSE b
Sorted(values) == SortSeq(values, LAMBDA a, b : a < b)

(* _percentile of Phase 4: index int(q * n), no further than the last.        *)
Percentile(values, permille) ==
  Sorted(values)[1 + Smaller(Len(values) - 1, (permille * Len(values)) \div 1000)]

(* _bootstrap_interval *)
Interval(values) == <<Percentile(values, 25), Percentile(values, 975)>>

-----------------------------------------------------------------------------
(* Tests. *)

Size(x) == IF x < 0 THEN -x ELSE x

(* _clustered_two_sided_p_value: a replicate of the centered differences sums *)
(* to the replicate of the differences less their total.                      *)
PValue(byTask, g) ==
  LET total == Point(byTask)
  IN  1 + Cardinality({r \in 1..Replicates :
                         Size(Clustered(byTask, g, r) - total) >= Size(total)})

(* Mutant: both hypotheses are judged by the threshold of the first. *)
HolmOneThreshold(p) ==
  LET first == IF p["H2"] < p["H1"] THEN "H2" ELSE "H1"
      second == IF first = "H1" THEN "H2" ELSE "H1"
      units == Replicates + 1
      adjusted == Smaller(units, 2 * p[first])
      rejects(name) == 40 * p[name] <= units
  IN  [name \in {"H1", "H2"} |->
         IF name = first THEN [adjusted |-> adjusted, reject |-> rejects(first)]
         ELSE [adjusted |-> Larger(adjusted, Smaller(units, p[second])),
               reject |-> rejects(first) /\ rejects(second)]]

(* _holm_two_hypotheses at 0.05: half of it for the smaller p-value, all of   *)
(* it for the other one, and only if the first is rejected.                   *)
Holm(p) ==
  LET first == IF p["H2"] < p["H1"] THEN "H2" ELSE "H1"
      second == IF first = "H1" THEN "H2" ELSE "H1"
      units == Replicates + 1
      adjusted == Smaller(units, 2 * p[first])
      rejectFirst == 40 * p[first] <= units
  IN  [name \in {"H1", "H2"} |->
         IF name = first THEN [adjusted |-> adjusted, reject |-> rejectFirst]
         ELSE [adjusted |-> Larger(adjusted, Smaller(units, p[second])),
               reject |-> rejectFirst /\ 20 * p[second] <= units]]

-----------------------------------------------------------------------------
(* analyze_phase4_rows *)

(* "requires complete paired A/B/C rows".                                     *)
Complete(indexed, rows) ==
  Cardinality(DOMAIN indexed) = 3 * Cardinality({<<key[1], key[2]>> : key \in DOMAIN indexed})

Contrast(indexed, name) ==
  CASE name = "H1" -> Differences(indexed, "B", "A")
    [] name = "H2" -> Differences(indexed, "C", "B")
    [] name = "secondary" -> Differences(indexed, "C", "A")

(* One report for each of the two primary hypotheses. *)
Report(byTask, g, holm) ==
  [point |-> Point(byTask),
   interval |-> Interval(Samples(LAMBDA r : Clustered(byTask, g, r))),
   sensitivity |-> Interval(Samples(LAMBDA r : Paired(byTask, g, r))),
   adjusted |-> holm.adjusted, reject |-> holm.reject,
   superior |-> holm.reject /\ Point(byTask) > 0]

PairedAnalysis(indexed, g) ==
  LET holm == Holm([name \in {"H1", "H2"} |-> PValue(Contrast(indexed, name), g)])
  IN  [name \in {"H1", "H2"} |-> Report(Contrast(indexed, name), g, holm[name])]
=============================================================================
