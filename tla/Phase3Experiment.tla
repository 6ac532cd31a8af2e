-------------------------- MODULE Phase3Experiment --------------------------
(***************************************************************************)
(* The locked validation experiment of Phase 3                             *)
(* (evaluation/phase3_experiment.py).  A process freezes what it is about  *)
(* to do, runs or resumes one child for every task, search seed and        *)
(* condition, and publishes what the children found.  Every file is        *)
(* content-checked, so that a restart has to arrive at the same contents;  *)
(* there is no other record of how far an earlier process came.            *)
(*                                                                         *)
(* A child is what Phase3Run models, here with the states a reader of its  *)
(* directory can tell apart.  Files in several formats count once.         *)
(***************************************************************************)
EXTENDS Statistics, Artifacts

CONSTANTS
  Registry,            \* the parsed registry
  Public,              \* the public task files: <<task, split>> in the order of the hash policy
  MinTasks, MaxTasks, MinSeeds, MinCalls, MaxCalls,
                       \* 12, 24, 20, 32 and 64 in the code
  OracleCap,
  Trees,               \* versions of the working tree, lock and registry included
  Firsts,              \* calls_to_first_exact, a set of 0 (never) and calls
  MaxCrashes, MaxEdits

VARIABLES
  files,    \* output_root and report_root, by path
  child,    \* the run directory of each child
  tree,     \* the working tree
  proc,     \* the one process: place, position, frozen tree and code
  crashes, edits

vars == <<files, child, tree, proc, crashes, edits>>

-----------------------------------------------------------------------------
(* load_experiment_registry *)

AcceptedConditions == Registry.conditions = <<"incumbent", "diverse">>

AcceptedTasks == /\ Registry.split = "validation"
                 /\ MinTasks <= Len(Registry.tasks) /\ Len(Registry.tasks) <= MaxTasks
                 /\ IsInjective(Registry.tasks)

AcceptedSeeds == MinSeeds <= Len(Registry.seeds) /\ IsInjective(Registry.seeds)

AcceptedStopping == /\ Registry.continues
                    /\ MinCalls <= Registry.oracleCap /\ Registry.oracleCap <= MaxCalls
                    /\ Registry.proposalCap >= Registry.oracleCap

AcceptedEndpoint == Registry.tolerance = 0 /\ Registry.replicates >= Replicates

AcceptedAuthority == ~Registry.testAccess

(* _public_policy_ids: the first validation tasks in the policy's order.      *)
PolicyTasks(count) ==
  LET validation == SelectSeq(Public, LAMBDA entry : entry[2] = "validation")
  IN  [k \in 1..Smaller(count, Len(validation)) |-> validation[k][1]]

(* The registry is loaded and validated before anything is written.           *)
Validated == /\ AcceptedConditions /\ AcceptedTasks /\ AcceptedSeeds
             /\ AcceptedStopping /\ AcceptedEndpoint /\ AcceptedAuthority
             /\ PolicyTasks(Len(Registry.tasks)) = Registry.tasks

-----------------------------------------------------------------------------
(* Children. *)

Children == [k \in 1..Len(Tasks) * Len(Seeds) * 2 |->
               <<Tasks[1 + ((k - 1) \div (2 * Len(Seeds)))],
                 Seeds[1 + (((k - 1) \div 2) % Len(Seeds))],
                 Registry.conditions[1 + ((k - 1) % 2)]>>]

NoChild == [state |-> "absent"]
Completed(c) == child[c].state = "completed"
Reconciled(c) == child[c].oracle = OracleCap
Auc(c) == IF child[c].first = 0 THEN 0 ELSE OracleCap - child[c].first + 1

-----------------------------------------------------------------------------
(* What _analyze derives from the children. *)

FreezePath == <<"output", "validation-freeze">>
ManifestPath == <<"output", "experiment-manifest">>
SummaryPath == <<"output", "summary">>
Frozen == files[FreezePath].content

Results == [c \in DOMAIN child |-> [first |-> child[c].first, oracle |-> child[c].oracle]]

RawRows == [row |-> Results]

SolveCurve(condition) ==
  [call \in 1..OracleCap |->
     Cardinality({c \in DOMAIN child : /\ c[3] = condition
                                       /\ child[c].first \in 1..call})]
SolveCurves == [condition \in ToSet(Registry.conditions) |-> SolveCurve(condition)]

PairDifferences ==
  Differences([c \in DOMAIN child |-> Auc(c)], "diverse", "incumbent")

(* _bootstrap_interval and its clustered form, from the same generator.       *)
Interval3(values) ==
  LET sorted == Sorted(values)
  IN  <<sorted[1 + (25 * (Len(values) - 1)) \div 1000],
        sorted[1 + (975 * (Len(values) - 1)) \div 1000]>>
PairInterval(byTask) == Interval3(Samples(LAMBDA r : Paired(byTask, 1, r)))
TaskInterval(byTask) == Interval3(Samples(LAMBDA r : Clustered(byTask, 1, r)))

Aggregate ==
  LET byTask == PairDifferences
      pairs == PairInterval(byTask)
  IN
  [point |-> Point(byTask), pairs |-> pairs, tasks |-> TaskInterval(byTask),
   gate |-> IF Point(byTask) >= 0 THEN "pass" ELSE "negative-failed",
   superior |-> pairs[1] > 0,
   solved |-> [condition \in ToSet(Registry.conditions) |-> SolveCurve(condition)[OracleCap]]]

(* child_contracts: manifest, versions, authority and results of each child.  *)
Contracts == [c \in DOMAIN child |-> <<child[c].authority, Results[c]>>]
AccessLedger == [c \in DOMAIN child |-> child[c].purpose]
Showcased == <<Results[Children[1]], Results[Children[2]]>>

Failure == [disposition |-> IF Point(PairDifferences) < 0 THEN "frozen-negative-stop-no-tuning"
                                                          ELSE "no-worse-pass",
            unsolved |-> Cardinality({c \in DOMAIN child : child[c].first = 0})]

AnalysisNames == <<"raw-paired-rows", "paired-differences", "aggregate", "solve-curves",
                   "showcased-lineages", "access-ledger", "failure-analysis", "child-contracts">>
Derived(name) ==
  CASE name = "raw-paired-rows" -> RawRows
    [] name = "paired-differences" -> PairDifferences
    [] name = "aggregate" -> Aggregate
    [] name = "solve-curves" -> SolveCurves
    [] name = "showcased-lineages" -> Showcased
    [] name = "access-ledger" -> AccessLedger
    [] name = "failure-analysis" -> Failure
    [] name = "child-contracts" -> Contracts

(* A manifest has the hashes of what was just written or found identical.     *)
Read(directory, name) == files[<<directory, name>>].content
Hashes(directory, names) == [k \in DOMAIN names |-> Read(directory, names[k])]

AnalysisManifest(frozen) == [freeze |-> frozen, files |-> Hashes("analysis", AnalysisNames)]

Summary == [point |-> Read("analysis", "aggregate").point,
            gate |-> Read("analysis", "aggregate").gate,
            interval |-> Read("analysis", "aggregate").pairs,
            manifest |-> Read("analysis", "manifest")]

-----------------------------------------------------------------------------
(* write_experiment_evidence_supplement *)

ChildHashes == [c \in DOMAIN child |-> child[c]]
GateResults ==
  [result |-> Summary.gate, point |-> Summary.point,
   disposition |-> "frozen-negative-stop-no-tuning",
   budgetsEqual |-> \A c \in DOMAIN child : Reconciled(c)]
CurveDifferences ==
  [call \in 1..OracleCap |->
     Differences([c \in DOMAIN child |-> IF child[c].first \in 1..call THEN 1 ELSE 0],
                 "diverse", "incumbent")]
Uncertainty ==
  [call \in 1..OracleCap |->
     <<PairInterval(CurveDifferences[call]), TaskInterval(CurveDifferences[call])>>]

SupplementNames == <<"child-artifact-hashes", "gate-results", "curve-uncertainty">>
Evidence(name) ==
  CASE name = "child-artifact-hashes" -> ChildHashes
    [] name = "gate-results" -> GateResults
    [] name = "curve-uncertainty" -> Uncertainty
SupplementManifest == [primary |-> Read("analysis", "manifest"),
                       files |-> Hashes("supplement", SupplementNames)]

-----------------------------------------------------------------------------
(* The files in the order in which they are written. *)

In(directory, names) == [k \in DOMAIN names |-> <<directory, names[k]>>]
WithManifest(names) == Append(names, "manifest")

Publication ==
  In("analysis", WithManifest(AnalysisNames)) \o In("report", WithManifest(AnalysisNames))
    \o <<SummaryPath>>
    \o In("supplement", WithManifest(SupplementNames))
    \o In("report-supplement", WithManifest(SupplementNames))

Declaration == <<FreezePath, ManifestPath>>
Paths == ToSet(Declaration \o Publication)

(* A report file is the analysis file as it is read back.                     *)
Content(path, frozen) ==
  CASE path \in ToSet(Declaration) -> frozen
    [] path = SummaryPath -> Summary
    [] path[1] = "analysis" -> IF path[2] = "manifest" THEN AnalysisManifest(frozen)
                                                       ELSE Derived(path[2])
    [] path[1] = "report" -> Read("analysis", path[2])
    [] path[1] = "supplement" -> IF path[2] = "manifest" THEN SupplementManifest
                                                         ELSE Evidence(path[2])
    [] path[1] = "report-supplement" -> Read("supplement", path[2])

-----------------------------------------------------------------------------
Idle == [pc |-> "idle", at |-> 1, frozen |-> 0, purpose |-> "none"]

Init ==
  /\ files = [path \in Paths |-> Absent]
  /\ child = [c \in ToSet(Children) |-> NoChild]
  /\ tree = Min(Trees)
  /\ proc = Idle
  /\ crashes = 0 /\ edits = 0

At(pc) == proc.pc = pc
Goto(pc) == proc' = [proc EXCEPT !.pc = pc, !.at = 1]
Raise == proc' = Idle

(* run_experiment up to the freeze, which holds the hashes of the tree.       *)
Begin ==
  /\ At("idle") /\ Validated
  /\ proc' = [Idle EXCEPT !.pc = "declare", !.frozen = tree]
  /\ UNCHANGED <<files, child, tree, crashes, edits>>

(* write_content_artifact of the next file of a list.                         *)
WriteNext(list, next) ==
  LET path == list[proc.at]
      content == Content(path, proc.frozen)
  IN  /\ files' = [files EXCEPT ![path] = IF @ = Absent THEN Whole(content) ELSE @]
      /\ CASE ~Holds(files'[path], content) -> Raise
           [] proc.at = Len(list) -> Goto(next)
           [] OTHER -> proc' = [proc EXCEPT !.at = @ + 1]
      /\ UNCHANGED <<child, tree, crashes, edits>>

Declare == At("declare") /\ WriteNext(Declaration, "children")
Publish == At("publish") /\ WriteNext(Publication, "returned")

Current == Children[proc.at]
AfterChild == IF proc.at < Len(Children)
                THEN proc' = [proc EXCEPT !.pc = "children", !.at = @ + 1, !.purpose = "none"]
                ELSE Goto("publish")
UnchangedButChild == UNCHANGED <<files, tree, crashes, edits>>

(* start_phase3_run: the directory, then manifest and database.               *)
StartChild ==
  /\ At("children") /\ child[Current].state = "absent"
  /\ child' = [child EXCEPT ![Current] = [state |-> "bare"]]
  /\ proc' = [proc EXCEPT !.pc = "create", !.purpose = "validation-gate"]
  /\ UnchangedButChild

CreateChild ==
  /\ At("create")
  /\ child' = [child EXCEPT ![Current] = [state |-> "running", authority |-> proc.frozen,
                                          code |-> {proc.frozen}]]
  /\ proc' = [proc EXCEPT !.pc = "run"]
  /\ UnchangedButChild

(* An existing directory: its manifest and database have to be readable, and  *)
(* a child that is not completed is resumed under its own authority, which    *)
(* raises when one of its files is torn.                                      *)
ReuseChild ==
  /\ At("children") /\ child[Current].state # "absent"
  /\ CASE child[Current].state \in {"bare", "torn"} -> Raise
       [] Completed(Current) -> proc' = [proc EXCEPT !.pc = "reconcile"]
       [] OTHER -> proc' = [proc EXCEPT !.pc = "run", !.purpose = "validation-resume"]
  /\ UNCHANGED child /\ UnchangedButChild

(* The search of the child and the first of its analysis files; when the      *)
(* proposals run out before the oracle calls do the child completes short.    *)
RunChild ==
  /\ At("run")
  /\ LET c == child[Current] IN
     CASE c.state = "running" ->
            /\ \E first \in Firsts, oracle \in {OracleCap - 1, OracleCap} :
                 /\ first <= oracle
                 /\ child' = [child EXCEPT ![Current] =
                      [state |-> "analysed", authority |-> c.authority,
                       code |-> c.code \cup {proc.frozen}, first |-> first, oracle |-> oracle,
                       purpose |-> proc.purpose]]
            /\ proc' = [proc EXCEPT !.pc = "complete"]
       [] c.state = "analysed" ->
            /\ IF c.purpose = proc.purpose THEN proc' = [proc EXCEPT !.pc = "complete"] ELSE Raise
            /\ UNCHANGED child
  /\ UnchangedButChild

(* results.json, then the status. *)
CompleteChild ==
  /\ At("complete")
  /\ child' = [child EXCEPT ![Current].state = "completed"]
  /\ proc' = [proc EXCEPT !.pc = "reconcile"]
  /\ UnchangedButChild

(* Mutant: the counters of a child are not compared with the caps. *)
ReconcileAnyBudget ==
  /\ At("reconcile")
  /\ AfterChild
  /\ UNCHANGED child /\ UnchangedButChild

(* "child budget does not reconcile to the frozen caps".                      *)
ReconcileChild ==
  /\ At("reconcile")
  /\ IF Reconciled(Current) THEN AfterChild ELSE Raise
  /\ UNCHANGED child /\ UnchangedButChild

Step == \/ Declare \/ StartChild \/ CreateChild \/ ReuseChild \/ RunChild \/ CompleteChild
        \/ ReconcileChild \/ Publish

(* The process dies, in the middle of a file or not: one of its own, or one   *)
(* of the child that runs.                                                    *)
Writing == CASE At("declare") -> {Declaration[proc.at]}
             [] At("publish") -> {Publication[proc.at]}
             [] OTHER -> {}
Crash ==
  /\ ~At("idle") /\ ~At("returned") /\ crashes < MaxCrashes
  /\ crashes' = crashes + 1
  /\ Raise
  /\ \/ UNCHANGED <<files, child>>
     \/ /\ \E path \in Writing : /\ files[path] = Absent
                                 /\ files' = [files EXCEPT ![path] = Torn]
        /\ UNCHANGED child
     \/ /\ At("run") \/ At("complete")
        /\ child' = [child EXCEPT ![Current] =
             [state |-> "torn", authority |-> @.authority, code |-> @.code \cup {proc.frozen}]]
        /\ UNCHANGED files
  /\ UNCHANGED <<tree, edits>>

(* Somebody changes the source, or changes it back. *)
Edit ==
  /\ edits < MaxEdits
  /\ edits' = edits + 1
  /\ tree' \in Trees \ {tree}
  /\ UNCHANGED <<files, child, proc, crashes>>

Next == Begin \/ Step \/ Crash \/ Edit
Spec == Init /\ [][Next]_vars

(* Who starts a process lets it run and starts another one if it stops.       *)
LiveSpec == Spec /\ WF_vars(Begin) /\ WF_vars(Step)

-----------------------------------------------------------------------------
Phase3ExperimentTypeOK ==
  /\ \A path \in Paths : files[path].state \in {"absent", "torn", "whole"}
  /\ \A c \in DOMAIN child :
       /\ child[c].state \in {"absent", "bare", "running", "torn", "analysed", "completed"}
       /\ child[c].state \in {"analysed", "completed"} =>
            /\ child[c].first \in 0..child[c].oracle
            /\ child[c].purpose \in {"validation-gate", "validation-resume"}
  /\ proc.at \in 1..Larger(Len(Children), Len(Publication))
  /\ proc.frozen \in Trees \cup {0}
  /\ proc.pc \in {"children", "declare", "idle"} => proc.purpose = "none"

(* The freeze comes before any call of the validation oracle and describes    *)
(* the code of everything that any process did to any child, through crashes  *)
(* and edits of the tree (DD-020).                                            *)
FrozenBeforeOracle ==
  \A c \in DOMAIN child : child[c].state \notin {"absent", "bare"} =>
    /\ \A path \in ToSet(Declaration) : IsWhole(files[path])
    /\ child[c].authority = Frozen
    /\ child[c].code = {Frozen}

(* Nothing is published before every child of every pair has spent the whole  *)
(* oracle budget: no comparison is between unequal budgets.                   *)
PublishedUnderEqualBudgets ==
  (\E path \in ToSet(Publication) : files[path] # Absent) =>
    \A c \in DOMAIN child : Completed(c) /\ child[c].oracle = OracleCap

(* Every file on disk is what another process would write now, so that a      *)
(* restart never collides with what an earlier one published.                 *)
RestartsAgree ==
  \A path \in ToSet(Publication) :
    IsWhole(files[path]) => Holds(files[path], Content(path, Frozen))

(* The summary comes last of the primary evidence and first of the            *)
(* supplement: who reads it finds the analysis and an identical report, and   *)
(* who reads the supplement finds the summary it is about.                    *)
SummarySealsReport ==
  /\ IsWhole(files[SummaryPath]) =>
       \A name \in ToSet(WithManifest(AnalysisNames)) :
         /\ IsWhole(files[<<"report", name>>])
         /\ files[<<"report", name>>] = files[<<"analysis", name>>]
  /\ \A name \in ToSet(WithManifest(SupplementNames)) :
       files[<<"supplement", name>>] # Absent => IsWhole(files[SummaryPath])

(* A torn file, of the experiment or of a child, a child that never got a     *)
(* database, one that a dead process had analysed under the other purpose,    *)
(* one that ran out of proposals, or a tree that is not the frozen one:       *)
(* nothing in the program repairs these.                                      *)
Blocked ==
  \/ \E path \in Paths : files[path] = Torn
  \/ \E c \in DOMAIN child :
       \/ child[c].state \in {"bare", "torn"}
       \/ child[c].state = "analysed" /\ child[c].purpose = "validation-gate"
       \/ Completed(c) /\ ~Reconciled(c)
  \/ IsWhole(files[FreezePath]) /\ Frozen # tree

(* A started experiment, restarted whenever it dies, publishes everything,    *)
(* unless one of those blocks it.                                             *)
ExperimentFinishes == <>[](At("returned") \/ Blocked)
=============================================================================
