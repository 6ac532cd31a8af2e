--------------------------- MODULE Phase4Benchmark ---------------------------
(***************************************************************************)
(* run_phase4_experiment (evaluation/phase4_experiment.py): every task and *)
(* search seed is run under the conditions A, B and C, in an order that    *)
(* rotates from pair to pair; when all children have results the rows are  *)
(* analysed, and analysis, summary and report are written into directories *)
(* that must not exist.  A child is what Phase4Run models, here with the   *)
(* states that the benchmark meets.                                        *)
(***************************************************************************)
EXTENDS Statistics, Artifacts

CONSTANTS
  Rotation,       \* _condition_order's offset for each task and seed, from a hash
  OracleCap,
  Outcomes,       \* <<status, calls_to_first_exact or 0>> that a child may end with
  Versions,       \* of the registry and of the base configuration
  Registry,       \* the parsed registry of each version
  Base,           \* what the loader reads of the base configuration and its price policy
  TaskCount, SeedCount,   \* of each registry status; the pilot has 10 and 2
  MaxCrashes, MaxEdits, MaxInterrupts

VARIABLES
  files, dirs,    \* output_root and report_root: files by path, directories that exist
  child,          \* the run directory of each child
  registry, config,   \* their present versions
  proc,           \* place, position, the versions it read, what it returns
  crashes, edits, interrupts

disk == <<files, dirs>>
vars == <<files, dirs, child, registry, config, proc, crashes, edits, interrupts>>

-----------------------------------------------------------------------------
(* load_phase4_experiment_registry; r is a parsed registry. *)

ConditionList == <<"A", "B", "C">>

AcceptedConditions(r) ==
  /\ r.status \in {"fake-lifecycle", "development-pilot"}
  /\ r.conditions = ConditionList

(* Exactly the pilot names the canary that has to precede it.                 *)
AcceptedCanary(r) == (r.canary # "none") <=> (r.status = "development-pilot")

AcceptedTasks(r) ==
  /\ r.split = IF r.status = "fake-lifecycle" THEN "training" ELSE "development"
  /\ Len(r.tasks) = TaskCount[r.status] /\ IsInjective(r.tasks)

AcceptedSeeds(r) == Len(r.seeds) = SeedCount[r.status] /\ IsInjective(r.seeds)

(* Model, settings and budgets are repeated in the registry.                  *)
AcceptedContract(r) == r.contract = Base.contract

AcceptedAnalysis(r) ==
  /\ r.hypotheses = [H1 |-> <<"B", "A">>, H2 |-> <<"C", "B">>, secondary |-> <<"C", "A">>]
  /\ r.replicates >= Replicates

AcceptedSpending(r) ==
  /\ r.stage = IF r.status = "fake-lifecycle" THEN "fake" ELSE "pilot"
  /\ r.childCap = Base.childCap
  /\ r.aggregateCap = Base.stageCap[r.stage]

Accepted(r) == /\ AcceptedConditions(r) /\ AcceptedCanary(r) /\ AcceptedTasks(r)
               /\ AcceptedSeeds(r) /\ AcceptedContract(r) /\ AcceptedAnalysis(r)
               /\ AcceptedSpending(r)

-----------------------------------------------------------------------------

(* _condition_order *)
ConditionOrder(task, seed) ==
  LET offset == Rotation[<<task, seed>>] % 3
  IN  SubSeq(ConditionList, offset + 1, 3) \o SubSeq(ConditionList, 1, offset)

(* The loops over tasks, seeds and conditions: execution_order.               *)
Children ==
  FlattenSeq([k \in 1..Len(Tasks) * Len(Seeds) |->
    LET task == Tasks[1 + ((k - 1) \div Len(Seeds))]
        seed == Seeds[1 + ((k - 1) % Len(Seeds))]
    IN  [j \in 1..3 |-> <<task, seed, ConditionOrder(task, seed)[j]>>]])

NoChild == [state |-> "absent"]
HasResults(c) == child[c].state \in {"results", "ended"}
TerminalStatuses == {"completed", "cost-cap-exhausted", "usage-uncertain", "failed"}

(* exact_auc_numerator of the child's results. *)
Auc(c) == IF child[c].first = 0 THEN 0 ELSE OracleCap - child[c].first + 1

-----------------------------------------------------------------------------
(* What is published. *)

ManifestPath == <<"output", "experiment-manifest">>
SummaryPath == <<"output", "summary">>
ArtifactPath == <<"report", "phase4-artifact">>

Rows == [c \in DOMAIN child |-> [auc |-> Auc(c), config |-> proc.config,
                                 status |-> child[c].status]]
(* The point estimates of the analysis; Statistics has the rest.              *)
Analysis == [name \in {"H1", "H2", "secondary"} |->
               Point(Contrast([c \in DOMAIN child |-> Auc(c)], name))]
Declared == [registry |-> proc.registry, config |-> proc.config, order |-> Children]

(* A manifest has the hashes of the files that were just written.             *)
Read(directory, name) == files[<<directory, name>>].content
AnalysisNames == <<"raw-rows", "paired-analysis">>
Summary == [registry |-> proc.registry, analysis |-> Read("analysis", "paired-analysis"),
            manifest |-> Read("analysis", "manifest")]

(* _write_presentable_artifact: the rows in memory with the children's own    *)
(* files, whose hashes are checked against their manifests.                   *)
Presentable == [rows |-> Rows, analysis |-> Read("analysis", "paired-analysis"),
                children |-> [c \in DOMAIN child |-> child[c]]]

Content(path) ==
  CASE path = ManifestPath -> Declared
    [] path = SummaryPath -> Summary
    [] path = ArtifactPath -> Presentable
    [] path = <<"analysis", "raw-rows">> -> Rows
    [] path = <<"analysis", "paired-analysis">> -> Analysis
    [] path = <<"analysis", "manifest">> ->
         [k \in DOMAIN AnalysisNames |-> Read("analysis", AnalysisNames[k])]
    [] path = <<"report", "manifest">> -> Read("report", "phase4-artifact")

(* Mutant: the report is written first, from the same rows. *)
PublicationReportFirst ==
  <<<<"mkdir", "output">>, ManifestPath, <<"mkdir", "analysis">>,
    <<"analysis", "raw-rows">>, <<"analysis", "paired-analysis">>,
    <<"mkdir", "report">>, ArtifactPath, <<"report", "manifest">>,
    <<"analysis", "manifest">>, SummaryPath>>

(* In this order; a directory is made and must not be there.                  *)
Publication ==
  <<<<"mkdir", "output">>, ManifestPath, <<"mkdir", "analysis">>,
    <<"analysis", "raw-rows">>, <<"analysis", "paired-analysis">>, <<"analysis", "manifest">>,
    SummaryPath, <<"mkdir", "report">>, ArtifactPath, <<"report", "manifest">>>>

Paths == {path \in ToSet(Publication) : path[1] # "mkdir"}

-----------------------------------------------------------------------------
Idle == [pc |-> "idle", at |-> 1, registry |-> 0, config |-> 0, purpose |-> "none"]

Init ==
  /\ files = [path \in Paths |-> Absent] /\ dirs = {}
  /\ child = [c \in ToSet(Children) |-> NoChild]
  /\ registry = 1 /\ config = Min(Versions)
  /\ proc = Idle
  /\ crashes = 0 /\ edits = 0 /\ interrupts = 0

At(pc) == proc.pc = pc
Goto(pc) == proc' = [proc EXCEPT !.pc = pc, !.at = 1]
Raise == proc' = Idle
UnchangedWorld == UNCHANGED <<registry, config, crashes, edits>>

Loaded == [Idle EXCEPT !.registry = registry, !.config = config]

(* A summary is returned if it is of this registry; an unreadable or foreign  *)
(* one is an error, like a registry that is not accepted.                     *)
Begin ==
  /\ At("idle") /\ Accepted(Registry[registry])
  /\ CASE files[SummaryPath] = Absent -> proc' = [Loaded EXCEPT !.pc = "children"]
       [] /\ IsWhole(files[SummaryPath])
          /\ files[ManifestPath].content.registry = registry ->
            proc' = [Loaded EXCEPT !.pc = "returned"]
       [] OTHER -> Raise
  /\ UNCHANGED <<disk, child, interrupts>> /\ UnchangedWorld

Current == Children[proc.at]
AfterChild == IF proc.at < Len(Children)
                THEN proc' = [proc EXCEPT !.pc = "children", !.at = @ + 1]
                ELSE Goto("publish")

(* start_phase4_run: the directory, then manifest and database.               *)
StartChild ==
  /\ At("children") /\ child[Current] = NoChild
  /\ child' = [child EXCEPT ![Current] = [state |-> "bare"]]
  /\ proc' = [proc EXCEPT !.pc = "create", !.purpose = "run"]
  /\ UNCHANGED <<disk, interrupts>> /\ UnchangedWorld

CreateChild ==
  /\ At("create")
  /\ child' = [child EXCEPT ![Current] = [state |-> "open", config |-> proc.config]]
  /\ proc' = [proc EXCEPT !.pc = "run"]
  /\ UNCHANGED <<disk, interrupts>> /\ UnchangedWorld

(* An existing child has to have this configuration.  Results are taken as    *)
(* they are, whatever the status of the run; without them it is resumed.  A   *)
(* file that is torn can be neither read nor written again.                   *)
ReuseChild ==
  /\ At("children") /\ child[Current] # NoChild
  /\ CASE child[Current].state = "bare" -> Raise
       [] child[Current].state # "bare" /\ child[Current].config # proc.config -> Raise
       [] child[Current].state = "torn" /\ child[Current].config = proc.config -> Raise
       [] HasResults(Current) /\ child[Current].config = proc.config -> AfterChild
       [] OTHER -> proc' = [proc EXCEPT !.pc = "run", !.purpose = "resume"]
  /\ UNCHANGED <<disk, child, interrupts>> /\ UnchangedWorld

(* The engine up to the access ledger; or it is interrupted, which is not a   *)
(* terminal status.                                                           *)
RunChild ==
  /\ At("run") /\ child[Current].state = "open"
  /\ \/ /\ \E <<status, first>> \in Outcomes :
             /\ status \in TerminalStatuses
             /\ child' = [child EXCEPT ![Current] =
                  [state |-> "analysed", config |-> @.config, purpose |-> proc.purpose,
                   status |-> status, first |-> first]]
        /\ proc' = [proc EXCEPT !.pc = "results"]
        /\ UNCHANGED interrupts
     \/ /\ interrupts < MaxInterrupts
        /\ interrupts' = interrupts + 1
        /\ Raise
        /\ UNCHANGED child
  /\ UNCHANGED disk /\ UnchangedWorld

(* The access ledger of another process names another purpose.                *)
RunAnalysedChild ==
  /\ At("run") /\ child[Current].state = "analysed"
  /\ IF child[Current].purpose = proc.purpose THEN proc' = [proc EXCEPT !.pc = "results"] ELSE Raise
  /\ UNCHANGED <<disk, child, interrupts>> /\ UnchangedWorld

WriteResults ==
  /\ At("results")
  /\ child' = [child EXCEPT ![Current].state = "results"]
  /\ proc' = [proc EXCEPT !.pc = "status"]
  /\ UNCHANGED <<disk, interrupts>> /\ UnchangedWorld

EndChild ==
  /\ At("status")
  /\ child' = [child EXCEPT ![Current].state = "ended"]
  /\ AfterChild
  /\ UNCHANGED <<disk, interrupts>> /\ UnchangedWorld

AfterPublication == IF proc.at < Len(Publication) THEN proc' = [proc EXCEPT !.at = @ + 1]
                                                  ELSE Goto("returned")

(* mkdir(exist_ok=False) *)
MakeDirectory ==
  /\ At("publish") /\ Publication[proc.at][1] = "mkdir"
  /\ LET name == Publication[proc.at][2] IN
     IF name \in dirs THEN Raise /\ UNCHANGED dirs
                      ELSE AfterPublication /\ dirs' = dirs \cup {name}
  /\ UNCHANGED <<files, child, interrupts>> /\ UnchangedWorld

WriteFile ==
  /\ At("publish") /\ Publication[proc.at][1] # "mkdir"
  /\ LET path == Publication[proc.at]
         content == Content(path)
     IN  /\ files' = [files EXCEPT ![path] = IF @ = Absent THEN Whole(content) ELSE @]
         /\ IF Holds(files'[path], content) THEN AfterPublication ELSE Raise
  /\ UNCHANGED <<dirs, child, interrupts>> /\ UnchangedWorld

Step == \/ StartChild \/ CreateChild \/ ReuseChild \/ RunChild \/ RunAnalysedChild
        \/ WriteResults \/ EndChild \/ MakeDirectory \/ WriteFile

(* The process dies, in the middle of a file or not: one of its own, or one   *)
(* of the child that runs, its results included.                              *)
Crash ==
  /\ ~At("idle") /\ ~At("returned") /\ crashes < MaxCrashes
  /\ crashes' = crashes + 1
  /\ Raise
  /\ \/ UNCHANGED <<files, child>>
     \/ /\ At("publish")
        /\ \E path \in Paths \cap {Publication[proc.at]} :
             files[path] = Absent /\ files' = [files EXCEPT ![path] = Torn]
        /\ UNCHANGED child
     \/ /\ At("run") \/ At("results")
        /\ child' = [child EXCEPT ![Current] = [state |-> "torn", config |-> @.config]]
        /\ UNCHANGED files
  /\ UNCHANGED <<dirs, registry, config, edits, interrupts>>

(* Somebody edits the registry or the base configuration between two calls,   *)
(* or calls again.                                                            *)
Edit ==
  /\ edits < MaxEdits /\ (At("idle") \/ At("returned"))
  /\ edits' = edits + 1
  /\ \/ registry' \in Versions \ {registry} /\ UNCHANGED config
     \/ config' \in Versions \ {config} /\ UNCHANGED registry
  /\ Raise
  /\ UNCHANGED <<disk, child, crashes, interrupts>>

Next == Begin \/ Step \/ Crash \/ Edit
Spec == Init /\ [][Next]_vars

(* Who calls it lets it run, and calls it again if it fails.                  *)
LiveSpec == Spec /\ WF_vars(Begin) /\ WF_vars(Step)

-----------------------------------------------------------------------------
BenchmarkTypeOK ==
  /\ dirs \subseteq {"output", "analysis", "report"}
  /\ \A path \in Paths :
       files[path] # Absent => (IF path[1] = "output" THEN "output" ELSE path[1]) \in dirs
  /\ \A c \in DOMAIN child :
       /\ child[c].state \in {"absent", "bare", "open", "torn", "analysed", "results", "ended"}
       /\ HasResults(c) => child[c].status \in TerminalStatuses
  /\ proc.at \in 1..Larger(Len(Children), Len(Publication))

(* The rows of one analysis come from children of one configuration, the one  *)
(* in the experiment's manifest, through restarts and edits.                  *)
RowsShareConfiguration ==
  IsWhole(files[<<"analysis", "raw-rows">>]) =>
    \A c \in DOMAIN child :
      /\ HasResults(c)
      /\ child[c].config = files[ManifestPath].content.config
      /\ files[<<"analysis", "raw-rows">>].content[c].auc = Auc(c)

(* Each condition of a pair is run once and the order of the runs on disk is  *)
(* that of the manifest: a child is begun only when those before it are done. *)
ChildrenRunInOrder ==
  \A k \in 2..Len(Children) :
    child[Children[k]] # NoChild => child[Children[k - 1]].state \notin {"absent", "bare", "open", "torn"}

(* The summary is written over a complete analysis and before any report, and *)
(* a report presents the analysis that the summary seals.                     *)
SummarySealsAnalysis ==
  /\ IsWhole(files[SummaryPath]) =>
       /\ \A name \in ToSet(AnalysisNames) : IsWhole(files[<<"analysis", name>>])
       /\ files[SummaryPath].content.manifest = Read("analysis", "manifest")
  /\ IsWhole(files[ArtifactPath]) =>
       /\ IsWhole(files[SummaryPath])
       /\ files[ArtifactPath].content.analysis = files[SummaryPath].content.analysis

(* Who asks for a registry gets the summary of that registry, also after it   *)
(* was edited under a finished experiment.                                    *)
AnswersItsRegistry ==
  At("returned") => /\ IsWhole(files[SummaryPath])
                    /\ files[SummaryPath].content.registry = proc.registry

(* What the run engine of a child cannot get over: see Phase4Run.             *)
ChildBlocked ==
  \E c \in DOMAIN child : \/ child[c].state \in {"bare", "torn"}
                          \/ child[c].state = "analysed" /\ child[c].purpose = "run"

(* The directory is there and the summary is not: mkdir fails from now on.    *)
Wedged == "output" \in dirs /\ ~IsWhole(files[SummaryPath])

(* The call is repeated until it returns, unless a child or the output        *)
(* directory is in its way.                                                   *)
BenchmarkFinishes == <>[](At("returned") \/ ChildBlocked \/ Wedged)
=============================================================================
