------------------------- MODULE ExperienceValidation -------------------------
(***************************************************************************)
(* The prospective validation of experience lessons: the shallow protocol  *)
(* (evaluation/phase5_experience_live.py) with its four stages, the deep   *)
(* one (phase5_experience_deep.py) that runs the children of a stage in    *)
(* parallel, and the confirmation of one lesson on the tasks of the deep   *)
(* second stage (phase5_experience_confirmatory.py); the decisions they    *)
(* take (memory/experience.py) and the snapshot they freeze.               *)
(*                                                                         *)
(* A child is a Phase 4 run of one task in one arm.  It keeps what the     *)
(* decisions read of it: its exact and local AUC and in how many requests  *)
(* each lesson of its snapshot was shown.  Solved is an exact AUC above 0. *)
(***************************************************************************)
EXTENDS Integers, Sequences, FiniteSets, FiniteSetsExt, SequencesExt

CONSTANTS
  Protocols,       \* those that are run, of "shallow", "deep" and "confirmatory"
  FrozenBefore,    \* those whose plan is there from the start
  Lessons,         \* the frozen lessons, each named by its archive family
  Candidate,       \* the lesson the confirmation is about
  SourcesOf,       \* of each lesson: its evidence, [task, role, family] records
  Catalog,         \* the evidence of the retrospective corpus
  Pool,            \* development tasks of the benchmark, in order of their ids
  SourceTasks,     \* those the corpus comes from
  StageSize,       \* tasks of a screening or bundle stage (8 in the code)
  DevelopmentSize, \* tasks of the development stage (6 in the code)
  MinTasks, MinExposures, MinPerLesson, MinSources,   \* thresholds (4, 8, 2 and 2)
  Ends,            \* how a child may end: "completed", or "stopped" by a cap
  Aucs, Locals, Exposures,   \* what a child may end with
  Parallel,        \* children at a time in the parallel protocols (4)
  MaxDeaths        \* bound: how often a process dies

VARIABLES
  child,      \* Children -> what is in the run directory
  planned,    \* protocols whose plan and task registry are frozen
  artifact,   \* <<protocol, stage>> -> <<>> or <<decision>>
  snapshot,   \* protocol -> <<>> or <<lessons>>, the frozen memory snapshot
  process,    \* the command that runs
  deaths

vars == <<child, planned, artifact, snapshot, process, deaths>>

ThresholdsAssumption ==
  /\ {MinTasks, MinExposures, MinPerLesson, MinSources} \subseteq Nat \ {0}
  /\ Candidate \in Lessons

-----------------------------------------------------------------------------
(* Task registries. *)

Plan == [shallow |-> <<"screen", "bundle", "canary", "development">>,
         deep |-> <<"screen", "bundle">>, confirmatory |-> <<"confirmation">>]

Fresh == SelectSeq(Pool, LAMBDA t : t \notin SourceTasks)

(* _registry of the shallow protocol. *)
ShallowTasks(stage) ==
  CASE stage = "screen" -> SubSeq(Fresh, 1, StageSize)
    [] stage = "bundle" -> SubSeq(Fresh, StageSize + 1, 2 * StageSize)
    [] stage = "canary" -> SubSeq(Fresh, 2 * StageSize + 1, 2 * StageSize + 1)
    [] stage = "development" -> SubSeq(Fresh, 2 * StageSize + 2, 2 * StageSize + 1 + DevelopmentSize)

(* _registry of the deep protocol: what the shallow registry does not name.   *)
DeepTasks(stage) ==
  LET used == UNION {ToSet(ShallowTasks(s)) : s \in ToSet(Plan.shallow)}
      untouched == SelectSeq(Fresh, LAMBDA t : t \notin used)
  IN  IF stage = "screen" THEN SubSeq(untouched, 1, StageSize)
      ELSE SubSeq(untouched, StageSize + 1, 2 * StageSize)

(* _task_binding of the confirmation: the tasks of the second deep stage.     *)
TasksOf(protocol, stage) ==
  CASE protocol = "shallow" -> ShallowTasks(stage)
    [] protocol = "deep" -> DeepTasks(stage)
    [] protocol = "confirmatory" -> DeepTasks("bundle")

-----------------------------------------------------------------------------
(* Children. *)

Child(protocol, stage, arm, task) ==
  [protocol |-> protocol, stage |-> stage, arm |-> arm, task |-> task]

Arms(protocol, stage) ==
  CASE stage = "screen" -> {"control"} \cup Lessons
    [] stage = "confirmation" -> {"control", Candidate}
    [] OTHER -> {"control", "bundle"}

Children ==
  UNION {{Child(p, s, a, t) : a \in Arms(p, s), t \in ToSet(TasksOf(p, s))} :
         <<p, s>> \in {<<q, r>> \in Protocols \X {"screen", "bundle", "canary", "development",
                                                  "confirmation"} : r \in ToSet(Plan[q])}}

IsDone(c) == child[c].state \in {"completed", "stopped"}
Control(c) == [c EXCEPT !.arm = "control"]

(* The memory an arm is given: none, one lesson alone, or the bundle.         *)
Given(c) ==
  CASE c.arm = "control" -> {}
    [] c.arm = "bundle" /\ c.stage = "bundle" -> artifact[c.protocol, "screen"][1].lessons
    [] c.arm = "bundle" /\ c.stage # "bundle" -> snapshot[c.protocol][1]
    [] OTHER -> {c.arm}

ShownIn(c) == {l \in DOMAIN child[c].shown : child[c].shown[l] > 0}
Gain(c) == child[c].auc - child[Control(c)].auc
LocalGain(c) == child[c].local - child[Control(c)].local
Regressed(c) == child[Control(c)].auc > 0 /\ child[c].auc = 0
TotalOf(f(_), S) == MapThenSumSet(f, S)
Mean(total, n) == total \div (IF n = 0 THEN 1 ELSE n)

Treatments(protocol, stage, arm) ==
  {c \in DOMAIN child : c.protocol = protocol /\ c.stage = stage /\ c.arm = arm}

-----------------------------------------------------------------------------
(* Decisions. *)

(* Mutant: one task is exposure enough. *)
ScreenShallowOnOneTask(l) ==
  LET applied == {c \in Treatments("shallow", "screen", l) : l \in ShownIn(c)}
  IN  CASE applied = {} -> "inconclusive"
        [] \/ \E c \in applied : Regressed(c)
           \/ Mean(TotalOf(Gain, applied), Cardinality(applied)) <= 0 -> "rejected"
        [] OTHER -> "promoted"

(* evaluate_lesson_promotion, with one generator family.                      *)
ScreenShallow(l) ==
  LET sources == SourcesOf[l] \cap Catalog
      applied == {c \in Treatments("shallow", "screen", l) : l \in ShownIn(c)}
      invalid == \/ ~(SourcesOf[l] \subseteq Catalog)
                 \/ \E e \in sources : e.role # "training" \/ e.family # l
      insufficient == \/ Cardinality({e.task : e \in sources}) < MinSources
                      \/ Cardinality(applied) < MinTasks
      negative == \/ \E c \in applied : Regressed(c)
                  \/ ~insufficient /\ Mean(TotalOf(Gain, applied), Cardinality(applied)) <= 0
  IN  CASE invalid \/ negative -> "rejected"
        [] ~invalid /\ ~negative /\ insufficient -> "inconclusive"
        [] OTHER -> "promoted"

(* _promote of the deep protocol. *)
ScreenDeep(l) ==
  LET applied == {c \in Treatments("deep", "screen", l) : l \in ShownIn(c)}
      exact == Mean(TotalOf(Gain, applied), Cardinality(applied))
      local == Mean(TotalOf(LocalGain, applied), Cardinality(applied))
      Requests(c) == child[c].shown[l]
  IN  CASE \/ Cardinality(applied) < MinTasks
           \/ TotalOf(Requests, applied) < MinExposures -> "inconclusive"
        [] \/ \E c \in applied : Regressed(c)
           \/ exact < 0
           \/ (exact = 0 /\ local <= 0) -> "rejected"
        [] OTHER -> "promoted"

Screen(protocol, l) == IF protocol = "deep" THEN ScreenDeep(l) ELSE ScreenShallow(l)

ScreenDecision(protocol) ==
  LET status == [l \in Lessons |-> Screen(protocol, l)]
  IN  [status |-> status, lessons |-> {l \in Lessons : status[l] = "promoted"}]

(* evaluate_bundle_validation; without a promoted lesson it has no pairs.     *)
BundleDecision(protocol) ==
  LET lessons == artifact[protocol, "screen"][1].lessons
      applied == {c \in Treatments(protocol, "bundle", "bundle") : ShownIn(c) # {}}
      reused == \E c \in applied : c.task \in ToSet(TasksOf(protocol, "screen"))
      insufficient ==
        \/ Cardinality(applied) < MinTasks
        \/ \E l \in lessons : Cardinality({c \in applied : l \in ShownIn(c)}) < MinPerLesson
      negative == \/ \E c \in applied : Regressed(c)
                  \/ ~insufficient /\ Mean(TotalOf(Gain, applied), Cardinality(applied)) <= 0
  IN  CASE lessons = {} -> [status |-> "inconclusive", lessons |-> {}]
        [] lessons # {} /\ (reused \/ negative) -> [status |-> "rejected", lessons |-> {}]
        [] lessons # {} /\ ~reused /\ ~negative /\ insufficient ->
             [status |-> "inconclusive", lessons |-> {}]
        [] OTHER -> [status |-> "promoted", lessons |-> lessons]

(* canary_pass; the replays without a provider repeat what the children did.  *)
CanaryDecision(protocol) ==
  LET pair == {c \in DOMAIN child : c.protocol = protocol /\ c.stage = "canary"}
      passed == /\ \A c \in pair : child[c].state = "completed"
                /\ \E c \in pair : ShownIn(c) # {}
  IN  [status |-> IF passed THEN "passed" ELSE "failed", lessons |-> {}]

DevelopmentDecision(protocol) ==
  LET pairs == Treatments(protocol, "development", "bundle")
  IN  [status |-> Mean(TotalOf(Gain, pairs), Cardinality(pairs)), lessons |-> snapshot[protocol][1]]

(* evaluate_confirmatory: all pairs count, one may be lost.                   *)
Confirmation ==
  LET pairs == Treatments("confirmatory", "confirmation", Candidate)
      exposed == {c \in pairs : Candidate \in ShownIn(c)}
      Requests(c) == child[c].shown[Candidate]
      Solved(S) == Cardinality({c \in S : child[c].auc > 0})
      insufficient == Cardinality(exposed) < MinTasks \/ TotalOf(Requests, exposed) < MinExposures
      failed == \/ Cardinality({c \in pairs : Regressed(c)}) > 1
                \/ Solved(pairs) <= Solved({Control(c) : c \in pairs})
                \/ Mean(TotalOf(Gain, pairs), Cardinality(pairs)) <= 0
                \/ Mean(TotalOf(LocalGain, pairs), Cardinality(pairs)) < 0
  IN  CASE insufficient -> [status |-> "inconclusive", lessons |-> {}]
        [] ~insufficient /\ failed -> [status |-> "failed", lessons |-> {}]
        [] OTHER -> [status |-> "passed", lessons |-> {Candidate}]

Decision(protocol, stage) ==
  CASE stage = "screen" -> ScreenDecision(protocol)
    [] stage = "bundle" -> BundleDecision(protocol)
    [] stage = "canary" -> CanaryDecision(protocol)
    [] stage = "development" -> DevelopmentDecision(protocol)
    [] stage = "confirmation" -> Confirmation

-----------------------------------------------------------------------------
(* The command that runs. *)

Idle == [pc |-> "idle"]
Running(protocol, at) == [pc |-> "stage", protocol |-> protocol, at |-> at, pool |-> {}]
Stage == Plan[process.protocol][process.at]
At(pc) == process.pc = pc

(* Jobs of a stage in the order of the code.  Without a promoted lesson the   *)
(* bundle stage has none.                                                     *)
JobsOf(p, s) ==
  LET lessons == SetToSeq(Lessons)
      tasks == TasksOf(p, s)
      Of(arm) == [k \in DOMAIN tasks |-> Child(p, s, arm, tasks[k])]
      OnTask(arms) ==
        FlattenSeq([k \in DOMAIN tasks |-> [j \in DOMAIN arms |-> Child(p, s, arms[j], tasks[k])]])
  IN  CASE s = "screen" /\ p = "shallow" ->
             Of("control") \o FlattenSeq([j \in DOMAIN lessons |-> Of(lessons[j])])
        [] s = "screen" /\ p = "deep" -> OnTask(<<"control">> \o lessons)
        [] s = "confirmation" -> OnTask(<<"control", Candidate>>)
        [] OTHER -> OnTask(<<"control", "bundle">>)
Jobs ==
  IF Stage = "bundle" /\ artifact[process.protocol, "screen"][1].lessons = {} THEN <<>>
  ELSE JobsOf(process.protocol, Stage)

(* What no resume takes up: a directory without its manifest, and a run that  *)
(* died over a file that is torn, or in _finalize behind the access ledger.   *)
Unusable(c) == child[c].state \in {"bare", "blocked"}

(* A pair with a child that did not complete raises: in the shallow protocol  *)
(* when the pair is there, in the parallel ones when all jobs have ended; the *)
(* canary and the development stage take what there is.                       *)
Sequential == process.protocol = "shallow"
Ended(c) == IsDone(c) \/ (~Sequential /\ Unusable(c) /\ c \notin process.pool)
Broken ==
  /\ Stage \in {"screen", "bundle", "confirmation"}
  /\ \E c \in ToSet(Jobs) :
       /\ c.arm # "control" \/ ~Sequential
       /\ IsDone(c)
       /\ "stopped" \in {child[c].state, child[Control(c)].state}
  /\ ~Sequential => \A c \in ToSet(Jobs) : Ended(c)

(* The jobs that may be taken up now.  A thread whose run directory cannot be *)
(* used has ended with an error.                                              *)
Ready ==
  LET jobs == Jobs
      Past(c) == Ended(c) \/ (~Sequential /\ c \in process.pool)
  IN  {jobs[k] : k \in
         {k \in DOMAIN jobs :
            /\ ~Ended(jobs[k]) /\ jobs[k] \notin process.pool
            /\ \A j \in 1..(k - 1) : Past(jobs[j])}}

Init ==
  /\ child = [c \in Children |-> [state |-> "none"]]
  /\ planned = FrozenBefore
  /\ artifact = [a \in {<<p, s>> \in Protocols \X {"screen", "bundle", "canary", "development",
                                                   "confirmation"} : s \in ToSet(Plan[p])} |-> <<>>]
  /\ snapshot = [p \in Protocols |-> <<>>]
  /\ process = Idle /\ deaths = 0

(* The plan and the registry are frozen; the same ones every time.  The deep  *)
(* registry reads the shallow one, the confirmation the deep one, and the     *)
(* run root of the confirmation must be unused before its binding is frozen.  *)
Begin(protocol) ==
  /\ At("idle")
  /\ protocol = "deep" =>
       "shallow" \in planned /\ \A l \in Lessons : SourcesOf[l] \subseteq Catalog
  /\ protocol = "confirmatory" => "deep" \in planned
  /\ protocol = "confirmatory" /\ protocol \notin planned =>
       \A c \in DOMAIN child : c.protocol = protocol => child[c].state = "none"
  /\ planned' = planned \cup {protocol}
  /\ process' = Running(protocol, 1)
  /\ UNCHANGED <<child, artifact, snapshot, deaths>>

(* _run_arm: a run directory is made, or one that is there is resumed.        *)
TakeUp ==
  /\ At("stage") /\ ~Broken
  /\ Cardinality(process.pool) < (IF Sequential THEN 1 ELSE Parallel)
  /\ \E c \in Ready :
       /\ child[c].state \in {"none", "open"}
       /\ child' = [child EXCEPT ![c] = IF @.state = "none" THEN [state |-> "bare"] ELSE @]
       /\ process' = [process EXCEPT !.pool = @ \cup {c}]
  /\ UNCHANGED <<planned, artifact, snapshot, deaths>>

(* The manifest of a new run is written. *)
OpenChild ==
  /\ At("stage")
  /\ \E c \in process.pool :
       /\ child[c].state = "bare"
       /\ child' = [child EXCEPT ![c] = [state |-> "open"]]
  /\ UNCHANGED <<planned, artifact, snapshot, process, deaths>>

(* The run ends; a cap or an unknown usage stops it before it completes.      *)
EndChild(state, auc, local) ==
  /\ At("stage")
  /\ \E c \in process.pool :
       /\ child[c].state = "open"
       /\ \E shown \in [Given(c) -> Exposures] :
            child' = [child EXCEPT ![c] =
                        [state |-> state, auc |-> auc, local |-> local, shown |-> shown]]
       /\ process' = [process EXCEPT !.pool = @ \ {c}]
  /\ UNCHANGED <<planned, artifact, snapshot, deaths>>

(* The call raises: a pair is broken, or a directory that is there cannot be  *)
(* used.  A thread pool lets the other jobs end first.                        *)
Raise ==
  /\ At("stage") /\ process.pool = {}
  /\ \/ Broken
     \/ \E c \in Ready : Unusable(c)
     \/ /\ ~Sequential
        /\ \A c \in ToSet(Jobs) : Ended(c)
        /\ \E c \in ToSet(Jobs) : ~IsDone(c)
  /\ process' = Idle
  /\ UNCHANGED <<child, planned, artifact, snapshot, deaths>>

(* write_content_artifact raises when something else is there. *)
Written(stored, content) == stored \in {<<>>, <<content>>}

(* What comes after a stage. *)
Passed(stage, decision) ==
  CASE stage = "screen" -> TRUE
    [] stage \in {"bundle", "confirmation"} -> decision.lessons # {}
    [] stage = "canary" -> decision.status = "passed"
    [] stage = "development" -> FALSE

Onward(stage, decision) ==
  CASE ~Passed(stage, decision) -> Idle
    [] stage \in {"bundle", "confirmation"} -> [process EXCEPT !.pc = "freeze"]
    [] OTHER -> [process EXCEPT !.at = @ + 1]

(* The decision on a stage whose jobs have all ended is written.              *)
Conclude ==
  /\ At("stage") /\ ~Broken
  /\ \A c \in ToSet(Jobs) : IsDone(c)
  /\ LET a == <<process.protocol, Stage>>
         decision == Decision(process.protocol, Stage)
     IN  IF Written(artifact[a], decision)
           THEN /\ artifact' = [artifact EXCEPT ![a] = <<decision>>]
                /\ process' = Onward(Stage, decision)
           ELSE /\ process' = Idle /\ UNCHANGED artifact
  /\ UNCHANGED <<child, planned, snapshot, deaths>>

(* The memory snapshot. *)
Freeze ==
  /\ At("freeze")
  /\ LET lessons == artifact[process.protocol, Stage][1].lessons
     IN  IF Written(snapshot[process.protocol], lessons)
           THEN /\ snapshot' = [snapshot EXCEPT ![process.protocol] = <<lessons>>]
                /\ process' = IF process.at < Len(Plan[process.protocol])
                                THEN Running(process.protocol, process.at + 1) ELSE Idle
           ELSE process' = Idle /\ UNCHANGED snapshot
  /\ UNCHANGED <<child, planned, artifact, deaths>>

(* The process dies, and with it the runs of the children it had taken up:    *)
(* each can be resumed, or died where no resume can go on (see Phase4Run).    *)
Die ==
  /\ ~At("idle") /\ deaths < MaxDeaths
  /\ process' = Idle /\ deaths' = deaths + 1
  /\ LET running == IF At("stage") THEN {c \in process.pool : child[c].state = "open"} ELSE {}
     IN  \E blocked \in SUBSET running :
           child' = [c \in DOMAIN child |->
                       IF c \in blocked THEN [state |-> "blocked"] ELSE child[c]]
  /\ UNCHANGED <<planned, artifact, snapshot>>

Step ==
  \/ TakeUp \/ OpenChild
  \/ \E state \in Ends, auc \in Aucs, local \in Locals :
       EndChild(state, auc, local)
  \/ Raise \/ Conclude \/ Freeze
Next == Step \/ Die \/ \E p \in Protocols : Begin(p)

Spec == Init /\ [][Next]_vars

(* A command that runs goes on, and somebody repeats every command.           *)
LiveSpec == Spec /\ WF_vars(Step) /\ \A p \in Protocols : SF_vars(Begin(p))

-----------------------------------------------------------------------------
(* Types; what is done was given the memory of its arm.                       *)
ValidationTypeOK ==
  /\ planned \subseteq Protocols \cup FrozenBefore /\ deaths \in 0..MaxDeaths
  /\ \A c \in DOMAIN child :
       /\ child[c].state \in {"none", "bare", "open", "blocked", "completed", "stopped"}
       /\ child[c].state # "none" => c.protocol \in planned
       /\ IsDone(c) => DOMAIN child[c].shown = Given(c)
  /\ process.pc # "idle" =>
       /\ process.at \in DOMAIN Plan[process.protocol]
       /\ Cardinality(process.pool) <= Parallel
  /\ At("freeze") => process.pool = {}

(* The first stage of a protocol that has a child a later one needs: a child  *)
(* of a stage costs money, which is spent only after the stages before it     *)
(* have been passed and their decisions are on disk.                          *)
SpentAfterGate ==
  \A c \in DOMAIN child : child[c].state # "none" =>
    \A k \in DOMAIN Plan[c.protocol] :
      (\E j \in DOMAIN Plan[c.protocol] : k < j /\ Plan[c.protocol][j] = c.stage) =>
        LET stored == artifact[c.protocol, Plan[c.protocol][k]]
        IN  stored # <<>> /\ Passed(Plan[c.protocol][k], stored[1])

(* Whatever order the children ended in and however often the command was     *)
(* repeated, the decision on disk is the one that the children on disk give:  *)
(* a repetition never meets an artifact it disagrees with.                    *)
DecisionsAreReproducible ==
  \A a \in DOMAIN artifact : artifact[a] # <<>> =>
    /\ \A c \in DOMAIN child :
         /\ c.protocol = a[1] /\ c.stage = a[2]
         /\ a[2] = "bundle" => artifact[a[1], "screen"][1].lessons # {}
         => IsDone(c)
    /\ artifact[a] = <<Decision(a[1], a[2])>>

(* Two prospective stages: a lesson in the frozen snapshot of the shallow or  *)
(* the deep protocol was shown on enough tasks of the screen and of the       *)
(* bundle, on tasks that kept their solution; the tasks of the two, and those *)
(* of the retrospective corpus, are different ones; and in the shallow one it *)
(* rests on training lineages of its own family (DD-039).                     *)
ShownTasks(protocol, stage, l) ==
  {t \in ToSet(Pool) : \E c \in DOMAIN child :
     /\ c.protocol = protocol /\ c.stage = stage /\ c.task = t
     /\ child[c].state = "completed" /\ child[Control(c)].state = "completed"
     /\ l \in ShownIn(c)
     /\ child[Control(c)].auc > 0 => child[c].auc > 0}
SnapshotIsConfirmed ==
  \A p \in Protocols \ {"confirmatory"} : snapshot[p] # <<>> =>
    \A l \in snapshot[p][1] :
      LET screened == ShownTasks(p, "screen", l)
          confirmed == ShownTasks(p, "bundle", l)
      IN  /\ Cardinality(screened) >= MinTasks /\ Cardinality(confirmed) >= MinPerLesson
          /\ screened \cap confirmed = {}
          /\ (screened \cup confirmed) \cap SourceTasks = {}
          /\ p = "shallow" =>
               /\ \A e \in SourcesOf[l] : e \in Catalog /\ e.role = "training" /\ e.family = l
               /\ Cardinality({e.task : e \in SourcesOf[l]}) >= MinSources

(* No two stages, of one protocol or of two, use the same task, with one      *)
(* exception: the confirmation takes the tasks of the deep bundle, and its    *)
(* frozen binding says that no provider child ran on them                     *)
(* ("prior_provider_children_on_these_bindings": 0), although it looks only   *)
(* into its own directory.  The task is then used twice only if the deep      *)
(* screen has promoted a lesson: as long as it has not, the binding is true.  *)
StagesAreFresh ==
  \A c, d \in DOMAIN child :
    /\ <<c.protocol, c.stage>> # <<d.protocol, d.stage>>
    /\ child[c].state # "none" /\ child[d].state # "none"
    /\ c.task = d.task
    => /\ {c.stage, d.stage} = {"bundle", "confirmation"}
       /\ "deep" \in {c.protocol, d.protocol}
       /\ artifact["deep", "screen"][1].lessons # {}

(* A command that is repeated comes to its decision, unless a child of a      *)
(* comparison was stopped by a cap or no resume can take up a child.          *)
Obstructed(p) ==
  \E c \in DOMAIN child :
    /\ c.protocol = p
    /\ \/ child[c].state = "stopped" /\ c.stage \in {"screen", "bundle", "confirmation"}
       \/ Unusable(c) /\ ~(At("stage") /\ c \in process.pool)
Finished(p) ==
  \E k \in DOMAIN Plan[p] :
    LET stored == artifact[p, Plan[p][k]]
    IN  /\ stored # <<>>
        /\ k = Len(Plan[p]) \/ ~Passed(Plan[p][k], stored[1])
        /\ Plan[p][k] \in {"bundle", "confirmation"} /\ stored[1].lessons # {} =>
             snapshot[p] # <<>>
ValidationFinishes == \A p \in Protocols : <>(Finished(p) \/ Obstructed(p))
=============================================================================
