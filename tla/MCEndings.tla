------------------------------- MODULE MCEndings -------------------------------
(***************************************************************************)
(* What must happen in the end, on instances small enough for liveness:    *)
(* the runs of Phases 2, 3 and 5 and the experiments above them are        *)
(* finished although their processes die, when somebody starts them again. *)
(* The seven systems share no state: scenario says which of them a         *)
(* behaviour is about, and the variables of the others are Unused.         *)
(***************************************************************************)
EXTENDS Integers, Sequences, FiniteSets, TLC, Phase5Cases

CONSTANTS p, q, good, fair, NoRecord, None, Unused

VARIABLES scenario,
  db, files, proc, faults, damage, draws,                    \* the searches
  child, crashes, tree, edits,                               \* the experiments
  dirs, registry, config, interrupts,                        \* Phase 4
  reservation, cash_checkpoint, observed, calls,             \* Phase 5
  planned, artifact, snapshot, process, deaths,              \* the validation
  draw, evaluation, request, context, raw, annotated, summary,
  access, results, status                                    \* recorded experience

searchVars == <<db, faults, damage, draws>>
benchmarkVars == <<dirs, registry, config, interrupts>>
phase5Vars == <<reservation, cash_checkpoint, observed, calls>>
validationVars == <<planned, artifact, snapshot, process, deaths>>
lineageVars == <<draw, evaluation, request, context, raw, annotated, summary,
                 access, results, status>>
allVars == <<scenario, files, proc, child, crashes, tree, edits, searchVars, benchmarkVars,
             phase5Vars, validationVars, lineageVars>>

-----------------------------------------------------------------------------
(* Two processes, two steps and two faults; writing a file is atomic, as     *)
(* nobody removes the torn one that would otherwise be left.                 *)
Search == INSTANCE SearchLoop WITH
  Phase <- 2, Procs <- {p, q}, MaxSteps <- 2, FirstExact <- 1, Limits <- {0, 1},
  MaxFaults <- 2, MaxDamage <- 0, AtomicFiles <- TRUE

Attempts == 0..1
Diverse == INSTANCE Phase3Run WITH
  Programs <- {"x", "y", "z"}, Cells <- {"a", "b"}, CellOf <- [x |-> "a", y |-> "b", z |-> "a"],
  RankOf <- [x |-> 1, y |-> 2, z |-> 1], SemanticOf <- [x |-> "s", y |-> "t", z |-> "s"],
  CellOrder <- <<"a", "b">>, ReserveSize <- 1, Ids <- Attempts, IdOrder <- [i \in Attempts |-> i],
  Lineages <- {}, Condition <- "diverse", InitialPrograms <- <<"y">>,
  AttemptCap <- 2, OracleCap <- 2, Locked <- FALSE, Procs <- {p}, Limits <- {0, 1}, MaxFaults <- 1

ThreeDraws == <<<<<<1, 2>>, <<2, 2>>, <<1, 1>>>>>>
Locked == INSTANCE Phase3Experiment WITH
  Tasks <- <<"t">>, Seeds <- <<1>>, Values <- {0}, Draws <- ThreeDraws, Replicates <- 3,
  Registry <- [conditions |-> <<"incumbent", "diverse">>, split |-> "validation",
               tasks |-> <<"t">>, seeds |-> <<1>>, continues |-> TRUE, oracleCap |-> 2,
               proposalCap |-> 4, tolerance |-> 0, replicates |-> 3, testAccess |-> FALSE],
  Public <- <<<<"s", "train">>, <<"t", "validation">>>>,
  MinTasks <- 1, MaxTasks <- 3, MinSeeds <- 1, MinCalls <- 2, MaxCalls <- 4,
  OracleCap <- 2, Trees <- {1, 2}, Firsts <- {0}, MaxCrashes <- 1, MaxEdits <- 1

PilotRegistry ==
  [status |-> "development-pilot", conditions |-> <<"A", "B", "C">>, canary |-> "c",
   split |-> "development", tasks |-> <<"t">>, seeds |-> <<1>>, contract |-> "matched",
   hypotheses |-> [H1 |-> <<"B", "A">>, H2 |-> <<"C", "B">>, secondary |-> <<"C", "A">>],
   replicates |-> 3, stage |-> "pilot", childCap |-> 1, aggregateCap |-> 3]
OneOfEach == [kind \in {"fake-lifecycle", "development-pilot"} |-> 1]
Benchmark == INSTANCE Phase4Benchmark WITH
  Tasks <- <<"t">>, Seeds <- <<1>>, Values <- {0}, Draws <- ThreeDraws, Replicates <- 3,
  Rotation <- [pair \in {<<"t", 1>>} |-> 1], OracleCap <- 2,
  Outcomes <- {<<"completed", 2>>}, Versions <- {1}, Registry <- <<PilotRegistry>>,
  Base <- [contract |-> "matched", childCap |-> 1, stageCap |-> [fake |-> 3, pilot |-> 3]],
  TaskCount <- OneOfEach, SeedCount <- OneOfEach,
  MaxCrashes <- 1, MaxEdits <- 0, MaxInterrupts <- 1

Both == {"canary", "pilot"}
Requests == RequestsOf(Both, 1, 1)
Pilot == INSTANCE Phase5Live WITH
  Experiments <- Both, Plan <- PlanOf(Both, 1, 2), Requires <- RequiresOf(Both),
  Authority <- AuthorityOf(Both), Policy <- PolicyOf(1, 4),
  Runs <- ChildrenOf(Both), ChildCap <- [c \in ChildrenOf(Both) |-> 2],
  Ids <- Requests, Hashes <- Requests, Records <- RecordsOf(Requests),
  Stages <- Both, StageCap <- [s \in Both |-> 100],
  ConditionC <- "c", ConditionD <- "d", Answers <- AnswersOf,
  RequestMax <- 2, CostBound <- 2, InputBound <- 2, OutputBound <- 1,
  Observations <- {}, Amounts <- {2}, Billed <- {}, Overrides <- OverridesOf(PolicyOf(1, 4)),
  RequestCap <- 2, PhaseCap <- 100, ProjectCap <- 100, OpeningBalance <- 0,
  Dual <- TRUE, CashCap <- 100, SafetyBuffer <- 0, OpeningBilled <- 0,
  Procs <- {p}, MaxCrashes <- 2, MaxEdits <- 0

(* One lesson with sound evidence.                                           *)
Sound ==
  {[task |-> t, role |-> "training", family |-> "mixed"] : t \in {"x", "y"}}
Shallow == INSTANCE ExperienceValidation WITH
  Protocols <- {"shallow"}, FrozenBefore <- {}, Lessons <- {"mixed"}, Candidate <- "mixed",
  SourcesOf <- [mixed |-> Sound], Catalog <- Sound,
  Pool <- [k \in 1..7 |-> k], SourceTasks <- {3}, StageSize <- 1, DevelopmentSize <- 1,
  MinTasks <- 1, MinExposures <- 2, MinPerLesson <- 1, MinSources <- 2,
  Ends <- {"completed", "stopped"}, Aucs <- {0, 4}, Locals <- {0}, Exposures <- {0, 1},
  Parallel <- 2, MaxDeaths <- 1

Recorded == INSTANCE ExperienceLineage WITH
  Programs <- {good, fair}, Errors <- (good :> 0 @@ fair :> 1), Cases <- 2,
  InitialPrograms <- <<fair>>, BatchSize <- 2, MaxEvaluations <- 4, MaxCalls <- 2,
  Draws <- {0}, Prompt <- [n \in 0..4 |-> 0], Horizon <- 1, MaxCrashes <- 1

ASSUME /\ Search!SearchConstants /\ Diverse!Phase3Constants /\ Pilot!Phase5Constants
       /\ Shallow!ThresholdsAssumption /\ Recorded!LineageConstants

-----------------------------------------------------------------------------
NoSearch == db = Unused /\ faults = Unused /\ damage = Unused /\ draws = Unused
NoPhase4 == dirs = Unused /\ registry = Unused /\ config = Unused /\ interrupts = Unused
NoPhase5 == reservation = Unused /\ cash_checkpoint = Unused /\ observed = Unused /\ calls = Unused
NoValidation ==
  /\ planned = Unused /\ artifact = Unused /\ snapshot = Unused
  /\ process = Unused /\ deaths = Unused
NoLineage ==
  /\ draw = Unused /\ evaluation = Unused /\ request = Unused /\ context = Unused
  /\ raw = Unused /\ annotated = Unused /\ summary = Unused /\ access = Unused
  /\ results = Unused /\ status = Unused
NoExperiment == child = Unused /\ crashes = Unused /\ tree = Unused /\ edits = Unused

SearchInit ==
  /\ \/ scenario = "search" /\ Search!Init /\ draws = Unused
     \/ scenario = "diverse" /\ Diverse!Init /\ damage = Unused
  /\ NoExperiment /\ NoPhase4 /\ NoPhase5 /\ NoValidation /\ NoLineage
ExperimentInit ==
  /\ \/ scenario = "locked" /\ Locked!Init /\ NoPhase4 /\ NoPhase5
     \/ scenario = "benchmark" /\ Benchmark!Init /\ tree = Unused /\ NoPhase5
     \/ scenario = "pilot" /\ Pilot!Init /\ NoPhase4 /\ child = Unused /\ edits = Unused
  /\ NoSearch /\ NoValidation /\ NoLineage
MemoryInit ==
  /\ \/ /\ scenario = "validation" /\ Shallow!Init
        /\ proc = Unused /\ crashes = Unused /\ NoLineage
     \/ scenario = "recorded" /\ Recorded!Init /\ child = Unused /\ NoValidation
  /\ files = Unused /\ tree = Unused /\ edits = Unused /\ NoSearch /\ NoPhase4 /\ NoPhase5
Init == SearchInit \/ ExperimentInit \/ MemoryInit

(* One step of the system a behaviour is about; the rest stays.              *)
SearchNext ==
  /\ \/ scenario = "search" /\ Search!Next /\ UNCHANGED draws
     \/ scenario = "diverse" /\ Diverse!Next /\ UNCHANGED damage
  /\ UNCHANGED <<child, crashes, tree, edits, benchmarkVars, phase5Vars, validationVars, lineageVars>>
ExperimentNext ==
  /\ \/ scenario = "locked" /\ Locked!Next /\ UNCHANGED <<benchmarkVars, phase5Vars>>
     \/ scenario = "benchmark" /\ Benchmark!Next /\ UNCHANGED <<tree, phase5Vars>>
     \/ scenario = "pilot" /\ Pilot!Next /\ UNCHANGED <<benchmarkVars, child, edits>>
  /\ UNCHANGED <<searchVars, validationVars, lineageVars>>
MemoryNext ==
  /\ \/ scenario = "validation" /\ Shallow!Next /\ UNCHANGED <<proc, crashes, lineageVars>>
     \/ scenario = "recorded" /\ Recorded!Next /\ UNCHANGED <<child, validationVars>>
  /\ UNCHANGED <<files, tree, edits, searchVars, benchmarkVars, phase5Vars>>
Next == (SearchNext \/ ExperimentNext \/ MemoryNext) /\ UNCHANGED scenario

searchOf == Search!vars
diverseOf == Diverse!vars
lockedOf == Locked!vars
benchmarkOf == Benchmark!vars
pilotOf == Pilot!vars
shallowOf == Shallow!vars
recordedOf == Recorded!vars

(* A process that can take its next step takes it, and whoever executes a    *)
(* run or an experiment starts it again until it returns.  The command of a  *)
(* search, of a lesson's protocol or of a resume can be out of reach for a   *)
(* while, when another process is at it: that it is repeated whenever it can *)
(* be is strong fairness.                                                    *)
Fairness ==
  /\ \A x \in {p, q} : WF_searchOf(scenario = "search" /\ Search!Step(x))
  /\ SF_searchOf(/\ scenario = "search"
                 /\ \E x \in {p, q} :
                      Search!Start(x) \/ (db.status # "completed" /\ Search!Resume(x)))
  /\ WF_diverseOf(scenario = "diverse" /\ Diverse!Step(p))
  /\ SF_diverseOf(scenario = "diverse" /\ db.status # "completed" /\ Diverse!Resume(p))
  /\ WF_lockedOf(scenario = "locked" /\ Locked!Begin)
  /\ WF_lockedOf(scenario = "locked" /\ Locked!Step)
  /\ WF_benchmarkOf(scenario = "benchmark" /\ Benchmark!Begin)
  /\ WF_benchmarkOf(scenario = "benchmark" /\ Benchmark!Step)
  /\ WF_pilotOf(scenario = "pilot" /\ Pilot!Step(p))
  /\ \A e \in Both : WF_pilotOf(scenario = "pilot" /\ Pilot!Start(p, e))
  /\ WF_shallowOf(scenario = "validation" /\ Shallow!Step)
  /\ SF_shallowOf(scenario = "validation" /\ Shallow!Begin("shallow"))
  /\ WF_recordedOf(scenario = "recorded" /\ Recorded!Step)
  /\ WF_recordedOf(scenario = "recorded" /\ Recorded!Resume)

LiveSpec == Init /\ [][Next]_allVars /\ Fairness

-----------------------------------------------------------------------------
(* A run whose database was initialized is completed in the end, however     *)
(* often its processes are killed or interrupted, if none dies between the   *)
(* creation of a file and its writing; a Phase 4 run with its experience     *)
(* recorded, unless the process that started it died in _finalize behind the *)
(* access ledger (loop.py, phase3.py, phase4.py, contextual_artifacts.py).   *)
SearchesEnd ==
  /\ scenario = "search" /\ db.status # "none" ~> scenario = "search" /\ db.status = "completed"
  /\ scenario = "diverse" /\ db.status # None ~> scenario = "diverse" /\ db.status = "completed"
  /\ <>(scenario = "recorded" =>
          \/ status = "completed" /\ summary # None /\ results # None
          \/ Recorded!SealedByFirstProcess)

(* An experiment that is started again whenever it dies comes to its end,    *)
(* unless what it names blocks it: a child that cannot be resumed or         *)
(* reconciled, because it has no manifest, a torn file or the access ledger  *)
(* of the process that started it, a directory without a summary, a torn     *)
(* file, a request that may have been paid, or a child of a comparison that  *)
(* was stopped by its caps (phase3_experiment.py, phase4_experiment.py,      *)
(* phase5_live.py, phase5_experience_live.py).                               *)
ExperimentsEnd ==
  /\ <>[](scenario = "locked" => Locked!At("returned") \/ Locked!Blocked)
  /\ <>[](scenario = "benchmark" =>
            Benchmark!At("returned") \/ Benchmark!ChildBlocked \/ Benchmark!Wedged)
  /\ \A e \in Both :
       scenario = "pilot" /\ Pilot!CanaryPassed(e)
         ~> scenario = "pilot" /\ (Pilot!WholeAt(<<"summary", e>>) \/ Pilot!Blocked(e))
  /\ <>(scenario = "validation" => Shallow!Finished("shallow") \/ Shallow!Obstructed("shallow"))
=============================================================================
