---------------------------- MODULE MCExperiments ----------------------------
(***************************************************************************)
(* The experiments above the runs, on small instances: the locked one of   *)
(* Phase 3, the benchmark of Phase 4, the analysis of its rows and the     *)
(* prospective validation of lessons.  They share no state, so that one    *)
(* behaviour is about one of them: scenario says which, and the variables  *)
(* of the others are Unused.                                               *)
(***************************************************************************)
EXTENDS Integers, Sequences, FiniteSets

CONSTANT Unused

VARIABLES scenario,
  files, child, proc, crashes, edits,      \* Phases 3 and 4, child also of the validation
  tree,                                    \* Phase 3
  dirs, registry, config, interrupts,      \* Phase 4
  indexed, rows, generator, report,        \* the analysis
  planned, artifact, snapshot, process, deaths   \* the validation

experimentVars == <<files, proc, crashes, edits>>
benchmarkVars == <<dirs, registry, config, interrupts>>
analysisVars == <<indexed, rows, generator, report>>
validationVars == <<planned, artifact, snapshot, process, deaths>>
allVars == <<scenario, child, experimentVars, tree, benchmarkVars, analysisVars, validationVars>>

-----------------------------------------------------------------------------
(* Phase 3: an oracle budget of two calls, a crash and an edit of the tree;  *)
(* two pairs of children that never solve their task, or one that may.       *)
ThreeDraws == <<<<<<1, 2>>, <<2, 2>>, <<1, 1>>>>>>
Validation(tasks) ==
  [conditions |-> <<"incumbent", "diverse">>, split |-> "validation", tasks |-> tasks,
   seeds |-> <<1>>, continues |-> TRUE, oracleCap |-> 2, proposalCap |-> 4,
   tolerance |-> 0, replicates |-> 3, testAccess |-> FALSE]
PublicFiles ==
  <<<<"s", "train">>, <<"t", "validation">>, <<"u", "validation">>, <<"w", "validation">>>>
Locked == INSTANCE Phase3Experiment WITH
  Tasks <- <<"t">>, Seeds <- <<1>>, Values <- {0}, Draws <- ThreeDraws, Replicates <- 3,
  Registry <- Validation(<<"t">>), Public <- PublicFiles,
  MinTasks <- 1, MaxTasks <- 3, MinSeeds <- 1, MinCalls <- 2, MaxCalls <- 4,
  OracleCap <- 2, Trees <- {1, 2}, Firsts <- {0, 1, 2}, MaxCrashes <- 1, MaxEdits <- 1
TwoPairs == INSTANCE Phase3Experiment WITH
  Tasks <- <<"t", "u">>, Seeds <- <<1>>, Values <- {0}, Draws <- ThreeDraws, Replicates <- 3,
  Registry <- Validation(<<"t", "u">>), Public <- PublicFiles,
  MinTasks <- 1, MaxTasks <- 3, MinSeeds <- 1, MinCalls <- 2, MaxCalls <- 4,
  OracleCap <- 2, Trees <- {1, 2}, Firsts <- {0}, MaxCrashes <- 1, MaxEdits <- 1

(* Phase 4: one task and one seed under three conditions.  The registry may  *)
(* be edited to another one that is accepted and to one with a repeated seed.*)
PilotRegistry(replicates, seeds) ==
  [status |-> "development-pilot", conditions |-> <<"A", "B", "C">>, canary |-> "c",
   split |-> "development", tasks |-> <<"t">>, seeds |-> seeds, contract |-> "matched",
   hypotheses |-> [H1 |-> <<"B", "A">>, H2 |-> <<"C", "B">>, secondary |-> <<"C", "A">>],
   replicates |-> replicates, stage |-> "pilot", childCap |-> 1, aggregateCap |-> 3]
OneOfEach == [status \in {"fake-lifecycle", "development-pilot"} |-> 1]
Benchmark == INSTANCE Phase4Benchmark WITH
  Tasks <- <<"t">>, Seeds <- <<1>>, Values <- {0}, Draws <- ThreeDraws, Replicates <- 3,
  Rotation <- [pair \in {<<"t", 1>>} |-> 1], OracleCap <- 2,
  Outcomes <- {<<"completed", 0>>, <<"completed", 2>>, <<"cost-cap-exhausted", 1>>},
  Versions <- {1, 2},
  Registry <- <<PilotRegistry(3, <<1>>), PilotRegistry(4, <<1>>), PilotRegistry(3, <<1, 1>>)>>,
  Base <- [contract |-> "matched", childCap |-> 1, stageCap |-> [fake |-> 3, pilot |-> 3]],
  TaskCount <- OneOfEach, SeedCount <- OneOfEach,
  MaxCrashes <- 1, MaxEdits <- 2, MaxInterrupts <- 1

(* Three tasks, one seed, two outcomes, and 39 replicates, so that p-values  *)
(* lie on both sides of 0.025 and 0.05.                                      *)
Analysis == INSTANCE StatisticsHistory WITH
  Tasks <- <<"t", "u", "v">>, Seeds <- <<1>>, Values <- {0, 1}, Replicates <- 39,
  Draws <- <<[r \in 1..39 |-> [j \in 1..9 |-> (7 * r * r + 11 * r * j + 5 * j + j * j) % 23]]>>,
  MaxRepeats <- 1

(* Validation: one or two lessons with sound or thin evidence, one or two    *)
(* tasks a stage and outcomes of two levels.                                 *)
Lineage(task, role, family) == [task |-> task, role |-> role, family |-> family]
SevenTasks == [k \in 1..7 |-> k]
AnyEnd == {"completed", "stopped"}
Sound == {Lineage("x", "training", "mixed"), Lineage("y", "training", "mixed")}
Thin == {Lineage("x", "training", "threshold")}

(* The shallow protocol with real thresholds. *)
Shallow == INSTANCE ExperienceValidation WITH
  Protocols <- {"shallow"}, FrozenBefore <- {}, Lessons <- {"mixed"}, Candidate <- "mixed",
  SourcesOf <- [mixed |-> Sound], Catalog <- Sound, Pool <- SevenTasks, SourceTasks <- {3},
  StageSize <- 2, DevelopmentSize <- 1,
  MinTasks <- 2, MinExposures <- 2, MinPerLesson <- 2, MinSources <- 2,
  Ends <- AnyEnd, Aucs <- {0, 4}, Locals <- {0}, Exposures <- {0, 1}, Parallel <- 2, MaxDeaths <- 1
(* Two lessons compete in the deep protocol, children in parallel, a death.  *)
Deep == INSTANCE ExperienceValidation WITH
  Protocols <- {"deep"}, FrozenBefore <- {"shallow"}, Lessons <- {"mixed", "threshold"},
  Candidate <- "mixed", SourcesOf <- [mixed |-> Sound, threshold |-> Thin],
  Catalog <- Sound \cup Thin, Pool <- SevenTasks, SourceTasks <- {3},
  StageSize <- 1, DevelopmentSize <- 1,
  MinTasks <- 1, MinExposures <- 2, MinPerLesson <- 1, MinSources <- 2,
  Ends <- AnyEnd, Aucs <- {0, 4}, Locals <- {0}, Exposures <- {0, 2}, Parallel <- 2, MaxDeaths <- 1
(* Both protocols on one pool of tasks. *)
Both == INSTANCE ExperienceValidation WITH
  Protocols <- {"shallow", "deep"}, FrozenBefore <- {}, Lessons <- {"mixed"},
  Candidate <- "mixed", SourcesOf <- [mixed |-> Sound], Catalog <- Sound,
  Pool <- SevenTasks, SourceTasks <- {3}, StageSize <- 1, DevelopmentSize <- 1,
  MinTasks <- 1, MinExposures <- 2, MinPerLesson <- 1, MinSources <- 2,
  Ends <- AnyEnd, Aucs <- {0, 4}, Locals <- {0}, Exposures <- {2}, Parallel <- 2, MaxDeaths <- 0
(* The confirmation after the deep protocol. *)
Confirmation == INSTANCE ExperienceValidation WITH
  Protocols <- {"deep", "confirmatory"}, FrozenBefore <- {"shallow"}, Lessons <- {"mixed"},
  Candidate <- "mixed", SourcesOf <- [mixed |-> Sound], Catalog <- Sound,
  Pool <- SevenTasks, SourceTasks <- {3}, StageSize <- 1, DevelopmentSize <- 1,
  MinTasks <- 1, MinExposures <- 2, MinPerLesson <- 1, MinSources <- 2,
  Ends <- {"completed"}, Aucs <- {0, 4}, Locals <- {0, 4}, Exposures <- {0, 2},
  Parallel <- 2, MaxDeaths <- 0

ASSUME /\ Shallow!ThresholdsAssumption /\ Deep!ThresholdsAssumption
       /\ Both!ThresholdsAssumption /\ Confirmation!ThresholdsAssumption

-----------------------------------------------------------------------------
NoExperiment == files = Unused /\ proc = Unused /\ crashes = Unused /\ edits = Unused
NoBenchmark == dirs = Unused /\ registry = Unused /\ config = Unused /\ interrupts = Unused
NoAnalysis == indexed = Unused /\ rows = Unused /\ generator = Unused /\ report = Unused
NoValidation ==
  /\ planned = Unused /\ artifact = Unused /\ snapshot = Unused
  /\ process = Unused /\ deaths = Unused

Init ==
  \/ scenario = "locked" /\ Locked!Init /\ NoBenchmark /\ NoAnalysis /\ NoValidation
  \/ scenario = "two pairs" /\ TwoPairs!Init /\ NoBenchmark /\ NoAnalysis /\ NoValidation
  \/ scenario = "benchmark" /\ Benchmark!Init /\ tree = Unused /\ NoAnalysis /\ NoValidation
  \/ /\ scenario = "analysis" /\ Analysis!Init
     /\ NoExperiment /\ child = Unused /\ tree = Unused /\ NoBenchmark /\ NoValidation
  \/ /\ \/ scenario = "shallow" /\ Shallow!Init
        \/ scenario = "deep" /\ Deep!Init
        \/ scenario = "both" /\ Both!Init
        \/ scenario = "confirmation" /\ Confirmation!Init
     /\ NoExperiment /\ tree = Unused /\ NoBenchmark /\ NoAnalysis

Next ==
  /\ \/ /\ \/ scenario = "locked" /\ Locked!Next
           \/ scenario = "two pairs" /\ TwoPairs!Next
        /\ UNCHANGED <<benchmarkVars, analysisVars, validationVars>>
     \/ scenario = "benchmark" /\ Benchmark!Next /\ UNCHANGED <<tree, analysisVars, validationVars>>
     \/ /\ scenario = "analysis" /\ Analysis!Next
        /\ UNCHANGED <<experimentVars, child, tree, benchmarkVars, validationVars>>
     \/ /\ \/ scenario = "shallow" /\ Shallow!Next
           \/ scenario = "deep" /\ Deep!Next
           \/ scenario = "both" /\ Both!Next
           \/ scenario = "confirmation" /\ Confirmation!Next
        /\ UNCHANGED <<experimentVars, tree, benchmarkVars, analysisVars>>
  /\ UNCHANGED scenario

Spec == Init /\ [][Next]_allVars

-----------------------------------------------------------------------------
(* Phase 3.  The freeze precedes every call of the validation oracle and     *)
(* names the code of all of them; nothing is published before every child    *)
(* has spent the same budget; and a restart would write again what is there, *)
(* the summary last of the evidence and first of the supplement              *)
(* (run_locked_validation).                                                  *)
LockedEvidenceHolds ==
  /\ scenario = "locked" => /\ Locked!Phase3ExperimentTypeOK
                            /\ Locked!FrozenBeforeOracle
                            /\ Locked!PublishedUnderEqualBudgets
                            /\ Locked!RestartsAgree
                            /\ Locked!SummarySealsReport
  /\ scenario = "two pairs" => /\ TwoPairs!Phase3ExperimentTypeOK
                               /\ TwoPairs!FrozenBeforeOracle
                               /\ TwoPairs!PublishedUnderEqualBudgets
                               /\ TwoPairs!RestartsAgree
                               /\ TwoPairs!SummarySealsReport

(* Phase 4.  The rows of one analysis come from children of the one          *)
(* configuration in its manifest, run one after another; the summary seals   *)
(* the analysis that the report presents; and who asks for a registry gets   *)
(* the summary of that registry (run_phase4_experiment).                     *)
BenchmarkIsSealed ==
  scenario = "benchmark" => /\ Benchmark!BenchmarkTypeOK
                            /\ Benchmark!RowsShareConfiguration
                            /\ Benchmark!ChildrenRunInOrder
                            /\ Benchmark!SummarySealsAnalysis
                            /\ Benchmark!AnswersItsRegistry

(* Only rows that are paired are analysed.  An interval is one, within the   *)
(* data, and shrinks to a point when all pairs agree; rejection and adjusted *)
(* p-value tell the same; the test does not know which condition is which    *)
(* (_analysis, _paired_contrast, _holm).                                     *)
InferenceIsSound ==
  scenario = "analysis" => /\ Analysis!StatisticsTypeOK
                            /\ Analysis!AnalysedRowsArePaired
                           /\ Analysis!IntervalsWithinData
                           /\ Analysis!RejectionsMatchAdjusted
                           /\ Analysis!TestIsTwoSided
                           /\ Analysis!UniformEffectIsFound

(* A child costs money only after the stages before its own were passed; a   *)
(* frozen lesson was shown on enough tasks of two stages that share none,    *)
(* with training evidence of its own family; no task decides twice but those *)
(* of the deep bundle, which the confirmation uses again; and a command that *)
(* is repeated finds the decision it would make (phase5_experience_live.py,  *)
(* phase5_experience_deep.py, phase5_experience_confirmatory.py).            *)
LessonsAreConfirmed ==
  /\ scenario = "shallow" => /\ Shallow!ValidationTypeOK
                             /\ Shallow!SpentAfterGate
                             /\ Shallow!SnapshotIsConfirmed
                             /\ Shallow!StagesAreFresh
  /\ scenario = "deep" => /\ Deep!ValidationTypeOK
                          /\ Deep!SnapshotIsConfirmed
                          /\ Deep!StagesAreFresh
                          /\ Deep!DecisionsAreReproducible
  /\ scenario = "both" => Both!ValidationTypeOK /\ Both!StagesAreFresh
  /\ scenario = "confirmation" => /\ Confirmation!ValidationTypeOK
                                  /\ Confirmation!StagesAreFresh
                                  /\ Confirmation!DecisionsAreReproducible
=============================================================================
