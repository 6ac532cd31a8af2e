------------------------------- MODULE MCMemory -------------------------------
(***************************************************************************)
(* The Phase 5 memories on small instances: contextual retrieval, which    *)
(* this module extends, the store with its lifecycle, the retrieval of     *)
(* items and lessons, and the experience a run records.  They share no     *)
(* state, so that one behaviour is about one of them: scenario says which, *)
(* and the variables of the others are Unused.                             *)
(***************************************************************************)
EXTENDS ContextualRetrieval, TLC

CONSTANTS parity, majority, here, away, negate, widen, source, other, target,
          good, fair, bad, u, w, Unused

VARIABLES scenario,
  file, catalog, evidence, links, history, session, opens,      \* the store
  kind, bounds,                                                 \* item retrieval
  draw, evaluation, request, context, raw, annotated, summary,
  access, results, status, proc, crashes                        \* recorded experience

contextualVars == <<collected, runtime, retrieval, refused>>
storeVars == <<file, catalog, evidence, links, history, session, opens>>
itemVars == <<kind, bounds>>
lineageVars == <<draw, evaluation, request, context, raw, annotated, summary,
                 access, results, status, proc, crashes>>
allVars == <<scenario, snapshot, contextualVars, storeVars, itemVars, lineageVars>>

-----------------------------------------------------------------------------
(* Contextual retrieval: steps that gained, lost, lost but led to a gain,    *)
(* and changed nothing, from three tasks and in three contexts.              *)
ContextOfParent(family, cluster, pattern, errors, histogram, motifs, plateau, stage) ==
  [family |-> family, cluster |-> cluster, pattern |-> pattern, errors |-> errors,
   histogram |-> histogram, motifs |-> motifs, plateau |-> plateau, stage |-> stage]
Here == ContextOfParent(parity, here, None, 2, ("At" :> 1), {negate}, 0, 4)
Close == ContextOfParent(parity, here, {1, 2}, 1, ("At" :> 2) @@ ("Not" :> 1), {}, 2, 5)
Away == ContextOfParent(majority, away, {2}, 4, << >>, {widen}, 5, 40)
MCContexts == {Here, Close, Away}
MCWeights ==
  [family |-> 400, cluster |-> 150, pattern |-> 100, errors |-> 150, histogram |-> 100,
   motifs |-> 100, plateau |-> 50, stage |-> 50]
Experience(id, task, parent, delta, laterGain, edits, size) ==
  [id |-> id, task |-> task, context |-> parent, split |-> "training", sealed |-> FALSE,
   trainable |-> TRUE, annotated |-> TRUE, delta |-> delta, exact |-> FALSE,
   regression |-> FALSE, laterExact |-> FALSE, laterGain |-> laterGain, outcome |-> "inserted",
   duplicate |-> FALSE, edits |-> edits, size |-> size]
MCExperiences ==
  {Experience(1, source, Here, 1, 0, {negate}, 2),
   Experience(2, source, Close, 0 - 1, 0, {negate}, 1),
   Experience(3, other, Here, 0 - 1, 1, {widen}, 2),
   Experience(4, other, Away, 0, 0, {widen}, 1),
   [Experience(5, target, Here, 1, 0, {negate}, 1) EXCEPT !.split = "development"],
   [Experience(6, source, Here, 1, 0, {negate}, 1) EXCEPT
      !.sealed = TRUE, !.trainable = FALSE, !.split = "test"]}
Setting(mode, rich, minimum, records, bytes, diverse, randomized) ==
  [mode |-> mode, rich |-> rich, minimum |-> minimum, records |-> records, bytes |-> bytes,
   tokens |-> 9, diverse |-> diverse, randomized |-> randomized]
MCConfigs ==
  {Setting("disabled", TRUE, 300, 3, 9, FALSE, FALSE),
   Setting("positive", TRUE, 300, 3, 9, FALSE, FALSE),
   Setting("contrastive", TRUE, 300, 3, 9, TRUE, FALSE),
   Setting("contrastive", TRUE, 900, 3, 9, TRUE, FALSE),
   Setting("contrastive", TRUE, 0, 3, 4, TRUE, TRUE),
   Setting("contrastive", FALSE, 0, 2, 3, FALSE, TRUE)}

(* The store: two observations of one training task, a second training task  *)
(* of another family, and development tasks likewise.                        *)
Fact(task, family, role, n) == [task |-> task, family |-> family, role |-> role, n |-> n]
TrainA == Fact("a", "fa", "training", 1)
RetryA == Fact("a", "fa", "training", 2)
TrainB == Fact("b", "fb", "training", 1)
DevC == Fact("c", "fc", "development", 1)
RetryC == Fact("c", "fc", "development", 2)
DevD == Fact("d", "fd", "development", 1)
Proposal(type, scope, support) == [kind |-> type, scope |-> scope, support |-> support]

(* A global and a local lesson, one process. *)
Store == INSTANCE MemoryStore WITH
  Users <- {u}, Facts <- {TrainA, TrainB}, Catalogs <- {{TrainA, TrainB}},
  Proposals <- {Proposal("search-lesson", "global-f0", {TrainA, TrainB}),
                Proposal("search-lesson", "world", {TrainA})},
  Reasons <- {"r"}, MaxOpens <- 2
(* A lesson that rests on one task alone, two processes. *)
SharedStore == INSTANCE MemoryStore WITH
  Users <- {u, w}, Facts <- {TrainA, RetryA, TrainB}, Catalogs <- {{TrainA, RetryA, TrainB}},
  Proposals <- {Proposal("search-lesson", "global-f0", {TrainA, RetryA})},
  Reasons <- {"r"}, MaxOpens <- 2
(* A primitive, which has to be validated as well. *)
PrimitiveStore == INSTANCE MemoryStore WITH
  Users <- {u}, Facts <- {TrainA, TrainB, DevC, RetryC, DevD},
  Catalogs <- {{TrainA, TrainB, DevC, RetryC, DevD}},
  Proposals <- {Proposal("primitive-proposal", "global-f0", {TrainA, TrainB})},
  Reasons <- {"r"}, MaxOpens <- 2

(* Items of every scope and version, with equal and different scores, and    *)
(* sizes of which the two smallest together exceed the largest.              *)
Item(id, world, dsl, scope, terms, size) ==
  [id |-> id, world |-> world, dsl |-> dsl, scope |-> scope, terms |-> terms, size |-> size]
Lesson(id, family, gain, size) == [id |-> id, family |-> family, gain |-> gain, size |-> size]
Items == INSTANCE MemoryRetrieval WITH
  Memory <-
    {Item(1, "w1", "d1", "global-f0", {"s"}, 2), Item(2, "w1", "d1", "w1", {"s", "t"}, 3),
     Item(3, "w1", "d1", "global-f0", {"s", "t"}, 1), Item(4, "w1", "d1", "other", {"s", "t"}, 1),
     Item(5, "w2", "d1", "global-f0", {"s"}, 1)},
  Lessons <- {Lesson(1, parity, 2, 2), Lesson(2, parity, 5, 3), Lesson(3, majority, 5, 1),
              Lesson(4, parity, 2, 1)},
  Query <- [kind |-> "elementary", world |-> "w1", dsl |-> "d1", terms |-> {"s", "t"}],
  Cell <- parity, Envelope <- 1, MaxItems <- 2, MaxBytes <- 5, MaxTokens <- 4

(* Runs that record their experience: batches and two crashes, or longer     *)
(* without.  The prompt of a memoryless run depends on the parent alone; the *)
(* block of a run with memory may change with the stage of the search.       *)
ErrorsOf == good :> 0 @@ fair :> 1 @@ bad :> 2
Crashing == INSTANCE ExperienceLineage WITH
  Programs <- {good, fair, bad}, Errors <- ErrorsOf, Cases <- 2, InitialPrograms <- <<fair>>,
  BatchSize <- 2, MaxEvaluations <- 4, MaxCalls <- 2, Draws <- {0, 1},
  Prompt <- [n \in 0..4 |-> 0], Horizon <- 1, MaxCrashes <- 2
Remembering == INSTANCE ExperienceLineage WITH
  Programs <- {good, fair}, Errors <- [p \in {good, fair} |-> ErrorsOf[p]], Cases <- 2,
  InitialPrograms <- <<fair>>, BatchSize <- 1, MaxEvaluations <- 5, MaxCalls <- 4,
  Draws <- {0, 4}, Prompt <- [n \in 0..5 |-> n % 2], Horizon <- 2, MaxCrashes <- 0

ASSUME /\ Store!FactsAssumption /\ SharedStore!FactsAssumption /\ PrimitiveStore!FactsAssumption
       /\ Items!RetrievalConstants
       /\ Crashing!LineageConstants /\ Remembering!LineageConstants

-----------------------------------------------------------------------------
NoContextual == collected = Unused /\ runtime = Unused /\ retrieval = Unused /\ refused = Unused
NoStore ==
  /\ file = Unused /\ catalog = Unused /\ evidence = Unused /\ links = Unused
  /\ history = Unused /\ session = Unused /\ opens = Unused
NoItems == kind = Unused /\ bounds = Unused
NoLineage ==
  /\ draw = Unused /\ evaluation = Unused /\ request = Unused /\ context = Unused
  /\ raw = Unused /\ annotated = Unused /\ summary = Unused /\ access = Unused
  /\ results = Unused /\ status = Unused
  /\ proc = Unused /\ crashes = Unused

MemoryInit ==
  \/ scenario = "contextual" /\ Init /\ NoStore /\ NoItems /\ NoLineage
  \/ /\ \/ scenario = "store" /\ Store!Init
        \/ scenario = "shared store" /\ SharedStore!Init
        \/ scenario = "primitive store" /\ PrimitiveStore!Init
     /\ NoContextual /\ NoItems /\ NoLineage
  \/ scenario = "items" /\ Items!Init /\ NoContextual /\ NoStore /\ NoLineage
  \/ /\ \/ scenario = "crashing" /\ Crashing!Init
        \/ scenario = "remembering" /\ Remembering!Init
     /\ snapshot = Unused /\ NoContextual /\ NoStore /\ NoItems

MemoryNext ==
  /\ \/ scenario = "contextual" /\ Next /\ UNCHANGED <<storeVars, itemVars, lineageVars>>
     \/ /\ \/ scenario = "store" /\ Store!Next
           \/ scenario = "shared store" /\ SharedStore!Next
           \/ scenario = "primitive store" /\ PrimitiveStore!Next
        /\ UNCHANGED <<contextualVars, itemVars, lineageVars>>
     \/ scenario = "items" /\ Items!Next /\ UNCHANGED <<contextualVars, storeVars, lineageVars>>
     \/ /\ \/ scenario = "crashing" /\ Crashing!Next
           \/ scenario = "remembering" /\ Remembering!Next
        /\ UNCHANGED <<snapshot, contextualVars, storeVars, itemVars>>
  /\ UNCHANGED scenario

MemorySpec == MemoryInit /\ [][MemoryNext]_allVars

-----------------------------------------------------------------------------
(* The store.  What is promoted globally rests on two tasks of two families, *)
(* and a primitive is validated on two more, also with two processes; one    *)
(* process never leaves a record promoted that has counterevidence; every    *)
(* lifecycle can be replayed, is append-only and ends with a rejection or an *)
(* invalidation; and a snapshot holds what its export promotes (store.py).   *)
PromotionIsEarned ==
  /\ [](/\ scenario = "store" => /\ Store!MemoryTypeOK
                                 /\ Store!PromotionIsIndependent
                                 /\ Store!CounterevidenceWins
                                 /\ Store!HistoriesReplay
                                 /\ Store!SnapshotMatchesExport
        /\ scenario = "shared store" => SharedStore!PromotionIsIndependent
        /\ scenario = "primitive store" => PrimitiveStore!PromotionIsIndependent)
  /\ [][scenario = "store" => Store!LifecycleGrows]_allVars

(* Retrieval.  The loop over the ranked items finds the best selection that  *)
(* applies and fits and tells why every other item was left out; a larger    *)
(* item bound and a worse item take nothing away.  Records are shown to runs *)
(* on other tasks only, near enough and as many as fit, what helped beside   *)
(* what hurt, and the audit names those in the block (retrieval.py,          *)
(* experience.py, contextual_retrieval.py).                                  *)
RetrievalIsBest ==
  /\ [](/\ scenario = "items" => /\ Items!RetrievalTypeOK
                                 /\ Items!SelectionIsBest
                                 /\ Items!EveryItemAccounted
        /\ scenario = "contextual" => /\ ContextualTypeOK
                                      /\ SimilarityIsFair
                                      /\ ShownAreAdmissible
                                      /\ BlockIsFull
                                      /\ ContrastIsBalanced
                                      /\ AuditTellsTheBlock)
  /\ [][scenario = "items" => Items!NothingTaken]_allVars

(* The experience a run records.  Wherever processes die, a record says what *)
(* the rows say and is written again as it was; what a finished run notes of *)
(* an evaluation is what came of its descent; and an import of the run       *)
(* agrees with its own records (lineage.py).                                 *)
ExperienceIsRecorded ==
  /\ scenario = "crashing" => /\ Crashing!LineageTypeOK
                              /\ Crashing!FilesAreRepeatable
                              /\ Crashing!RecordsMatchRows
                              /\ Crashing!DuplicatesAreRemembered
                              /\ Crashing!AnnotationsDescribeDescent
                              /\ Crashing!ImportAgrees
  /\ scenario = "remembering" => /\ Remembering!RecordsMatchRows
                                 /\ Remembering!AnnotationsDescribeDescent
                                 /\ Remembering!ImportAgrees
=============================================================================
