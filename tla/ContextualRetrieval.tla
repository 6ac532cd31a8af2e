------------------------- MODULE ContextualRetrieval -------------------------
(***************************************************************************)
(* The contextual memory a run is shown (memory/contextual_retrieval.py):  *)
(* records of earlier searches are frozen into a snapshot, a runtime binds *)
(* it to target tasks, and at each request the records most similar to the *)
(* parent's context are selected, exposed by a reproducible draw, rendered *)
(* into a bounded block and audited.                                       *)
(*                                                                         *)
(* A similarity is a number of millionths.  The text of a block is its     *)
(* length: the envelope and the sizes of its records.                      *)
(***************************************************************************)
EXTENDS Integers, Sequences, FiniteSets, FiniteSetsExt, SequencesExt

CONSTANTS
  Experiences,   \* annotated records an extraction may yield
  Contexts,      \* the public contexts of parents
  Tasks,
  Configs,       \* ContextualMemoryConfig values
  Weights,       \* SimilarityWeights
  Envelope,      \* bytes of the block without records
  Denominator,   \* probability_denominator; Draws are the residues of the hash
  Numerator,
  Scale,         \* SIMILARITY_SCALE
  None

ASSUME ContextualConstants ==
  /\ \A x, y \in Experiences : x.id = y.id => x = y
  /\ \A x \in Experiences : x.task \in Tasks /\ x.context \in Contexts /\ x.size \in Nat
  /\ Denominator \in Nat \ {0} /\ Numerator \in 0..Denominator
  /\ \A w \in DOMAIN Weights : Weights[w] \in Nat
  /\ MapThenSumSet(LAMBDA w : Weights[w], DOMAIN Weights) >= 1
  /\ Envelope \in Nat /\ Scale \in Nat \ {0}

VARIABLES
  collected,   \* the records extracted so far
  snapshot,    \* the frozen records, or None
  runtime,     \* targets and configuration of a run, or None
  retrieval,   \* the last retrieval and its audit, or None
  refused      \* a construction raised

vars == <<collected, snapshot, runtime, retrieval, refused>>

-----------------------------------------------------------------------------
(* Similarity. *)

Abs(n) == IF n < 0 THEN - n ELSE n
Bounded(value) == Max({0, Min({Scale, value})})

Jaccard(left, right) ==
  IF left \cup right = {} THEN Scale
  ELSE (Cardinality(left \cap right) * Scale) \div Cardinality(left \cup right)

HistogramSimilarity(left, right) ==
  LET keys == DOMAIN left \cup DOMAIN right
      Count(h, k) == IF k \in DOMAIN h THEN h[k] ELSE 0
      denominator == MapThenSumSet(LAMBDA k : Max({Count(left, k), Count(right, k)}), keys)
      numerator == MapThenSumSet(LAMBDA k : Min({Count(left, k), Count(right, k)}), keys)
  IN IF denominator = 0 THEN Scale ELSE (numerator * Scale) \div denominator

Match(a, b) == IF a = b THEN Scale ELSE 0

(* The raw components; an error pattern is comparable only when both have it.*)
Raw(current, other) ==
  [family    |-> Match(current.family, other.family),
   cluster   |-> Match(current.cluster, other.cluster),
   pattern   |-> IF None \in {current.pattern, other.pattern} THEN 0
                 ELSE Jaccard(current.pattern, other.pattern),
   errors    |-> Scale - (Abs(current.errors - other.errors) * Scale) \div 8,
   histogram |-> HistogramSimilarity(current.histogram, other.histogram),
   motifs    |-> Jaccard(current.motifs, other.motifs),
   plateau   |-> Scale - Abs(current.plateau - other.plateau) * (Scale \div 4),
   stage     |-> Scale - Abs(current.stage - other.stage) * (Scale \div 40)]

Enabled(component, current, other, rich) ==
  /\ rich \/ component = "family"
  /\ component = "pattern" => None \notin {current.pattern, other.pattern}

(* contextual_similarity: the weighted mean of the components in use.        *)
Similarity(current, other, rich) ==
  LET raw    == Raw(current, other)
      used   == {c \in DOMAIN Weights : Enabled(c, current, other, rich)}
      weight == MapThenSumSet(LAMBDA c : Weights[c], used)
  IN IF weight = 0 THEN 0
     ELSE MapThenSumSet(LAMBDA c : Bounded(raw[c]) * Weights[c], used) \div weight

-----------------------------------------------------------------------------
(* Records. *)

(* _outcome_class: what came of the child's lineage counts for the step.     *)
OutcomeClass(x) ==
  IF x.delta > 0 \/ x.exact \/ x.laterExact \/ x.laterGain > 0 THEN "positive"
  ELSE IF x.delta < 0 \/ x.regression \/ x.outcome \in {"rejected", "duplicate"} \/ x.duplicate
  THEN "negative" ELSE "neutral"

Reusable(x) == x.trainable /\ ~ x.sealed /\ x.split \in {"training", "development"}

SourceTasks == {x.task : x \in snapshot}

(* ExperienceStore.eligible.                                                 *)
Eligible(task) == {x \in snapshot : x.task # task /\ x.task \notin runtime.targets /\ Reusable(x)}

-----------------------------------------------------------------------------
(* ExperienceRetriever.retrieve. *)

(* Records with their similarity to the context of a request.                *)
Scored(records, context) ==
  {[record |-> x, similarity |-> Similarity(context, x.context, runtime.config.rich)] : x \in records}

(* Nearest first, ties by identifier.                                        *)
Nearer(e, f) == \/ e.similarity > f.similarity
                \/ (e.similarity = f.similarity /\ e.record.id < f.record.id)
NearestOf(entries) == CHOOSE e \in entries : \A f \in entries \ {e} : Nearer(e, f)

Ordered(records, context) ==
  LET scored == Scored(records, context)
      ordered[entries \in SUBSET scored] ==
        IF entries = {} THEN <<>>
        ELSE <<NearestOf(entries)>> \o ordered[entries \ {NearestOf(entries)}]
  IN ordered[scored]

Relevant(entry) == entry.similarity >= runtime.config.minimum

RecordsOf(entries) == [i \in DOMAIN entries |-> entries[i].record]

(* The first of a sequence that satisfies a test, as a sequence.             *)
FirstOf(seq, Test(_)) ==
  LET found == SelectSeq(seq, Test) IN IF found = <<>> THEN <<>> ELSE <<found[1]>>

Nearest(relevant, class) == FirstOf(relevant, LAMBDA x : OutcomeClass(x) = class)

Contrast(relevant) == Nearest(relevant, "positive") \o Nearest(relevant, "negative")

(* The third record, when it is asked for, brings an edit class the pair     *)
(* does not have.                                                            *)
Diverse(relevant, pair) ==
  LET edits == UNION {x.edits : x \in Range(pair)}
  IN FirstOf(relevant, LAMBDA x : x \notin Range(pair) /\ ~ x.edits \subseteq edits)

Selection(relevant) ==
  LET pair == Contrast(relevant)
      room == runtime.config.diverse /\ Len(pair) < runtime.config.records
  IN CASE runtime.config.mode = "disabled" -> <<>>
       [] runtime.config.mode = "positive" -> Nearest(relevant, "positive")
       [] runtime.config.mode = "contrastive" -> IF room THEN pair \o Diverse(relevant, pair) ELSE pair

Truncated(seq, n) == SubSeq(seq, 1, Min({n, Len(seq)}))

(* MemoryExposurePolicy.decide: the draw is the hash of the record, the      *)
(* task, the seed and the retrieval index, modulo the denominator.           *)
Exposed(x, draw) == ~ runtime.config.randomized \/ draw[x] < Numerator

-----------------------------------------------------------------------------
(* MemoryBlockRenderer.render. *)

Bytes(records) == Envelope + MapThenSumSet(LAMBDA x : x.size, Range(records))

Accept(accepted, x) ==
  IF /\ Len(accepted) < runtime.config.records
     /\ Bytes(Append(accepted, x)) <= Min({runtime.config.bytes, runtime.config.tokens})
  THEN Append(accepted, x) ELSE accepted

Rendered(records) == FoldLeft(Accept, <<>>, records)

(* RetrievalDecision.to_value with the records that are in the block.        *)
ActuallyShown(x, block, draw) == x \in Range(block)

-----------------------------------------------------------------------------
Init ==
  /\ collected = {} /\ snapshot = None /\ runtime = None /\ retrieval = None
  /\ refused = FALSE

(* extract_contextual_records_from_run.                                      *)
Collect(x) ==
  /\ snapshot = None /\ x \notin collected /\ ~ refused
  /\ collected' = collected \cup {x}
  /\ UNCHANGED <<snapshot, runtime, retrieval, refused>>

(* ExperienceSnapshot: one record that is not reusable, or not annotated,    *)
(* refuses the whole snapshot.                                               *)
Freeze ==
  /\ snapshot = None /\ collected # {} /\ ~ refused
  /\ IF \A x \in collected : Reusable(x) /\ x.annotated
     THEN snapshot' = collected /\ UNCHANGED refused
     ELSE refused' = TRUE /\ UNCHANGED snapshot
  /\ UNCHANGED <<collected, runtime, retrieval>>

(* ContextualExperienceRuntime: sources and targets are disjoint.            *)
Bind(targets, config) ==
  /\ snapshot # None /\ runtime = None /\ ~ refused
  /\ IF SourceTasks \cap targets = {}
     THEN runtime' = [targets |-> targets, config |-> config] /\ UNCHANGED refused
     ELSE refused' = TRUE /\ UNCHANGED runtime
  /\ UNCHANGED <<collected, snapshot, retrieval>>

(* One request of a run on a target task: retrieve, render and audit.  A     *)
(* block that cannot hold even no record raises.                             *)
Retrieve(task, context, draw) ==
  LET ordered  == Ordered(Eligible(task), context)
      selected == Truncated(Selection(RecordsOf(SelectSeq(ordered, Relevant))),
                            runtime.config.records)
      block    == Rendered(SelectSeq(selected, LAMBDA x : Exposed(x, draw)))
  IN /\ runtime # None /\ ~ refused /\ task \in runtime.targets
     /\ IF Bytes(block) > Min({runtime.config.bytes, runtime.config.tokens})
        THEN refused' = TRUE /\ UNCHANGED retrieval
        ELSE /\ retrieval' = [task |-> task, context |-> context, ordered |-> ordered,
                              selected |-> selected, block |-> block, draw |-> draw,
                              shown |-> {x \in Range(selected) : ActuallyShown(x, block, draw)}]
             /\ UNCHANGED refused
     /\ UNCHANGED <<collected, snapshot, runtime>>

(* The residues of the records' hashes; without randomization they do not    *)
(* matter.                                                                   *)
DrawsOf ==
  [snapshot -> IF runtime.config.randomized THEN {0, Denominator - 1} ELSE {Denominator - 1}]

Next ==
  \/ \E x \in Experiences : Collect(x)
  \/ Freeze
  \/ \E targets \in SUBSET Tasks \ {{}}, config \in Configs : Bind(targets, config)
  \/ (runtime # None /\ \E task \in Tasks, context \in Contexts, draw \in DrawsOf :
                          Retrieve(task, context, draw))

Spec == Init /\ [][Next]_vars

-----------------------------------------------------------------------------
ContextualTypeOK ==
  /\ collected \subseteq Experiences
  /\ snapshot = None \/ snapshot \subseteq collected
  /\ runtime = None \/ (runtime.targets \subseteq Tasks /\ runtime.config \in Configs)
  /\ retrieval = None \/ (/\ retrieval.selected \in Seq(snapshot)
                          /\ retrieval.block \in Seq(snapshot)
                          /\ retrieval.shown \subseteq snapshot)
  /\ refused \in BOOLEAN

(***************************************************************************)
(* Properties.                                                             *)
(***************************************************************************)

Retrieved == retrieval # None
Near(x) == Similarity(retrieval.context, x.context, runtime.config.rich)

(* Similarity to the context a run retrieves for is symmetric and at most    *)
(* Scale, and the context itself is as near as can be: nothing that could    *)
(* not be compared counts against it.                                        *)
SimilarityIsFair ==
  Retrieved =>
    LET x == retrieval.context
        used(rich) == {c \in DOMAIN Weights : Enabled(c, x, x, rich)}
    IN \A rich \in BOOLEAN :
         /\ \A y \in Contexts : /\ Similarity(x, y, rich) = Similarity(y, x, rich)
                               /\ Similarity(x, y, rich) \in 0..Scale
         /\ Similarity(x, x, rich) =
              IF MapThenSumSet(LAMBDA c : Weights[c], used(rich)) = 0 THEN 0 ELSE Scale

(* Whatever was collected, a run is shown only records that are fit for      *)
(* reuse, of tasks it is not evaluated on, and near enough to its context.   *)
ShownAreAdmissible ==
  Retrieved => \A x \in Range(retrieval.block) :
                 /\ ~ x.sealed /\ x.split \in {"training", "development"} /\ x.annotated
                 /\ x.task \notin runtime.targets
                 /\ Near(x) >= runtime.config.minimum

(* The block respects its bounds, and no selected and exposed record is left *)
(* out that would still fit beside the others.                               *)
BlockIsFull ==
  Retrieved =>
    LET bound == Min({runtime.config.bytes, runtime.config.tokens})
    IN /\ Len(retrieval.block) <= runtime.config.records
       /\ Bytes(retrieval.block) <= bound
       /\ \A x \in Range(retrieval.selected) \ Range(retrieval.block) :
            \/ ~ Exposed(x, retrieval.draw)
            \/ Len(retrieval.block) >= runtime.config.records
            \/ Bytes(Append(retrieval.block, x)) > bound

(* Evidence that helped and evidence that hurt: when nothing is randomized   *)
(* and the bounds do not bind, a contrastive block holds the nearest record  *)
(* of each class there is, and a third only when it brings a new edit; a     *)
(* positive block never shows a step that neither gained nor led to a gain.  *)
ContrastIsBalanced ==
  Retrieved =>
    LET shown == Range(retrieval.block)
        Gained(x) == x.delta > 0 \/ x.exact \/ x.laterExact \/ x.laterGain > 0
        Lost(x) == ~ Gained(x) /\ OutcomeClass(x) = "negative"
        entries == {e \in Scored(Eligible(retrieval.task), retrieval.context) : Relevant(e)}
        Best(Test(_)) == {e.record : e \in
                            {e \in entries : /\ Test(e.record)
                                             /\ \A f \in entries \ {e} : Test(f.record) => Nearer(e, f)}}
        pair == Best(Gained) \cup Best(Lost)
    IN /\ runtime.config.mode = "positive" => \A x \in shown : Gained(x)
       /\ (/\ runtime.config.mode = "contrastive" /\ ~ runtime.config.randomized
           /\ runtime.config.records >= 2
           /\ Bytes(retrieval.selected) <= Min({runtime.config.bytes, runtime.config.tokens}))
          => /\ pair \subseteq shown
             /\ \A x \in shown \ pair : ~ x.edits \subseteq UNION {y.edits : y \in pair}

(* The audit names exactly the records of the block.                         *)
AuditTellsTheBlock == Retrieved => retrieval.shown = Range(retrieval.block)

=============================================================================
