--------------------------- MODULE MemoryRetrieval ---------------------------
(***************************************************************************)
(* What a run is shown of a frozen memory: retrieve_memory of Phase 5      *)
(* (memory/retrieval.py) and retrieve_experience_for_cell of the           *)
(* experience memory (memory/experience.py).  Both filter the items of a   *)
(* snapshot, rank those that apply and take them in that order while the   *)
(* block they are rendered into stays within three bounds.                 *)
(*                                                                         *)
(* The steps follow the life of a memory: one more item is promoted into   *)
(* the next snapshot, or a configuration allows one more item or one more  *)
(* byte.  A block is as long as its envelope and its items together.       *)
(***************************************************************************)
EXTENDS Integers, Sequences, FiniteSets, FiniteSetsExt, SequencesExt

CONSTANTS
  Memory,       \* safe memory items: id, world, dsl, scope, terms, size
  Lessons,      \* promoted lessons: id, family, gain, size
  Query,        \* the public task: kind, world, dsl and its terms
  Cell,         \* the representation family of the selected archive cell
  Envelope,     \* bytes of the block without items
  MaxItems, MaxBytes, MaxTokens   \* bounds the configurations reach

RetrievalConstants ==
  /\ \A x, y \in Memory : x.id = y.id => x = y
  /\ \A x, y \in Lessons : x.id = y.id => x = y
  /\ \A x \in Memory \cup Lessons : x.id \in Nat /\ x.size \in Nat \ {0}
  /\ {Envelope, MaxItems, MaxBytes, MaxTokens} \subseteq Nat

VARIABLES
  kind,       \* which of the two memories
  snapshot,   \* the promoted items
  bounds      \* max_items, max_bytes and max_tokens

vars == <<kind, snapshot, bounds>>

-----------------------------------------------------------------------------
(* Which items apply. *)

(* _eligible: the first condition that fails is the reason.                  *)
MemoryReason(item) ==
  IF Query.kind # "elementary" THEN "world-type-mismatch"
  ELSE IF item.world # Query.world THEN "world-version-mismatch"
  ELSE IF item.dsl # Query.dsl THEN "dsl-version-mismatch"
  ELSE IF item.scope \notin {"global-f0", Query.world} THEN "scope-not-publicly-applicable"
  ELSE "eligible"

LessonReason(lesson) ==
  IF lesson.family = Cell THEN "eligible" ELSE "archive-representation-family-mismatch"

Reason(x) == IF kind = "memory" THEN MemoryReason(x) ELSE LessonReason(x)

Eligible == {x \in snapshot : Reason(x) = "eligible"}

-----------------------------------------------------------------------------
(* Ranking: the shared terms of an item and the public task, or the gain a   *)
(* lesson was validated with; ties are broken by the identifier.             *)
Score(x) == IF kind = "memory" THEN Cardinality(Query.terms \cap x.terms) ELSE x.gain

Before(x, y) == Score(x) > Score(y) \/ (Score(x) = Score(y) /\ x.id < y.id)

Best(items) == CHOOSE x \in items : \A y \in items \ {x} : Before(x, y)

(* The eligible items in their order.                                        *)
Ranked ==
  LET ranked[items \in SUBSET Eligible] ==
        IF items = {} THEN <<>> ELSE <<Best(items)>> \o ranked[items \ {Best(items)}]
  IN ranked[Eligible]

-----------------------------------------------------------------------------
(* Selection. *)

BlockSize(chosen) == Envelope + MapThenSumSet(LAMBDA x : x.size, chosen)

(* Why an item is not added to those chosen so far, or "fits".               *)
Obstacle(chosen, x) ==
  IF Cardinality(chosen) >= bounds.items THEN "item-bound"
  ELSE IF BlockSize(chosen \cup {x}) > bounds.bytes THEN "byte-bound"
  ELSE IF BlockSize(chosen \cup {x}) > bounds.tokens THEN "conservative-token-bound"
  ELSE "fits"

Nothing == [chosen |-> {}, excluded |-> {}]

(* Mutant: the first item that does not fit ends the selection. *)
ConsiderNoFurther(sofar, x) ==
  IF sofar.excluded # {} THEN [sofar EXCEPT !.excluded = @ \cup {<<x.id, "item-bound">>}]
  ELSE LET why == Obstacle(sofar.chosen, x)
       IN IF why = "fits" THEN [sofar EXCEPT !.chosen = @ \cup {x}]
          ELSE [sofar EXCEPT !.excluded = @ \cup {<<x.id, why>>}]

(* One turn of the loop over the ranked items.                               *)
Consider(sofar, x) ==
  LET why == Obstacle(sofar.chosen, x)
  IN IF why = "fits" THEN [sofar EXCEPT !.chosen = @ \cup {x}]
     ELSE [sofar EXCEPT !.excluded = @ \cup {<<x.id, why>>}]

Retrieval ==
  LET ranked == Ranked
      after[i \in 0..Len(ranked)] ==
        IF i = 0 THEN Nothing ELSE Consider(after[i - 1], ranked[i])
  IN after[Len(ranked)]

Selected == Retrieval.chosen
Exclusions == Retrieval.excluded \cup {<<x.id, Reason(x)>> : x \in snapshot \ Eligible}

(* The call raises: not even the block of the selection fits.                *)
Refuses(chosen) == BlockSize(chosen) > bounds.bytes \/ BlockSize(chosen) > bounds.tokens

-----------------------------------------------------------------------------
Promotable == IF kind = "memory" THEN Memory ELSE Lessons

Init ==
  /\ kind \in {"memory", "experience"}
  /\ snapshot = {}
  /\ bounds = [items |-> 0, bytes |-> 0, tokens |-> 0]

Promote(x) ==
  /\ x \notin snapshot
  /\ snapshot' = snapshot \cup {x}
  /\ UNCHANGED <<kind, bounds>>

AllowItem ==
  /\ bounds.items < MaxItems
  /\ bounds' = [bounds EXCEPT !.items = @ + 1]
  /\ UNCHANGED <<kind, snapshot>>

AllowByte ==
  /\ bounds.bytes < MaxBytes
  /\ bounds' = [bounds EXCEPT !.bytes = @ + 1]
  /\ UNCHANGED <<kind, snapshot>>

AllowToken ==
  /\ bounds.tokens < MaxTokens
  /\ bounds' = [bounds EXCEPT !.tokens = @ + 1]
  /\ UNCHANGED <<kind, snapshot>>

Next == (\E x \in Promotable : Promote(x)) \/ AllowItem \/ AllowByte \/ AllowToken

Spec == Init /\ [][Next]_vars

-----------------------------------------------------------------------------
RetrievalTypeOK ==
  /\ kind \in {"memory", "experience"}
  /\ snapshot \subseteq Promotable
  /\ bounds \in [items : 0..MaxItems, bytes : 0..MaxBytes, tokens : 0..MaxTokens]
  /\ Range(Ranked) = Eligible

(***************************************************************************)
(* Properties.                                                             *)
(***************************************************************************)

(* Every item of the snapshot is either shown or excluded for exactly one    *)
(* reason: the record of a retrieval accounts for the whole memory.          *)
EveryItemAccounted ==
  LET shown == Selected
      told  == Exclusions
  IN \A x \in snapshot :
       Cardinality({e \in told : e[1] = x.id}) = IF x \in shown THEN 0 ELSE 1

(* What may be shown for this query and these bounds.                        *)
Applicable ==
  {x \in snapshot :
     IF kind = "experience" THEN x.family = Cell
     ELSE Query.kind = "elementary" /\ x.world = Query.world /\ x.dsl = Query.dsl
          /\ x.scope \in {"global-f0", Query.world}}

Fitting ==
  {S \in SUBSET Applicable :
     Cardinality(S) <= bounds.items /\ BlockSize(S) <= Min({bounds.bytes, bounds.tokens})}

(* The best ranked item on which two selections differ is in the first.      *)
Better(S, T) ==
  \E x \in S \ T : \A y \in T \ S : Score(y) < Score(x) \/ (Score(y) = Score(x) /\ x.id < y.id)

(* The loop finds the best of all selections that apply and fit: no item is  *)
(* passed over for worse ones, and none that still fits is left out.         *)
SelectionIsBest ==
  LET shown == Selected
      fitting == Fitting
  IN ~ Refuses(shown) => /\ shown \in fitting
                         /\ \A S \in fitting : ~ Better(S, shown)

(* A larger item bound, and an item that does not apply or scores below all  *)
(* others, take nothing away from what was shown.                            *)
NothingTaken ==
  LET added == snapshot' \ snapshot
  IN bounds'.bytes = bounds.bytes /\ bounds'.tokens = bounds.tokens
     /\ (\A x \in added : Reason(x) # "eligible" \/ \A y \in Eligible : Score(x) < Score(y))
     => Selected \subseteq Selected'
=============================================================================
