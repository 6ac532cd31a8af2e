----------------------------- MODULE Enumeration -----------------------------
(***************************************************************************)
(* The enumerator of programs in order of their code length                *)
(* (proposer/enumerative.py).  It builds expressions bottom-up from those  *)
(* it has kept and keeps one expression of each meaning.  A step processes *)
(* one kind at one cost.  Of several new expressions of one meaning and    *)
(* one length the code keeps the first in the order of their JSON; here    *)
(* any fixed one is kept.  Operators of the alphabet are indexed by their  *)
(* kind, as in Language.                                                   *)
(***************************************************************************)
EXTENDS Language
LOCAL INSTANCE FiniteSetsExt

CONSTANTS
  MaxBits, MaxDepth, MaxNodes,   \* EnumerationBounds
  Caps                           \* the values of max_candidates tried

EnumerationConstants ==
  /\ MaxBits \in Nat \ {0} /\ MaxDepth \in Nat \ {0} /\ MaxNodes \in Nat \ {0}
  /\ Caps \subseteq Nat \ {0}

Kinds == {IntExpr, PredExpr, BitExpr}
Costs == 1..MaxBits

VARIABLES
  cap,       \* max_candidates
  kind,      \* the kind and the cost that are processed next
  cost,
  pool,      \* int_by_cost, pred_by_cost and bit_by_cost
  seen,      \* seen_semantics: the meanings kept of a kind
  examined,
  stopped

vars == <<cap, kind, cost, pool, seen, examined, stopped>>

At(k, c) == IF c \in Costs THEN pool[k][c] ELSE {}

(* Sequences of kept expressions of these kinds, of this length together.    *)
RECURSIVE Parts(_, _)
Parts(kinds, bits) ==
  IF kinds = <<>> THEN (IF bits = 0 THEN {<<>>} ELSE {})
  ELSE UNION {{<<x>> \o rest : x \in At(Head(kinds), c), rest \in Parts(Tail(kinds), bits - c)} :
                c \in {d \in Costs : d <= bits /\ At(Head(kinds), d) # {}}}

Endings(op) == IF HasField(op) THEN {<<v>> : v \in Fields(op)} ELSE {<<>>}
FieldLength(op) == IF HasField(op) THEN Len(FieldBits(op, CHOOSE v \in Fields(op) : TRUE)) ELSE 0

(* _int_candidates, _pred_candidates and _bit_candidates.                    *)
Candidates(k, c) ==
  UNION {{<<op>> \o parts \o ending :
            parts \in Parts(ChildKinds(op), c - Len(OPCODES[op]) - FieldLength(op)),
            ending \in Endings(op)} : op \in k \ {"TruthTable"}}

(* The first of the candidates, in some fixed order, up to the cap.          *)
RECURSIVE FirstOf(_, _)
FirstOf(S, n) ==
  IF n = 0 THEN {} ELSE LET x == CHOOSE y \in S : TRUE IN {x} \cup FirstOf(S \ {x}, n - 1)

Examined(raw) ==
  IF examined + Cardinality(raw) <= cap THEN raw ELSE FirstOf(raw, cap - examined)

Bounded(e) == Nodes(e) <= MaxNodes /\ Depth(e) <= MaxDepth

(* Mutant: the meanings of all kinds are looked up in one table. *)
NewInOneTable(k, m) == \A j \in Kinds : m \notin seen[j]

New(k, m) == m \notin seen[k]

(* _process: canonical forms that cost what is processed; the others were    *)
(* met before.  One of each new meaning is kept.                             *)
Process ==
  /\ cost <= MaxBits /\ ~ stopped
  /\ \E raw \in {Candidates(kind, cost)} :
       \E taken \in {Examined(raw)} :
         \E forms \in {{e \in {Canonical(x) : x \in taken} : Bounded(e) /\ Length(e) = cost}} :
           \E new \in {{r \in {<<Meaning(e), e>> : e \in forms} : New(kind, r[1])}} :
             LET meanings == {r[1] : r \in new}
                 kept(m) == (CHOOSE r \in new : r[1] = m)[2]
             IN /\ pool' = [pool EXCEPT ![kind][cost] = {kept(m) : m \in meanings}]
                /\ seen' = [seen EXCEPT ![kind] = @ \cup meanings]
                /\ examined' = examined + Cardinality(taken)
                /\ stopped' = (taken # raw)

Advance ==
  /\ kind' = (CASE kind = IntExpr -> PredExpr [] kind = PredExpr -> BitExpr [] kind = BitExpr -> IntExpr)
  /\ cost' = IF kind = BitExpr THEN cost + 1 ELSE cost

Init ==
  /\ cap \in Caps
  /\ kind = IntExpr /\ cost = 1
  /\ pool = [k \in Kinds |-> [c \in Costs |-> {}]]
  /\ seen = [k \in Kinds |-> {}]
  /\ examined = 0 /\ stopped = FALSE

Next == Process /\ Advance /\ UNCHANGED cap

Spec == Init /\ [][Next]_vars

-----------------------------------------------------------------------------
Kept(k) == UNION {pool[k][c] : c \in Costs}
programs == Kept(BitExpr)

EnumerationTypeOK ==
  /\ cap \in Caps /\ kind \in Kinds /\ cost \in 1..(MaxBits + 1)
  /\ \A k \in Kinds, c \in Costs : \A e \in pool[k][c] : Kind(e) = k /\ WellTyped(e)
  /\ examined \in Nat /\ stopped \in BOOLEAN

(* What is kept for a meaning is a program of its own code: the expressions  *)
(* of a pool are canonical, have that meaning and no other one of the pool,  *)
(* and cost what their pool says.                                            *)
KeptAreRepresentatives ==
  \A k \in Kinds :
    /\ \A c \in Costs : \A e \in pool[k][c] : Canonical(e) = e /\ Length(e) = c
    /\ {Meaning(e) : e \in Kept(k)} = seen[k]
    /\ Cardinality(Kept(k)) = Cardinality(seen[k])

(* The kind processed last, and its cost.                                    *)
Done == CASE kind = IntExpr -> BitExpr [] kind = PredExpr -> IntExpr [] kind = BitExpr -> PredExpr
DoneCost == IF kind = IntExpr THEN cost - 1 ELSE cost

Place(k) == CASE k = IntExpr -> 1 [] k = PredExpr -> 2 [] k = BitExpr -> 3

(* The kept expressions that can be the k-th child of a class.               *)
Child(op, k, c) == pool[ChildKinds(op)[k]][c]

(* Nothing cheaper is missed.  Whatever can be put together from what was    *)
(* kept, with a code of the cost just done, has a meaning for which a        *)
(* program of at most that cost is kept; as every expression can be put      *)
(* together from parts no dearer than its own, the kept program of a meaning *)
(* is the cheapest of all, although every part of another shape was thrown   *)
(* away.                                                                     *)
NothingCheaperIsMissed ==
  ~ stopped =>
    \A op \in Done \ {"TruthTable"} : \A ending \in Endings(op) :
      LET kept(parts) == Meaning(<<op>> \o parts \o ending) \in seen[Done]
          rest == DoneCost - Len(OPCODES[op]) - FieldLength(op)
      IN CASE Len(ChildKinds(op)) = 0 -> rest = 0 => kept(<<>>)
           [] Len(ChildKinds(op)) = 1 ->
                rest \in Costs => \A x \in Child(op, 1, rest) : kept(<<x>>)
           [] Len(ChildKinds(op)) = 2 ->
                \A c \in Costs : rest - c \in Costs =>
                  \A x \in Child(op, 1, c), y \in Child(op, 2, rest - c) : kept(<<x, y>>)
           [] Len(ChildKinds(op)) = 3 ->
                \A c, d \in Costs : rest - c - d \in Costs =>
                  \A x \in Child(op, 1, c), y \in Child(op, 2, d), z \in Child(op, 3, rest - c - d) :
                    kept(<<x, y, z>>)

(* A search that ends says truly whether something was left out: it is       *)
(* stopped exactly if some candidate of the batches it came to was not       *)
(* examined, also when the last one just fits under the cap.                 *)
ExhaustionIsTold ==
  (stopped \/ cost > MaxBits) =>
    LET batches == {b \in Kinds \X Costs : b[2] < DoneCost \/ (b[2] = DoneCost /\ Place(b[1]) <= Place(Done))}
        all == MapThenSumSet(LAMBDA b : Cardinality(Candidates(b[1], b[2])), batches)
    IN examined <= cap /\ (stopped <=> examined < all)
==============================================================================
