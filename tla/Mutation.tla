------------------------------ MODULE Mutation ------------------------------
(***************************************************************************)
(* The operators that make new programs of old ones (search/operators.py)  *)
(* and the exact oracle that judges them (oracle/exact.py).  The draws of  *)
(* the counter generator are nondeterministic.  Which programs are parents *)
(* is for the archive (Phase3Run); here an emitted program is the next one *)
(* and is crossed with the programs the search started from.               *)
(***************************************************************************)
EXTENDS Language

CONSTANTS
  Seeds,                    \* the programs the search starts from
  Partners,                 \* bound: those of them that are second parents
  MaxDepth, MaxNodes,       \* AstLimits
  DrawnInts, DrawnMasks,    \* bound: constants and masks in drawn syntax
  DrawnDepth,               \* bound: depth of drawn syntax, 3 in the code
  MaxAttempts,              \* bound: attempts in a row
  Rules,                    \* hidden rules, as truth tables
  Lattice                   \* the initial state of the locked rollout

MutationConstants ==
  /\ Partners \subseteq Seeds
  /\ \A e \in Seeds : e[1] \in BitExpr /\ WellTyped(e)
  /\ MaxDepth \in Nat \ {0} /\ MaxNodes \in Nat \ {0} /\ DrawnDepth \in Nat \ {0}
  /\ DrawnInts \subseteq SmallInts /\ DrawnMasks \subseteq Masks
  /\ MaxAttempts \in Nat
  /\ Rules \subseteq [1..8 -> Bits] /\ Lattice \in Seq(Bits) \ {<<>>}

VARIABLES
  parent,     \* the canonical program that was changed last
  source,     \* what the last operator made of it
  canonical,  \* and its canonical form
  attempts,
  hidden      \* the hidden rule

vars == <<parent, source, canonical, attempts, hidden>>

-----------------------------------------------------------------------------
(* Paths and subtrees. *)

RECURSIVE Paths(_), Subtree(_, _), ReplaceAt(_, _, _)

(* typed_paths.                                                              *)
Paths(e) ==
  {<<>>} \cup UNION {{<<k>> \o p : p \in Paths(Children(e)[k])} : k \in 1..Arity(e)}

Subtree(e, path) ==
  IF path = <<>> THEN e ELSE Subtree(Children(e)[Head(path)], Tail(path))

ReplaceAt(e, path, replacement) ==
  IF path = <<>> THEN replacement
  ELSE Rebuilt(e, [Children(e) EXCEPT ![Head(path)] = ReplaceAt(@, Tail(path), replacement)])

-----------------------------------------------------------------------------
(* Drawn syntax. *)

RECURSIVE Drawn(_, _)

(* _generated_expr, every draw.                                              *)
Drawn(kind, depth) ==
  LET below(k) == Drawn(k, depth - 1)
      argument == Drawn(IntExpr, IF depth > 1 THEN depth - 1 ELSE 1)
  IN CASE kind = BitExpr ->
            {<<"Const", v>> : v \in Bits} \cup {<<"At", o>> : o \in Offsets} \cup
            (IF depth = 1 THEN {}
             ELSE {<<op, m>> : op \in {"Parity", "Majority"}, m \in DrawnMasks}
                    \cup {<<"Not", x>> : x \in below(BitExpr)}
                    \cup {<<op, x, y>> : op \in {"And", "Or", "Xor"}, x, y \in below(BitExpr)}
                    \cup {<<"If", p, x, y>> : p \in below(PredExpr), x, y \in below(BitExpr)})
       [] kind = IntExpr ->
            {<<"IntConst", v>> : v \in DrawnInts} \cup {<<"Count", m>> : m \in DrawnMasks} \cup
            (IF depth = 1 THEN {} ELSE {<<"AddConst", x, v>> : x \in below(IntExpr), v \in DrawnInts})
       [] kind = PredExpr ->
            {<<op, x, y>> : op \in {"Eq", "Le", "Ge"}, x, y \in argument}
              \cup {<<"Between", x, y, z>> : x, y, z \in argument}

-----------------------------------------------------------------------------
(* What an operator may put in the place of a node. *)

Next7(v) == ((v + 3 + 1) % 7) - 3

(* _local_edit.                                                              *)
LocalEdits(e) ==
  CASE e[1] = "Const" -> {<<"Const", 1 - e[2]>>}
    [] e[1] = "At" -> {<<"At", o>> : o \in Offsets \ {e[2]}}
    [] e[1] = "Not" -> {e[2]}
    [] e[1] \in {"And", "Or", "Xor"} ->
         {<<op, e[2], e[3]>> : op \in {"And", "Or", "Xor"} \ {e[1]}}
    [] e[1] = "If" -> {<<"If", e[2], e[4], e[3]>>}
    [] e[1] = "Parity" -> {<<"Majority", e[2]>>}
    [] e[1] = "Majority" -> {<<"Parity", e[2]>>}
    [] e[1] = "TruthTable" -> {<<"TruthTable", [e[2] EXCEPT ![k] = 1 - @]>> : k \in 1..8}
    [] e[1] = "IntConst" -> {<<"IntConst", Next7(e[2])>>}
    [] e[1] = "Count" -> {<<"Count", m>> : m \in Masks \ {e[2]}}
    [] e[1] = "AddConst" -> {<<"AddConst", e[2], Next7(e[3])>>}
    [] e[1] \in {"Eq", "Le", "Ge"} ->
         {<<op, e[2], e[3]>> : op \in {"Eq", "Le", "Ge"} \ {e[1]}}
    [] e[1] = "Between" -> {<<"Between", e[2], e[4], e[3]>>}

(* _simplification.                                                          *)
Simplified(e) ==
  LET compatible == {Children(e)[k] : k \in {j \in 1..Arity(e) : Kind(Children(e)[j]) = Kind(e)}}
  IN CASE compatible # {} -> compatible
       [] compatible = {} /\ Kind(e) = BitExpr -> {<<"Const", v>> : v \in Bits}
       [] compatible = {} /\ Kind(e) = IntExpr -> {<<"IntConst", 0>>}
       [] compatible = {} /\ Kind(e) = PredExpr -> {<<"Eq", <<"IntConst", 0>>, <<"IntConst", 0>>>>}

(* The subtrees of the second parent that fit.                               *)
Mates(e, mate) == {x \in {Subtree(mate, q) : q \in Paths(mate)} : Kind(x) = Kind(e)}

SmallerOf(a, b) == IF a <= b THEN a ELSE b

-----------------------------------------------------------------------------
(* _finalize. *)

WithinLimits(e) == Nodes(e) <= MaxNodes /\ Depth(e) <= MaxDepth

(* encode refuses an expression that is not canonical.                       *)
Encodable(e) == e = Canon(e)

Outcome ==
  CASE ~ (WithinLimits(canonical) /\ Encodable(canonical)) -> "rejected"
    [] WithinLimits(canonical) /\ Encodable(canonical) /\ canonical = parent -> "no-op"
    [] OTHER -> "emitted"

(* The program that is changed next.                                         *)
Current == IF Outcome = "emitted" THEN canonical ELSE parent

(* An attempt on the current program.                                        *)
Attempt(path, replacement) ==
  /\ attempts < MaxAttempts
  /\ attempts' = attempts + 1
  /\ parent' = Current
  /\ source' = ReplaceAt(Current, path, replacement)
  /\ canonical' = Canon(source')
  /\ UNCHANGED hidden

LocalMutation ==
  \E path \in Paths(Current) :
    \E x \in LocalEdits(Subtree(Current, path)) : Attempt(path, x)

SubtreeReplacement ==
  \E path \in Paths(Current) :
    LET remaining == IF MaxDepth - Len(path) > 1 THEN MaxDepth - Len(path) ELSE 1
    IN \E x \in Drawn(Kind(Subtree(Current, path)), SmallerOf(DrawnDepth, remaining)) :
         Attempt(path, x)

Simplification ==
  \E path \in Paths(Current) :
    \E x \in Simplified(Subtree(Current, path)) : Attempt(path, x)

Crossover ==
  \E path \in Paths(Current), mate \in Partners :
    \E x \in Mates(Subtree(Current, path), Canon(mate)) : Attempt(path, x)

Init ==
  /\ \E e \in Seeds : source = e /\ canonical = Canon(e) /\ parent = Canon(e)
  /\ attempts = 0
  /\ hidden \in Rules

Next == LocalMutation \/ SubtreeReplacement \/ Simplification \/ Crossover

Spec == Init /\ [][Next]_vars

-----------------------------------------------------------------------------
(* The exact oracle. *)

Index(n) == 4 * n[-1] + 2 * n[0] + n[1] + 1

(* The neighbourhood of a cell of a ring, as _locked_rollout_matches has it. *)
Around(state, i) ==
  LET size == Len(state)
  IN [o \in Offsets |-> CASE o = -1 -> state[((i - 2) % size) + 1] [] o = 0 -> state[i]
                          [] o = 1 -> state[(i % size) + 1]]

(* scalar_step of the hidden rule.                                           *)
ElementaryStep(state) ==
  LET at(i) == state[((i - 1) % Len(state)) + 1]
  IN [i \in 1..Len(state) |-> hidden[4 * at(i - 1) + 2 * at(i) + at(i + 1) + 1]]

(* The locked rollout of the hidden rule, and its check with a candidate.    *)
Horizon == Len(Lattice)
RECURSIVE Locked(_)
Locked(t) == IF t = 0 THEN Lattice ELSE ElementaryStep(Locked(t - 1))

RolloutPass(e) ==
  \A t \in 1..Horizon :
    [i \in 1..Len(Lattice) |-> Value(e, Around(Locked(t - 1), i))] = Locked(t)

Errors(e) ==
  {n \in Neighborhoods : Value(e, n) # hidden[Index(n)]}
Exact(e) == Errors(e) = {} /\ RolloutPass(e)

-----------------------------------------------------------------------------
MutationTypeOK ==
  /\ source[1] \in BitExpr /\ WellTyped(source)
  /\ canonical[1] \in BitExpr /\ WellTyped(canonical)
  /\ parent[1] \in BitExpr /\ WellTyped(parent)
  /\ attempts \in 0..MaxAttempts /\ hidden \in Rules

(* Whatever operators are applied in whatever order, what they make is only  *)
(* rejected because it is too large: the canonical form of every expression  *)
(* they can make is one that encode accepts, so that no attempt is lost for  *)
(* a form that is not final.                                                 *)
RejectedForSizeOnly ==
  Outcome = "rejected" => ~ WithinLimits(canonical)

(* A program is judged and stored by its canonical form; that form means     *)
(* what the expression meant.                                                *)
MeaningIsKept == Meaning(canonical) = Meaning(source)

(* Canonicalization never makes a program dearer or larger, as its document  *)
(* and the cost order of the enumerator rely on.                             *)
CanonNeverGrows ==
  /\ Length(canonical) <= Length(source)
  /\ Nodes(canonical) <= Nodes(source) /\ Depth(canonical) <= Depth(source)

RECURSIVE Commuted(_)
Commuted(e) ==
  LET parts == [k \in 1..Arity(e) |-> Commuted(Children(e)[k])]
  IN IF e[1] \in {"And", "Or", "Xor", "Eq"} THEN <<e[1], parts[2], parts[1]>> ELSE Rebuilt(e, parts)

(* Two expressions that differ only in the order of commuted operands, at    *)
(* any depth, are one candidate.                                             *)
IdentityIgnoresOrder == Canon(Commuted(source)) = canonical

(* The code of a program is the code of nothing else, and no program is      *)
(* found at the beginning of it: a stream is cut in one way only.            *)
CodeIsDecodable ==
  LET code == Code(canonical)
  IN /\ Parse(code, 1, BitExpr) = {<<canonical, Len(code) + 1>>}
     /\ Decode(code) = {canonical}

(* The oracle's two tests agree: a program without local errors passes the   *)
(* locked rollout, so that every program of the hidden rule's meaning is     *)
(* exact.                                                                    *)
RolloutFollows == Errors(source) = {} => RolloutPass(source)
=============================================================================
