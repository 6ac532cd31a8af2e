------------------------------ MODULE Language ------------------------------
(***************************************************************************)
(* The candidate language (dsl/): typed expressions over the three cells   *)
(* of a neighbourhood, their meaning, their canonical form and their       *)
(* prefix code.                                                            *)
(*                                                                         *)
(* An expression is <<op, children..., field>>, where op is the name of    *)
(* its class.  A mask is a set of offsets.  The order of commuted operands *)
(* is that of the codes instead of that of class names and JSON: any total *)
(* order will do.                                                          *)
(***************************************************************************)
EXTENDS Integers, Sequences, FiniteSets
LOCAL INSTANCE SequencesExt

Offsets == {-1, 0, 1}
Masks == SUBSET Offsets \ {{}}
SmallInts == (-3)..3
Bits == {0, 1}

BitExpr == {"Const", "At", "Not", "And", "Or", "Xor", "If", "Parity", "Majority", "TruthTable"}
IntExpr == {"IntConst", "Count", "AddConst"}
PredExpr == {"Eq", "Le", "Ge", "Between"}

Kind(e) == CASE e[1] \in BitExpr -> BitExpr [] e[1] \in IntExpr -> IntExpr [] e[1] \in PredExpr -> PredExpr

(* The kinds of the children of a node, in order.                            *)
ChildKinds(op) ==
  CASE op = "Not" -> <<BitExpr>>
    [] op \in {"And", "Or", "Xor"} -> <<BitExpr, BitExpr>>
    [] op = "If" -> <<PredExpr, BitExpr, BitExpr>>
    [] op = "AddConst" -> <<IntExpr>>
    [] op \in {"Eq", "Le", "Ge"} -> <<IntExpr, IntExpr>>
    [] op = "Between" -> <<IntExpr, IntExpr, IntExpr>>
    [] OTHER -> <<>>

(* What the field of a node may hold.                                        *)
Fields(op) ==
  CASE op = "Const" -> Bits
    [] op = "At" -> Offsets
    [] op \in {"Parity", "Majority", "Count"} -> Masks
    [] op \in {"IntConst", "AddConst"} -> SmallInts
    [] op = "TruthTable" -> [1..8 -> Bits]
    [] OTHER -> {}

HasField(op) == op \in {"Const", "At", "Parity", "Majority", "TruthTable"} \cup {"IntConst", "Count", "AddConst"}
Arity(e) == Len(ChildKinds(e[1]))
Children(e) == SubSeq(e, 2, 1 + Arity(e))
Field(e) == e[Len(e)]
Rebuilt(e, parts) == <<e[1]>> \o parts \o SubSeq(e, Arity(e) + 2, Len(e))

RECURSIVE WellTyped(_), Nodes(_), Depth(_)

(* What the constructors accept.                                             *)
WellTyped(e) ==
  /\ HasField(e[1]) => Field(e) \in Fields(e[1])
  /\ \A k \in 1..Arity(e) : Kind(Children(e)[k]) = ChildKinds(e[1])[k] /\ WellTyped(Children(e)[k])

(* ast_size.                                                                 *)
Nodes(e) == 1 + FoldLeft(+, 0, [k \in 1..Arity(e) |-> Nodes(Children(e)[k])])
Depth(e) ==
  1 + FoldLeft(LAMBDA d, x : IF x > d THEN x ELSE d, 0, [k \in 1..Arity(e) |-> Depth(Children(e)[k])])

-----------------------------------------------------------------------------
(* Meaning: the value of an expression in every neighbourhood. *)

Neighborhoods == [Offsets -> Bits]
Ones(mask, n) == Cardinality({o \in mask : n[o] = 1})

RECURSIVE Value(_, _)
Value(e, n) ==
  CASE e[1] \in {"Const", "IntConst"} -> e[2]
    [] e[1] = "At" -> n[e[2]]
    [] e[1] = "Not" -> 1 - Value(e[2], n)
    [] e[1] = "And" -> Value(e[2], n) * Value(e[3], n)
    [] e[1] = "Or" -> IF Value(e[2], n) = 1 THEN 1 ELSE Value(e[3], n)
    [] e[1] = "Xor" -> (Value(e[2], n) + Value(e[3], n)) % 2
    [] e[1] = "If" -> IF Value(e[2], n) THEN Value(e[3], n) ELSE Value(e[4], n)
    [] e[1] = "Parity" -> Ones(e[2], n) % 2
    [] e[1] = "Majority" -> IF Ones(e[2], n) >= (Cardinality(e[2]) + 1) \div 2 THEN 1 ELSE 0
    [] e[1] = "TruthTable" -> e[2][4 * n[-1] + 2 * n[0] + n[1] + 1]
    [] e[1] = "Count" -> Ones(e[2], n)
    [] e[1] = "AddConst" -> Value(e[2], n) + e[3]
    [] e[1] = "Eq" -> Value(e[2], n) = Value(e[3], n)
    [] e[1] = "Le" -> Value(e[2], n) <= Value(e[3], n)
    [] e[1] = "Ge" -> Value(e[2], n) >= Value(e[3], n)
    [] e[1] = "Between" -> /\ Value(e[3], n) <= Value(e[2], n)
                           /\ Value(e[2], n) <= Value(e[4], n)

(* truth_table, int_truth_table and predicate_truth_table.                   *)
Meaning(e) == [n \in Neighborhoods |-> Value(e, n)]

-----------------------------------------------------------------------------
(* The prefix code. *)

OPCODES ==
  [Const |-> <<0,0,0>>, At |-> <<0,0,1>>,
   Not |-> <<0,1,0,0>>, And |-> <<0,1,0,1>>, Or |-> <<0,1,1,0>>, Xor |-> <<0,1,1,1>>,
   If |-> <<1,0,0,0,0>>, Parity |-> <<1,0,0,0,1>>, Majority |-> <<1,0,0,1,0>>,
   IntConst |-> <<1,0,0,1,1>>, Count |-> <<1,0,1,0,0>>, AddConst |-> <<1,0,1,0,1>>,
   Eq |-> <<1,0,1,1,0>>, Le |-> <<1,0,1,1,1>>, Ge |-> <<1,1,0,0,0>>, Between |-> <<1,1,0,0,1>>,
   TruthTable |-> <<1,1,1,1,1,1,1,1,1,1,0>>]

(* _offset_bits, _mask_bits and _small_int_bits.                             *)
FieldBits(op, v) ==
  CASE op = "Const" -> <<v>>
    [] op = "At" -> <<IF v = 1 THEN 1 ELSE 0, IF v = 0 THEN 1 ELSE 0>>
    [] op \in {"Parity", "Majority", "Count"} ->
         [k \in 1..3 |-> IF k - 2 \in v THEN 1 ELSE 0]
    [] op \in {"IntConst", "AddConst"} -> [k \in 1..3 |-> ((v + 3) \div 2 ^ (3 - k)) % 2]
    [] op = "TruthTable" -> v

RECURSIVE Code(_)
Code(e) ==
  OPCODES[e[1]] \o FlattenSeq([k \in 1..Arity(e) |-> Code(Children(e)[k])])
    \o (IF HasField(e[1]) THEN FieldBits(e[1], Field(e)) ELSE <<>>)

(* value_encoded_length.                                                     *)
Length(e) == Len(Code(e))

(* Where the code of two different expressions first differs decides.        *)
Before(a, b) ==
  LET x == Code(a)
      y == Code(b)
  IN \E i \in 1..Len(x) :
       /\ i <= Len(y) /\ x[i] < y[i]
       /\ \A j \in 1..(i - 1) : x[j] = y[j]

-----------------------------------------------------------------------------
(* Canonical forms. *)

(* canonicalize_int.                                                         *)
RECURSIVE CanonInt(_)
CanonInt(e) ==
  IF e[1] # "AddConst" THEN e
  ELSE LET child == CanonInt(e[2])
           sum == (IF child[1] = "Count" THEN 0 ELSE Field(child)) + e[3]
       IN CASE e[3] = 0 -> child
            [] e[3] # 0 /\ child[1] = "IntConst" /\ sum \in SmallInts -> <<"IntConst", sum>>
            [] e[3] # 0 /\ child[1] = "AddConst" /\ sum \in SmallInts ->
                 CanonInt(<<"AddConst", child[2], sum>>)
            [] OTHER -> <<"AddConst", child, e[3]>>

Ordered(op, a, b) == IF Before(b, a) THEN <<op, b, a>> ELSE <<op, a, b>>

CanonPred(e) ==
  LET parts == [k \in 1..Arity(e) |-> CanonInt(Children(e)[k])]
  IN IF e[1] = "Eq" THEN Ordered("Eq", parts[1], parts[2]) ELSE Rebuilt(e, parts)

(* _constant_predicate: both sides are constants.                            *)
IsConstant(p) == \A k \in 1..Arity(p) : Children(p)[k][1] = "IntConst"
Selected(p) == Value(p, [o \in Offsets |-> 0])

Zero == <<"Const", 0>>
One == <<"Const", 1>>

RECURSIVE Canon(_)

(* Not of a canonical expression.                                            *)
Negated(e) ==
  CASE e[1] = "Const" -> <<"Const", 1 - e[2]>>
    [] e[1] = "Not" -> e[2]
    [] OTHER -> <<"Not", e>>

(* Mutant: a disjunction with a constant keeps the operand whatever it is. *)
BinaryLoose(op, x, y) ==
  CASE x = y -> IF op = "Xor" THEN Zero ELSE x
    [] x # y /\ Zero \in {x, y} ->
         LET other == IF x = Zero THEN y ELSE x IN IF op = "And" THEN Zero ELSE other
    [] x # y /\ Zero \notin {x, y} /\ One \in {x, y} ->
         LET other == IF x = One THEN y ELSE x IN IF op = "Xor" THEN Canon(<<"Not", other>>) ELSE other
    [] OTHER -> Ordered(op, x, y)

(* And, Or and Xor of two canonical expressions.                             *)
Binary(op, x, y) ==
  CASE x = y -> IF op = "Xor" THEN Zero ELSE x
    [] x # y /\ Zero \in {x, y} ->
         LET other == IF x = Zero THEN y ELSE x IN IF op = "And" THEN Zero ELSE other
    [] x # y /\ Zero \notin {x, y} /\ One \in {x, y} ->
         LET other == IF x = One THEN y ELSE x
         IN (CASE op = "And" -> other [] op = "Or" -> One [] op = "Xor" -> Canon(<<"Not", other>>))
    [] OTHER -> Ordered(op, x, y)

Branch(p, then, else) ==
  CASE then = else -> then
    [] then # else /\ IsConstant(p) -> IF Selected(p) THEN then ELSE else
    [] OTHER -> <<"If", p, then, else>>

Canon(e) ==
  CASE e[1] \in {"Parity", "Majority"} ->
         IF Cardinality(e[2]) = 1 THEN <<"At", CHOOSE o \in e[2] : TRUE>> ELSE e
    [] e[1] = "Not" -> Negated(Canon(e[2]))
    [] e[1] \in {"And", "Or", "Xor"} -> Binary(e[1], Canon(e[2]), Canon(e[3]))
    [] e[1] = "If" -> Branch(CanonPred(e[2]), Canon(e[3]), Canon(e[4]))
    [] OTHER -> e

(* The canonical form of an expression of any kind.                          *)
Canonical(e) ==
  CASE Kind(e) = BitExpr -> Canon(e) [] Kind(e) = IntExpr -> CanonInt(e) [] Kind(e) = PredExpr -> CanonPred(e)

-----------------------------------------------------------------------------
(* decode: the expressions of which a bit string is the code.  A parse is    *)
(* <<e, position after it>>; there is at most one.                           *)

RECURSIVE Parse(_, _, _)

(* _Reader.take and opcode: the word stands at this position.                *)
Stands(word, bits, at) ==
  /\ at + Len(word) - 1 <= Len(bits)
  /\ SubSeq(bits, at, at + Len(word) - 1) = word

ParseSequence(bits, at, kinds) ==
  FoldLeft(LAMBDA parses, kind :
             UNION {{<<Append(p[1], q[1]), q[2]>> : q \in Parse(bits, p[2], kind)} : p \in parses},
           {<<<<>>, at>>}, kinds)

ParseField(bits, at, op) ==
  IF ~ HasField(op) THEN {<<<<>>, at>>}
  ELSE {<<<<v>>, at + Len(FieldBits(op, v))>> :
          v \in {w \in Fields(op) : Stands(FieldBits(op, w), bits, at)}}

Parse(bits, at, kind) ==
  UNION {UNION {{<<<<op>> \o p[1] \o f[1], f[2]>> : f \in ParseField(bits, p[2], op)} :
                  p \in ParseSequence(bits, at + Len(OPCODES[op]), ChildKinds(op))} :
           op \in {o \in kind : Stands(OPCODES[o], bits, at)}}

Decode(bits) ==
  {p[1] : p \in {q \in Parse(bits, 1, BitExpr) : q[2] = Len(bits) + 1 /\ q[1] = Canon(q[1])}}
=============================================================================
