----------------------------- MODULE ArchiveProofs -----------------------------
(***************************************************************************)
(* The two search mechanisms (search/archive.py), proved for any pool of   *)
(* candidates, any history of insertions and any size of the reserve.      *)
(***************************************************************************)
EXTENDS ArchiveHistory, WellFoundedInduction, TLAPS

-----------------------------------------------------------------------------
(* The order of members and the sort. *)

(* Every nonempty set of naturals has a least element.                       *)
LEMMA LeastNatural ==
  ASSUME NEW T, T \subseteq Nat, T # {}
  PROVE  \E x \in T : \A y \in T : x <= y
<1>1. PICK x \in T : \A y \in T : ~ (<<y, x>> \in OpToRel(<, Nat))
  BY WFMin, NatLessThanWellFounded
<1>2. ASSUME NEW y \in T PROVE x <= y
  <2>1. ~ (<<y, x>> \in OpToRel(<, Nat))
    BY <1>1
  <2>2. x \in Nat /\ y \in Nat
    OBVIOUS
  <2>3. ~ (y < x)
    BY <2>1, <2>2 DEF OpToRel
  <2> QED BY <2>2, <2>3
<1> QED BY <1>2

(* Better is a strict order of the members, total where identifiers differ.  *)
LEMMA BetterIsOrder ==
  ASSUME ArchiveConstants
  PROVE  /\ \A m \in Members : ~ Better(m, m)
         /\ \A m, n, o \in Members : Better(m, n) /\ Better(n, o) => Better(m, o)
         /\ \A m, n \in Members : m.id # n.id => Better(m, n) \/ Better(n, m)
         /\ \A m, n \in Members : Better(m, n) => RankOf[m.program] >= RankOf[n.program]
<1>1. \A m \in Members : /\ RankOf[m.program] \in Int /\ IdOrder[m.id] \in Int
                         /\ m.id \in Ids
  BY DEF Members, ArchiveConstants
<1>2. \A i, j \in Ids : IdOrder[i] = IdOrder[j] => i = j
  BY DEF ArchiveConstants
<1>3. \A m \in Members : ~ Better(m, m)
  BY <1>1 DEF Better
<1>4. \A m, n, o \in Members : Better(m, n) /\ Better(n, o) => Better(m, o)
  BY <1>1 DEF Better
<1>5. ASSUME NEW m \in Members, NEW n \in Members, m.id # n.id
      PROVE  Better(m, n) \/ Better(n, m)
  <2>1. IdOrder[m.id] # IdOrder[n.id]
    BY <1>1, <1>2, <1>5
  <2> QED BY <1>1, <2>1 DEF Better
<1>6. \A m, n \in Members : Better(m, n) => RankOf[m.program] >= RankOf[n.program]
  BY <1>1 DEF Better
<1> QED BY <1>3, <1>4, <1>5, <1>6

(* The members at the first n places of r, which differ, in order.           *)
SortedUpTo(r, n, s) ==
  /\ s \in [1..n -> Members]
  /\ \A i \in 1..n : \E j \in 1..n : s[i] = r[j]
  /\ \A j \in 1..n : \E i \in 1..n : s[i] = r[j]
  /\ \A i, j \in 1..n : i < j => Better(s[i], s[j])

(* One more member goes before the first one it is better than.              *)
LEMMA SortOneMore ==
  ASSUME ArchiveConstants, NEW n \in Nat, NEW r, \A i \in 1..(n + 1) : r[i] \in Members,
         \A i, j \in 1..(n + 1) : i # j => r[i].id # r[j].id,
         NEW s, SortedUpTo(r, n, s)
  PROVE  \E t : SortedUpTo(r, n + 1, t)
<1> DEFINE x == r[n + 1]
           T == {i \in 1..(n + 1) : i = n + 1 \/ Better(x, s[i])}
<1>1. PICK q \in T : \A y \in T : q <= y
  <2>1. n + 1 \in T
    OBVIOUS
  <2> HIDE DEF T
  <2>2. T \subseteq Nat
    BY DEF T
  <2> QED BY <2>1, <2>2, LeastNatural
<1>2. q \in 1..(n + 1) /\ \A i \in 1..(n + 1) : i < q => i # n + 1 /\ ~ Better(x, s[i])
  BY <1>1
<1>3. q # n + 1 => Better(x, s[q])
  BY <1>1
<1> HIDE DEF T
<1>4. /\ s \in [1..n -> Members]
      /\ \A i \in 1..n : \E j \in 1..n : s[i] = r[j]
      /\ \A j \in 1..n : \E i \in 1..n : s[i] = r[j]
      /\ \A i, j \in 1..n : i < j => Better(s[i], s[j])
  BY DEF SortedUpTo
<1>5. x \in Members
  OBVIOUS
<1>6. \A i \in 1..n : s[i].id # x.id
  <2> TAKE i \in 1..n
  <2>1. PICK j \in 1..n : s[i] = r[j]
    BY <1>4
  <2>2. j \in 1..(n + 1) /\ n + 1 \in 1..(n + 1) /\ j # n + 1
    OBVIOUS
  <2> QED BY <2>1, <2>2
<1> HIDE DEF x
<1>7. \A i \in 1..n : i < q => Better(s[i], x)
  <2> TAKE i \in 1..n
  <2> HAVE i < q
  <2>1. i \in 1..(n + 1)
    OBVIOUS
  <2>2. ~ Better(x, s[i])
    BY <1>2, <2>1
  <2> QED BY <2>2, <1>4, <1>5, <1>6, BetterIsOrder
<1>8. \A i \in 1..n : i >= q => Better(x, s[i])
  <2> TAKE i \in 1..n
  <2> HAVE i >= q
  <2>1. q \in 1..n /\ Better(x, s[q])
    BY <1>2, <1>3
  <2>2. CASE i = q
    BY <2>1, <2>2
  <2>3. CASE i # q
    <3>1. Better(s[q], s[i])
      BY <2>1, <2>3, <1>4
    <3> QED BY <2>1, <3>1, <1>4, <1>5, BetterIsOrder
  <2> QED BY <2>2, <2>3
<1> DEFINE t == [i \in 1..(n + 1) |-> IF i < q THEN s[i] ELSE IF i = q THEN x ELSE s[i - 1]]
<1>9. \A i \in 1..(n + 1) : /\ i < q => i \in 1..n /\ t[i] = s[i]
                            /\ i = q => t[i] = x
                            /\ i > q => i - 1 \in 1..n /\ i - 1 >= q /\ t[i] = s[i - 1]
  BY <1>2
<1>10. t \in [1..(n + 1) -> Members]
  BY <1>2, <1>4, <1>5
<1> HIDE DEF t
<1>11. ASSUME NEW i \in 1..(n + 1), NEW j \in 1..(n + 1), i < j
       PROVE  Better(t[i], t[j])
  <2>1. CASE j < q
    <3>1. i \in 1..n /\ j \in 1..n /\ t[i] = s[i] /\ t[j] = s[j]
      BY <2>1, <1>2, <1>9, <1>11
    <3> QED BY <3>1, <1>4, <1>11
  <2>2. CASE j = q
    BY <2>2, <1>7, <1>9, <1>11
  <2>3. CASE j > q
    <3>1. j - 1 \in 1..n /\ j - 1 >= q /\ t[j] = s[j - 1]
      BY <2>3, <1>9
    <3>2. CASE i < q
      <4>1. i \in 1..n /\ t[i] = s[i] /\ i < j - 1
        BY <3>1, <3>2, <1>2, <1>9
      <4> QED BY <3>1, <4>1, <1>4
    <3>3. CASE i = q
      BY <3>1, <3>3, <1>8, <1>9
    <3>4. CASE i > q
      <4>1. i - 1 \in 1..n /\ t[i] = s[i - 1] /\ i - 1 < j - 1
        BY <3>4, <1>9, <1>11
      <4> QED BY <3>1, <4>1, <1>4
    <3> QED BY <1>2, <3>2, <3>3, <3>4
  <2> QED BY <1>2, <2>1, <2>2, <2>3
<1>12. ASSUME NEW i \in 1..(n + 1) PROVE \E j \in 1..(n + 1) : t[i] = r[j]
  <2>1. CASE i = q
    BY <2>1, <1>9 DEF x
  <2>2. CASE i # q
    <3>1. PICK k \in 1..n : t[i] = s[k]
      BY <2>2, <1>2, <1>9
    <3>2. PICK j \in 1..n : s[k] = r[j]
      BY <1>4
    <3>3. j \in 1..(n + 1)
      OBVIOUS
    <3> QED BY <3>1, <3>2, <3>3
  <2> QED BY <2>1, <2>2
<1>13. ASSUME NEW j \in 1..(n + 1) PROVE \E i \in 1..(n + 1) : t[i] = r[j]
  <2>1. CASE j = n + 1
    BY <2>1, <1>2, <1>9 DEF x
  <2>2. CASE j # n + 1
    <3>1. PICK k \in 1..n : s[k] = r[j]
      BY <2>2, <1>4
    <3>2. CASE k < q
      BY <3>1, <3>2, <1>9
    <3>3. CASE k >= q
      <4>1. k + 1 \in 1..(n + 1) /\ k + 1 > q /\ (k + 1) - 1 = k
        BY <3>3, <1>2
      <4> QED BY <3>1, <4>1, <1>9
    <3> QED BY <1>2, <3>2, <3>3
  <2> QED BY <2>1, <2>2
<1>14. SortedUpTo(r, n + 1, t)
  BY <1>10, <1>11, <1>12, <1>13 DEF SortedUpTo
<1> QED BY <1>14

(* Members whose identifiers differ can be put in order.                     *)
LEMMA CanBeSorted ==
  ASSUME ArchiveConstants, NEW n \in Nat, NEW r, \A i \in 1..n : r[i] \in Members,
         \A i, j \in 1..n : i # j => r[i].id # r[j].id
  PROVE  \E s : SortedUpTo(r, n, s)
<1> DEFINE T == {k \in Nat : k <= n /\ ~ \E s : SortedUpTo(r, k, s)}
<1> SUFFICES ASSUME T # {} PROVE FALSE
  OBVIOUS
<1>1. PICK k \in T : \A y \in T : k <= y
  BY LeastNatural
<1>2. k # 0
  <2>1. SortedUpTo(r, 0, [i \in 1..0 |-> r[i]])
    BY DEF SortedUpTo
  <2> QED BY <1>1, <2>1
<1>3. k - 1 \in Nat /\ k - 1 \notin T /\ k - 1 <= n /\ (k - 1) + 1 = k
  BY <1>1, <1>2
<1>4. PICK s : SortedUpTo(r, k - 1, s)
  BY <1>3
<1>5. \A i \in 1..k : i \in 1..n
  BY <1>1
<1>6. \E t : SortedUpTo(r, (k - 1) + 1, t)
  BY <1>3, <1>4, <1>5, SortOneMore
<1> QED BY <1>1, <1>3, <1>6

(* sorted() of members whose identifiers differ.                             *)
LEMMA SortedReserve ==
  ASSUME ArchiveConstants, NEW r \in Seq(Members),
         \A i, j \in DOMAIN r : i # j => r[i].id # r[j].id
  PROVE  /\ Sorted(r) \in Seq(Members)
         /\ Len(Sorted(r)) = Len(r)
         /\ SeqRange(Sorted(r)) = SeqRange(r)
         /\ InOrder(Sorted(r))
<1> DEFINE n == Len(r)
<1>1. n \in Nat /\ DOMAIN r = 1..n /\ \A i \in 1..n : r[i] \in Members
  OBVIOUS
<1>2. PICK s : SortedUpTo(r, n, s)
  BY <1>1, CanBeSorted
<1> HIDE DEF n
<1>3. s \in [DOMAIN r -> SeqRange(r)] /\ SeqRange(s) = SeqRange(r) /\ InOrder(s)
  <2>1. s \in [1..n -> Members] /\ DOMAIN s = 1..n
    BY <1>2 DEF SortedUpTo
  <2>2. SeqRange(s) = SeqRange(r)
    <3>1. \A i \in 1..n : s[i] \in SeqRange(r)
      BY <1>1, <1>2 DEF SortedUpTo, SeqRange
    <3>2. \A j \in 1..n : r[j] \in SeqRange(s)
      BY <2>1, <1>2 DEF SortedUpTo, SeqRange
    <3> QED BY <2>1, <3>1, <3>2, <1>1 DEF SeqRange
  <2>3. InOrder(s)
    BY <2>1, <1>2 DEF SortedUpTo, InOrder
  <2>4. \A i \in DOMAIN r : s[i] \in SeqRange(r)
    BY <1>1, <2>1, <2>2 DEF SeqRange
  <2> QED BY <1>1, <2>1, <2>2, <2>3, <2>4
<1> DEFINE t == Sorted(r)
<1>4. t \in [DOMAIN r -> SeqRange(r)] /\ SeqRange(t) = SeqRange(r) /\ InOrder(t)
  BY <1>3 DEF Sorted
<1> HIDE DEF t
<1>5. SeqRange(r) \subseteq Members
  BY <1>1 DEF SeqRange
<1>6. t \in [1..n -> Members]
  BY <1>1, <1>4, <1>5
<1>7. t \in Seq(Members) /\ Len(t) = n
  BY <1>1, <1>6
<1> QED BY <1>4, <1>7 DEF t, n

(* No member is at two places of a sequence in order.                        *)
LEMMA OrderIsInjective ==
  ASSUME ArchiveConstants, NEW s \in Seq(Members), InOrder(s),
         NEW i \in DOMAIN s, NEW j \in DOMAIN s, s[i] = s[j]
  PROVE  i = j
<1>1. DOMAIN s = 1..Len(s) /\ Len(s) \in Nat /\ s[i] \in Members /\ s[j] \in Members
  OBVIOUS
<1>2. ~ Better(s[i], s[j]) /\ ~ Better(s[j], s[i])
  BY <1>1, BetterIsOrder
<1>3. ~ i < j /\ ~ j < i
  BY <1>2 DEF InOrder
<1> QED BY <1>1, <1>3

(* Members are in order in one way only.                                     *)
LEMMA OrderIsUnique ==
  ASSUME ArchiveConstants, NEW s \in Seq(Members), NEW t \in Seq(Members), Len(s) = Len(t),
         SeqRange(s) = SeqRange(t), InOrder(s), InOrder(t)
  PROVE  s = t
<1>1. /\ DOMAIN s = 1..Len(s) /\ DOMAIN t = 1..Len(s) /\ Len(s) \in Nat
      /\ \A i \in 1..Len(s) : s[i] \in Members /\ t[i] \in Members
  OBVIOUS
<1> DEFINE T == {i \in 1..Len(s) : s[i] # t[i]}
<1>2. SUFFICES ASSUME T # {} PROVE FALSE
  BY <1>1
<1>3. PICK k \in T : \A y \in T : k <= y
  <2>1. T \subseteq Nat
    BY <1>1
  <2> HIDE DEF T
  <2> QED BY <1>2, <2>1, LeastNatural
<1>4. k \in 1..Len(s) /\ s[k] # t[k] /\ \A y \in 1..Len(s) : y < k => s[y] = t[y]
  BY <1>1, <1>3
<1> HIDE DEF T
<1>5. PICK j \in 1..Len(s) : s[k] = t[j]
  <2>1. s[k] \in SeqRange(t)
    BY <1>1, <1>4 DEF SeqRange
  <2> QED BY <2>1, <1>1 DEF SeqRange
<1>6. PICK i \in 1..Len(s) : t[k] = s[i]
  <2>1. t[k] \in SeqRange(s)
    BY <1>1, <1>4 DEF SeqRange
  <2> QED BY <2>1, <1>1 DEF SeqRange
<1>7. j > k
  <2>1. j # k
    BY <1>4, <1>5
  <2>2. ~ j < k
    <3> SUFFICES ASSUME j < k PROVE FALSE
      OBVIOUS
    <3>1. s[j] = s[k]
      BY <1>4, <1>5
    <3>2. j = k
      BY <3>1, <1>1, <1>4, OrderIsInjective
    <3> QED BY <3>2
  <2> QED BY <2>1, <2>2, <1>4
<1>8. i > k
  <2>1. i # k
    BY <1>4, <1>6
  <2>2. ~ i < k
    <3> SUFFICES ASSUME i < k PROVE FALSE
      OBVIOUS
    <3>1. t[i] = t[k]
      BY <1>4, <1>6
    <3>2. i = k
      BY <3>1, <1>1, <1>4, OrderIsInjective
    <3> QED BY <3>2
  <2> QED BY <2>1, <2>2, <1>4
<1>9. Better(t[k], s[k])
  BY <1>1, <1>4, <1>5, <1>7 DEF InOrder
<1>10. Better(s[k], t[k])
  BY <1>1, <1>4, <1>6, <1>8 DEF InOrder
<1> QED BY <1>1, <1>4, <1>9, <1>10, BetterIsOrder

-----------------------------------------------------------------------------
(* The reserve of a cell. *)

ReserveSound(r) ==
  /\ r \in Seq(Pool)
  /\ Len(r) <= ReserveSize
  /\ InOrder(r)
  /\ \A i, j \in DOMAIN r : r[i].lineage = r[j].lineage => i = j

(* Candidates of one identifier are one candidate.                           *)
LEMMA PoolIsNamed ==
  ASSUME PoolConstants
  PROVE  /\ \A m \in Pool : m \in Members
         /\ \A m, n \in Pool : m.id = n.id => m = n
BY DEF PoolConstants

(* What the sort of a reserve with one more member is cut from.              *)
LEMMA SortedAppend ==
  ASSUME ArchiveConstants, PoolConstants, NEW r, ReserveSound(r), NEW x \in Pool,
         x \notin SeqRange(r), \A m \in SeqRange(r) : m.lineage # x.lineage
  PROVE  LET s == Sorted(Append(r, x)) IN
         /\ s \in Seq(Pool)
         /\ Len(s) = Len(r) + 1
         /\ SeqRange(s) = SeqRange(r) \cup {x}
         /\ InOrder(s)
         /\ \A i, j \in DOMAIN s : s[i].lineage = s[j].lineage => i = j
<1> DEFINE a == Append(r, x)
           s == Sorted(a)
           n == Len(r)
<1>1. /\ r \in Seq(Pool) /\ n \in Nat /\ DOMAIN r = 1..n
      /\ \A i \in 1..n : r[i] \in Pool
  BY DEF ReserveSound
<1>2. /\ a \in Seq(Pool) /\ Len(a) = n + 1 /\ DOMAIN a = 1..(n + 1)
      /\ \A i \in 1..n : a[i] = r[i]
      /\ a[n + 1] = x
  BY <1>1
<1> HIDE DEF a
<1>3. \A i, j \in 1..(n + 1) : i # j => a[i] # a[j] /\ a[i].lineage # a[j].lineage
  <2>1. \A i \in 1..n : r[i] \in SeqRange(r)
    BY <1>1 DEF SeqRange
  <2>2. \A i, j \in 1..n : i # j => r[i].lineage # r[j].lineage
    BY <1>1 DEF ReserveSound
  <2> HIDE DEF n
  <2>3. \A i \in 1..(n + 1) : i \in 1..n \/ i = n + 1
    BY <1>1
  <2> TAKE i, j \in 1..(n + 1)
  <2> HAVE i # j
  <2>4. a[i].lineage # a[j].lineage
    <3>1. CASE i = n + 1
      BY <3>1, <2>1, <2>3, <1>2
    <3>2. CASE j = n + 1
      BY <3>2, <2>1, <2>3, <1>2
    <3>3. CASE i # n + 1 /\ j # n + 1
      BY <3>3, <2>2, <2>3, <1>2
    <3> QED BY <3>1, <3>2, <3>3
  <2> QED BY <2>4
<1>4. SeqRange(a) = SeqRange(r) \cup {x}
  <2> HIDE DEF n
  <2>1. \A i \in 1..(n + 1) : a[i] \in SeqRange(r) \cup {x}
    BY <1>1, <1>2 DEF SeqRange
  <2>2. x \in SeqRange(a)
    BY <1>1, <1>2 DEF SeqRange
  <2>3. \A i \in 1..n : r[i] \in SeqRange(a)
    BY <1>1, <1>2 DEF SeqRange
  <2> QED BY <1>1, <1>2, <2>1, <2>2, <2>3 DEF SeqRange
<1>5. a \in Seq(Members)
  <2>1. \A i \in 1..(n + 1) : a[i] \in Members
    BY <1>1, <1>2, PoolIsNamed
  <2> HIDE DEF n
  <2> QED BY <1>1, <1>2, <2>1
<1>6. \A i, j \in DOMAIN a : i # j => a[i].id # a[j].id
  BY <1>2, <1>3, PoolIsNamed
<1>7. s \in Seq(Members) /\ Len(s) = Len(a) /\ SeqRange(s) = SeqRange(a) /\ InOrder(s)
  BY <1>5, <1>6, SortedReserve
<1> HIDE DEF s
<1>8. DOMAIN s = 1..(n + 1)
  BY <1>2, <1>7
<1>9. \A i \in 1..(n + 1) : s[i] \in SeqRange(a)
  BY <1>7, <1>8 DEF SeqRange
<1>10. s \in Seq(Pool)
  <2>1. \A i \in 1..(n + 1) : s[i] \in Pool
    BY <1>2, <1>9 DEF SeqRange
  <2> QED BY <1>1, <1>7, <1>8, <2>1
<1>11. ASSUME NEW i \in DOMAIN s, NEW j \in DOMAIN s, s[i].lineage = s[j].lineage
       PROVE  i = j
  <2>1. PICK k \in 1..(n + 1) : s[i] = a[k]
    BY <1>2, <1>8, <1>9 DEF SeqRange
  <2>2. PICK l \in 1..(n + 1) : s[j] = a[l]
    BY <1>2, <1>8, <1>9 DEF SeqRange
  <2>3. k = l
    BY <2>1, <2>2, <1>3, <1>11
  <2>4. s[i] = s[j]
    BY <2>1, <2>2, <2>3
  <2> QED BY <2>4, <1>7, OrderIsInjective
<1>12. Len(s) = n + 1 /\ SeqRange(s) = SeqRange(r) \cup {x}
  BY <1>2, <1>4, <1>7
<1> QED BY <1>7, <1>10, <1>11, <1>12 DEF s, a

(* Admit(r, x, new): what becomes of the reserve r when x is admitted.  One  *)
(* member at most makes room, and only if x stays.                           *)
Admit(r, x, new) ==
  /\ ReserveSound(new)
  /\ SeqRange(new) \subseteq SeqRange(r) \cup {x}
  /\ new = r \/ x \in SeqRange(new)
  /\ \A m \in SeqRange(r) : m \notin SeqRange(new) => Evicted(r, new, x) = m.id

(* A member that is dropped alone is the one named.                          *)
LEMMA DroppedIsNamed ==
  ASSUME NEW old, NEW new, NEW x, x \in SeqRange(new), NEW d,
         \A m \in SeqRange(old) : m \notin SeqRange(new) => m = d
  PROVE  \A m \in SeqRange(old) : m \notin SeqRange(new) => Evicted(old, new, x) = m.id
<1> SUFFICES ASSUME NEW m \in SeqRange(old), m \notin SeqRange(new)
             PROVE  Evicted(old, new, x) = m.id
  OBVIOUS
<1>1. \E k \in SeqRange(old) : k \notin SeqRange(new)
  OBVIOUS
<1>2. (CHOOSE k \in SeqRange(old) : k \notin SeqRange(new)) = d
  BY <1>1
<1>3. m = d
  OBVIOUS
<1>4. ~ (SeqRange(old) \subseteq SeqRange(new))
  BY <1>1
<1> QED BY <1>2, <1>3, <1>4 DEF Evicted

(* The reserve admits a member (_admit_reserve).                             *)
LEMMA ReserveAdmits ==
  ASSUME ArchiveConstants, PoolConstants, NEW r, ReserveSound(r), NEW x \in Pool,
         x \notin SeqRange(r)
  PROVE  Admit(r, x, AdmitReserve(r, x))
<1> DEFINE n == Len(r)
<1>1. /\ r \in Seq(Pool) /\ n \in Nat /\ DOMAIN r = 1..n /\ InOrder(r)
      /\ n <= ReserveSize /\ ReserveSize \in Nat
  BY DEF ReserveSound, ArchiveConstants
<1>2. CASE ReserveSize = 0 \/ \E m \in SeqRange(r) : m.lineage = x.lineage
  <2>1. AdmitReserve(r, x) = r
    BY <1>2 DEF AdmitReserve
  <2> QED BY <2>1 DEF Admit
<1>3. CASE ReserveSize # 0 /\ \A m \in SeqRange(r) : m.lineage # x.lineage
  <2> DEFINE s == Sorted(Append(r, x))
             k == IF n + 1 < ReserveSize THEN n + 1 ELSE ReserveSize
             new == SubSeq(s, 1, k)
  <2>1. AdmitReserve(r, x) = new
    <3>1. Len(Append(r, x)) = n + 1
      BY <1>1
    <3> QED BY <1>3, <3>1 DEF AdmitReserve, Ordered
  <2>2. /\ s \in Seq(Pool) /\ Len(s) = n + 1 /\ SeqRange(s) = SeqRange(r) \cup {x} /\ InOrder(s)
        /\ \A i, j \in DOMAIN s : s[i].lineage = s[j].lineage => i = j
    BY <1>3, SortedAppend
  <2> HIDE DEF s
  <2>3. k \in {n, n + 1} /\ k <= ReserveSize /\ k \in 0..(n + 1)
    <3> HIDE DEF n
    <3>1. CASE n + 1 < ReserveSize
      BY <3>1, <1>1
    <3>2. CASE ~ n + 1 < ReserveSize
      BY <3>2, <1>1
    <3> QED BY <3>1, <3>2
  <2> HIDE DEF k, n
  <2>4. DOMAIN s = 1..(n + 1) /\ \A i \in 1..(n + 1) : s[i] \in Pool /\ s[i] \in SeqRange(s)
    BY <1>1, <2>2 DEF SeqRange
  <2>5. /\ new \in Seq(Pool) /\ Len(new) = k /\ DOMAIN new = 1..k
        /\ \A i \in 1..k : i \in 1..(n + 1) /\ new[i] = s[i]
    BY <1>1, <2>2, <2>3, <2>4
  <2> HIDE DEF new
  <2>6. SeqRange(new) = {s[i] : i \in 1..k}
    BY <2>5 DEF SeqRange
  <2>7. SeqRange(new) \subseteq SeqRange(r) \cup {x}
    BY <2>2, <2>4, <2>5, <2>6
  <2>8. InOrder(new)
    BY <2>2, <2>4, <2>5 DEF InOrder
  <2>9. \A i, j \in DOMAIN new : new[i].lineage = new[j].lineage => i = j
    BY <2>2, <2>4, <2>5
  <2>10. ReserveSound(new)
    BY <2>3, <2>5, <2>8, <2>9 DEF ReserveSound
  <2>11. \A m \in SeqRange(s) : m \notin SeqRange(new) => k = n /\ m = s[n + 1]
    <3> TAKE m \in SeqRange(s)
    <3> HAVE m \notin SeqRange(new)
    <3>1. PICK i \in 1..(n + 1) : m = s[i]
      BY <2>4 DEF SeqRange
    <3>2. i \notin 1..k
      BY <3>1, <2>6
    <3> QED BY <1>1, <2>3, <3>1, <3>2
  <2>12. CASE x \in SeqRange(new)
    <3>1. \A m \in SeqRange(r) : m \notin SeqRange(new) => m = s[n + 1]
      BY <2>2, <2>11
    <3>2. \A m \in SeqRange(r) : m \notin SeqRange(new) => Evicted(r, new, x) = m.id
      BY <2>12, <3>1, DroppedIsNamed
    <3> QED BY <2>1, <2>7, <2>10, <2>12, <3>2 DEF Admit
  <2>13. CASE x \notin SeqRange(new)
    <3>1. k = n /\ x = s[n + 1]
      BY <2>2, <2>11, <2>13
    <3>2. SeqRange(new) = SeqRange(r)
      <4>1. \A m \in SeqRange(r) : m \in SeqRange(new)
        BY <2>2, <2>11, <3>1
      <4> QED BY <2>7, <2>13, <4>1
    <3>3. new \in Seq(Members) /\ r \in Seq(Members)
      <4>1. Pool \subseteq Members
        BY PoolIsNamed
      <4> QED BY <1>1, <2>5, <4>1
    <3>4. new = r
      BY <1>1, <2>5, <2>8, <3>1, <3>2, <3>3, OrderIsUnique DEF n
    <3> QED BY <2>1, <3>4 DEF Admit
  <2> QED BY <2>12, <2>13
<1> QED BY <1>2, <1>3

-----------------------------------------------------------------------------
(* What an insertion does to its cell. *)

Verdicts ==
  [coordinate : Cells, outcome : {"inserted", "replaced", "reserved", "duplicate", "rejected"},
   candidate : Ids, inserted : Ids \cup {None}, replaced : Ids \cup {None},
   evicted : Ids \cup {None}, role : {"elite", "reserve", None}, rank : Int]

CellSound(cell, c) ==
  /\ cell \in [elite : Pool \cup {None}, reserve : Seq(Pool)]
  /\ ReserveSound(cell.reserve)
  /\ cell.elite = None => cell.reserve = <<>>
  /\ cell.elite # None =>
       /\ CellOf[cell.elite.program] = c
       /\ \A m \in SeqRange(cell.reserve) : Better(cell.elite, m)
       /\ \A m, n \in MembersOf(cell) : m.program = n.program => m = n

(* What the insertion of x makes of its cell, and what the decision says.    *)
Update(cell, x, new, d) ==
  /\ CellSound(new, CellOf[x.program])
  /\ new.elite # None /\ new.elite \in {cell.elite, x}
  /\ cell.elite # None => new.elite = cell.elite \/ Better(new.elite, cell.elite)
  /\ RankOf[new.elite.program] >= RankOf[x.program]
  /\ d \in Verdicts
  /\ d.inserted # None => d.inserted = x.id /\ x \in MembersOf(new)
  /\ \A m \in MembersOf(cell) \ {None} : m \notin MembersOf(new) => m.id \in {d.evicted, d.replaced}

(* A decision is well formed.                                                *)
LEMMA DecisionIsTyped ==
  ASSUME ArchiveConstants, NEW x \in Members,
         NEW outcome \in {"inserted", "replaced", "reserved", "duplicate", "rejected"},
         NEW replaced \in Ids \cup {None}, NEW evicted \in Ids \cup {None},
         NEW role \in {"elite", "reserve", None}
  PROVE  /\ Decision(x, outcome, replaced, evicted, role) \in Verdicts
         /\ Decision(x, outcome, replaced, evicted, role).replaced = replaced
         /\ Decision(x, outcome, replaced, evicted, role).evicted = evicted
         /\ outcome \in {"inserted", "replaced", "reserved"} =>
              Decision(x, outcome, replaced, evicted, role).inserted = x.id
         /\ outcome \in {"duplicate", "rejected"} =>
              Decision(x, outcome, replaced, evicted, role).inserted = None
<1>1. x.id \in Ids /\ CellOf[x.program] \in Cells /\ RankOf[x.program] \in Int
  BY DEF Members, ArchiveConstants
<1> QED BY <1>1 DEF Decision, Verdicts

(* The member that made room has an identifier, or there was none.           *)
LEMMA EvictedIsTyped ==
  ASSUME PoolConstants, NEW old, SeqRange(old) \subseteq Pool, NEW new, NEW x
  PROVE  Evicted(old, new, x) \in Ids \cup {None}
<1>1. CASE x \notin SeqRange(new) \/ SeqRange(old) \subseteq SeqRange(new)
  BY <1>1 DEF Evicted
<1>2. CASE ~ (x \notin SeqRange(new) \/ SeqRange(old) \subseteq SeqRange(new))
  <2>1. \E m \in SeqRange(old) : m \notin SeqRange(new)
    BY <1>2
  <2>2. (CHOOSE m \in SeqRange(old) : m \notin SeqRange(new)) \in Pool
    BY <2>1
  <2>3. \A m \in Pool : m.id \in Ids
    BY DEF PoolConstants, Members
  <2> QED BY <1>2, <2>2, <2>3 DEF Evicted
<1> QED BY <1>1, <1>2

(* A reserve may be empty.                                                   *)
LEMMA EmptyReserve ==
  ASSUME ArchiveConstants
  PROVE  ReserveSound(<<>>) /\ SeqRange(<<>>) = {}
<1>1. ReserveSize \in Nat
  BY DEF ArchiveConstants
<1> QED BY <1>1 DEF ReserveSound, InOrder, SeqRange

(* What is known of a cell and of the candidate that comes to it.            *)
LEMMA CellFacts ==
  ASSUME ArchiveConstants, PoolConstants, NEW x \in Pool, NEW cell,
         CellSound(cell, CellOf[x.program]), cell.elite # None
  PROVE  /\ x \in Members /\ cell.elite \in Pool /\ cell.elite \in Members
         /\ SeqRange(cell.reserve) \subseteq Pool
         /\ cell.elite \notin SeqRange(cell.reserve)
         /\ \A m \in MembersOf(cell) : m \in Pool /\ m # None
         /\ \A m \in MembersOf(cell) : RankOf[cell.elite.program] >= RankOf[m.program]
         /\ RankOf[cell.elite.program] \in Int
<1>1. x \in Members /\ cell.elite \in Pool /\ cell.elite \in Members
  BY PoolIsNamed DEF CellSound
<1>2. SeqRange(cell.reserve) \subseteq Pool
  BY DEF CellSound, SeqRange
<1>3. cell.elite \notin SeqRange(cell.reserve)
  BY <1>1, BetterIsOrder DEF CellSound
<1>4. None \notin Members
  BY DEF ArchiveConstants, Members
<1>5. \A m \in MembersOf(cell) : m \in Pool /\ m # None
  BY <1>1, <1>2, <1>4, PoolIsNamed DEF MembersOf
<1>6. RankOf[cell.elite.program] \in Int
  BY <1>1 DEF Members, ArchiveConstants
<1>7. \A m \in MembersOf(cell) : RankOf[cell.elite.program] >= RankOf[m.program]
  <2> TAKE m \in MembersOf(cell)
  <2>1. CASE m = cell.elite
    BY <2>1, <1>6
  <2>2. CASE m \in SeqRange(cell.reserve)
    <3>1. Better(cell.elite, m) /\ m \in Members
      BY <2>2, <1>2, PoolIsNamed DEF CellSound
    <3> QED BY <3>1, <1>1, BetterIsOrder
  <2> QED BY <2>1, <2>2 DEF MembersOf
<1> QED BY <1>1, <1>2, <1>3, <1>5, <1>6, <1>7

(* The first of a cell.                                                      *)
LEMMA FirstUpdates ==
  ASSUME ArchiveConstants, PoolConstants, NEW x \in Pool, NEW cell,
         CellSound(cell, CellOf[x.program]), cell.elite = None
  PROVE  Update(cell, x, [elite |-> x, reserve |-> <<>>], Decision(x, "inserted", None, None, "elite"))
<1> DEFINE new == [elite |-> x, reserve |-> <<>>]
<1>1. x \in Members /\ x # None
  <2>1. None \notin Members
    BY DEF ArchiveConstants, Members
  <2> QED BY <2>1, PoolIsNamed
<1>2. MembersOf(new) = {x}
  BY EmptyReserve DEF MembersOf
<1>3. CellSound(new, CellOf[x.program])
  <2>1. new \in [elite : Pool \cup {None}, reserve : Seq(Pool)]
    OBVIOUS
  <2>2. new.elite = x /\ new.reserve = <<>>
    OBVIOUS
  <2> HIDE DEF new
  <2> QED BY <1>1, <1>2, <2>1, <2>2, EmptyReserve DEF CellSound
<1>4. new.elite = x
  OBVIOUS
<1> HIDE DEF new
<1>5. RankOf[x.program] >= RankOf[x.program]
  BY <1>1 DEF Members, ArchiveConstants
<1>6. MembersOf(cell) \ {None} = {}
  <2>1. cell.reserve = <<>>
    BY DEF CellSound
  <2> QED BY <2>1, EmptyReserve DEF MembersOf
<1>7. /\ Decision(x, "inserted", None, None, "elite") \in Verdicts
      /\ Decision(x, "inserted", None, None, "elite").inserted = x.id
  <2>1. /\ "inserted" \in {"inserted", "replaced", "reserved", "duplicate", "rejected"}
        /\ "inserted" \in {"inserted", "replaced", "reserved"}
        /\ None \in Ids \cup {None} /\ "elite" \in {"elite", "reserve", None}
    OBVIOUS
  <2> QED BY <1>1, <2>1 DEF Decision, Verdicts, Members, ArchiveConstants
<1>8. Update(cell, x, new, Decision(x, "inserted", None, None, "elite"))
  BY <1>1, <1>2, <1>3, <1>4, <1>5, <1>6, <1>7 DEF Update
<1> QED BY <1>8 DEF new

(* Nothing changes, as a twin is there or no room is made.                   *)
LEMMA UnchangedUpdates ==
  ASSUME ArchiveConstants, PoolConstants, NEW x \in Pool, NEW cell,
         CellSound(cell, CellOf[x.program]), cell.elite # None,
         RankOf[cell.elite.program] >= RankOf[x.program],
         NEW outcome \in {"duplicate", "rejected"}
  PROVE  Update(cell, x, cell, Decision(x, outcome, None, None, None))
<1>1. LET d == Decision(x, outcome, None, None, None) IN d \in Verdicts /\ d.inserted = None
  BY CellFacts, DecisionIsTyped
<1> QED BY <1>1 DEF Update

(* A better one takes the place of the elite, which goes to the reserve.     *)
LEMMA ReplaceUpdates ==
  ASSUME ArchiveConstants, PoolConstants, NEW x \in Pool, NEW cell,
         CellSound(cell, CellOf[x.program]), cell.elite # None,
         ~ HasTwin(cell, x), Better(x, cell.elite)
  PROVE  LET demoted == AdmitReserve(cell.reserve, cell.elite) IN
         Update(cell, x, [elite |-> x, reserve |-> demoted],
                Decision(x, "replaced", cell.elite.id,
                         Evicted(cell.reserve, demoted, cell.elite), "elite"))
<1> DEFINE demoted == AdmitReserve(cell.reserve, cell.elite)
           new == [elite |-> x, reserve |-> demoted]
           gone == Evicted(cell.reserve, demoted, cell.elite)
           d == Decision(x, "replaced", cell.elite.id, gone, "elite")
<1>1. /\ x \in Members /\ cell.elite \in Pool /\ cell.elite \in Members
      /\ SeqRange(cell.reserve) \subseteq Pool /\ cell.elite \notin SeqRange(cell.reserve)
      /\ \A m \in MembersOf(cell) : m \in Pool /\ m # None
      /\ \A m \in SeqRange(cell.reserve) : Better(cell.elite, m)
      /\ \A m, n \in MembersOf(cell) : m.program = n.program => m = n
      /\ ReserveSound(cell.reserve)
  BY CellFacts DEF CellSound
<1>2. Admit(cell.reserve, cell.elite, demoted)
  BY <1>1, ReserveAdmits
<1> HIDE DEF demoted
<1>3. /\ ReserveSound(demoted)
      /\ SeqRange(demoted) \subseteq MembersOf(cell)
      /\ \A m \in SeqRange(cell.reserve) : m \notin SeqRange(demoted) => gone = m.id
  BY <1>2 DEF Admit, MembersOf
<1>4. gone \in Ids \cup {None} /\ cell.elite.id \in Ids
  BY <1>1, EvictedIsTyped DEF Members
<1> HIDE DEF gone
<1>5. d \in Verdicts /\ d.replaced = cell.elite.id /\ d.evicted = gone /\ d.inserted = x.id
  BY <1>1, <1>4, DecisionIsTyped
<1> HIDE DEF d
<1>6. new \in [elite : Pool \cup {None}, reserve : Seq(Pool)] /\ new.elite = x /\ new.reserve = demoted
  BY <1>3 DEF ReserveSound
<1> HIDE DEF new
<1>7. x # None
  BY <1>1 DEF ArchiveConstants, Members
<1>8. \A m \in SeqRange(demoted) : Better(x, m)
  <2> TAKE m \in SeqRange(demoted)
  <2>1. m \in MembersOf(cell) /\ m \in Members
    BY <1>1, <1>3, PoolIsNamed
  <2>2. CASE m = cell.elite
    BY <2>2
  <2>3. CASE m \in SeqRange(cell.reserve)
    BY <2>1, <2>3, <1>1, BetterIsOrder
  <2> QED BY <2>1, <2>2, <2>3 DEF MembersOf
<1>9. \A m, n \in MembersOf(new) : m.program = n.program => m = n
  <2>1. MembersOf(new) \subseteq MembersOf(cell) \cup {x}
    BY <1>3, <1>6 DEF MembersOf
  <2>2. \A m \in MembersOf(cell) : m.program # x.program
    BY DEF HasTwin
  <2> QED BY <1>1, <2>1, <2>2
<1>10. CellSound(new, CellOf[x.program])
  BY <1>3, <1>6, <1>7, <1>8, <1>9 DEF CellSound
<1>11. RankOf[x.program] >= RankOf[x.program]
  BY <1>1 DEF Members, ArchiveConstants
<1>12. \A m \in MembersOf(cell) \ {None} : m \notin MembersOf(new) => m.id \in {d.evicted, d.replaced}
  BY <1>3, <1>5, <1>6 DEF MembersOf
<1>13. Update(cell, x, new, d)
  BY <1>5, <1>6, <1>7, <1>10, <1>11, <1>12 DEF Update, MembersOf
<1> QED BY <1>13 DEF new, d, gone, demoted

(* Another goes to the reserve, where it may make another leave.             *)
LEMMA ReserveUpdates ==
  ASSUME ArchiveConstants, PoolConstants, NEW x \in Pool, NEW cell,
         CellSound(cell, CellOf[x.program]), cell.elite # None,
         ~ HasTwin(cell, x), Better(cell.elite, x),
         AdmitReserve(cell.reserve, x) # cell.reserve
  PROVE  LET reserve == AdmitReserve(cell.reserve, x) IN
         Update(cell, x, [elite |-> cell.elite, reserve |-> reserve],
                Decision(x, "reserved", None, Evicted(cell.reserve, reserve, x), "reserve"))
<1> DEFINE reserve == AdmitReserve(cell.reserve, x)
           new == [elite |-> cell.elite, reserve |-> reserve]
           gone == Evicted(cell.reserve, reserve, x)
           d == Decision(x, "reserved", None, gone, "reserve")
<1>1. /\ x \in Members /\ cell.elite \in Pool /\ cell.elite \in Members
      /\ SeqRange(cell.reserve) \subseteq Pool
      /\ \A m \in MembersOf(cell) : m \in Pool /\ m # None
      /\ \A m \in SeqRange(cell.reserve) : Better(cell.elite, m)
      /\ \A m, n \in MembersOf(cell) : m.program = n.program => m = n
      /\ ReserveSound(cell.reserve)
      /\ CellOf[cell.elite.program] = CellOf[x.program]
  BY CellFacts DEF CellSound
<1>2. \A m \in MembersOf(cell) : m.program # x.program
  BY DEF HasTwin
<1>3. x \notin SeqRange(cell.reserve)
  BY <1>2 DEF MembersOf
<1>4. Admit(cell.reserve, x, reserve) /\ reserve # cell.reserve
  BY <1>1, <1>3, ReserveAdmits
<1> HIDE DEF reserve
<1>5. /\ ReserveSound(reserve) /\ x \in SeqRange(reserve)
      /\ SeqRange(reserve) \subseteq SeqRange(cell.reserve) \cup {x}
      /\ \A m \in SeqRange(cell.reserve) : m \notin SeqRange(reserve) => gone = m.id
  BY <1>4 DEF Admit
<1>6. gone \in Ids \cup {None}
  BY <1>1, EvictedIsTyped
<1> HIDE DEF gone
<1>7. d \in Verdicts /\ d.evicted = gone /\ d.inserted = x.id
  <2>1. /\ "reserved" \in {"inserted", "replaced", "reserved", "duplicate", "rejected"}
        /\ "reserved" \in {"inserted", "replaced", "reserved"}
        /\ None \in Ids \cup {None} /\ "reserve" \in {"elite", "reserve", None}
    OBVIOUS
  <2> QED BY <1>1, <1>6, <2>1 DEF Decision, Verdicts, Members, ArchiveConstants
<1> HIDE DEF d
<1>8. /\ new \in [elite : Pool \cup {None}, reserve : Seq(Pool)]
      /\ new.elite = cell.elite /\ new.reserve = reserve
  BY <1>1, <1>5 DEF ReserveSound
<1> HIDE DEF new
<1>9. \A m, n \in MembersOf(new) : m.program = n.program => m = n
  <2>1. MembersOf(new) \subseteq MembersOf(cell) \cup {x}
    BY <1>5, <1>8 DEF MembersOf
  <2> QED BY <1>1, <1>2, <2>1
<1>10. CellSound(new, CellOf[x.program])
  BY <1>1, <1>5, <1>8, <1>9 DEF CellSound
<1>11. RankOf[cell.elite.program] >= RankOf[x.program]
  BY <1>1, BetterIsOrder
<1>12. \A m \in MembersOf(cell) \ {None} : m \notin MembersOf(new) => m.id \in {d.evicted, d.replaced}
  BY <1>5, <1>7, <1>8 DEF MembersOf
<1>13. x \in MembersOf(new)
  BY <1>5, <1>8 DEF MembersOf
<1>14. Update(cell, x, new, d)
  BY <1>7, <1>8, <1>10, <1>11, <1>12, <1>13 DEF Update
<1> QED BY <1>14 DEF new, d, gone, reserve

(* MapElitesArchive.insert changes one cell, and that one soundly.           *)
LEMMA InsertUpdates ==
  ASSUME ArchiveConstants, PoolConstants, NEW x \in Pool, NEW archive,
         CellSound(archive[CellOf[x.program]], CellOf[x.program])
  PROVE  \E new : /\ Insert(archive, x).archive = [archive EXCEPT ![CellOf[x.program]] = new]
                  /\ Update(archive[CellOf[x.program]], x, new, Insert(archive, x).decision)
<1> DEFINE c == CellOf[x.program]
           cell == archive[c]
           demoted == AdmitReserve(cell.reserve, cell.elite)
           reserve == AdmitReserve(cell.reserve, x)
<1>1. CASE cell.elite = None
  <2>1. /\ Insert(archive, x).archive = [archive EXCEPT ![c] = [elite |-> x, reserve |-> <<>>]]
        /\ Insert(archive, x).decision = Decision(x, "inserted", None, None, "elite")
    BY <1>1 DEF Insert
  <2> QED BY <1>1, <2>1, FirstUpdates
<1>2. CASE cell.elite # None /\ HasTwin(cell, x)
  <2>1. /\ Insert(archive, x).archive = [archive EXCEPT ![c] = cell]
        /\ Insert(archive, x).decision = Decision(x, "duplicate", None, None, None)
    BY <1>2 DEF Insert
  <2>2. RankOf[cell.elite.program] >= RankOf[x.program]
    <3>1. PICK m \in MembersOf(cell) : m.program = x.program
      BY <1>2 DEF HasTwin
    <3> QED BY <1>2, <3>1, CellFacts
  <2> QED BY <1>2, <2>1, <2>2, UnchangedUpdates
<1>3. CASE cell.elite # None /\ ~ HasTwin(cell, x) /\ Better(x, cell.elite)
  <2>1. /\ Insert(archive, x).archive = [archive EXCEPT ![c] = [elite |-> x, reserve |-> demoted]]
        /\ Insert(archive, x).decision =
             Decision(x, "replaced", cell.elite.id, Evicted(cell.reserve, demoted, cell.elite), "elite")
    BY <1>3 DEF Insert
  <2> QED BY <1>3, <2>1, ReplaceUpdates
<1>4. CASE cell.elite # None /\ ~ HasTwin(cell, x) /\ ~ Better(x, cell.elite)
  <2>1. Better(cell.elite, x)
    <3>1. x \in Members /\ cell.elite \in Pool /\ cell.elite \in Members
      BY <1>4, CellFacts
    <3>2. x # cell.elite
      BY <1>4 DEF HasTwin, MembersOf
    <3>3. x.id # cell.elite.id
      BY <3>1, <3>2, PoolIsNamed
    <3> QED BY <1>4, <3>1, <3>3, BetterIsOrder
  <2>2. RankOf[cell.elite.program] >= RankOf[x.program]
    BY <1>4, <2>1, CellFacts, BetterIsOrder
  <2>3. CASE reserve = cell.reserve
    <3>1. /\ Insert(archive, x).archive = [archive EXCEPT ![c] = cell]
          /\ Insert(archive, x).decision = Decision(x, "rejected", None, None, None)
      BY <1>4, <2>3 DEF Insert
    <3> QED BY <1>4, <2>2, <3>1, UnchangedUpdates
  <2>4. CASE reserve # cell.reserve
    <3>1. /\ Insert(archive, x).archive =
               [archive EXCEPT ![c] = [elite |-> cell.elite, reserve |-> reserve]]
          /\ Insert(archive, x).decision =
               Decision(x, "reserved", None, Evicted(cell.reserve, reserve, x), "reserve")
      BY <1>4, <2>4 DEF Insert
    <3> QED BY <1>4, <2>1, <2>4, <3>1, ReserveUpdates
  <2> QED BY <2>3, <2>4
<1> QED BY <1>1, <1>2, <1>3, <1>4

(* The incumbent is the better of the two (SingleIncumbent.insert).          *)
LEMMA IncumbentUpdates ==
  ASSUME ArchiveConstants, PoolConstants, NEW x \in Pool, NEW held \in Pool \cup {None}
  PROVE  /\ InsertIncumbent(held, x).held \in Pool
         /\ RankOf[InsertIncumbent(held, x).held.program] >= RankOf[x.program]
         /\ held # None =>
              RankOf[InsertIncumbent(held, x).held.program] >= RankOf[held.program]
<1>1. x \in Members /\ \A m \in Pool : m \in Members /\ RankOf[m.program] \in Int
  BY PoolIsNamed DEF Members, ArchiveConstants
<1>2. CASE held = None
  <2>1. InsertIncumbent(held, x).held = x
    BY <1>2 DEF InsertIncumbent
  <2> QED BY <1>1, <1>2, <2>1
<1>3. CASE held # None /\ held.program = x.program
  <2>1. InsertIncumbent(held, x).held = held
    BY <1>3 DEF InsertIncumbent
  <2> QED BY <1>1, <1>3, <2>1
<1>4. CASE held # None /\ held.program # x.program /\ Better(x, held)
  <2>1. InsertIncumbent(held, x).held = x
    BY <1>4 DEF InsertIncumbent
  <2> QED BY <1>1, <1>4, <2>1, BetterIsOrder
<1>5. CASE held # None /\ held.program # x.program /\ ~ Better(x, held)
  <2>1. InsertIncumbent(held, x).held = held
    BY <1>5 DEF InsertIncumbent
  <2>2. held \in Members /\ held.id # x.id
    BY <1>1, <1>5, PoolIsNamed
  <2>3. Better(held, x)
    BY <1>1, <1>5, <2>2, BetterIsOrder
  <2> QED BY <1>1, <1>5, <2>1, <2>2, <2>3, BetterIsOrder
<1> QED BY <1>2, <1>3, <1>4, <1>5

-----------------------------------------------------------------------------
(* Any history of insertions. *)

(* None of the candidates evaluated so far ranks above what is kept.         *)
KeptIsBest ==
  \A m \in SeqRange(evaluated) :
    /\ cells[CellOf[m.program]].elite # None
    /\ RankOf[cells[CellOf[m.program]].elite.program] >= RankOf[m.program]
    /\ incumbent # None
    /\ RankOf[incumbent.program] >= RankOf[m.program]

(* Candidate id is in a cell, or decision j names it as leaving.             *)
HeldIn(archive, id) == \E c \in Cells : \E m \in MembersOf(archive[c]) \ {None} : m.id = id
LeavesAt(d, id) == d.evicted = id \/ d.replaced = id
Explained(i) ==
  decisions[i].inserted # None =>
    \/ HeldIn(cells, decisions[i].inserted)
    \/ \E j \in i + 1 .. Len(decisions) : LeavesAt(decisions[j], decisions[i].inserted)

ArchiveInv ==
  /\ DOMAIN cells = Cells
  /\ cells = [c \in Cells |-> cells[c]]
  /\ \A c \in Cells : CellSound(cells[c], c)
  /\ \A c \in Cells : cells[c].elite # None => cells[c].elite \in SeqRange(evaluated)
  /\ incumbent \in Pool \cup {None}
  /\ evaluated \in Seq(Pool)
  /\ decisions \in Seq(Verdicts)
  /\ KeptIsBest
  /\ \A i \in DOMAIN decisions : Explained(i)

(* One member more.                                                          *)
LEMMA OneMoreInserted ==
  ASSUME NEW S, NEW s \in Seq(S), NEW x \in S
  PROVE  /\ Append(s, x) \in Seq(S) /\ Len(Append(s, x)) = Len(s) + 1
         /\ DOMAIN s = 1..Len(s) /\ DOMAIN Append(s, x) = 1..(Len(s) + 1) /\ Len(s) \in Nat
         /\ \A i \in 1..Len(s) : Append(s, x)[i] = s[i]
         /\ Append(s, x)[Len(s) + 1] = x
         /\ \A m : m \in SeqRange(Append(s, x)) <=> m \in SeqRange(s) \/ m = x
<1> DEFINE n == Len(s)  t == Append(s, x)
<1>1. /\ t \in Seq(S) /\ Len(t) = n + 1 /\ DOMAIN s = 1..n /\ DOMAIN t = 1..(n + 1) /\ n \in Nat
      /\ \A i \in 1..n : t[i] = s[i]
      /\ t[n + 1] = x
  OBVIOUS
<1> HIDE DEF n, t
<1>2. \A m : m \in SeqRange(s) <=> \E i \in 1..n : s[i] = m
  BY <1>1 DEF SeqRange
<1>3. \A m : m \in SeqRange(t) <=> \E i \in 1..(n + 1) : t[i] = m
  BY <1>1 DEF SeqRange
<1>4. \A m : m \in SeqRange(t) => m \in SeqRange(s) \/ m = x
  <2> TAKE m
  <2> HAVE m \in SeqRange(t)
  <2>1. PICK i \in 1..(n + 1) : t[i] = m
    BY <1>3
  <2>2. i = n + 1 \/ i \in 1..n
    BY <1>1
  <2> QED BY <1>1, <1>2, <2>1, <2>2
<1>5. \A m : m \in SeqRange(s) \/ m = x => m \in SeqRange(t)
  <2>1. n + 1 \in 1..(n + 1) /\ \A i \in 1..n : i \in 1..(n + 1)
    BY <1>1
  <2> QED BY <1>1, <1>2, <1>3, <2>1
<1> QED BY <1>1, <1>4, <1>5 DEF n, t

(* At first there is nothing.                                                *)
LEMMA ArchiveInvInit ==
  ASSUME ArchiveConstants, PoolConstants, ArchiveInit
  PROVE  ArchiveInv
<1>1. \A c \in Cells : cells[c] = VacantCell
  BY DEF ArchiveInit, EmptyArchive
<1>2. VacantCell \in [elite : Pool \cup {None}, reserve : Seq(Pool)]
      /\ VacantCell.elite = None /\ VacantCell.reserve = <<>>
  BY DEF VacantCell
<1>3. \A c \in Cells : CellSound(cells[c], c)
  BY <1>1, <1>2, EmptyReserve DEF CellSound
<1>4. SeqRange(evaluated) = {}
  BY EmptyReserve DEF ArchiveInit
<1>5. DOMAIN cells = Cells /\ cells = [c \in Cells |-> cells[c]]
  BY DEF ArchiveInit, EmptyArchive
<1>6. evaluated \in Seq(Pool) /\ decisions \in Seq(Verdicts) /\ DOMAIN decisions = {}
  BY DEF ArchiveInit
<1>7. incumbent = None
  BY DEF ArchiveInit
<1> QED BY <1>1, <1>2, <1>3, <1>4, <1>5, <1>6, <1>7 DEF ArchiveInv, KeptIsBest

(* What an insertion changes.                                                *)
Inserted(x, new, d) ==
  /\ cells' = [cells EXCEPT ![CellOf[x.program]] = new]
  /\ Update(cells[CellOf[x.program]], x, new, d)
  /\ evaluated' = Append(evaluated, x)
  /\ decisions' = Append(decisions, d)

LEMMA InsertionIsUpdate ==
  ASSUME ArchiveConstants, PoolConstants, ArchiveInv, NEW x \in Pool, InsertBoth(x)
  PROVE  /\ CellOf[x.program] \in Cells
         /\ \E new, d : Inserted(x, new, d)
<1>1. CellOf[x.program] \in Cells
  BY PoolIsNamed DEF Members, ArchiveConstants
<1>2. CellSound(cells[CellOf[x.program]], CellOf[x.program])
  BY <1>1 DEF ArchiveInv
<1>3. PICK new : /\ Insert(cells, x).archive = [cells EXCEPT ![CellOf[x.program]] = new]
                 /\ Update(cells[CellOf[x.program]], x, new, Insert(cells, x).decision)
  BY <1>2, InsertUpdates
<1>4. Inserted(x, new, Insert(cells, x).decision)
  BY <1>3 DEF Inserted, InsertBoth
<1> QED BY <1>1, <1>4

(* An insertion keeps the invariant.                                         *)
LEMMA ArchiveInvInsert ==
  ASSUME ArchiveConstants, PoolConstants, ArchiveInv, NEW x \in Pool, InsertBoth(x)
  PROVE  ArchiveInv'
<1> DEFINE c == CellOf[x.program]
<1>1. c \in Cells
  BY InsertionIsUpdate
<1>2. PICK new, d : Inserted(x, new, d)
  BY InsertionIsUpdate
<1>3. /\ CellSound(new, c) /\ new.elite # None /\ new.elite \in {cells[c].elite, x}
      /\ cells[c].elite # None => new.elite = cells[c].elite \/ Better(new.elite, cells[c].elite)
      /\ RankOf[new.elite.program] >= RankOf[x.program]
      /\ d \in Verdicts
      /\ d.inserted # None => d.inserted = x.id /\ x \in MembersOf(new)
      /\ \A m \in MembersOf(cells[c]) \ {None} :
           m \notin MembersOf(new) => m.id \in {d.evicted, d.replaced}
  BY <1>2 DEF Inserted, Update
<1>4. /\ DOMAIN cells = Cells /\ cells = [e \in Cells |-> cells[e]]
      /\ \A e \in Cells : CellSound(cells[e], e)
      /\ \A e \in Cells : cells[e].elite # None => cells[e].elite \in SeqRange(evaluated)
      /\ incumbent \in Pool \cup {None}
      /\ evaluated \in Seq(Pool) /\ decisions \in Seq(Verdicts)
      /\ KeptIsBest
      /\ \A i \in DOMAIN decisions : Explained(i)
  BY DEF ArchiveInv
<1>5. /\ cells' = [cells EXCEPT ![c] = new]
      /\ evaluated' = Append(evaluated, x) /\ decisions' = Append(decisions, d)
      /\ incumbent' = InsertIncumbent(incumbent, x).held
  BY <1>2 DEF Inserted, InsertBoth
<1> HIDE DEF c
<1>6. /\ cells'[c] = new
      /\ \A e \in Cells : e # c => cells'[e] = cells[e]
      /\ DOMAIN cells' = Cells
      /\ cells' = [e \in Cells |-> cells'[e]]
  BY <1>1, <1>4, <1>5
<1>7. \A m : m \in SeqRange(evaluated') <=> m \in SeqRange(evaluated) \/ m = x
  BY <1>4, <1>5, OneMoreInserted
<1>8. evaluated' \in Seq(Pool) /\ decisions' \in Seq(Verdicts)
  BY <1>3, <1>4, <1>5
<1>9. \A e \in Cells : CellSound(cells'[e], e)
  BY <1>3, <1>4, <1>6
<1>10. \A e \in Cells : cells'[e].elite # None => cells'[e].elite \in SeqRange(evaluated')
  <2> TAKE e \in Cells
  <2>1. CASE e = c
    BY <2>1, <1>1, <1>3, <1>4, <1>6, <1>7
  <2>2. CASE e # c
    BY <2>2, <1>4, <1>6, <1>7
  <2> QED BY <2>1, <2>2
<1>11. \A m \in Pool \cup {x} : m \in Members /\ RankOf[m.program] \in Int /\ m # None
                              /\ CellOf[m.program] \in Cells
  BY PoolIsNamed DEF Members, ArchiveConstants
<1>12. /\ incumbent' \in Pool /\ RankOf[incumbent'.program] >= RankOf[x.program]
       /\ incumbent # None => RankOf[incumbent'.program] >= RankOf[incumbent.program]
  BY <1>4, <1>5, IncumbentUpdates
<1>13. ASSUME NEW e \in Cells, cells[e].elite # None
       PROVE  /\ cells'[e].elite # None
              /\ RankOf[cells'[e].elite.program] >= RankOf[cells[e].elite.program]
              /\ cells[e].elite \in Pool /\ cells'[e].elite \in Pool
  <2>1. cells[e].elite \in Pool
    BY <1>4, <1>13 DEF CellSound
  <2>2. CASE e # c
    BY <2>1, <2>2, <1>6, <1>11, <1>13
  <2>3. CASE e = c
    <3>1. new.elite \in Pool
      BY <1>3 DEF CellSound
    <3>2. RankOf[new.elite.program] >= RankOf[cells[c].elite.program]
      <4>1. CASE new.elite = cells[c].elite
        BY <3>1, <4>1, <1>11
      <4>2. CASE Better(new.elite, cells[c].elite)
        BY <2>1, <2>3, <3>1, <4>2, <1>11, BetterIsOrder
      <4> QED BY <1>3, <1>13, <2>3, <4>1, <4>2
    <3> QED BY <2>1, <2>3, <3>1, <3>2, <1>3, <1>6
  <2> QED BY <2>2, <2>3
<1>14. KeptIsBest'
  <2> SUFFICES ASSUME NEW m \in SeqRange(evaluated')
               PROVE  /\ cells'[CellOf[m.program]].elite # None
                      /\ RankOf[cells'[CellOf[m.program]].elite.program] >= RankOf[m.program]
                      /\ incumbent' # None
                      /\ RankOf[incumbent'.program] >= RankOf[m.program]
    BY DEF KeptIsBest
  <2>1. incumbent' # None /\ RankOf[incumbent'.program] \in Int
    BY <1>11, <1>12
  <2>2. CASE m = x
    BY <2>1, <2>2, <1>3, <1>6, <1>12 DEF c
  <2>3. CASE m \in SeqRange(evaluated)
    <3> DEFINE e == CellOf[m.program]
    <3>1. m \in Pool
      BY <2>3, <1>4 DEF SeqRange
    <3>2. e \in Cells /\ RankOf[m.program] \in Int
      BY <3>1, <1>11
    <3>3. /\ cells[e].elite # None /\ RankOf[cells[e].elite.program] >= RankOf[m.program]
          /\ incumbent # None /\ RankOf[incumbent.program] >= RankOf[m.program]
      BY <2>3, <1>4 DEF KeptIsBest
    <3> HIDE DEF e
    <3>4. /\ cells'[e].elite # None
          /\ RankOf[cells'[e].elite.program] >= RankOf[cells[e].elite.program]
          /\ RankOf[cells'[e].elite.program] \in Int /\ RankOf[cells[e].elite.program] \in Int
      BY <3>2, <3>3, <1>11, <1>13
    <3>5. RankOf[incumbent.program] \in Int
      BY <3>3, <1>4, <1>11
    <3>6. /\ RankOf[cells'[e].elite.program] >= RankOf[m.program]
          /\ RankOf[incumbent'.program] >= RankOf[m.program]
      BY <2>1, <3>2, <3>3, <3>4, <3>5, <1>12
    <3> QED BY <2>1, <3>4, <3>6 DEF e
  <2> QED BY <2>2, <2>3, <1>7
<1>15. ASSUME NEW id, HeldIn(cells, id)
       PROVE  HeldIn(cells', id) \/ LeavesAt(d, id)
  <2>1. PICK e \in Cells : \E m \in MembersOf(cells[e]) \ {None} : m.id = id
    BY <1>15 DEF HeldIn
  <2>2. PICK m \in MembersOf(cells[e]) \ {None} : m.id = id
    BY <2>1
  <2>3. CASE m \in MembersOf(cells'[e])
    BY <2>2, <2>3 DEF HeldIn
  <2>4. CASE m \notin MembersOf(cells'[e])
    <3>1. e = c
      BY <2>2, <2>4, <1>6
    <3>2. m \notin MembersOf(new)
      BY <3>1, <2>4, <1>6
    <3>3. m.id \in {d.evicted, d.replaced}
      BY <3>1, <3>2, <2>2, <1>3
    <3> QED BY <2>2, <3>3 DEF LeavesAt
  <2> QED BY <2>3, <2>4
<1>16. /\ Len(decisions') = Len(decisions) + 1 /\ Len(decisions) \in Nat
       /\ DOMAIN decisions = 1..Len(decisions) /\ DOMAIN decisions' = 1..(Len(decisions) + 1)
       /\ \A i \in 1..Len(decisions) : decisions'[i] = decisions[i]
       /\ decisions'[Len(decisions) + 1] = d
  BY <1>3, <1>4, <1>5, OneMoreInserted
<1>17. ASSUME NEW i \in DOMAIN decisions'
       PROVE  \/ decisions'[i].inserted = None
              \/ HeldIn(cells', decisions'[i].inserted)
              \/ \E j \in i + 1 .. Len(decisions') : LeavesAt(decisions'[j], decisions'[i].inserted)
  <2> DEFINE n == Len(decisions)
  <2>1. CASE i = n + 1
    <3>1. decisions'[i] = d
      BY <2>1, <1>16
    <3>2. CASE d.inserted # None
      <4>1. d.inserted = x.id /\ x \in MembersOf(cells'[c]) \ {None}
        BY <3>2, <1>3, <1>6, <1>11
      <4> QED BY <3>1, <4>1, <1>1 DEF HeldIn
    <3> QED BY <3>1, <3>2
  <2>2. CASE i \in 1..n
    <3> DEFINE id == decisions[i].inserted
    <3>1. decisions'[i] = decisions[i]
      BY <2>2, <1>16
    <3>2. \/ id = None \/ HeldIn(cells, id)
          \/ \E j \in i + 1 .. n : LeavesAt(decisions[j], id)
      BY <2>2, <1>4, <1>16 DEF Explained
    <3>3. CASE HeldIn(cells, id)
      <4>1. HeldIn(cells', id) \/ LeavesAt(d, id)
        BY <3>3, <1>15
      <4>2. n + 1 \in i + 1 .. n + 1
        BY <2>2, <1>16
      <4>3. LeavesAt(d, id) => \E j \in i + 1 .. Len(decisions') : LeavesAt(decisions'[j], id)
        BY <4>2, <1>16
      <4> QED BY <3>1, <4>1, <4>3
    <3>4. CASE \E j \in i + 1 .. n : LeavesAt(decisions[j], id)
      <4>1. PICK j \in i + 1 .. n : LeavesAt(decisions[j], id)
        BY <3>4
      <4>2. j \in 1..n /\ j \in i + 1 .. n + 1
        BY <2>2, <4>1, <1>16
      <4>3. decisions'[j] = decisions[j]
        BY <4>2, <1>16
      <4>4. \E k \in i + 1 .. Len(decisions') : LeavesAt(decisions'[k], id)
        BY <4>1, <4>2, <4>3, <1>16
      <4> QED BY <3>1, <4>4
    <3> QED BY <3>1, <3>2, <3>3, <3>4
  <2> QED BY <1>16, <2>1, <2>2
<1>18. \A i \in DOMAIN decisions' : Explained(i)'
  BY <1>17 DEF Explained
<1>19. incumbent' \in Pool \cup {None}
  BY <1>12
<1> QED BY <1>6, <1>8, <1>9, <1>10, <1>14, <1>18, <1>19 DEF ArchiveInv

(* The invariant holds of every history.                                     *)
LEMMA ArchiveInvHolds ==
  ASSUME ArchiveConstants, PoolConstants
  PROVE  ArchiveSpec => []ArchiveInv
<1>1. ArchiveInit => ArchiveInv
  BY ArchiveInvInit
<1>2. ArchiveInv /\ [ArchiveNext]_archiveVars => ArchiveInv'
  <2> SUFFICES ASSUME ArchiveInv, [ArchiveNext]_archiveVars PROVE ArchiveInv'
    OBVIOUS
  <2>1. CASE ArchiveNext
    BY <2>1, ArchiveInvInsert DEF ArchiveNext
  <2>2. CASE UNCHANGED archiveVars
    BY <2>2 DEF archiveVars, ArchiveInv, KeptIsBest, Explained
  <2> QED BY <2>1, <2>2
<1> QED BY <1>1, <1>2, PTL DEF ArchiveSpec

(* Cells, incumbent and history have their types and a reserve is never      *)
(* larger than it may be.                                                    *)
THEOREM ArchiveTypeCorrect ==
  ASSUME ArchiveConstants, PoolConstants
  PROVE  ArchiveSpec => []ArchiveTypeOK
<1>1. ArchiveInv => ArchiveTypeOK
  <2> SUFFICES ASSUME ArchiveInv PROVE ArchiveTypeOK
    OBVIOUS
  <2>1. Pool \subseteq Members
    BY PoolIsNamed
  <2>2. \A c \in Cells : /\ cells[c] \in [elite : Pool \cup {None}, reserve : Seq(Pool)]
                         /\ cells[c].reserve \in Seq(Pool)
                         /\ Len(cells[c].reserve) <= ReserveSize
                         /\ cells[c].elite = None => cells[c].reserve = <<>>
    BY DEF ArchiveInv, CellSound, ReserveSound
  <2>3. incumbent \in Pool \cup {None} /\ evaluated \in Seq(Pool)
    BY DEF ArchiveInv
  <2> QED BY <2>1, <2>2, <2>3 DEF ArchiveTypeOK
<1> QED BY <1>1, ArchiveInvHolds, PTL

(* Whatever was inserted and in whichever order, the elite of a cell is the  *)
(* best that belongs there, and the incumbent the best of all (insert of     *)
(* both mechanisms).                                                         *)
THEOREM BestSurvives ==
  ASSUME ArchiveConstants, PoolConstants
  PROVE  ArchiveSpec => []EliteIsBest
<1>1. ArchiveInv => EliteIsBest
  <2> SUFFICES ASSUME ArchiveInv PROVE EliteIsBest
    OBVIOUS
  <2>1. \A m \in SeqRange(evaluated) :
          /\ cells[CellOf[m.program]].elite # None
          /\ RankOf[cells[CellOf[m.program]].elite.program] >= RankOf[m.program]
          /\ RankOf[incumbent.program] >= RankOf[m.program]
    BY DEF ArchiveInv, KeptIsBest
  <2>2. \A c \in Occupied(cells) : /\ cells[c].elite \in SeqRange(evaluated)
                                   /\ CellOf[cells[c].elite.program] = c
    BY DEF ArchiveInv, CellSound, Occupied
  <2> QED BY <2>1, <2>2 DEF EliteIsBest
<1> QED BY <1>1, ArchiveInvHolds, PTL

(* A cell holds no program twice, its reserve no lineage twice, and nothing  *)
(* in it is better than its elite (_admit_reserve, insert).                  *)
THEOREM CellsStayDiverse ==
  ASSUME ArchiveConstants, PoolConstants
  PROVE  ArchiveSpec => []CellsAreDiverse
<1>1. ArchiveInv => CellsAreDiverse
  <2> SUFFICES ASSUME ArchiveInv, NEW c \in Occupied(cells)
               PROVE  /\ \A m, n \in MembersOf(cells[c]) : m.program = n.program => m = n
                      /\ \A i, j \in DOMAIN cells[c].reserve :
                           cells[c].reserve[i].lineage = cells[c].reserve[j].lineage => i = j
                      /\ \A m \in SeqRange(cells[c].reserve) : Better(cells[c].elite, m)
                      /\ cells[c].elite \notin SeqRange(cells[c].reserve)
    BY DEF CellsAreDiverse
  <2>1. c \in Cells /\ cells[c].elite # None
    BY DEF Occupied
  <2>2. CellSound(cells[c], c)
    BY <2>1 DEF ArchiveInv
  <2>3. ReserveSound(cells[c].reserve)
    BY <2>2 DEF CellSound
  <2>4. cells[c].elite \in Pool /\ CellOf[cells[c].elite.program] = c
    BY <2>1, <2>2 DEF CellSound
  <2>5. cells[c].elite \notin SeqRange(cells[c].reserve)
    BY <2>1, <2>2, <2>4, BetterIsOrder, PoolIsNamed DEF CellSound
  <2> QED BY <2>1, <2>2, <2>3, <2>5 DEF CellSound, ReserveSound
<1> QED BY <1>1, ArchiveInvHolds, PTL

(* What a cell holds follows from the recorded decisions: none that was      *)
(* inserted is gone without a later decision that names it (_decision,       *)
(* _evicted).                                                                *)
THEOREM NothingLeavesUnrecorded ==
  ASSUME ArchiveConstants, PoolConstants
  PROVE  ArchiveSpec => []DecisionsExplainCells
<1>1. ArchiveInv => DecisionsExplainCells
  BY DEF ArchiveInv, Explained, HeldIn, LeavesAt, DecisionsExplainCells
<1> QED BY <1>1, ArchiveInvHolds, PTL

(* What becomes of the elite of an occupied cell.                            *)
LEMMA InsertKeepsElites ==
  ASSUME ArchiveConstants, PoolConstants, ArchiveInv, NEW x \in Pool, InsertBoth(x),
         NEW c \in Occupied(cells)
  PROVE  /\ c \in Occupied(cells')
         /\ cells'[c].elite # cells[c].elite =>
              /\ RankOf[cells'[c].elite.program] >= RankOf[cells[c].elite.program]
              /\ RankOf[cells'[c].elite.program] = RankOf[cells[c].elite.program] =>
                   IdOrder[cells'[c].elite.id] < IdOrder[cells[c].elite.id]
<1>1. c \in Cells /\ cells[c].elite # None /\ CellOf[x.program] \in Cells
  BY InsertionIsUpdate DEF Occupied
<1>2. PICK new, d : Inserted(x, new, d)
  BY InsertionIsUpdate
<1>3. DOMAIN cells = Cells /\ cells = [e \in Cells |-> cells[e]] /\ CellSound(cells[c], c)
  BY <1>1 DEF ArchiveInv
<1>4. cells' = [cells EXCEPT ![CellOf[x.program]] = new]
  BY <1>2 DEF Inserted
<1>5. CASE c # CellOf[x.program]
  <2>1. cells'[c] = cells[c]
    BY <1>1, <1>3, <1>4, <1>5
  <2> QED BY <1>1, <2>1 DEF Occupied
<1>6. CASE c = CellOf[x.program]
  <2>1. cells'[c] = new
    BY <1>1, <1>3, <1>4, <1>6
  <2>2. /\ CellSound(new, c) /\ new.elite # None
        /\ new.elite = cells[c].elite \/ Better(new.elite, cells[c].elite)
    BY <1>1, <1>2, <1>6 DEF Inserted, Update
  <2>3. new.elite \in Pool /\ cells[c].elite \in Pool
    BY <1>1, <1>3, <2>2 DEF CellSound
  <2>4. \A m \in Pool : RankOf[m.program] \in Int
    BY PoolIsNamed DEF Members, ArchiveConstants
  <2>5. new.elite # cells[c].elite =>
          /\ RankOf[new.elite.program] >= RankOf[cells[c].elite.program]
          /\ RankOf[new.elite.program] = RankOf[cells[c].elite.program] =>
               IdOrder[new.elite.id] < IdOrder[cells[c].elite.id]
    BY <2>2, <2>3, <2>4 DEF Better
  <2> QED BY <1>1, <2>1, <2>2, <2>5 DEF Occupied
<1> QED BY <1>5, <1>6

(* No insertion empties a cell, or gives it an elite that comes after the    *)
(* old one.                                                                  *)
THEOREM ElitesAreMonotone ==
  ASSUME ArchiveConstants, PoolConstants
  PROVE  ArchiveSpec => ElitesNeverGetWorse
<1> DEFINE Kept ==
      \A c \in Occupied(cells) :
        /\ c \in Occupied(cells')
        /\ LET old == cells[c].elite  new == cells'[c].elite IN
           new # old =>
             /\ RankOf[new.program] >= RankOf[old.program]
             /\ RankOf[new.program] = RankOf[old.program] => IdOrder[new.id] < IdOrder[old.id]
<1>1. ArchiveInv /\ [ArchiveNext]_archiveVars => [Kept]_archiveVars
  <2> SUFFICES ASSUME ArchiveInv, ArchiveNext PROVE Kept
    OBVIOUS
  <2>1. PICK x \in Pool : InsertBoth(x)
    BY DEF ArchiveNext
  <2> QED BY <2>1, InsertKeepsElites
<1>2. ArchiveSpec => [][Kept]_archiveVars
  BY <1>1, ArchiveInvHolds, PTL DEF ArchiveSpec
<1> QED BY <1>2 DEF ElitesNeverGetWorse

=============================================================================
