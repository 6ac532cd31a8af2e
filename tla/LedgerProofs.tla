---------------------------- MODULE LedgerProofs ----------------------------
(***************************************************************************)
(* The ledger keeps its promises for every number of runs, stages and      *)
(* reservations and for every value of the caps.  Each transaction inserts *)
(* one row, settles one active row, or appends a checkpoint.  The first    *)
(* part says what one inserted or settled row does to a SUM aggregate, for *)
(* tables of every size; its facts are obtained from the least             *)
(* counterexample: a nonempty set of naturals has a smallest element.      *)
(***************************************************************************)
EXTENDS Ledger, SequenceTheorems, TLAPS, WellFoundedInduction

-----------------------------------------------------------------------------
(* The SUM aggregate. *)

(* Every nonempty set of naturals has a least element. *)
LEMMA LeastNatural ==
  ASSUME NEW T, T \subseteq Nat, T # {}
  PROVE  \E x \in T : \A y \in T : x <= y
<1>1. \E x \in T : \A y \in T : ~ (<<y, x>> \in OpToRel(<, Nat))
  BY WFMin, NatLessThanWellFounded
<1>2. PICK x \in T : \A y \in T : ~ (<<y, x>> \in OpToRel(<, Nat))
  BY <1>1
<1>3. ASSUME NEW y \in T PROVE x <= y
  <2>1. ~ (<<y, x>> \in OpToRel(<, Nat))
    BY <1>2
  <2>2. x \in Nat /\ y \in Nat
    OBVIOUS
  <2>3. ~ (y < x)
    BY <2>1, <2>2 DEF OpToRel
  <2>4. QED
    BY <2>2, <2>3
<1>4. QED
  BY <1>3

(* A column holds integers. *)
IsColumn(v) == \A k \in Nat : ValueAt(v, k) \in Int

(* s is the table of running sums of v up to n. *)
SumsUpTo(v, s, n) ==
  /\ s \in [0..n -> Int]
  /\ s[0] = 0
  /\ \A k \in 1..n : s[k] = s[k - 1] + ValueAt(v, k)

(* Running sums exist up to every row. *)
LEMMA PrefixExists ==
  ASSUME NEW v, IsColumn(v)
  PROVE  \A n \in Nat : \E s : SumsUpTo(v, s, n)
<1> DEFINE T == {n \in Nat : ~ \E s : SumsUpTo(v, s, n)}
<1> SUFFICES ASSUME T # {} PROVE FALSE
  OBVIOUS
<1>1. PICK m \in T : \A y \in T : m <= y
  BY LeastNatural
<1>2. m # 0
  <2>1. SumsUpTo(v, [i \in 0..0 |-> 0], 0)
    BY DEF SumsUpTo
  <2>2. QED
    BY <2>1
<1>3. m - 1 \in Nat /\ m - 1 \notin T
  BY <1>1, <1>2
<1>4. PICK s : SumsUpTo(v, s, m - 1)
  BY <1>3
<1> DEFINE t == [i \in 0..m |-> IF i = m THEN s[m - 1] + ValueAt(v, m) ELSE s[i]]
<1>5. SumsUpTo(v, t, m)
  <2>1. t \in [0..m -> Int]
    BY <1>1, <1>3, <1>4 DEF SumsUpTo, IsColumn
  <2>2. t[0] = 0
    BY <1>2, <1>4 DEF SumsUpTo
  <2>3. ASSUME NEW k \in 1..m PROVE t[k] = t[k - 1] + ValueAt(v, k)
    <3>1. CASE k = m
      BY <1>1, <1>3, <3>1
    <3>2. CASE k # m
      <4>1. k \in 1..(m - 1) /\ k - 1 # m /\ k - 1 \in 0..m /\ k \in 0..m
        BY <1>1, <1>3, <3>2
      <4>2. s[k] = s[k - 1] + ValueAt(v, k)
        BY <1>4, <4>1 DEF SumsUpTo
      <4>3. QED
        BY <4>1, <4>2, <3>2
    <3>3. QED
      BY <3>1, <3>2
  <2>4. QED
    BY <2>1, <2>2, <2>3 DEF SumsUpTo
<1>6. QED
  BY <1>5

(* Running sums are unique. *)
LEMMA PrefixUnique ==
  ASSUME NEW v, IsColumn(v), NEW n \in Nat, NEW m \in Nat, NEW s, NEW t,
         SumsUpTo(v, s, n), SumsUpTo(v, t, m)
  PROVE  \A k \in Nat : k <= n /\ k <= m => s[k] = t[k]
<1> DEFINE T == {k \in Nat : k <= n /\ k <= m /\ s[k] # t[k]}
<1> SUFFICES ASSUME T # {} PROVE FALSE
  OBVIOUS
<1>1. PICK j \in T : \A y \in T : j <= y
  BY LeastNatural
<1>2. j # 0
  BY <1>1 DEF SumsUpTo
<1>3. j - 1 \in Nat /\ j - 1 \notin T
  BY <1>1, <1>2
<1>4. s[j - 1] = t[j - 1]
  BY <1>3
<1>5. j \in 1..n /\ j \in 1..m
  BY <1>2
<1>6. s[j] = t[j]
  BY <1>4, <1>5 DEF SumsUpTo
<1>7. QED
  BY <1>6

(* RunningSum obeys its recursion: the recursive function exists. *)
LEMMA RunningSumDef ==
  ASSUME NEW v, IsColumn(v)
  PROVE  /\ RunningSum(v) \in [Nat -> Int]
         /\ RunningSum(v)[0] = 0
         /\ \A k \in Nat : RunningSum(v)[k + 1] = RunningSum(v)[k] + ValueAt(v, k + 1)
<1> DEFINE P(n) == CHOOSE s : SumsUpTo(v, s, n)
           F == [n \in Nat |-> P(n)[n]]
           Eq(f) == f = [k \in Nat |-> IF k = 0 THEN 0 ELSE f[k - 1] + ValueAt(v, k)]
<1>1. \A n \in Nat : SumsUpTo(v, P(n), n)
  BY PrefixExists
<1>3. F[0] = 0
  BY <1>1 DEF SumsUpTo
<1>4. ASSUME NEW k \in Nat, k # 0
      PROVE  F[k] = F[k - 1] + ValueAt(v, k)
  <2>1. k - 1 \in Nat /\ k \in 1..k
    BY <1>4
  <2>2. P(k)[k] = P(k)[k - 1] + ValueAt(v, k)
    BY <1>1, <2>1 DEF SumsUpTo
  <2>3. P(k)[k - 1] = P(k - 1)[k - 1]
    <3>1. SumsUpTo(v, P(k), k) /\ SumsUpTo(v, P(k - 1), k - 1)
      BY <1>1, <2>1
    <3> HIDE DEF P
    <3>2. \A i \in Nat : i <= k /\ i <= k - 1 => P(k)[i] = P(k - 1)[i]
      BY <2>1, <3>1, PrefixUnique
    <3>3. QED
      BY <2>1, <3>2
  <2> HIDE DEF P
  <2>4. QED
    BY <2>1, <2>2, <2>3
<1>5. Eq(F)
  <2>1. F = [k \in Nat |-> F[k]]
    OBVIOUS
  <2> HIDE DEF F
  <2>2. ASSUME NEW k \in Nat
        PROVE  F[k] = IF k = 0 THEN 0 ELSE F[k - 1] + ValueAt(v, k)
    <3>1. CASE k = 0
      BY <3>1, <1>3
    <3>2. CASE k # 0
      BY <3>2, <1>4
    <3> QED BY <3>1, <3>2
  <2>3. QED
    BY <2>1, <2>2
<1>6. RunningSum(v) = CHOOSE f : Eq(f)
  BY DEF RunningSum
<1>7. Eq(RunningSum(v))
  <2> HIDE DEF F, Eq
  <2>1. QED
    BY <1>5, <1>6
<1> HIDE DEF F, P
<1>8. RunningSum(v)[0] = 0
  BY <1>7
<1>9. \A k \in Nat : RunningSum(v)[k + 1] = RunningSum(v)[k] + ValueAt(v, k + 1)
  BY <1>7
<1>10. \A k \in Nat : RunningSum(v)[k] \in Int
  <2> DEFINE T == {k \in Nat : RunningSum(v)[k] \notin Int}
  <2> SUFFICES ASSUME T # {} PROVE FALSE
    OBVIOUS
  <2>1. PICK m \in T : \A y \in T : m <= y
    BY LeastNatural
  <2>2. m # 0
    BY <1>8
  <2>3. m - 1 \in Nat /\ m - 1 \notin T
    BY <2>1, <2>2
  <2>4. RunningSum(v)[m - 1] \in Int
    BY <2>3
  <2>5. RunningSum(v)[m] = RunningSum(v)[m - 1] + ValueAt(v, m)
    BY <1>9, <2>3
  <2>6. QED
    BY <2>4, <2>5 DEF IsColumn
<1>11. QED
  BY <1>7, <1>8, <1>9, <1>10

(* Changing the value of one row changes the aggregate by the difference. *)
LEMMA RunningSumUpdate ==
  ASSUME NEW v, NEW w, IsColumn(v), IsColumn(w), NEW j \in Nat, j # 0,
         \A k \in Nat : k # j => ValueAt(w, k) = ValueAt(v, k)
  PROVE  \A n \in Nat : RunningSum(w)[n] =
            IF j <= n THEN RunningSum(v)[n] + (ValueAt(w, j) - ValueAt(v, j))
                      ELSE RunningSum(v)[n]
<1> DEFINE Q(n) == RunningSum(w)[n] =
                     IF j <= n THEN RunningSum(v)[n] + (ValueAt(w, j) - ValueAt(v, j))
                               ELSE RunningSum(v)[n]
           T == {n \in Nat : ~ Q(n)}
<1> SUFFICES ASSUME T # {} PROVE FALSE
  OBVIOUS
<1>1. PICK m \in T : \A y \in T : m <= y
  BY LeastNatural
<1>2. m # 0
  BY RunningSumDef
<1>3. m - 1 \in Nat /\ m - 1 \notin T
  BY <1>1, <1>2
<1>4. Q(m - 1)
  BY <1>3
<1>5. /\ RunningSum(w)[m] = RunningSum(w)[m - 1] + ValueAt(w, m)
      /\ RunningSum(v)[m] = RunningSum(v)[m - 1] + ValueAt(v, m)
      /\ RunningSum(v)[m - 1] \in Int
  BY <1>3, RunningSumDef
<1>6. ValueAt(w, m) \in Int /\ ValueAt(v, m) \in Int /\ ValueAt(w, j) \in Int /\ ValueAt(v, j) \in Int
  BY DEF IsColumn
<1>7. m # j => ValueAt(w, m) = ValueAt(v, m)
  OBVIOUS
<1> HIDE DEF T
<1>8. m \in Nat
  BY DEF T
<1>9. Q(m)
  BY <1>3, <1>4, <1>5, <1>6, <1>7, <1>8
<1>10. QED
  BY <1>9 DEF T

(* A column that is smaller row by row has a smaller aggregate. *)
LEMMA RunningSumMonotone ==
  ASSUME NEW v, NEW w, IsColumn(v), IsColumn(w),
         \A k \in Nat : ValueAt(v, k) <= ValueAt(w, k)
  PROVE  \A n \in Nat : RunningSum(v)[n] <= RunningSum(w)[n]
<1> DEFINE T == {n \in Nat : ~ (RunningSum(v)[n] <= RunningSum(w)[n])}
<1> SUFFICES ASSUME T # {} PROVE FALSE
  OBVIOUS
<1>1. PICK m \in T : \A y \in T : m <= y
  BY LeastNatural
<1>2. m # 0
  BY RunningSumDef
<1>3. m - 1 \in Nat /\ m - 1 \notin T
  BY <1>1, <1>2
<1>4. RunningSum(v)[m - 1] <= RunningSum(w)[m - 1]
  BY <1>3
<1>5. /\ RunningSum(w)[m] = RunningSum(w)[m - 1] + ValueAt(w, m)
      /\ RunningSum(v)[m] = RunningSum(v)[m - 1] + ValueAt(v, m)
      /\ RunningSum(v)[m - 1] \in Int /\ RunningSum(w)[m - 1] \in Int
  BY <1>3, RunningSumDef
<1>6. ValueAt(w, m) \in Int /\ ValueAt(v, m) \in Int /\ ValueAt(v, m) <= ValueAt(w, m)
  BY DEF IsColumn
<1>7. QED
  BY <1>4, <1>5, <1>6

(* A table of n integers is a column that is 0 after row n. *)
LEMMA TableIsColumn ==
  ASSUME NEW n \in Nat, NEW v \in [1..n -> Int]
  PROVE  /\ IsColumn(v)
         /\ \A k \in 1..n : ValueAt(v, k) = v[k]
         /\ \A k \in Nat : k \notin 1..n => ValueAt(v, k) = 0
BY DEF IsColumn, ValueAt

(* Inserting a row adds its value. *)
LEMMA SumAppend ==
  ASSUME NEW n \in Nat, NEW v \in [1..n -> Int], NEW w \in [1..(n + 1) -> Int],
         \A k \in 1..n : w[k] = v[k]
  PROVE  RunningSum(w)[n + 1] = RunningSum(v)[n] + w[n + 1]
<1>1. IsColumn(v) /\ IsColumn(w)
  BY TableIsColumn
<1>2. \A k \in Nat : k # n + 1 => ValueAt(w, k) = ValueAt(v, k)
  BY DEF ValueAt
<1>3. ValueAt(w, n + 1) = w[n + 1] /\ ValueAt(v, n + 1) = 0 /\ w[n + 1] \in Int
  BY DEF ValueAt
<1>4. RunningSum(w)[n + 1] = RunningSum(v)[n + 1] + (ValueAt(w, n + 1) - ValueAt(v, n + 1))
  BY <1>1, <1>2, RunningSumUpdate
<1>5. RunningSum(v)[n + 1] = RunningSum(v)[n] + ValueAt(v, n + 1) /\ RunningSum(v)[n] \in Int
  BY <1>1, RunningSumDef
<1>6. QED
  BY <1>3, <1>4, <1>5

(* Updating a row replaces its value, in the sum of every prefix that has it. *)
LEMMA SumReplace ==
  ASSUME NEW n \in Nat, NEW v \in [1..n -> Int], NEW w \in [1..n -> Int], NEW j \in 1..n,
         \A k \in 1..n : k # j => w[k] = v[k]
  PROVE  /\ RunningSum(v)[n] \in Int
         /\ RunningSum(w)[n] = RunningSum(v)[n] + (w[j] - v[j])
         /\ \A m \in Nat : m < j => RunningSum(w)[m] = RunningSum(v)[m]
<1>1. IsColumn(v) /\ IsColumn(w)
  BY TableIsColumn
<1>2. \A k \in Nat : k # j => ValueAt(w, k) = ValueAt(v, k)
  BY DEF ValueAt
<1>3. ValueAt(w, j) = w[j] /\ ValueAt(v, j) = v[j]
  BY DEF ValueAt
<1>4. \A m \in Nat : RunningSum(w)[m] =
        IF j <= m THEN RunningSum(v)[m] + (ValueAt(w, j) - ValueAt(v, j))
                  ELSE RunningSum(v)[m]
  <2>1. j \in Nat /\ j # 0
    OBVIOUS
  <2>2. QED
    BY <1>1, <1>2, <2>1, RunningSumUpdate
<1>5. RunningSum(v)[n] \in Int
  BY <1>1, RunningSumDef
<1>6. RunningSum(w)[n] = RunningSum(v)[n] + (w[j] - v[j])
  BY <1>3, <1>4
<1>7. ASSUME NEW m \in Nat, m < j PROVE RunningSum(w)[m] = RunningSum(v)[m]
  BY <1>4, <1>7
<1>8. QED
  BY <1>5, <1>6, <1>7

(* The sum of the first n rows depends on these rows only. *)
LEMMA SumAgree ==
  ASSUME NEW v, NEW w, IsColumn(v), IsColumn(w), NEW j \in Nat,
         \A k \in 1..j : ValueAt(w, k) = ValueAt(v, k)
  PROVE  \A n \in Nat : n <= j => RunningSum(w)[n] = RunningSum(v)[n]
<1> DEFINE Q(n) == n <= j => RunningSum(w)[n] = RunningSum(v)[n]
           T == {n \in Nat : ~ Q(n)}
<1> SUFFICES ASSUME T # {} PROVE FALSE
  OBVIOUS
<1>1. PICK m \in T : \A y \in T : m <= y
  BY LeastNatural
<1>2. m # 0
  BY RunningSumDef
<1>3. m - 1 \in Nat /\ m - 1 \notin T
  BY <1>1, <1>2
<1>4. Q(m - 1)
  BY <1>3
<1>5. /\ RunningSum(w)[m] = RunningSum(w)[m - 1] + ValueAt(w, m)
      /\ RunningSum(v)[m] = RunningSum(v)[m - 1] + ValueAt(v, m)
  BY <1>3, RunningSumDef
<1>6. m <= j => ValueAt(w, m) = ValueAt(v, m)
  BY <1>2
<1>7. QED
  BY <1>3, <1>4, <1>5, <1>6

(* Rows that hold 0 after row j add nothing. *)
LEMMA SumConstantAfter ==
  ASSUME NEW v, IsColumn(v), NEW j \in Nat,
         \A k \in Nat : k > j => ValueAt(v, k) = 0
  PROVE  \A n \in Nat : n >= j => RunningSum(v)[n] = RunningSum(v)[j]
<1> DEFINE Q(n) == n >= j => RunningSum(v)[n] = RunningSum(v)[j]
           T == {n \in Nat : ~ Q(n)}
<1> SUFFICES ASSUME T # {} PROVE FALSE
  OBVIOUS
<1>1. PICK m \in T : \A y \in T : m <= y
  BY LeastNatural
<1>2. m # 0
  BY RunningSumDef
<1>3. m - 1 \in Nat /\ m - 1 \notin T
  BY <1>1, <1>2
<1>4. Q(m - 1)
  BY <1>3
<1>5. RunningSum(v)[m] = RunningSum(v)[m - 1] + ValueAt(v, m) /\ RunningSum(v)[m - 1] \in Int
  BY <1>3, RunningSumDef
<1>6. m > j => ValueAt(v, m) = 0
  BY <1>2
<1>7. m >= j => m = j \/ (m > j /\ m - 1 >= j)
  BY <1>3
<1>8. QED
  BY <1>3, <1>4, <1>5, <1>6, <1>7

(* Amounts that are not negative have a sum that is not negative. *)
LEMMA SumNatural ==
  ASSUME NEW v, IsColumn(v), \A k \in Nat : ValueAt(v, k) >= 0
  PROVE  \A n \in Nat : RunningSum(v)[n] >= 0
<1> DEFINE Q(n) == RunningSum(v)[n] >= 0
           T == {n \in Nat : ~ Q(n)}
<1> SUFFICES ASSUME T # {} PROVE FALSE
  OBVIOUS
<1>1. PICK m \in T : \A y \in T : m <= y
  BY LeastNatural
<1>2. m # 0
  BY RunningSumDef
<1>3. m - 1 \in Nat /\ m - 1 \notin T
  BY <1>1, <1>2
<1>4. Q(m - 1)
  BY <1>3
<1>5. RunningSum(v)[m] = RunningSum(v)[m - 1] + ValueAt(v, m) /\ RunningSum(v)[m - 1] \in Int
  BY <1>3, RunningSumDef
<1>6. ValueAt(v, m) >= 0 /\ ValueAt(v, m) \in Int
  BY DEF IsColumn
<1>7. QED
  BY <1>3, <1>4, <1>5, <1>6

(* The sum of two columns is the sum of their sums. *)
LEMMA SumAdd ==
  ASSUME NEW u, NEW v, NEW w, IsColumn(u), IsColumn(v), IsColumn(w),
         \A k \in Nat : ValueAt(u, k) = ValueAt(v, k) + ValueAt(w, k)
  PROVE  \A n \in Nat : RunningSum(u)[n] = RunningSum(v)[n] + RunningSum(w)[n]
<1> DEFINE Q(n) == RunningSum(u)[n] = RunningSum(v)[n] + RunningSum(w)[n]
           T == {n \in Nat : ~ Q(n)}
<1> SUFFICES ASSUME T # {} PROVE FALSE
  OBVIOUS
<1>1. PICK m \in T : \A y \in T : m <= y
  BY LeastNatural
<1>2. m # 0
  BY RunningSumDef
<1>3. m - 1 \in Nat /\ m - 1 \notin T
  BY <1>1, <1>2
<1>4. Q(m - 1)
  BY <1>3
<1>5. /\ RunningSum(u)[m] = RunningSum(u)[m - 1] + ValueAt(u, m)
      /\ RunningSum(v)[m] = RunningSum(v)[m - 1] + ValueAt(v, m)
      /\ RunningSum(w)[m] = RunningSum(w)[m - 1] + ValueAt(w, m)
      /\ RunningSum(v)[m - 1] \in Int /\ RunningSum(w)[m - 1] \in Int
  BY <1>3, RunningSumDef
<1>6. ValueAt(u, m) = ValueAt(v, m) + ValueAt(w, m) /\ ValueAt(v, m) \in Int /\ ValueAt(w, m) \in Int
  BY DEF IsColumn
<1>7. QED
  BY <1>3, <1>4, <1>5, <1>6

(* A sum whose terms are covered, each by a term of its own, by those of     *)
(* another column is at most the sum of that column.                         *)
LEMMA SumInjection ==
  ASSUME NEW m \in Nat, NEW n \in Nat, NEW v \in [1..m -> Nat], NEW w \in [1..n -> Nat],
         NEW f \in [1..m -> 1..n], \A a, b \in 1..m : f[a] = f[b] => a = b,
         \A a \in 1..m : v[a] <= w[f[a]]
  PROVE  RunningSum(v)[m] <= RunningSum(w)[n]
<1> DEFINE Covered(k, x) == \A a \in 1..m : a <= k => v[a] <= x[f[a]]
           Q(k) == \A x \in [1..n -> Nat] :
                     Covered(k, x) => RunningSum(v)[k] <= RunningSum(x)[n]
           T == {k \in Nat : k <= m /\ ~ Q(k)}
<1>1. /\ IsColumn(v) /\ RunningSum(v) \in [Nat -> Int] /\ RunningSum(v)[0] = 0
      /\ \A k \in Nat : RunningSum(v)[k + 1] = RunningSum(v)[k] + ValueAt(v, k + 1)
      /\ \A k \in 1..m : ValueAt(v, k) = v[k]
  <2>1. v \in [1..m -> Int]
    OBVIOUS
  <2>2. QED
    BY <2>1, TableIsColumn, RunningSumDef
<1>2. T = {}
  <2> SUFFICES ASSUME T # {} PROVE FALSE
    OBVIOUS
  <2>1. PICK k \in T : \A y \in T : k <= y
    <3>1. T \subseteq Nat
      OBVIOUS
    <3> HIDE DEF T
    <3>2. QED
      BY <3>1, LeastNatural
  <2>2. k \in Nat /\ k <= m /\ ~ Q(k)
    OBVIOUS
  <2>3. PICK x \in [1..n -> Nat] : Covered(k, x) /\ ~ (RunningSum(v)[k] <= RunningSum(x)[n])
    BY <2>2
  <2>4. x \in [1..n -> Int]
    BY <2>3
  <2>5. RunningSum(x)[n] \in Int /\ RunningSum(x)[n] >= 0
    <3>1. IsColumn(x) /\ \A j \in Nat : ValueAt(x, j) >= 0
      <4>1. IsColumn(x)
        BY <2>4, TableIsColumn
      <4>2. QED
        BY <2>3, <4>1 DEF ValueAt
    <3>2. RunningSum(x) \in [Nat -> Int]
      BY <3>1, RunningSumDef
    <3>3. RunningSum(x)[n] >= 0
      BY <3>1, SumNatural
    <3>4. QED
      BY <3>2, <3>3
  <2>6. CASE k = 0
    BY <1>1, <2>3, <2>5, <2>6
  <2>7. CASE k # 0
    <3> DEFINE j == k - 1
               y == [x EXCEPT ![f[k]] = 0]
    <3>1. j \in Nat /\ j + 1 = k /\ j <= m /\ ~ (k <= j) /\ k \in 1..m /\ f[k] \in 1..n
      BY <2>2, <2>7
    <3>2. Q(j)
      BY <2>1, <3>1
    <3>3. /\ y \in [1..n -> Nat] /\ y \in [1..n -> Int] /\ y[f[k]] = 0
          /\ \A i \in 1..n : i # f[k] => y[i] = x[i]
      BY <2>3, <3>1
    <3> HIDE DEF y, j
    <3>4. Covered(j, y)
      <4> SUFFICES ASSUME NEW a \in 1..m, a <= j PROVE v[a] <= y[f[a]]
        OBVIOUS
      <4>1. a # k /\ a <= k
        <5>1. a \in Nat /\ a <= j /\ j \in Nat /\ j + 1 = k
          BY <3>1
        <5>2. QED
          BY <5>1
      <4>2. f[a] # f[k]
        BY <3>1, <4>1
      <4>3. y[f[a]] = x[f[a]]
        BY <3>3, <4>2
      <4>4. QED
        BY <2>3, <4>1, <4>3
    <3>5. RunningSum(v)[j] <= RunningSum(y)[n]
      BY <3>2, <3>3, <3>4
    <3>6. RunningSum(y)[n] = RunningSum(x)[n] + (0 - x[f[k]])
      <4> DEFINE z == f[k]
      <4>1. z \in 1..n /\ y[z] = 0 /\ \A i \in 1..n : i # z => y[i] = x[i]
        BY <3>1, <3>3
      <4> HIDE DEF z
      <4>2. RunningSum(y)[n] = RunningSum(x)[n] + (y[z] - x[z])
        <5>1. x \in [1..n -> Int] /\ y \in [1..n -> Int] /\ z \in 1..n
          BY <2>4, <3>3, <4>1
        <5>2. \A i \in 1..n : i # z => y[i] = x[i]
          BY <4>1
        <5> HIDE DEF Q, T, Covered
        <5>3. QED
          BY <5>1, <5>2, SumReplace, ZenonT(60)
      <4>3. QED
        BY <4>1, <4>2 DEF z
    <3>7. RunningSum(v)[k] = RunningSum(v)[j] + v[k]
      BY <1>1, <3>1
    <3>8. v[k] <= x[f[k]] /\ v[k] \in Int /\ x[f[k]] \in Int
      <4>1. k <= k
        BY <2>2
      <4>2. QED
        BY <2>3, <3>1, <4>1
    <3>9. RunningSum(v)[j] \in Int
      BY <1>1, <3>1
    <3>10. ~ (RunningSum(v)[k] <= RunningSum(x)[n])
      BY <2>3
    <3> DEFINE A == RunningSum(v)[k]
               B == RunningSum(v)[j]
               C == RunningSum(x)[n]
               D == RunningSum(y)[n]
               E == v[k]
               F == x[f[k]]
    <3>11. /\ A = B + E /\ B <= D /\ D = C + (0 - F) /\ E <= F /\ ~ (A <= C)
           /\ B \in Int /\ C \in Int /\ E \in Int /\ F \in Int
      BY <2>5, <3>5, <3>6, <3>7, <3>8, <3>9, <3>10
    <3> HIDE DEF A, B, C, D, E, F
    <3>12. QED
      BY <3>11
  <2>8. QED
    BY <2>6, <2>7
<1>3. Q(m)
  <2>1. m \in Nat /\ m <= m
    OBVIOUS
  <2> HIDE DEF Q
  <2>2. QED
    BY <1>2, <2>1
<1>4. Covered(m, w)
  OBVIOUS
<1>5. QED
  BY <1>3, <1>4


-----------------------------------------------------------------------------
(* The reconciled prefix that covered_reservation_sequence=None selects       *)
(* exists: it ends at the last row or before the first unfinished one.        *)
LEMMA ReconcilableThroughInRange ==
  ASSUME reservation \in Seq(ReservationRow)
  PROVE  /\ ReconcilableThrough \in 0..Len(reservation)
         /\ FinishedThrough(ReconcilableThrough)
<1> DEFINE n == Len(reservation)
           T == {m \in 1..n : reservation[m].state # "reconciled"}
           P(m) == /\ FinishedThrough(m)
                   /\ m < n => reservation[m + 1].state # "reconciled"
<1>1. n \in Nat
  OBVIOUS
<1>2. \E m \in 0..n : P(m)
  <2>1. CASE T = {}
    <3>1. P(n)
      BY <1>1, <2>1 DEF FinishedThrough, Rowids
    <3>2. QED
      BY <1>1, <3>1
  <2>2. CASE T # {}
    <3>0. T \subseteq Nat
      BY <1>1
    <3>1. PICK m \in T : \A y \in T : m <= y
      <4> HIDE DEF T
      <4>1. QED
        BY <3>0, <2>2, LeastNatural
    <3>2. m - 1 \in 0..n /\ m - 1 < n /\ (m - 1) + 1 = m
      BY <1>1, <3>1
    <3>3. FinishedThrough(m - 1)
      BY <1>1, <3>1 DEF FinishedThrough, Rowids
    <3>4. QED
      BY <3>1, <3>2, <3>3
  <2>3. QED
    BY <2>1, <2>2
<1>3. ReconcilableThrough = CHOOSE m \in 0..n : P(m)
  BY DEF ReconcilableThrough
<1>4. QED
  BY <1>2, <1>3

-----------------------------------------------------------------------------
(* The shape of a step. *)

(* reserve() inserted the row of q under every cap. *)
Insertion(q) ==
  /\ CoverageValid
  /\ \E p, s \in Overrides : FitsCaps(q, p, s)
  /\ reservation' = Append(reservation, NewRow(q))
  /\ UNCHANGED <<cash_checkpoint, observed>>

(* row is a settlement of the active row old. *)
Settles(old, row) ==
  /\ row.run_id = old.run_id /\ row.stage = old.stage
  /\ row.reserved = old.reserved
  /\ \/ row.state = "reconciled" /\ row.actual <= row.reserved /\ row.uncertain = old.uncertain
     \/ row.state = "uncertain" /\ row.actual = old.actual /\ row.uncertain = row.reserved

Settlement(k, row) ==
  /\ reservation[k].state = "active"
  /\ Settles(reservation[k], row)
  /\ reservation' = [reservation EXCEPT ![k] = row]
  /\ UNCHANGED <<cash_checkpoint, observed>>

(* Every transaction is an insertion, a settlement of one active row, a new   *)
(* checkpoint, or changes nothing.                                            *)
LEMMA StepShape ==
  ASSUME LedgerTypeOK, [LedgerNext]_ledgerVars
  PROVE  \/ \E q \in Request : Insertion(q)
         \/ \E k \in Rowids, row \in ReservationRow : Settlement(k, row)
         \/ /\ UNCHANGED reservation
            /\ \E b \in Billed, t \in 0..Len(reservation), o \in Observations, d \in BOOLEAN :
                 AppendCashCheckpoint(b, t, o, d)
         \/ UNCHANGED <<reservation, cash_checkpoint>>
<1> USE LedgerConstants
<1>0. Len(reservation) \in Nat /\ \A k \in Rowids : reservation[k] \in ReservationRow
  BY DEF LedgerTypeOK, Rowids
<1>1. ASSUME NEW q \in Request, NEW p \in Overrides, NEW s \in Overrides, Reserve(q, p, s)
      PROVE  \/ Insertion(q)
             \/ UNCHANGED <<reservation, cash_checkpoint>>
  BY <1>1 DEF Reserve, Insertion
<1>2. ASSUME NEW id \in Ids, NEW a \in 0..RequestCap, NEW rec \in Records, Reconcile(id, a, rec)
      PROVE  \/ \E k \in Rowids, row \in ReservationRow : Settlement(k, row)
             \/ UNCHANGED <<reservation, cash_checkpoint>>
  <2>1. PICK k \in RowOf(id) :
          \/ /\ reservation[k].state = "active"
             /\ a <= reservation[k].reserved
             /\ reservation' = [reservation EXCEPT ![k] =
                  [@ EXCEPT !.state = "reconciled", !.actual = a,
                            !.released = reservation[k].reserved - a, !.record = rec]]
          \/ UNCHANGED reservation
    BY <1>2 DEF Reconcile
  <2>2. UNCHANGED <<cash_checkpoint, observed>>
    BY <1>2 DEF Reconcile
  <2>3. CASE UNCHANGED reservation
    BY <2>2, <2>3
  <2>4. CASE ~ UNCHANGED reservation
    <3> DEFINE old == reservation[k]
               row == [old EXCEPT !.state = "reconciled", !.actual = a,
                                  !.released = old.reserved - a, !.record = rec]
    <3>1. k \in Rowids /\ old \in ReservationRow
      BY <1>0 DEF RowOf
    <3>2. /\ old.state = "active" /\ a <= old.reserved
          /\ reservation' = [reservation EXCEPT ![k] = row]
      BY <2>1, <2>4
    <3>3. row \in ReservationRow
      <4>1. a \in Nat /\ old.reserved - a \in Nat
        BY <3>1, <3>2 DEF ReservationRow
      <4>2. QED
        BY <3>1, <4>1 DEF ReservationRow
    <3>4. Settles(old, row)
      BY <3>1, <3>2 DEF Settles, ReservationRow
    <3>5. Settlement(k, row)
      BY <2>2, <3>2, <3>4 DEF Settlement
    <3> QED
      BY <3>1, <3>3, <3>5
  <2> QED
    BY <2>3, <2>4
<1>3. ASSUME NEW id \in Ids, NEW rec \in Records, MarkUncertain(id, rec)
      PROVE  \/ \E k \in Rowids, row \in ReservationRow : Settlement(k, row)
             \/ UNCHANGED <<reservation, cash_checkpoint>>
  <2>1. PICK k \in RowOf(id) :
          \/ /\ reservation[k].state = "active"
             /\ reservation' = [reservation EXCEPT ![k] =
                  [@ EXCEPT !.state = "uncertain",
                            !.uncertain = reservation[k].reserved, !.record = rec]]
          \/ UNCHANGED reservation
    BY <1>3 DEF MarkUncertain
  <2>2. UNCHANGED <<cash_checkpoint, observed>>
    BY <1>3 DEF MarkUncertain
  <2>3. CASE UNCHANGED reservation
    BY <2>2, <2>3
  <2>4. CASE ~ UNCHANGED reservation
    <3> DEFINE old == reservation[k]
               row == [old EXCEPT !.state = "uncertain", !.uncertain = old.reserved,
                                  !.record = rec]
    <3>1. k \in Rowids /\ old \in ReservationRow
      BY <1>0 DEF RowOf
    <3>2. old.state = "active" /\ reservation' = [reservation EXCEPT ![k] = row]
      BY <2>1, <2>4
    <3>3. row \in ReservationRow
      BY <3>1, <3>2 DEF ReservationRow
    <3>4. Settles(old, row)
      BY <3>1, <3>2 DEF Settles, ReservationRow
    <3>5. Settlement(k, row)
      BY <2>2, <3>2, <3>4 DEF Settlement
    <3> QED
      BY <3>1, <3>3, <3>5
  <2> QED
    BY <2>3, <2>4
<1>4. ASSUME NEW b \in Billed, NEW t \in 0..Len(reservation), NEW o \in Observations,
             NEW d \in BOOLEAN, AppendCashCheckpoint(b, t, o, d)
      PROVE  UNCHANGED reservation
  BY <1>4 DEF AppendCashCheckpoint
<1>5. ASSUME NEW b \in Billed, NEW o \in Observations, NEW d \in BOOLEAN,
             AppendCashCheckpointCurrent(b, o, d)
      PROVE  /\ UNCHANGED reservation
             /\ \E t \in 0..Len(reservation) : AppendCashCheckpoint(b, t, o, d)
  <2>1. ReconcilableThrough \in 0..Len(reservation)
    BY ReconcilableThroughInRange DEF LedgerTypeOK
  <2>2. QED
    BY <1>5, <2>1 DEF AppendCashCheckpointCurrent, AppendCashCheckpoint
<1>6. CASE UNCHANGED ledgerVars
  BY <1>6 DEF ledgerVars
<1>7. CASE LedgerNext
  BY <1>1, <1>2, <1>3, <1>4, <1>5, <1>7 DEF LedgerNext
<1> QED
  BY <1>6, <1>7

-----------------------------------------------------------------------------
(* Type correctness. *)

(* What an inserted or settled row leaves of the table. *)
LEMMA TableAfterStep ==
  ASSUME LedgerTypeOK
  PROVE  /\ Len(reservation) \in Nat
         /\ \A k \in Rowids : reservation[k] \in ReservationRow
         /\ \A q \in Request : Insertion(q) =>
              /\ NewRow(q) \in ReservationRow
              /\ reservation' \in Seq(ReservationRow)
              /\ Len(reservation') = Len(reservation) + 1
              /\ \A k \in Rowids : reservation'[k] = reservation[k]
              /\ reservation'[Len(reservation) + 1] = NewRow(q)
         /\ \A k \in Rowids, row \in ReservationRow : Settlement(k, row) =>
              /\ reservation' \in Seq(ReservationRow)
              /\ Len(reservation') = Len(reservation)
              /\ \A j \in Rowids : j # k => reservation'[j] = reservation[j]
              /\ reservation'[k] = row
<1>1. /\ reservation \in Seq(ReservationRow) /\ Len(reservation) \in Nat
      /\ \A k \in Rowids : reservation[k] \in ReservationRow
  BY DEF LedgerTypeOK, Rowids
<1>2. ASSUME NEW q \in Request, Insertion(q)
      PROVE  /\ NewRow(q) \in ReservationRow
             /\ reservation' \in Seq(ReservationRow)
             /\ Len(reservation') = Len(reservation) + 1
             /\ \A k \in Rowids : reservation'[k] = reservation[k]
             /\ reservation'[Len(reservation) + 1] = NewRow(q)
  <2>1. NewRow(q) \in ReservationRow
    BY LedgerConstants DEF NewRow, ReservationRow, Request
  <2>2. reservation' = Append(reservation, NewRow(q))
    BY <1>2 DEF Insertion
  <2>3. QED
    BY <1>1, <2>1, <2>2 DEF Rowids
<1>3. ASSUME NEW k \in Rowids, NEW row \in ReservationRow, Settlement(k, row)
      PROVE  /\ reservation' \in Seq(ReservationRow)
             /\ Len(reservation') = Len(reservation)
             /\ \A j \in Rowids : j # k => reservation'[j] = reservation[j]
             /\ reservation'[k] = row
  <2>1. reservation' = [reservation EXCEPT ![k] = row]
    BY <1>3 DEF Settlement
  <2>2. QED
    BY <1>1, <2>1, ExceptSeq DEF Rowids
<1>4. QED
  BY <1>1, <1>2, <1>3

(* The published amount of a checkpoint is a natural number. *)
LEMMA CoveredPublishedType ==
  ASSUME LedgerTypeOK, NEW t \in Nat
  PROVE  CoveredPublished(t) \in Nat
<1> DEFINE n == Len(reservation)
<1>1. n \in Nat /\ \A k \in 1..n : reservation[k] \in ReservationRow
  BY DEF LedgerTypeOK
<1>2. ActualColumn \in [1..n -> Nat]
  BY <1>1 DEF ActualColumn, Rowids, ReservationRow
<1>3. ActualColumn \in [1..n -> Int]
  BY <1>2
<1>4. IsColumn(ActualColumn)
  BY <1>1, <1>3, TableIsColumn
<1>5. \A k \in Nat : ValueAt(ActualColumn, k) >= 0
  BY <1>1, <1>2 DEF ValueAt
<1>6. RunningSum(ActualColumn)[t] >= 0 /\ RunningSum(ActualColumn)[t] \in Int
  BY <1>4, <1>5, SumNatural, RunningSumDef
<1>7. QED
  BY <1>6, LedgerConstants DEF CoveredPublished

(* The tables only ever hold well-formed rows. *)
LEMMA TypeStep ==
  ASSUME LedgerTypeOK, [LedgerNext]_ledgerVars
  PROVE  LedgerTypeOK'
<1> USE LedgerConstants
<1>0. /\ reservation \in Seq(ReservationRow) /\ cash_checkpoint \in Seq(CheckpointRow)
      /\ observed \in Nat
  BY DEF LedgerTypeOK
<1>1. ASSUME NEW q \in Request, Insertion(q) PROVE LedgerTypeOK'
  BY <1>0, <1>1, TableAfterStep DEF LedgerTypeOK, Insertion
<1>2. ASSUME NEW k \in Rowids, NEW row \in ReservationRow, Settlement(k, row)
      PROVE  LedgerTypeOK'
  BY <1>0, <1>2, TableAfterStep DEF LedgerTypeOK, Settlement
<1>3. ASSUME NEW b \in Billed, NEW t \in 0..Len(reservation), NEW o \in Observations,
             NEW d \in BOOLEAN, AppendCashCheckpoint(b, t, o, d)
      PROVE  LedgerTypeOK'
  <2> DEFINE record == [billed |-> b, covered |-> t, published |-> CoveredPublished(t),
                        observation |-> o, decrease_authorized |-> d]
  <2>1. t \in Nat /\ b \in Nat
    BY <1>0
  <2>2. record \in CheckpointRow
    BY <2>1, CoveredPublishedType DEF CheckpointRow
  <2>3. cash_checkpoint' = cash_checkpoint \/ cash_checkpoint' = Append(cash_checkpoint, record)
    BY <1>3 DEF AppendCashCheckpoint
  <2>4. cash_checkpoint' \in Seq(CheckpointRow)
    <3> HIDE DEF record
    <3>1. cash_checkpoint \in Seq(CheckpointRow)
      BY <1>0
    <3>2. Append(cash_checkpoint, record) \in Seq(CheckpointRow)
      BY <2>2, <3>1
    <3>3. QED
      BY <2>3, <3>1, <3>2
  <2>5. observed' = b /\ reservation' = reservation
    BY <1>3 DEF AppendCashCheckpoint
  <2>6. QED
    BY <1>0, <2>1, <2>4, <2>5 DEF LedgerTypeOK
<1>4. CASE UNCHANGED <<reservation, cash_checkpoint>>
  <2>1. UNCHANGED observed \/ observed' \in Nat
    BY DEF LedgerNext, ledgerVars, Reserve, Reconcile, MarkUncertain,
           AppendCashCheckpoint, AppendCashCheckpointCurrent
  <2>2. QED
    BY <1>0, <1>4, <2>1 DEF LedgerTypeOK
<1>5. QED
  BY <1>1, <1>2, <1>3, <1>4, StepShape

(* Type correctness of the ledger's tables under every operation.             *)
THEOREM TypeCorrect == LedgerSpec => []LedgerTypeOK
<1>1. LedgerInit => LedgerTypeOK
  BY LedgerConstants DEF LedgerInit, LedgerTypeOK
<1>2. LedgerTypeOK /\ [LedgerNext]_ledgerVars => LedgerTypeOK'
  BY TypeStep
<1>3. QED
  BY <1>1, <1>2, PTL DEF LedgerSpec

-----------------------------------------------------------------------------
(* Settled and active rows. *)

(* The amounts of a row agree with its state. *)
RowOK(row) ==
  CASE row.state = "active"     -> row.actual = 0 /\ row.uncertain = 0
    [] row.state = "reconciled" -> row.actual <= row.reserved /\ row.uncertain = 0
    [] row.state = "uncertain"  -> row.actual = 0 /\ row.uncertain = row.reserved

RowsOK == \A k \in Rowids : RowOK(reservation[k])

(* Every row's amounts agree with its state after every step. *)
LEMMA RowsStep ==
  ASSUME LedgerTypeOK, RowsOK, [LedgerNext]_ledgerVars
  PROVE  RowsOK'
<1>0. /\ Len(reservation) \in Nat
      /\ \A k \in Rowids : reservation[k] \in ReservationRow /\ RowOK(reservation[k])
  BY TableAfterStep DEF RowsOK
<1>1. ASSUME NEW q \in Request, Insertion(q) PROVE RowsOK'
  <2>1. RowOK(NewRow(q))
    BY DEF RowOK, NewRow
  <2>2. ASSUME NEW k \in 1..Len(reservation')
        PROVE  k \in Rowids \/ k = Len(reservation) + 1
    BY <1>0, <1>1, TableAfterStep DEF Rowids
  <2>3. \A k \in 1..Len(reservation') : RowOK(reservation'[k])
    BY <1>0, <1>1, <2>1, <2>2, TableAfterStep
  <2>4. QED
    BY <2>3 DEF RowsOK, Rowids, RowOK
<1>2. ASSUME NEW k \in Rowids, NEW row \in ReservationRow, Settlement(k, row)
      PROVE  RowsOK'
  <2>1. RowOK(row)
    BY <1>0, <1>2 DEF Settlement, Settles, RowOK, ReservationRow
  <2>2. \A j \in 1..Len(reservation') : RowOK(reservation'[j])
    BY <1>0, <1>2, <2>1, TableAfterStep DEF Rowids
  <2>3. QED
    BY <2>2 DEF RowsOK, Rowids, RowOK
<1>3. CASE UNCHANGED reservation
  BY <1>3 DEF RowsOK, Rowids, RowOK
<1>4. QED
  BY <1>1, <1>2, <1>3, StepShape

-----------------------------------------------------------------------------
(* The caps. *)

(* The exposure of a scope is a table of natural numbers. *)
LEMMA ExposureType ==
  ASSUME LedgerTypeOK, NEW scope
  PROVE  /\ ExposureColumn(scope) \in [1..Len(reservation) -> Int]
         /\ Committed(scope) \in Int /\ Committed(scope) >= 0
<1> DEFINE n == Len(reservation)
           v == ExposureColumn(scope)
<1>1. n \in Nat /\ \A k \in 1..n : reservation[k] \in ReservationRow
  BY DEF LedgerTypeOK
<1>2. \A k \in 1..n : Exposure(reservation[k]) \in Nat
  BY <1>1 DEF Exposure, ReservationRow
<1>3. v \in [1..n -> Nat]
  BY <1>2 DEF ExposureColumn, Rowids
<1>4. v \in [1..n -> Int]
  BY <1>3
<1>5. IsColumn(v)
  BY <1>1, <1>4, TableIsColumn
<1>6. \A k \in Nat : ValueAt(v, k) >= 0
  BY <1>3, <1>1 DEF ValueAt
<1>7. RunningSum(v)[n] \in Int /\ RunningSum(v)[n] >= 0
  BY <1>1, <1>5, <1>6, RunningSumDef, SumNatural
<1>8. QED
  BY <1>4, <1>7 DEF Committed, Total

(* The amount of a request is a natural number.                               *)
LEMMA RequestAmount ==
  ASSUME NEW q \in Request
  PROVE  q.amount \in Nat /\ q.run_id \in Runs /\ q.stage \in Stages
<1>1. Amounts \subseteq Nat
  BY LedgerConstants
<1>2. q.amount \in Amounts /\ q.run_id \in Runs /\ q.stage \in Stages
  BY DEF Request
<1>3. QED
  BY <1>1, <1>2

(* A reservation adds its amount to the scopes of its run and stage.          *)
LEMMA InsertionAdds ==
  ASSUME LedgerTypeOK, NEW q \in Request, Insertion(q), NEW scope
  PROVE  Committed(scope)' =
           Committed(scope) + (IF <<q.run_id, q.stage>> \in scope THEN q.amount ELSE 0)
<1> DEFINE n == Len(reservation)
           v == ExposureColumn(scope)
           w == [k \in 1..(n + 1) |->
                   IF <<reservation'[k].run_id, reservation'[k].stage>> \in scope
                   THEN Exposure(reservation'[k]) ELSE 0]
<1>1. n \in Nat /\ v \in [1..n -> Int]
  BY ExposureType, TableAfterStep
<1>2. Len(reservation') = n + 1
  BY TableAfterStep
<1>3. Committed(scope)' = RunningSum(w)[n + 1]
  BY <1>2 DEF Committed, Total, ExposureColumn, Rowids, Exposure
<1>4. \A k \in 1..n : w[k] = v[k]
  <2>1. \A k \in 1..n : reservation'[k] = reservation[k] /\ k \in 1..(n + 1)
    BY <1>1, TableAfterStep DEF Rowids
  <2>2. QED
    BY <2>1 DEF ExposureColumn, Rowids
<1>5. w[n + 1] = IF <<q.run_id, q.stage>> \in scope THEN q.amount ELSE 0
  <2>1. reservation'[n + 1] = NewRow(q) /\ n + 1 \in 1..(n + 1)
    BY <1>1, TableAfterStep
  <2>2. Exposure(NewRow(q)) = q.amount
    <3>1. q.amount \in Nat
      BY RequestAmount
    <3>2. QED
      BY <3>1 DEF Exposure, NewRow
  <2>3. NewRow(q).run_id = q.run_id /\ NewRow(q).stage = q.stage
    BY DEF NewRow
  <2>4. QED
    BY <2>1, <2>2, <2>3
<1>6. w \in [1..(n + 1) -> Int]
  <2>1. q.amount \in Int
    BY RequestAmount
  <2>2. \A k \in 1..n : v[k] \in Int
    BY <1>1
  <2>3. ASSUME NEW k \in 1..(n + 1) PROVE w[k] \in Int
    <3>1. CASE k \in 1..n
      BY <1>4, <2>2, <3>1
    <3>2. CASE k = n + 1
      BY <1>5, <2>1, <3>2
    <3>3. QED
      BY <1>1, <3>1, <3>2
  <2>4. QED
    BY <2>3
<1>7. RunningSum(w)[n + 1] = RunningSum(v)[n] + w[n + 1]
  <2> HIDE DEF w, v
  <2>1. QED
    BY <1>1, <1>4, <1>6, SumAppend
<1>8. QED
  BY <1>3, <1>5, <1>7 DEF Committed, Total

(* A settlement keeps or lowers what every scope has committed.               *)
LEMMA SettlementReleases ==
  ASSUME LedgerTypeOK, RowsOK, NEW j \in Rowids, NEW row \in ReservationRow,
         Settlement(j, row), NEW scope
  PROVE  Committed(scope)' \in Int /\ Committed(scope)' <= Committed(scope)
<1> DEFINE n == Len(reservation)
           v == ExposureColumn(scope)
           w == [k \in 1..n |->
                   IF <<reservation'[k].run_id, reservation'[k].stage>> \in scope
                   THEN Exposure(reservation'[k]) ELSE 0]
<1>1. n \in Nat /\ v \in [1..n -> Int] /\ j \in 1..n
  BY ExposureType, TableAfterStep DEF Rowids
<1>2. Len(reservation') = n
  BY TableAfterStep
<1>3. Committed(scope)' = RunningSum(w)[n]
  BY <1>2 DEF Committed, Total, ExposureColumn, Rowids, Exposure
<1>4. \A k \in 1..n : k # j => w[k] = v[k]
  BY <1>1, TableAfterStep DEF ExposureColumn, Rowids
<1>5. /\ Exposure(row) \in Nat /\ Exposure(reservation[j]) \in Nat
      /\ Exposure(row) <= Exposure(reservation[j])
      /\ row.run_id = reservation[j].run_id /\ row.stage = reservation[j].stage
  <2>1. /\ reservation[j] \in ReservationRow /\ reservation[j].state = "active"
        /\ RowOK(reservation[j]) /\ Settles(reservation[j], row)
    BY TableAfterStep DEF RowsOK, Settlement
  <2>2. QED
    BY <2>1 DEF RowOK, Settles, Exposure, ReservationRow
<1>6. w[j] \in Int /\ w[j] <= v[j] /\ v[j] \in Int
  BY <1>1, <1>5, TableAfterStep DEF ExposureColumn, Rowids
<1>7. w \in [1..n -> Int]
  <2>1. \A k \in 1..n : w[k] \in Int
    BY <1>1, <1>4, <1>6
  <2>2. QED
    BY <2>1
<1>8. /\ RunningSum(v)[n] \in Int
      /\ RunningSum(w)[n] = RunningSum(v)[n] + (w[j] - v[j])
  <2> HIDE DEF w, v
  <2>1. QED
    BY <1>1, <1>4, <1>7, SumReplace
<1>9. RunningSum(w)[n] \in Int /\ RunningSum(w)[n] <= RunningSum(v)[n]
  <2> HIDE DEF w, v
  <2>1. QED
    BY <1>6, <1>8
<1>10. QED
  BY <1>3, <1>9 DEF Committed, Total

(* Nothing is committed in an empty table.                                    *)
LEMMA NothingCommitted ==
  ASSUME LedgerInit, NEW scope
  PROVE  Committed(scope) = 0
<1>1. Len(reservation) = 0
  BY DEF LedgerInit
<1>2. ExposureColumn(scope) \in [1..0 -> Int]
  BY <1>1 DEF ExposureColumn, Rowids
<1>3. IsColumn(ExposureColumn(scope))
  BY <1>2, TableIsColumn
<1>4. QED
  BY <1>1, <1>3, RunningSumDef DEF Committed, Total

(* No step takes a scope over its cap.                                        *)
LEMMA CapsStep ==
  ASSUME LedgerTypeOK, RowsOK, CapsRespected, [LedgerNext]_ledgerVars
  PROVE  CapsRespected'
<1> USE LedgerConstants
<1>0. \A scope : Committed(scope) \in Int
  BY ExposureType
<1>1. ASSUME NEW q \in Request, Insertion(q) PROVE CapsRespected'
  <2>1. PICK p \in Overrides, s \in Overrides : FitsCaps(q, p, s)
    BY <1>1 DEF Insertion
  <2>2. p \in Nat /\ s \in Nat /\ q.amount \in Nat /\ q.run_id \in Runs /\ q.stage \in Stages
    BY RequestAmount
  <2>3. ASSUME NEW scope
        PROVE  Committed(scope)' =
                 IF <<q.run_id, q.stage>> \in scope THEN Committed(scope) + q.amount
                                                    ELSE Committed(scope)
    BY <1>0, <1>1, <2>2, InsertionAdds
  <2>4. Committed(PhaseScope)' <= PhaseCap
    <3>1. <<q.run_id, q.stage>> \in PhaseScope
      BY <2>2 DEF PhaseScope
    <3>2. Committed(PhaseScope) + q.amount <= MinOf(PhaseCap, p)
      BY <2>1 DEF FitsCaps
    <3>3. Committed(PhaseScope) + q.amount <= PhaseCap
      BY <1>0, <2>2, <3>2 DEF MinOf
    <3>4. QED
      BY <2>3, <3>1, <3>3
  <2>5. ASSUME NEW st \in Stages PROVE Committed(StageScope(st))' <= StageCap[st]
    <3>1. <<q.run_id, q.stage>> \in StageScope(st) <=> q.stage = st
      BY <2>2 DEF StageScope
    <3>2. Committed(StageScope(q.stage)) + q.amount <= MinOf(StageCap[q.stage], s)
      BY <2>1 DEF FitsCaps
    <3>3. StageCap[q.stage] \in Nat
      BY <2>2
    <3>4. Committed(StageScope(q.stage)) + q.amount <= StageCap[q.stage]
      BY <1>0, <2>2, <3>2, <3>3 DEF MinOf
    <3>5. Committed(StageScope(st)) <= StageCap[st]
      BY DEF CapsRespected
    <3>6. QED
      BY <2>3, <3>1, <3>4, <3>5
  <2>6. ASSUME NEW r \in Runs PROVE Committed(ChildScope(r))' <= ChildCap[r]
    <3>1. <<q.run_id, q.stage>> \in ChildScope(r) <=> q.run_id = r
      BY <2>2 DEF ChildScope
    <3>2. Committed(ChildScope(q.run_id)) + q.amount <= ChildCap[q.run_id]
      BY <2>1 DEF FitsCaps
    <3>3. Committed(ChildScope(r)) <= ChildCap[r]
      BY DEF CapsRespected
    <3>4. QED
      BY <2>3, <3>1, <3>2, <3>3
  <2>7. ~ Dual => OpeningBalance + Committed(PhaseScope)' <= ProjectCap
    <3>1. <<q.run_id, q.stage>> \in PhaseScope
      BY <2>2 DEF PhaseScope
    <3>2. ~ Dual => OpeningBalance + Committed(PhaseScope) + q.amount <= ProjectCap
      BY <2>1 DEF FitsCaps, ProjectCommitted
    <3>3. QED
      BY <1>0, <2>2, <2>3, <3>1, <3>2
  <2>8. QED
    BY <2>4, <2>5, <2>6, <2>7 DEF CapsRespected, ProjectCommitted, PhaseScope, StageScope, ChildScope
<1>2. ASSUME \A scope : Committed(scope)' \in Int /\ Committed(scope)' <= Committed(scope),
             reservation' # <<>> => reservation # <<>>
      PROVE  CapsRespected'
  <2>1. Committed(PhaseScope)' <= PhaseCap
    BY <1>0, <1>2 DEF CapsRespected
  <2>2. ASSUME NEW st \in Stages PROVE Committed(StageScope(st))' <= StageCap[st]
    <3>1. Committed(StageScope(st)) <= StageCap[st] /\ StageCap[st] \in Nat
      BY DEF CapsRespected
    <3>2. QED
      BY <1>0, <1>2, <3>1
  <2>3. ASSUME NEW r \in Runs PROVE Committed(ChildScope(r))' <= ChildCap[r]
    <3>1. Committed(ChildScope(r)) <= ChildCap[r] /\ ChildCap[r] \in Nat
      BY DEF CapsRespected
    <3>2. QED
      BY <1>0, <1>2, <3>1
  <2>4. ~ Dual /\ reservation' # <<>> => OpeningBalance + Committed(PhaseScope)' <= ProjectCap
    BY <1>0, <1>2 DEF CapsRespected, ProjectCommitted
  <2>5. QED
    BY <2>1, <2>2, <2>3, <2>4 DEF CapsRespected, ProjectCommitted, PhaseScope, StageScope, ChildScope
<1>3. ASSUME NEW k \in Rowids, NEW row \in ReservationRow, Settlement(k, row)
      PROVE  CapsRespected'
  <2>1. \A scope : Committed(scope)' \in Int /\ Committed(scope)' <= Committed(scope)
    BY <1>3, SettlementReleases
  <2>2. reservation # <<>>
    BY DEF Rowids
  <2>3. QED
    BY <1>2, <2>1, <2>2
<1>4. CASE UNCHANGED reservation
  BY <1>4 DEF CapsRespected, Committed, Total, ExposureColumn, Exposure, Rowids,
              ProjectCommitted, PhaseScope, StageScope, ChildScope
<1>5. QED
  BY <1>1, <1>3, <1>4, StepShape

-----------------------------------------------------------------------------
(* Cash checkpoints. *)

(* The covered rows are reconciled and keep their published amount.           *)
LEMMA CheckpointsStep ==
  ASSUME LedgerTypeOK, CheckpointsStayValid, [LedgerNext]_ledgerVars
  PROVE  CheckpointsStayValid'
<1> DEFINE n == Len(reservation)
<1>0. /\ n \in Nat /\ Len(cash_checkpoint) \in Nat
      /\ \A c \in 1..Len(cash_checkpoint) :
           cash_checkpoint[c] \in CheckpointRow /\ cash_checkpoint[c].covered \in Nat
  <2>1. /\ reservation \in Seq(ReservationRow) /\ cash_checkpoint \in Seq(CheckpointRow)
    BY DEF LedgerTypeOK
  <2>2. \A c \in 1..Len(cash_checkpoint) : cash_checkpoint[c] \in CheckpointRow
    BY <2>1
  <2>3. \A row \in CheckpointRow : row.covered \in Nat
    BY DEF CheckpointRow
  <2>4. QED
    BY <2>1, <2>2, <2>3
<1>1. ASSUME NEW t \in Nat, t <= n, n <= Len(reservation'),
             reservation \in Seq(ReservationRow), reservation' \in Seq(ReservationRow),
             FinishedThrough(t), \A k \in 1..t : reservation'[k] = reservation[k]
      PROVE  FinishedThrough(t)' /\ CoveredPublished(t)' = CoveredPublished(t)
  <2> DEFINE m == Len(reservation')
             w == [k \in 1..m |-> IF reservation'[k].state = "reconciled"
                                  THEN reservation'[k].actual ELSE 0]
             v == ActualColumn
  <2>1. m \in Nat /\ \A k \in 1..t : k \in 1..n /\ k \in 1..m
    BY <1>0, <1>1
  <2>2. v \in [1..n -> Int] /\ w \in [1..m -> Int]
    <3>1. \A row \in ReservationRow : row.actual \in Int
      BY DEF ReservationRow
    <3>2. /\ \A k \in 1..n : reservation[k] \in ReservationRow
          /\ \A k \in 1..m : reservation'[k] \in ReservationRow
      BY <1>1
    <3>3. QED
      BY <3>1, <3>2 DEF ActualColumn, Rowids
  <2>3. \A k \in 1..t : w[k] = v[k]
    BY <1>1, <2>1 DEF ActualColumn, Rowids
  <2>4. \A k \in 1..t : ValueAt(w, k) = ValueAt(v, k)
    <3> HIDE DEF w, v
    <3>1. QED
      BY <2>1, <2>2, <2>3 DEF ValueAt
  <2>5. RunningSum(w)[t] = RunningSum(v)[t]
    <3> HIDE DEF w, v
    <3>1. IsColumn(v) /\ IsColumn(w)
      BY <1>0, <2>1, <2>2, TableIsColumn
    <3>2. \A i \in Nat : i <= t => RunningSum(w)[i] = RunningSum(v)[i]
      BY <2>4, <3>1, SumAgree
    <3>3. QED
      BY <3>2
  <2>6. CoveredPublished(t)' = OpeningBalance + RunningSum(w)[t]
    BY DEF CoveredPublished, ActualColumn, Rowids
  <2>7. FinishedThrough(t)'
    BY <1>1, <2>1 DEF FinishedThrough, Rowids
  <2>8. QED
    BY <2>5, <2>6, <2>7 DEF CoveredPublished
<1>2. ASSUME NEW q \in Request, Insertion(q) PROVE CheckpointsStayValid'
  <2>1. /\ reservation \in Seq(ReservationRow) /\ reservation' \in Seq(ReservationRow)
        /\ Len(reservation') = n + 1 /\ \A k \in 1..n : reservation'[k] = reservation[k]
        /\ cash_checkpoint' = cash_checkpoint
    BY <1>2, TableAfterStep DEF LedgerTypeOK, Insertion, Rowids
  <2>2. ASSUME NEW c \in 1..Len(cash_checkpoint)
        PROVE  /\ cash_checkpoint'[c].covered <= Len(reservation')
               /\ FinishedThrough(cash_checkpoint[c].covered)'
               /\ cash_checkpoint'[c].published = CoveredPublished(cash_checkpoint[c].covered)'
    <3>0. PICK t \in Nat : t = cash_checkpoint[c].covered
      BY <1>0
    <3>1. t <= n /\ FinishedThrough(t) /\ cash_checkpoint[c].published = CoveredPublished(t)
      BY <3>0 DEF CheckpointsStayValid
    <3>2. n <= Len(reservation') /\ \A k \in 1..t : reservation'[k] = reservation[k]
      BY <1>0, <2>1, <3>1
    <3>3. FinishedThrough(t)' /\ CoveredPublished(t)' = CoveredPublished(t)
      BY <1>1, <2>1, <3>1, <3>2
    <3>4. FinishedThrough(cash_checkpoint[c].covered)' /\ CoveredPublished(cash_checkpoint[c].covered)' = CoveredPublished(t)
      BY <2>1, <3>0, <3>3 DEF FinishedThrough, CoveredPublished
    <3>5. QED
      BY <1>0, <2>1, <3>0, <3>1, <3>4
  <2>3. QED
    BY <2>1, <2>2 DEF CheckpointsStayValid
<1>3. ASSUME NEW j \in Rowids, NEW row \in ReservationRow, Settlement(j, row)
      PROVE  CheckpointsStayValid'
  <2>1. /\ reservation \in Seq(ReservationRow) /\ reservation' \in Seq(ReservationRow)
        /\ Len(reservation') = n /\ \A k \in 1..n : k # j => reservation'[k] = reservation[k]
        /\ cash_checkpoint' = cash_checkpoint /\ reservation[j].state = "active" /\ j \in 1..n
    BY <1>3, TableAfterStep DEF LedgerTypeOK, Settlement, Rowids
  <2>2. ASSUME NEW c \in 1..Len(cash_checkpoint)
        PROVE  /\ cash_checkpoint'[c].covered <= Len(reservation')
               /\ FinishedThrough(cash_checkpoint[c].covered)'
               /\ cash_checkpoint'[c].published = CoveredPublished(cash_checkpoint[c].covered)'
    <3>0. PICK t \in Nat : t = cash_checkpoint[c].covered
      BY <1>0
    <3>1. t <= n /\ FinishedThrough(t) /\ cash_checkpoint[c].published = CoveredPublished(t)
      BY <3>0 DEF CheckpointsStayValid
    <3>2. ~ (j <= t)
      BY <2>1, <3>1 DEF FinishedThrough, Rowids
    <3>3. n <= Len(reservation') /\ \A k \in 1..t : reservation'[k] = reservation[k]
      BY <1>0, <2>1, <3>1, <3>2
    <3>4. FinishedThrough(t)' /\ CoveredPublished(t)' = CoveredPublished(t)
      BY <1>1, <2>1, <3>1, <3>3
    <3>5. FinishedThrough(cash_checkpoint[c].covered)' /\ CoveredPublished(cash_checkpoint[c].covered)' = CoveredPublished(t)
      BY <2>1, <3>0, <3>4 DEF FinishedThrough, CoveredPublished
    <3>6. QED
      BY <1>0, <2>1, <3>0, <3>1, <3>5
  <2>3. QED
    BY <2>1, <2>2 DEF CheckpointsStayValid
<1>4. ASSUME NEW b \in Billed, NEW t \in 0..Len(reservation), NEW o \in Observations,
             NEW d \in BOOLEAN, AppendCashCheckpoint(b, t, o, d)
      PROVE  CheckpointsStayValid'
  <2> DEFINE record == [billed |-> b, covered |-> t, published |-> CoveredPublished(t),
                        observation |-> o, decrease_authorized |-> d]
  <2>1. /\ FinishedThrough(t) /\ reservation' = reservation
        /\ cash_checkpoint' = cash_checkpoint \/ cash_checkpoint' = Append(cash_checkpoint, record)
    BY <1>4 DEF AppendCashCheckpoint
  <2>2. /\ record.covered = t /\ record.published = CoveredPublished(t)
        /\ t <= n
    BY <1>0
  <2>3. ASSUME NEW c \in 1..Len(cash_checkpoint')
        PROVE  /\ cash_checkpoint'[c].covered <= Len(reservation)
               /\ FinishedThrough(cash_checkpoint'[c].covered)
               /\ cash_checkpoint'[c].published = CoveredPublished(cash_checkpoint'[c].covered)
    <3>1. cash_checkpoint \in Seq(CheckpointRow)
      BY DEF LedgerTypeOK
    <3>2. \/ c \in 1..Len(cash_checkpoint) /\ cash_checkpoint'[c] = cash_checkpoint[c]
          \/ cash_checkpoint'[c] = record
      <4> HIDE DEF record
      <4>1. QED
        BY <1>0, <2>1, <3>1
    <3>3. QED
      BY <2>1, <2>2, <3>2 DEF CheckpointsStayValid
  <2>4. QED
    BY <2>1, <2>3 DEF CheckpointsStayValid, FinishedThrough, CoveredPublished, ActualColumn, Rowids
<1>5. CASE UNCHANGED <<reservation, cash_checkpoint>>
  BY <1>5 DEF CheckpointsStayValid, FinishedThrough, CoveredPublished, ActualColumn, Rowids
<1>6. QED
  BY <1>2, <1>3, <1>4, <1>5, StepShape

(* The inductive invariant.  CapsRespected alone is not inductive: that a     *)
(* settlement releases money needs that an active row has spent none yet.     *)
LedgerInv == LedgerTypeOK /\ RowsOK /\ CapsRespected /\ CheckpointsStayValid

(* LedgerInv holds in every reachable state.                                  *)
LEMMA InvariantHolds == LedgerSpec => []LedgerInv
<1>1. LedgerInit => LedgerInv
  <2> SUFFICES ASSUME LedgerInit PROVE LedgerInv
    OBVIOUS
  <2>1. LedgerTypeOK
    BY LedgerConstants DEF LedgerInit, LedgerTypeOK
  <2>2. RowsOK /\ CheckpointsStayValid
    BY DEF LedgerInit, RowsOK, Rowids, CheckpointsStayValid
  <2>3. CapsRespected
    <3>1. \A scope : Committed(scope) = 0
      BY NothingCommitted
    <3>2. reservation = <<>>
      BY DEF LedgerInit
    <3>3. /\ 0 <= PhaseCap
          /\ \A st \in Stages : 0 <= StageCap[st]
          /\ \A r \in Runs : 0 <= ChildCap[r]
      BY LedgerConstants
    <3>4. QED
      BY <3>1, <3>2, <3>3 DEF CapsRespected
  <2>4. QED
    BY <2>1, <2>2, <2>3 DEF LedgerInv
<1>2. LedgerInv /\ [LedgerNext]_ledgerVars => LedgerInv'
  BY TypeStep, RowsStep, CapsStep, CheckpointsStep DEF LedgerInv
<1>3. QED
  BY <1>1, <1>2, PTL DEF LedgerSpec

(* No interleaving of the processes that share the ledger commits more than   *)
(* the cap of the phase, of a stage, of a run or, under the first policy, of  *)
(* the project.                                                               *)
THEOREM CapsHold == LedgerSpec => []CapsRespected
<1>1. LedgerInv => CapsRespected
  BY DEF LedgerInv
<1>2. QED
  BY <1>1, InvariantHolds, PTL

(* A cash checkpoint never goes stale, so reserve() never finds one that      *)
(* covers unfinished usage.                                                   *)
THEOREM CheckpointsHold == LedgerSpec => []CheckpointsStayValid
<1>1. LedgerInv => CheckpointsStayValid
  BY DEF LedgerInv
<1>2. QED
  BY <1>1, InvariantHolds, PTL

-----------------------------------------------------------------------------
(* The cash bound. *)

(* What the latest checkpoint covers is valid, the opening one included.      *)
LEMMA LatestIsValid ==
  ASSUME LedgerInv
  PROVE  /\ LatestCovered \in 0..Len(reservation)
         /\ FinishedThrough(LatestCovered)
         /\ LatestPublished = CoveredPublished(LatestCovered)
<1>0. /\ Len(reservation) \in Nat /\ cash_checkpoint \in Seq(CheckpointRow)
      /\ ActualColumn \in [1..Len(reservation) -> Int]
  <2>1. \A row \in ReservationRow : row.actual \in Int
    BY DEF ReservationRow
  <2>2. /\ Len(reservation) \in Nat /\ cash_checkpoint \in Seq(CheckpointRow)
        /\ \A k \in 1..Len(reservation) : reservation[k] \in ReservationRow
    BY DEF LedgerInv, LedgerTypeOK
  <2>3. QED
    BY <2>1, <2>2 DEF ActualColumn, Rowids
<1>1. CASE cash_checkpoint = <<>>
  <2>1. RunningSum(ActualColumn)[0] = 0
    BY <1>0, TableIsColumn, RunningSumDef
  <2>2. LatestCovered = 0 /\ LatestPublished = OpeningBalance
    BY <1>1 DEF LatestCovered, LatestPublished
  <2>3. FinishedThrough(0)
    BY DEF FinishedThrough, Rowids
  <2>4. CoveredPublished(0) = OpeningBalance
    BY <2>1, LedgerConstants DEF CoveredPublished
  <2>5. QED
    BY <1>0, <2>2, <2>3, <2>4
<1>2. CASE cash_checkpoint # <<>>
  <2> DEFINE last == Len(cash_checkpoint)
  <2>1. last \in 1..Len(cash_checkpoint)
    BY <1>0, <1>2
  <2>2. /\ cash_checkpoint[last].covered \in Nat
        /\ cash_checkpoint[last].covered <= Len(reservation)
        /\ FinishedThrough(cash_checkpoint[last].covered)
        /\ cash_checkpoint[last].published = CoveredPublished(cash_checkpoint[last].covered)
    <3>1. cash_checkpoint[last] \in CheckpointRow
      BY <1>0, <2>1
    <3>2. cash_checkpoint[last].covered \in Nat
      BY <3>1 DEF CheckpointRow
    <3>3. CheckpointsStayValid
      BY DEF LedgerInv
    <3>4. QED
      BY <2>1, <3>2, <3>3 DEF CheckpointsStayValid
  <2>3. LatestCovered = cash_checkpoint[last].covered /\ LatestPublished = cash_checkpoint[last].published
    BY <1>2 DEF LatestCovered, LatestPublished
  <2>4. QED
    BY <1>0, <2>2, <2>3
<1>3. QED
  BY <1>1, <1>2

(* The covered and the uncovered part make up the committed amount.           *)
LEMMA HalvesMeet ==
  ASSUME LedgerInv
  PROVE  NothingFallsBetween /\ Total(UncoveredColumn) \in Int
<1> DEFINE n == Len(reservation)
           t == LatestCovered
           e == ExposureColumn(PhaseScope)
           a == [k \in 1..n |-> IF k <= t THEN ActualColumn[k] ELSE 0]
           u == UncoveredColumn
<1>1. n \in Nat /\ t \in Nat /\ t <= n /\ FinishedThrough(t)
  BY LatestIsValid DEF LedgerInv, LedgerTypeOK
<1>2. ASSUME NEW k \in 1..n
      PROVE  /\ e[k] \in Int /\ u[k] \in Int /\ a[k] \in Int /\ ActualColumn[k] \in Int
             /\ e[k] = a[k] + u[k]
  <2>1. reservation[k] \in ReservationRow /\ RowOK(reservation[k])
    <3>1. reservation \in Seq(ReservationRow) /\ RowsOK
      BY DEF LedgerInv, LedgerTypeOK
    <3>2. reservation[k] \in ReservationRow
      BY <3>1
    <3>3. QED
      BY <3>1, <3>2 DEF RowsOK, Rowids
  <2>2. e[k] = Exposure(reservation[k])
    <3>1. <<reservation[k].run_id, reservation[k].stage>> \in PhaseScope
      BY <2>1 DEF ReservationRow, PhaseScope
    <3>2. QED
      BY <3>1 DEF ExposureColumn, Rowids
  <2>3. ActualColumn[k] = IF reservation[k].state = "reconciled" THEN reservation[k].actual ELSE 0
    BY DEF ActualColumn, Rowids
  <2>4. u[k] = IF k > t
               THEN CASE reservation[k].state = "reconciled" -> reservation[k].actual
                      [] reservation[k].state = "uncertain"  -> reservation[k].uncertain
                      [] reservation[k].state = "active"     -> reservation[k].reserved
               ELSE 0
    BY DEF UncoveredColumn, Rowids
  <2>5. k <= t => reservation[k].state = "reconciled"
    BY <1>1 DEF FinishedThrough, Rowids
  <2>6. a[k] = IF k <= t THEN ActualColumn[k] ELSE 0
    OBVIOUS
  <2>7. k \in Int
    OBVIOUS
  <2>8. /\ reservation[k].reserved \in Nat /\ reservation[k].actual \in Nat
        /\ reservation[k].uncertain \in Nat
        /\ reservation[k].state \in {"active", "reconciled", "uncertain"}
    BY <2>1 DEF ReservationRow
  <2> HIDE DEF a, u, e, t
  <2>9. CASE reservation[k].state = "active"
    BY <1>1, <2>1, <2>2, <2>3, <2>4, <2>5, <2>6, <2>7, <2>8, <2>9 DEF RowOK, Exposure
  <2>10. CASE reservation[k].state = "uncertain"
    BY <1>1, <2>1, <2>2, <2>3, <2>4, <2>5, <2>6, <2>7, <2>8, <2>10 DEF RowOK, Exposure
  <2>11. CASE reservation[k].state = "reconciled"
    BY <1>1, <2>1, <2>2, <2>3, <2>4, <2>5, <2>6, <2>7, <2>8, <2>11 DEF RowOK, Exposure
  <2>12. QED
    BY <2>8, <2>9, <2>10, <2>11
<1>3. /\ e \in [1..n -> Int] /\ u \in [1..n -> Int] /\ a \in [1..n -> Int]
      /\ ActualColumn \in [1..n -> Int]
  BY <1>2 DEF ExposureColumn, UncoveredColumn, ActualColumn, Rowids
<1>4. IsColumn(e) /\ IsColumn(u) /\ IsColumn(a) /\ IsColumn(ActualColumn)
  <2> HIDE DEF a, u, e
  <2>1. QED
    BY <1>1, <1>3, TableIsColumn
<1>5. RunningSum(e)[n] = RunningSum(a)[n] + RunningSum(u)[n]
  <2> HIDE DEF a, u, e
  <2>1. \A k \in Nat : ValueAt(e, k) = ValueAt(a, k) + ValueAt(u, k)
    BY <1>1, <1>2, <1>3 DEF ValueAt
  <2>2. QED
    BY <1>1, <1>4, <2>1, SumAdd
<1>6. RunningSum(a)[n] = RunningSum(a)[t]
  <2>1. \A k \in Nat : k > t => ValueAt(a, k) = 0
    BY <1>1 DEF ValueAt
  <2> HIDE DEF a, t
  <2>2. \A i \in Nat : i >= t => RunningSum(a)[i] = RunningSum(a)[t]
    BY <1>1, <1>4, <2>1, SumConstantAfter
  <2>3. QED
    BY <1>1, <2>2
<1>7. RunningSum(a)[t] = RunningSum(ActualColumn)[t]
  <2>1. \A k \in 1..t : ValueAt(a, k) = ValueAt(ActualColumn, k)
    BY <1>1, <1>3 DEF ValueAt
  <2> HIDE DEF a, t
  <2>2. \A i \in Nat : i <= t => RunningSum(a)[i] = RunningSum(ActualColumn)[i]
    BY <1>1, <1>4, <2>1, SumAgree
  <2>3. QED
    BY <1>1, <2>2
<1>8. RunningSum(u)[n] \in Int /\ RunningSum(a)[n] \in Int
  <2> HIDE DEF a, u
  <2>1. QED
    BY <1>1, <1>4, RunningSumDef
<1>9. LatestPublished = OpeningBalance + RunningSum(a)[n]
  BY <1>6, <1>7, LatestIsValid DEF CoveredPublished
<1>10. ProjectCommitted = OpeningBalance + (RunningSum(a)[n] + RunningSum(u)[n])
  BY <1>5 DEF ProjectCommitted, Committed, Total
<1>11. Total(UncoveredColumn) = RunningSum(u)[n]
  BY DEF Total
<1> HIDE DEF a, u, e, t
<1>12. QED
  BY <1>8, <1>9, <1>10, <1>11, LedgerConstants DEF NothingFallsBetween

(* No reservation is counted twice or lost between a checkpoint and the rows  *)
(* after it, in any history of reservations, settlements and checkpoints.     *)
THEOREM HalvesMeetAlways == LedgerSpec => []NothingFallsBetween
<1>1. LedgerInv => NothingFallsBetween
  BY HalvesMeet
<1>2. QED
  BY <1>1, InvariantHolds, PTL

-----------------------------------------------------------------------------
(* What a step may never do. *)

(* Without a new reservation no committed amount grows.                       *)
THEOREM SettlementsOnlyRelease == LedgerSpec => SettlementsRelease
<1> DEFINE Limits == {PhaseScope} \cup {StageScope(s) : s \in Stages}
                       \cup {ChildScope(r) : r \in Runs}
           A == Len(reservation') = Len(reservation) =>
                  \A scope \in Limits : Committed(scope)' <= Committed(scope)
<1>1. LedgerInv /\ [LedgerNext]_ledgerVars => [A]_ledgerVars
  <2> SUFFICES ASSUME LedgerInv, [LedgerNext]_ledgerVars, NEW scope,
                      Len(reservation') = Len(reservation)
               PROVE  Committed(scope)' <= Committed(scope)
    OBVIOUS
  <2>0. LedgerTypeOK /\ RowsOK /\ Committed(scope) \in Int /\ Len(reservation) \in Nat
    BY ExposureType DEF LedgerInv, LedgerTypeOK
  <2>1. ASSUME NEW q \in Request, Insertion(q) PROVE FALSE
    BY <2>0, <2>1, TableAfterStep
  <2>2. ASSUME NEW k \in Rowids, NEW row \in ReservationRow, Settlement(k, row)
        PROVE  Committed(scope)' <= Committed(scope)
    BY <2>0, <2>2, SettlementReleases
  <2>3. CASE UNCHANGED reservation
    <3>1. Committed(scope)' = Committed(scope)
      BY <2>3 DEF Committed, Total, ExposureColumn, Exposure, Rowids
    <3>2. QED
      BY <2>0, <3>1
  <2>4. QED
    BY <2>0, <2>1, <2>2, <2>3, StepShape
<1>2. QED
  BY <1>1, InvariantHolds, PTL DEF LedgerSpec, SettlementsRelease

(* A settled reservation is final and no row is dropped.                      *)
THEOREM SettledStaysFinal == LedgerSpec => SettledIsFinal
<1> DEFINE A == /\ Len(reservation') >= Len(reservation)
                /\ \A k \in Rowids :
                     reservation[k].state # "active" => reservation'[k] = reservation[k]
<1>1. LedgerTypeOK /\ [LedgerNext]_ledgerVars => [A]_ledgerVars
  <2> SUFFICES ASSUME LedgerTypeOK, [LedgerNext]_ledgerVars PROVE A
    OBVIOUS
  <2>0. Len(reservation) \in Nat
    BY DEF LedgerTypeOK
  <2>1. ASSUME NEW q \in Request, Insertion(q) PROVE A
    BY <2>0, <2>1, TableAfterStep
  <2>2. ASSUME NEW j \in Rowids, NEW row \in ReservationRow, Settlement(j, row) PROVE A
    <3>1. reservation[j].state = "active"
      BY <2>2 DEF Settlement
    <3>2. QED
      BY <2>0, <2>2, <3>1, TableAfterStep
  <2>3. CASE UNCHANGED reservation
    BY <2>0, <2>3
  <2>4. QED
    BY <2>1, <2>2, <2>3, StepShape
<1>2. QED
  BY <1>1, TypeCorrect, PTL DEF LedgerSpec, SettledIsFinal

(* What a step does to the committed amount of the phase.                     *)
LEMMA PhaseStep ==
  ASSUME LedgerTypeOK, RowsOK, [LedgerNext]_ledgerVars
  PROVE  /\ Committed(PhaseScope) \in Int /\ Committed(PhaseScope)' \in Int
         /\ \/ Committed(PhaseScope)' <= Committed(PhaseScope)
            \/ \E q \in Request :
                 Insertion(q) /\ Committed(PhaseScope)' = Committed(PhaseScope) + q.amount
<1>1. Committed(PhaseScope) \in Int
  BY ExposureType
<1>2. ASSUME NEW q \in Request, Insertion(q)
      PROVE  /\ Committed(PhaseScope)' = Committed(PhaseScope) + q.amount
             /\ Committed(PhaseScope)' \in Int
  <2>1. q.amount \in Nat /\ <<q.run_id, q.stage>> \in PhaseScope
    BY RequestAmount DEF PhaseScope
  <2>2. PhaseScope' = PhaseScope
    BY DEF PhaseScope
  <2>3. Committed(PhaseScope)' =
          Committed(PhaseScope) + (IF <<q.run_id, q.stage>> \in PhaseScope THEN q.amount ELSE 0)
    BY <1>2, <2>2, InsertionAdds
  <2>4. QED
    BY <1>1, <2>1, <2>3
<1>3. ASSUME NEW k \in Rowids, NEW row \in ReservationRow, Settlement(k, row)
      PROVE  /\ Committed(PhaseScope)' \in Int
             /\ Committed(PhaseScope)' <= Committed(PhaseScope)
  BY <1>3, SettlementReleases
<1>4. CASE UNCHANGED reservation
  <2>1. Committed(PhaseScope)' = Committed(PhaseScope)
    BY <1>4 DEF Committed, Total, ExposureColumn, Exposure, Rowids, PhaseScope
  <2>2. QED
    BY <1>1, <2>1
<1>5. QED
  BY <1>1, <1>2, <1>3, <1>4, StepShape

(* Only an observed bill pushes the cash bound over the ceiling.              *)
THEOREM CeilingHolds == LedgerSpec => OnlyBillsBreachCeiling
<1> DEFINE A == Dual /\ cash_checkpoint' = cash_checkpoint =>
                  CashUpperBound' <= CashUpperBound \/ CashUpperBound' <= CashCap
           Meet == NothingFallsBetween /\ Total(UncoveredColumn) \in Int
<1>1. LedgerInv => Meet
  BY HalvesMeet
<1>2. LedgerInv /\ Meet /\ Meet' /\ [LedgerNext]_ledgerVars => [A]_ledgerVars
  <2> SUFFICES ASSUME LedgerInv, Meet, Meet', [LedgerNext]_ledgerVars,
                      Dual, cash_checkpoint' = cash_checkpoint
               PROVE  CashUpperBound' <= CashUpperBound \/ CashUpperBound' <= CashCap
    OBVIOUS
  <2>0. LedgerTypeOK /\ RowsOK
    BY DEF LedgerInv
  <2>1. PICK u \in Int, u1 \in Int : u = Total(UncoveredColumn) /\ u1 = Total(UncoveredColumn)'
    OBVIOUS
  <2>2. PICK c \in Int, c1 \in Int :
          /\ c = Committed(PhaseScope) /\ c1 = Committed(PhaseScope)'
          /\ \/ c1 <= c
             \/ \E q \in Request : Insertion(q) /\ c1 = c + q.amount
    BY <2>0, PhaseStep
  <2>3. \A row \in CheckpointRow : row.billed \in Nat /\ row.published \in Nat
    BY DEF CheckpointRow
  <2>4. cash_checkpoint # <<>> => cash_checkpoint[Len(cash_checkpoint)] \in CheckpointRow
    <3>1. cash_checkpoint \in Seq(CheckpointRow)
      BY <2>0 DEF LedgerTypeOK
    <3>2. QED
      BY <3>1
  <2>5. PICK b \in Int, x \in Int :
          /\ b = LatestBilled /\ b = LatestBilled'
          /\ x = LatestPublished /\ x = LatestPublished'
    BY <2>3, <2>4, LedgerConstants DEF LatestBilled, LatestPublished
  <2>6. OpeningBalance + c = x + u /\ OpeningBalance + c1 = x + u1
    BY <2>1, <2>2, <2>5 DEF NothingFallsBetween, ProjectCommitted
  <2>7. CashUpperBound = b + u + SafetyBuffer /\ CashUpperBound' = b + u1 + SafetyBuffer
    BY <2>1, <2>5 DEF CashUpperBound
  <2>8. CASE c1 <= c
    BY <2>6, <2>7, <2>8, LedgerConstants
  <2>9. ASSUME NEW q \in Request, Insertion(q), c1 = c + q.amount
        PROVE  CashUpperBound' <= CashCap
    <3>1. PICK p \in Overrides, s \in Overrides : FitsCaps(q, p, s)
      BY <2>9 DEF Insertion
    <3>2. CashUpperBound + q.amount <= CashCap /\ q.amount \in Nat
      BY <3>1, RequestAmount DEF FitsCaps
    <3>3. QED
      BY <2>6, <2>7, <2>9, <3>2, LedgerConstants
  <2>10. QED
    BY <2>2, <2>8, <2>9
<1>3. QED
  BY <1>1, <1>2, InvariantHolds, PTL DEF LedgerSpec, OnlyBillsBreachCeiling
=============================================================================
