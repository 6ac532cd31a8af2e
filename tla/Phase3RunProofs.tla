--------------------------- MODULE Phase3RunProofs ---------------------------
(***************************************************************************)
(* The Phase 3 run (search/phase3.py) and its replay, proved for any       *)
(* number of processes, programs, attempts and kills, for either mechanism *)
(* and whatever it decides.                                                *)
(***************************************************************************)
EXTENDS Phase3Run, FiniteSetTheorems, WellFoundedInduction, TLAPS

-----------------------------------------------------------------------------
(* What restore_mechanism holds after each attempt. *)

(* Every nonempty set of naturals has a least element.                       *)
LEMMA LeastNatural ==
  ASSUME NEW T, T \subseteq Nat, T # {}
  PROVE  \E x \in T : \A y \in T : x <= y
<1>1. PICK x \in T : \A y \in T : ~ (<<y, x>> \in OpToRel(<, Nat))
  BY WFMin, NatLessThanWellFounded
<1>2. ASSUME NEW y \in T PROVE x <= y
  <2>1. ~ (<<y, x>> \in OpToRel(<, Nat))
    BY <1>1
  <2>2. x \in Nat /\ y \in Nat
    OBVIOUS
  <2>3. ~ (y < x)
    BY <2>1, <2>2 DEF OpToRel
  <2> QED BY <2>2, <2>3
<1> QED BY <1>2

(* f[k] is what has been restored after the first k of n attempts.           *)
RestoredUpTo(s, f, n) ==
  f = [k \in 0..n |-> IF k = 0 THEN NothingRestored ELSE Reinserted(f[k - 1], s[k])]

(* Each attempt is reinserted after the ones before it.                      *)
LEMMA RestoredStep ==
  ASSUME NEW s, NEW f, NEW n \in Nat, RestoredUpTo(s, f, n)
  PROVE  /\ f[0] = NothingRestored
         /\ \A k \in 1..n : f[k] = Reinserted(f[k - 1], s[k])
<1>1. f = [k \in 0..n |-> IF k = 0 THEN NothingRestored ELSE Reinserted(f[k - 1], s[k])]
  BY DEF RestoredUpTo
<1>2. 0 \in 0..n /\ \A k \in 1..n : k \in 0..n /\ k # 0
  OBVIOUS
<1>3. f[0] = NothingRestored
  BY <1>1, <1>2
<1>4. \A k \in 1..n : f[k] = Reinserted(f[k - 1], s[k])
  BY <1>1, <1>2
<1> QED BY <1>3, <1>4

(* Attempts can be restored one after another.                               *)
LEMMA RestoredExists ==
  ASSUME NEW s, NEW n \in Nat
  PROVE  \E f : RestoredUpTo(s, f, n)
<1> DEFINE T == {k \in Nat : ~ \E f : RestoredUpTo(s, f, k)}
<1> SUFFICES ASSUME T # {} PROVE FALSE
  OBVIOUS
<1>1. PICK m \in T : \A y \in T : m <= y
  BY LeastNatural
<1>2. m # 0
  <2>1. RestoredUpTo(s, [k \in 0..0 |-> NothingRestored], 0)
    BY DEF RestoredUpTo
  <2> QED BY <2>1
<1>3. m \in Nat /\ m - 1 \in Nat /\ m - 1 \notin T
  BY <1>1, <1>2
<1>4. PICK f : RestoredUpTo(s, f, m - 1)
  BY <1>3
<1> DEFINE g == [k \in 0..m |-> IF k = m THEN Reinserted(f[m - 1], s[m]) ELSE f[k]]
<1>5. f[0] = NothingRestored /\ \A k \in 1..(m - 1) : f[k] = Reinserted(f[k - 1], s[k])
  BY <1>3, <1>4, RestoredStep
<1>6. ASSUME NEW k \in 0..m
      PROVE  g[k] = IF k = 0 THEN NothingRestored ELSE Reinserted(g[k - 1], s[k])
  <2>1. CASE k = 0
    BY <2>1, <1>2, <1>3, <1>5
  <2>2. CASE k = m
    <3>1. m - 1 \in 0..m /\ m - 1 # m /\ m \in 0..m
      BY <1>3
    <3>2. g[m] = Reinserted(f[m - 1], s[m]) /\ g[m - 1] = f[m - 1]
      BY <3>1
    <3> QED BY <2>2, <3>2, <1>2
  <2>3. CASE k # 0 /\ k # m
    <3>1. k \in 1..(m - 1) /\ k - 1 \in 0..m /\ k - 1 # m
      BY <2>3, <1>3
    <3>2. g[k] = f[k] /\ g[k - 1] = f[k - 1]
      BY <2>3, <3>1
    <3> QED BY <2>3, <3>1, <3>2, <1>5
  <2> QED BY <2>1, <2>2, <2>3
<1>7. RestoredUpTo(s, g, m)
  <2>1. g = [k \in 0..m |-> g[k]]
    OBVIOUS
  <2> HIDE DEF g
  <2> QED BY <2>1, <1>6 DEF RestoredUpTo
<1> QED BY <1>1, <1>7

(* In one way only, as far as they are the same.                             *)
LEMMA RestoredUnique ==
  ASSUME NEW s, NEW t, NEW f, NEW g, NEW n \in Nat, NEW m \in Nat, n <= m,
         RestoredUpTo(s, f, n), RestoredUpTo(t, g, m), \A i \in 1..n : s[i] = t[i]
  PROVE  \A k \in 0..n : f[k] = g[k]
<1> DEFINE T == {k \in 0..n : f[k] # g[k]}
<1> SUFFICES ASSUME T # {} PROVE FALSE
  OBVIOUS
<1>1. PICK k \in T : \A y \in T : k <= y
  <2>1. T \subseteq Nat
    OBVIOUS
  <2> HIDE DEF T
  <2> QED BY <2>1, LeastNatural
<1>2. /\ f[0] = NothingRestored /\ \A i \in 1..n : f[i] = Reinserted(f[i - 1], s[i])
      /\ g[0] = NothingRestored /\ \A i \in 1..m : g[i] = Reinserted(g[i - 1], t[i])
  BY RestoredStep
<1>3. k # 0
  BY <1>1, <1>2
<1>4. k \in 1..n /\ k \in 1..m /\ k - 1 \in 0..n /\ k - 1 \notin T
  BY <1>1, <1>3
<1>5. f[k - 1] = g[k - 1]
  BY <1>4
<1> QED BY <1>1, <1>2, <1>4, <1>5

Run(s) ==
  LET after[n \in 0..Len(s)] ==
        IF n = 0 THEN NothingRestored ELSE Reinserted(after[n - 1], s[n])
  IN  after

(* The mechanism after each of the attempts, and after all of them.          *)
LEMMA RunIsRestored ==
  ASSUME NEW s, Len(s) \in Nat
  PROVE  /\ RestoredUpTo(s, Run(s), Len(s))
         /\ Run(s)[0] = NothingRestored
         /\ \A k \in 1..Len(s) : Run(s)[k] = Reinserted(Run(s)[k - 1], s[k])
         /\ Restored(s) = Run(s)[Len(s)]
<1>1. RestoredUpTo(s, Run(s), Len(s))
  <2>1. Run(s) = CHOOSE f : RestoredUpTo(s, f, Len(s))
    BY DEF Run, RestoredUpTo
  <2> QED BY <2>1, RestoredExists
<1>2. /\ Run(s)[0] = NothingRestored
      /\ \A k \in 1..Len(s) : Run(s)[k] = Reinserted(Run(s)[k - 1], s[k])
  BY <1>1, RestoredStep
<1>3. Restored(s) = Run(s)[Len(s)]
  BY DEF Restored, Run
<1> QED BY <1>1, <1>2, <1>3

(* One attempt more is reinserted after the others.                          *)
LEMMA RunAppend ==
  ASSUME NEW S, NEW s \in Seq(S), NEW a \in S
  PROVE  /\ \A k \in 0..Len(s) : Run(Append(s, a))[k] = Run(s)[k]
         /\ Run(Append(s, a))[Len(s) + 1] = Reinserted(Restored(s), a)
         /\ Restored(Append(s, a)) = Reinserted(Restored(s), a)
<1> DEFINE n == Len(s)  t == Append(s, a)
<1>1. /\ n \in Nat /\ Len(t) = n + 1 /\ n + 1 \in Nat /\ n <= n + 1
      /\ \A i \in 1..n : s[i] = t[i]
      /\ t[n + 1] = a /\ n + 1 \in 1..(n + 1) /\ (n + 1) - 1 = n /\ n \in 0..n
  OBVIOUS
<1> HIDE DEF t
<1>2. RestoredUpTo(s, Run(s), n) /\ RestoredUpTo(t, Run(t), n + 1)
  BY <1>1, RunIsRestored
<1> HIDE DEF n
<1>3. \A k \in 0..n : Run(s)[k] = Run(t)[k]
  BY <1>1, <1>2, RestoredUnique
<1>4. Restored(s) = Run(s)[n] /\ Restored(t) = Run(t)[n + 1]
  BY <1>1, RunIsRestored DEF n
<1>5. Run(t)[n + 1] = Reinserted(Run(t)[n], a)
  BY <1>1, <1>2, RestoredStep
<1> QED BY <1>1, <1>3, <1>4, <1>5 DEF n, t

(* What an insertion makes of the mechanism, whatever it decides.            *)
LEMMA EvaluateKeeps ==
  ASSUME NEW m, NEW x
  PROVE  /\ Evaluate(m, x).mechanism.programs = m.programs \cup {x.program}
         /\ Evaluate(m, x).mechanism.semantics = m.semantics \cup {SemanticOf[x.program]}
         /\ Condition = "diverse" => Evaluate(m, x).mechanism.held = None
BY DEF Evaluate

(* The programs and meanings that were seen are those of the evaluations     *)
(* among the attempts.                                                       *)
LEMMA RestoredSeen ==
  ASSUME NEW s, Len(s) \in Nat
  PROVE  \A k \in 0..Len(s) :
           /\ \A x : x \in Run(s)[k].mechanism.programs <=>
                       \E i \in 1..k : s[i].candidate # None /\ s[i].program = x
           /\ \A x : x \in Run(s)[k].mechanism.semantics <=>
                       \E i \in 1..k : s[i].candidate # None /\ SemanticOf[s[i].program] = x
           /\ Condition = "diverse" => Run(s)[k].mechanism.held = None
<1> DEFINE Q(k) ==
      /\ \A x : x \in Run(s)[k].mechanism.programs <=>
                  \E i \in 1..k : s[i].candidate # None /\ s[i].program = x
      /\ \A x : x \in Run(s)[k].mechanism.semantics <=>
                  \E i \in 1..k : s[i].candidate # None /\ SemanticOf[s[i].program] = x
      /\ Condition = "diverse" => Run(s)[k].mechanism.held = None
    T == {k \in 0..Len(s) : ~ Q(k)}
<1> SUFFICES ASSUME T # {} PROVE FALSE
  OBVIOUS
<1>1. PICK k \in 0..Len(s) : ~ Q(k) /\ \A y \in 0..Len(s) : ~ Q(y) => k <= y
  <2> HIDE DEF Q
  <2>1. T \subseteq Nat
    OBVIOUS
  <2>2. PICK k \in T : \A y \in T : k <= y
    <3> HIDE DEF T
    <3> QED BY <2>1, LeastNatural
  <2> QED BY <2>2
<1>2. k # 0
  <2>1. Q(0)
    <3>1. Run(s)[0] = NothingRestored
      BY RunIsRestored
    <3>2. 1..0 = {}
      OBVIOUS
    <3> QED BY <3>1, <3>2 DEF NothingRestored, EmptyMechanism
  <2> HIDE DEF Q
  <2> QED BY <1>1, <2>1
<1>3. k \in 1..Len(s) /\ k - 1 \in 0..Len(s) /\ ~ (k <= k - 1)
  BY <1>2
<1>4. Q(k - 1)
  <2> HIDE DEF Q
  <2> QED BY <1>1, <1>3
<1>5. Run(s)[k] = Reinserted(Run(s)[k - 1], s[k])
  BY <1>3, RunIsRestored
<1>6. \A i : i \in 1..k <=> i \in 1..(k - 1) \/ i = k
  BY <1>3
<1>7. CASE s[k].candidate = None
  <2>1. Run(s)[k] = Run(s)[k - 1]
    BY <1>5, <1>7 DEF Reinserted
  <2>2. Q(k)
    BY <1>4, <1>6, <1>7, <2>1
  <2> QED BY <1>1, <2>2
<1>8. CASE s[k].candidate # None
  <2> DEFINE b == Run(s)[k - 1].mechanism  m == Run(s)[k].mechanism
  <2>1. m = Evaluate(b, MemberOf(s[k])).mechanism
    BY <1>5, <1>8 DEF Reinserted
  <2>2. MemberOf(s[k]).program = s[k].program
    BY DEF MemberOf
  <2>3. /\ m.programs = b.programs \cup {s[k].program}
        /\ m.semantics = b.semantics \cup {SemanticOf[s[k].program]}
        /\ Condition = "diverse" => m.held = None
    BY <2>1, <2>2, EvaluateKeeps
  <2> HIDE DEF b, m
  <2>4. \A x : x \in m.programs <=> \E i \in 1..k : s[i].candidate # None /\ s[i].program = x
    BY <1>4, <1>6, <1>8, <2>3 DEF b
  <2>5. \A x : x \in m.semantics <=>
                 \E i \in 1..k : s[i].candidate # None /\ SemanticOf[s[i].program] = x
    BY <1>4, <1>6, <1>8, <2>3 DEF b
  <2>6. Q(k)
    BY <2>3, <2>4, <2>5 DEF m
  <2> QED BY <1>1, <2>6
<1> QED BY <1>7, <1>8

-----------------------------------------------------------------------------
(* The committed rows. *)

Budgets ==
  [attempts : Nat, operators : Nat, invalid : Nat, noop : Nat, evaluated : Nat,
   canonicalDuplicates : Nat, semanticDuplicates : Nat, distinct : Nat,
   archive : [Outcomes -> Nat]]

(* The budget after the first k attempts.                                    *)
BudgetAt(s, k) == IF k = 0 THEN EmptyBudget ELSE s[k].budget

(* The row of attempt i, made from a mechanism and a budget.                 *)
FailureFits(row, b) ==
  /\ row.candidate = None /\ row.program = None
  /\ row.outcome \in {"invalid", "no-op"}
  /\ row.canonical = FALSE /\ row.semantic = FALSE
  /\ row.budget = BudgetAfterFailure(b, row.outcome)

EvaluationFits(row, mechanism, b) ==
  /\ row.candidate # None /\ row.program \in Programs /\ row.outcome = "emitted"
  /\ row.canonical = (row.program \in mechanism.programs)
  /\ row.semantic = (SemanticOf[row.program] \in mechanism.semantics)
  /\ row.decision = Evaluate(mechanism, MemberOf(row)).decision
  /\ row.budget = BudgetAfterEvaluation(b, row.lineage.operator # "initialization",
                                        row.canonical, row.semantic, row.decision.outcome)

RowFits(row, i, mechanism, b) ==
  /\ row.index = i - 1 /\ ~ Exhausted(b)
  /\ row.budget \in Budgets /\ ValidBudget(row.budget) /\ row.budget.attempts = i
  /\ FailureFits(row, b) \/ EvaluationFits(row, mechanism, b)

RowsFit(s) ==
  \A i \in 1..Len(s) : RowFits(s[i], i, Run(s)[i - 1].mechanism, BudgetAt(s, i - 1))

(* Rows that fit are restored with the decisions they record.                *)
LEMMA RestoredAgrees ==
  ASSUME NEW s, Len(s) \in Nat, RowsFit(s)
  PROVE  \A k \in 0..Len(s) : Run(s)[k].agrees
<1> DEFINE T == {k \in 0..Len(s) : ~ Run(s)[k].agrees}
<1> SUFFICES ASSUME T # {} PROVE FALSE
  OBVIOUS
<1>1. PICK k \in T : \A y \in T : k <= y
  <2>1. T \subseteq Nat
    OBVIOUS
  <2> HIDE DEF T
  <2> QED BY <2>1, LeastNatural
<1>2. k # 0
  <2>1. Run(s)[0].agrees
    BY RunIsRestored DEF NothingRestored
  <2> QED BY <1>1, <2>1
<1>3. k \in 1..Len(s) /\ k - 1 \in 0..Len(s) /\ k - 1 \notin T
  BY <1>1, <1>2
<1>4. Run(s)[k - 1].agrees
  BY <1>3
<1>5. Run(s)[k] = Reinserted(Run(s)[k - 1], s[k])
  BY <1>3, RunIsRestored
<1>6. RowFits(s[k], k, Run(s)[k - 1].mechanism, BudgetAt(s, k - 1))
  BY <1>3 DEF RowsFit
<1>7. CASE s[k].candidate = None
  BY <1>1, <1>4, <1>5, <1>7 DEF Reinserted
<1>8. CASE s[k].candidate # None
  <2>1. s[k].decision = Evaluate(Run(s)[k - 1].mechanism, MemberOf(s[k])).decision
    BY <1>6, <1>8 DEF RowFits, FailureFits, EvaluationFits
  <2> DEFINE b == Run(s)[k - 1]  d == Evaluate(b.mechanism, MemberOf(s[k])).decision
  <2>2. Run(s)[k].agrees = (b.agrees /\ d = s[k].decision)
    <3> HIDE DEF b
    <3>1. Reinserted(b, s[k]).agrees = (b.agrees /\ d = s[k].decision)
      BY <1>8 DEF Reinserted
    <3> QED BY <1>5, <3>1 DEF b
  <2>3. Run(s)[k].agrees
    BY <1>4, <2>1, <2>2
  <2> QED BY <1>1, <2>3
<1> QED BY <1>7, <1>8

(* One row more that fits.                                                   *)
LEMMA RowsFitAppend ==
  ASSUME NEW S, NEW s \in Seq(S), NEW a \in S, RowsFit(s),
         RowFits(a, Len(s) + 1, Restored(s).mechanism, BudgetAt(s, Len(s)))
  PROVE  RowsFit(Append(s, a))
<1> DEFINE n == Len(s)  t == Append(s, a)
<1>1. /\ n \in Nat /\ Len(t) = n + 1 /\ t[n + 1] = a
      /\ \A i \in 1..n : t[i] = s[i]
  OBVIOUS
<1>2. /\ \A k \in 0..n : Run(t)[k] = Run(s)[k]
      /\ Restored(s) = Run(s)[n]
  BY <1>1, RunAppend, RunIsRestored
<1> HIDE DEF t, n
<1>3. \A k \in 0..n : BudgetAt(t, k) = BudgetAt(s, k)
  BY <1>1 DEF BudgetAt
<1> SUFFICES ASSUME NEW i \in 1..(n + 1)
             PROVE  RowFits(t[i], i, Run(t)[i - 1].mechanism, BudgetAt(t, i - 1))
  BY <1>1 DEF RowsFit, t
<1>4. CASE i \in 1..n
  <2>1. i - 1 \in 0..n
    BY <1>1, <1>4
  <2> QED BY <1>1, <1>2, <1>3, <1>4, <2>1 DEF RowsFit, n
<1>5. CASE i = n + 1
  <2>1. i - 1 = n /\ n \in 0..n
    BY <1>1, <1>5
  <2>2. RowFits(a, i, Run(s)[n].mechanism, BudgetAt(s, n))
    BY <1>2, <1>5 DEF n
  <2> QED BY <1>1, <1>2, <1>3, <1>5, <2>1, <2>2
<1> QED BY <1>1, <1>4, <1>5

-----------------------------------------------------------------------------
(* The invariant. *)

Ending == {"lineage", "access", "analysis", "results", "complete"}
Following == {"run", "attempt"} \cup Ending
Places == {"idle", "initialize", "open", "commit", "interrupt"} \cup Following

(* A file is absent or whole.                                                *)
Stored(f) == f = Absent \/ f = Whole(f.content)

DatabaseOK ==
  /\ db = [status |-> db.status, next |-> db.next, budget |-> db.budget, attempts |-> db.attempts]
  /\ db.status \in {None, "running", "interrupted", "completed"}
  /\ db.attempts \in Seq(SeqRange(db.attempts))

FilesOK ==
  /\ files = [manifest |-> files.manifest, proposals |-> files.proposals,
              lineage |-> files.lineage, access |-> files.access,
              analysis |-> files.analysis, results |-> files.results]
  /\ files.proposals = [n \in Ids |-> files.proposals[n]]
  /\ \A n \in Ids : Stored(files.proposals[n])
  /\ Stored(files.analysis) /\ Stored(files.results)

DrawsOK ==
  /\ draws = [n \in Ids |-> draws[n]]
  /\ \A n \in Ids :
       draws[n] # None => /\ draws[n].product \in {"invalid", "no-op"} \cup Programs
                          /\ draws[n].draw.operator # "initialization"

ProcessOK(m) ==
  /\ m = [pc |-> m.pc, limit |-> m.limit, purpose |-> m.purpose, mechanism |-> m.mechanism,
          budget |-> m.budget, attempt |-> m.attempt]
  /\ m.pc \in Places
  /\ m.budget \in Budgets /\ ValidBudget(m.budget)
  /\ m.mechanism.programs \subseteq Programs
  /\ Condition = "diverse" => m.mechanism.held = None

RowsStored ==
  /\ db.next = Len(db.attempts)
  /\ db.budget = BudgetAt(db.attempts, db.next)
  /\ RowsFit(db.attempts)
  /\ \A i \in 1..db.next : files.proposals[i - 1] = Whole(ArtifactOf(db.attempts[i]))

(* What results.json of the committed rows says.                             *)
Content == [budget |-> db.budget, events |-> db.attempts,
            coverage |-> Occupied(Restored(db.attempts).mechanism.archive)]

EndStored ==
  /\ files.results = Absent \/ (Exhausted(db.budget) /\ files.results = Whole(Content))
  /\ db.status = "completed" =>
       Exhausted(db.budget) /\ IsWhole(files.results) /\ IsWhole(files.analysis)

(* What a process relies on.  Between two attempts it has restored or made   *)
(* the first m.budget.attempts of the rows; it may have been overtaken since.*)
(* The attempt it is about to commit is the next one, or overtaken too.      *)
Knows(m) ==
  /\ m.pc \in Following =>
       /\ m.budget.attempts <= db.next
       /\ m.budget = BudgetAt(db.attempts, m.budget.attempts)
       /\ m.budget.attempts = db.next => m.mechanism = Restored(db.attempts).mechanism
  /\ m.pc = "attempt" => ~ Exhausted(m.budget)
  /\ m.pc \in Ending => Exhausted(m.budget)
  /\ m.pc = "commit" =>
       /\ m.attempt.index \in 0..db.next /\ m.attempt.index \in Ids
       /\ m.attempt.budget = m.budget
       /\ files.proposals[m.attempt.index] = Whole(ArtifactOf(m.attempt))
       /\ m.attempt.index = db.next =>
            /\ RowFits(m.attempt, db.next + 1, Restored(db.attempts).mechanism, db.budget)
            /\ m.mechanism = Reinserted(Restored(db.attempts), m.attempt).mechanism
  /\ m.pc \in {"results", "complete"} => IsWhole(files.analysis)
  /\ m.pc = "complete" => IsWhole(files.results)

Phase3Inv ==
  /\ DatabaseOK /\ FilesOK /\ DrawsOK
  /\ proc = [p \in Procs |-> proc[p]]
  /\ \A p \in Procs : ProcessOK(proc[p])
  /\ RowsStored /\ EndStored
  /\ \A p \in Procs : Knows(proc[p])

-----------------------------------------------------------------------------
(* Files, budgets and rows. *)

(* Files of different states or contents differ.                             *)
LEMMA FilesDiffer ==
  /\ ~ IsWhole(Absent)
  /\ \A c : Absent # Whole(c) /\ IsWhole(Whole(c)) /\ Whole(c).content = c
  /\ \A f, c : Stored(f) /\ ~ Collides(f, c) => f \in {Absent, Whole(c)}
<1>1. /\ ~ IsWhole(Absent)
      /\ \A c : Absent # Whole(c) /\ IsWhole(Whole(c)) /\ Whole(c).content = c
  BY DEF Absent, Whole, IsWhole
<1>2. ASSUME NEW f, NEW c, Stored(f), ~ Collides(f, c)
      PROVE  f \in {Absent, Whole(c)}
  BY <1>1, <1>2 DEF Stored, Collides, Holds
<1> QED BY <1>1, <1>2

(* An attempt that is made below the caps stays within them.                 *)
LEMMA BudgetSteps ==
  ASSUME Phase3Constants, NEW b \in Budgets, ValidBudget(b), ~ Exhausted(b)
  PROVE  /\ \A o : LET c == BudgetAfterFailure(b, o) IN
                   c \in Budgets /\ ValidBudget(c) /\ c.attempts = b.attempts + 1
         /\ \A operator, canonical, semantic, o :
              LET c == BudgetAfterEvaluation(b, operator, canonical, semantic, o) IN
              c \in Budgets /\ ValidBudget(c) /\ c.attempts = b.attempts + 1
<1>1. AttemptCap \in Nat /\ OracleCap \in Nat
  BY DEF Phase3Constants
<1>2. /\ b.attempts \in Nat /\ b.operators \in Nat /\ b.evaluated \in Nat
      /\ b.attempts < AttemptCap /\ b.evaluated < OracleCap /\ b.operators <= b.attempts
  BY <1>1 DEF Budgets, Exhausted, ValidBudget
<1>3. \A c : Count(c) \in Nat /\ Count(c) <= 1
  BY DEF Count
<1> DEFINE Typed(c) ==
      /\ c.attempts \in Nat /\ c.operators \in Nat /\ c.invalid \in Nat /\ c.noop \in Nat
      /\ c.evaluated \in Nat /\ c.canonicalDuplicates \in Nat
      /\ c.semanticDuplicates \in Nat /\ c.distinct \in Nat /\ c.archive \in [Outcomes -> Nat]
    Record(c) ==
      [attempts |-> c.attempts, operators |-> c.operators, invalid |-> c.invalid,
       noop |-> c.noop, evaluated |-> c.evaluated,
       canonicalDuplicates |-> c.canonicalDuplicates,
       semanticDuplicates |-> c.semanticDuplicates, distinct |-> c.distinct,
       archive |-> c.archive]
<1>6. Typed(b) /\ b = Record(b)
  BY DEF Budgets
<1>7. \A c : Typed(c) => Record(c) \in Budgets
  BY DEF Budgets
<1>4. ASSUME NEW o
      PROVE  LET c == BudgetAfterFailure(b, o) IN
             c \in Budgets /\ ValidBudget(c) /\ c.attempts = b.attempts + 1
  <2> DEFINE c == BudgetAfterFailure(b, o)
             i == Count(o = "invalid")  j == Count(o = "no-op")
  <2>1. i \in Nat /\ j \in Nat
    BY <1>3
  <2>2. c = [b EXCEPT !.attempts = @ + 1, !.operators = @ + 1, !.invalid = @ + i, !.noop = @ + j]
    BY DEF BudgetAfterFailure
  <2> HIDE DEF c, i, j
  <2>5. /\ c.attempts = b.attempts + 1 /\ c.operators = b.operators + 1
        /\ c.evaluated = b.evaluated /\ c.invalid = b.invalid + i /\ c.noop = b.noop + j
        /\ c.canonicalDuplicates = b.canonicalDuplicates
        /\ c.semanticDuplicates = b.semanticDuplicates /\ c.distinct = b.distinct
        /\ c.archive = b.archive /\ c = Record(c)
    BY <1>6, <2>2
  <2>6. Typed(c)
    BY <1>6, <2>1, <2>5
  <2>3. c \in Budgets
    <3> HIDE DEF Typed, Record
    <3> QED BY <1>7, <2>5, <2>6
  <2>4. ValidBudget(c)
    BY <1>1, <1>2, <2>5 DEF ValidBudget
  <2> QED BY <2>3, <2>4, <2>5 DEF c
<1>5. ASSUME NEW operator, NEW canonical, NEW semantic, NEW o
      PROVE  LET c == BudgetAfterEvaluation(b, operator, canonical, semantic, o) IN
             c \in Budgets /\ ValidBudget(c) /\ c.attempts = b.attempts + 1
  <2> DEFINE c == BudgetAfterEvaluation(b, operator, canonical, semantic, o)
             i == Count(operator)  j == Count(canonical)  k == Count(semantic)  l == Count(~ semantic)
  <2>1. i \in Nat /\ j \in Nat /\ k \in Nat /\ l \in Nat /\ i <= 1
    BY <1>3
  <2>2. c = [b EXCEPT !.attempts = @ + 1, !.operators = @ + i, !.evaluated = @ + 1,
                      !.canonicalDuplicates = @ + j, !.semanticDuplicates = @ + k,
                      !.distinct = @ + l, !.archive[o] = @ + 1]
    BY DEF BudgetAfterEvaluation
  <2> HIDE DEF c, i, j, k, l
  <2>5. /\ c.attempts = b.attempts + 1 /\ c.operators = b.operators + i
        /\ c.evaluated = b.evaluated + 1 /\ c.invalid = b.invalid /\ c.noop = b.noop
        /\ c.canonicalDuplicates = b.canonicalDuplicates + j
        /\ c.semanticDuplicates = b.semanticDuplicates + k /\ c.distinct = b.distinct + l
        /\ c.archive = [b.archive EXCEPT ![o] = @ + 1] /\ c = Record(c)
    BY <1>6, <2>2
  <2>6. [b.archive EXCEPT ![o] = @ + 1] \in [Outcomes -> Nat]
    <3> DEFINE f == b.archive  g == [f EXCEPT ![o] = f[o] + 1]
    <3>1. f \in [Outcomes -> Nat]
      BY <1>6
    <3> HIDE DEF f
    <3>2. o \in Outcomes => f[o] + 1 \in Nat
      BY <3>1
    <3>3. \A x \in Outcomes : g[x] \in Nat
      BY <3>1, <3>2
    <3>4. g \in [Outcomes -> Nat]
      BY <3>1, <3>3
    <3> QED BY <3>4 DEF f
  <2>7. Typed(c)
    BY <1>6, <2>1, <2>5, <2>6
  <2>3. c \in Budgets
    <3> HIDE DEF Typed, Record
    <3> QED BY <1>7, <2>5, <2>7
  <2>4. ValidBudget(c)
    BY <1>1, <1>2, <2>1, <2>5 DEF ValidBudget
  <2> QED BY <2>3, <2>4, <2>5 DEF c
<1> QED BY <1>4, <1>5

(* Before the first attempt.                                                 *)
LEMMA EmptyBudgetFits ==
  ASSUME Phase3Constants
  PROVE  EmptyBudget \in Budgets /\ ValidBudget(EmptyBudget) /\ EmptyBudget.attempts = 0
<1>1. AttemptCap \in Nat /\ OracleCap \in Nat
  BY DEF Phase3Constants
<1>2. EmptyBudget \in Budgets
  BY DEF EmptyBudget, Budgets
<1>3. EmptyBudget.attempts = 0 /\ EmptyBudget.operators = 0 /\ EmptyBudget.evaluated = 0
  BY DEF EmptyBudget
<1> QED BY <1>1, <1>2, <1>3 DEF ValidBudget

(* What the rows say of themselves.                                          *)
LEMMA RowsFacts ==
  ASSUME Phase3Constants, DatabaseOK, RowsStored
  PROVE  /\ db.next \in Nat /\ db.next = Len(db.attempts) /\ DOMAIN db.attempts = 1..db.next
         /\ \A k \in 0..db.next : /\ BudgetAt(db.attempts, k) \in Budgets
                                  /\ ValidBudget(BudgetAt(db.attempts, k))
                                  /\ BudgetAt(db.attempts, k).attempts = k
                                  /\ Exhausted(BudgetAt(db.attempts, k)) => k = db.next
         /\ db.budget = BudgetAt(db.attempts, db.next)
         /\ db.budget \in Budgets /\ ValidBudget(db.budget) /\ db.budget.attempts = db.next
         /\ Restored(db.attempts) = Run(db.attempts)[db.next]
         /\ Restored(db.attempts).mechanism.programs \subseteq Programs
         /\ Condition = "diverse" => Restored(db.attempts).mechanism.held = None
         /\ Restored(db.attempts).agrees
<1> DEFINE s == db.attempts  n == db.next
<1>1. n \in Nat /\ n = Len(s) /\ DOMAIN s = 1..n
  BY DEF DatabaseOK, RowsStored
<1>2. \A i \in 1..n : RowFits(s[i], i, Run(s)[i - 1].mechanism, BudgetAt(s, i - 1))
  BY <1>1 DEF RowsStored, RowsFit
<1> HIDE DEF s, n
<1>3. ASSUME NEW k \in 0..n
      PROVE  /\ BudgetAt(s, k) \in Budgets /\ ValidBudget(BudgetAt(s, k))
             /\ BudgetAt(s, k).attempts = k
             /\ Exhausted(BudgetAt(s, k)) => k = n
  <2> DEFINE Good(b) == b \in Budgets /\ ValidBudget(b) /\ b.attempts = k
  <2>1. ASSUME k = 0 PROVE Good(BudgetAt(s, k))
    <3>1. BudgetAt(s, k) = EmptyBudget
      BY <2>1 DEF BudgetAt
    <3>2. Good(EmptyBudget)
      BY <2>1, EmptyBudgetFits
    <3> HIDE DEF Good
    <3> QED BY <3>1, <3>2
  <2>2. ASSUME k # 0 PROVE Good(BudgetAt(s, k))
    <3>1. RowFits(s[k], k, Run(s)[k - 1].mechanism, BudgetAt(s, k - 1))
      BY <1>1, <1>2, <2>2
    <3>2. BudgetAt(s, k) = s[k].budget
      BY <2>2 DEF BudgetAt
    <3>3. Good(s[k].budget)
      BY <3>1 DEF RowFits
    <3> HIDE DEF Good
    <3> QED BY <3>2, <3>3
  <2>3. k # n => ~ Exhausted(BudgetAt(s, k))
    <3> HAVE k # n
    <3>1. k + 1 \in 1..n /\ (k + 1) - 1 = k
      BY <1>1
    <3> QED BY <1>2, <3>1 DEF RowFits
  <2>4. Good(BudgetAt(s, k))
    <3> HIDE DEF Good
    <3> QED BY <2>1, <2>2
  <2> QED BY <2>3, <2>4
<1>4. db.budget = BudgetAt(s, n) /\ n \in 0..n
  BY <1>1 DEF RowsStored, s, n
<1>5. Restored(s) = Run(s)[n]
  BY <1>1, RunIsRestored
<1>6. Run(s)[n].mechanism.programs \subseteq Programs
  <2> SUFFICES ASSUME NEW x \in Run(s)[n].mechanism.programs PROVE x \in Programs
    OBVIOUS
  <2>1. PICK i \in 1..n : s[i].candidate # None /\ s[i].program = x
    BY <1>1, <1>4, RestoredSeen
  <2> QED BY <1>2, <2>1 DEF RowFits, FailureFits, EvaluationFits
<1>7. Condition = "diverse" => Run(s)[n].mechanism.held = None
  BY <1>1, <1>4, RestoredSeen
<1>8. Run(s)[n].agrees
  <2>1. RowsFit(s)
    BY DEF RowsStored, s
  <2> QED BY <1>1, <1>4, <2>1, RestoredAgrees
<1> QED BY <1>1, <1>3, <1>4, <1>5, <1>6, <1>7, <1>8 DEF s, n

(* A sequence is one of what it holds, also with one element more.           *)
LEMMA RangeAppend ==
  ASSUME NEW s, s \in Seq(SeqRange(s)), NEW a
  PROVE  /\ Append(s, a) \in Seq(SeqRange(Append(s, a)))
         /\ \E S : s \in Seq(S) /\ a \in S
         /\ Len(s) \in Nat /\ Len(Append(s, a)) = Len(s) + 1
         /\ \A i \in 1..Len(s) : Append(s, a)[i] = s[i]
         /\ Append(s, a)[Len(s) + 1] = a
<1> DEFINE S == SeqRange(s) \cup {a}  t == Append(s, a)  n == Len(s)
<1>1. s \in Seq(S) /\ a \in S
  OBVIOUS
<1> HIDE DEF S
<1>2. /\ t \in Seq(S) /\ Len(t) = n + 1 /\ n \in Nat /\ DOMAIN t = 1..(n + 1) /\ t[n + 1] = a
      /\ \A i \in 1..n : t[i] = s[i]
  BY <1>1
<1> HIDE DEF t, n
<1>3. \A i \in 1..(n + 1) : t[i] \in SeqRange(t)
  BY <1>2 DEF SeqRange
<1>4. t \in Seq(SeqRange(t))
  BY <1>2, <1>3
<1> QED BY <1>1, <1>2, <1>4 DEF t, n

-----------------------------------------------------------------------------
(* What the others keep knowing. *)

(* Files that exist stay as they are.                                        *)
FilesGrow ==
  /\ \A n \in Ids : files.proposals[n] # Absent => files'.proposals[n] = files.proposals[n]
  /\ files.analysis # Absent => files'.analysis = files.analysis
  /\ files.results # Absent => files'.results = files.results

SameRows == db'.attempts = db.attempts /\ db'.next = db.next /\ db'.budget = db.budget

(* Files are only added.                                                     *)
LEMMA KnowledgeKeeps ==
  ASSUME SameRows, FilesGrow, NEW m, Knows(m)
  PROVE  Knows(m)'
<1>1. ~ IsWhole(Absent) /\ \A c : Whole(c) # Absent
  BY FilesDiffer
<1>2. /\ m.pc \in Following =>
           /\ m.budget.attempts <= db'.next
           /\ m.budget = BudgetAt(db'.attempts, m.budget.attempts)
           /\ m.budget.attempts = db'.next => m.mechanism = Restored(db'.attempts).mechanism
      /\ m.pc = "attempt" => ~ Exhausted(m.budget)
      /\ m.pc \in Ending => Exhausted(m.budget)
  BY DEF Knows, SameRows
<1>3. m.pc = "commit" =>
        /\ m.attempt.index \in 0..db'.next /\ m.attempt.index \in Ids
        /\ m.attempt.budget = m.budget
        /\ m.attempt.index = db'.next =>
            /\ RowFits(m.attempt, db'.next + 1, Restored(db'.attempts).mechanism, db'.budget)
            /\ m.mechanism = Reinserted(Restored(db'.attempts), m.attempt).mechanism
  BY DEF Knows, SameRows
<1>4. m.pc = "commit" => files'.proposals[m.attempt.index] = Whole(ArtifactOf(m.attempt))
  BY <1>1 DEF Knows, FilesGrow
<1>5. /\ m.pc \in {"results", "complete"} => IsWhole(files'.analysis)
      /\ m.pc = "complete" => IsWhole(files'.results)
  BY <1>1 DEF Knows, FilesGrow
<1> QED BY <1>2, <1>3, <1>4, <1>5 DEF Knows

(* A row more overtakes all but the process that appends it.                 *)
LEMMA KnowledgeSurvivesAppend ==
  ASSUME Phase3Constants, DatabaseOK, RowsStored, UNCHANGED files, NEW a,
         db'.attempts = Append(db.attempts, a), db'.next = db.next + 1,
         NEW m, m.budget \in Budgets, Knows(m)
  PROVE  Knows(m)'
<1> DEFINE k == m.budget.attempts
<1>1. db.next \in Nat /\ db.next = Len(db.attempts) /\ k \in Nat
  BY RowsFacts DEF Budgets
<1>2. \A i \in 1..db.next : db'.attempts[i] = db.attempts[i]
  BY <1>1, RangeAppend DEF DatabaseOK
<1>3. m.pc \in Following =>
           /\ k <= db'.next /\ k # db'.next
           /\ m.budget = BudgetAt(db'.attempts, k)
  <2> HAVE m.pc \in Following
  <2>1. k <= db.next /\ m.budget = BudgetAt(db.attempts, k)
    BY DEF Knows
  <2> HIDE DEF k
  <2>2. k # 0 => k \in 1..db.next
    BY <1>1, <2>1
  <2>3. BudgetAt(db'.attempts, k) = BudgetAt(db.attempts, k)
    BY <1>2, <2>2 DEF BudgetAt
  <2> QED BY <1>1, <2>1, <2>3
<1>4. /\ m.pc = "attempt" => ~ Exhausted(m.budget)
      /\ m.pc \in Ending => Exhausted(m.budget)
      /\ m.pc \in {"results", "complete"} => IsWhole(files'.analysis)
      /\ m.pc = "complete" => IsWhole(files'.results)
  BY DEF Knows
<1>5. m.pc = "commit" =>
        /\ m.attempt.index \in 0..db'.next /\ m.attempt.index # db'.next
        /\ m.attempt.index \in Ids /\ m.attempt.budget = m.budget
        /\ files'.proposals[m.attempt.index] = Whole(ArtifactOf(m.attempt))
  BY <1>1 DEF Knows
<1> QED BY <1>3, <1>4, <1>5 DEF Knows

Moves(p, m) == proc' = [proc EXCEPT ![p] = m]

(* The end of a run rests on rows that do not change any more.               *)
LEMMA EndStays ==
  ASSUME SameRows, FilesGrow, EndStored,
         db'.status = db.status \/ db'.status \in {"running", "interrupted"},
         files'.results = files.results
  PROVE  EndStored'
<1>1. ~ IsWhole(Absent)
  BY FilesDiffer
<1>2. files'.results = Absent \/ (Exhausted(db'.budget) /\ files'.results = Whole(Content'))
  BY DEF EndStored, SameRows, Content
<1>3. db'.status = "completed" =>
        Exhausted(db'.budget) /\ IsWhole(files'.results) /\ IsWhole(files'.analysis)
  BY <1>1 DEF EndStored, SameRows, FilesGrow
<1> QED BY <1>2, <1>3 DEF EndStored

(* Proposals stay beside their rows.                                         *)
LEMMA RowsStay ==
  ASSUME Phase3Constants, DatabaseOK, RowsStored, SameRows, FilesGrow
  PROVE  RowsStored'
<1>1. \A i \in 1..db.next : i - 1 \in Ids
  <2>1. db.next \in Nat /\ AttemptCap \in Nat /\ db.next <= AttemptCap /\ Ids = 0..(AttemptCap - 1)
    BY RowsFacts DEF Phase3Constants, ValidBudget
  <2> QED BY <2>1
<1>2. \A c : Whole(c) # Absent
  BY FilesDiffer
<1>3. \A i \in 1..db.next : files'.proposals[i - 1] = Whole(ArtifactOf(db.attempts[i]))
  BY <1>1, <1>2 DEF RowsStored, FilesGrow
<1> QED BY <1>3 DEF RowsStored, SameRows

(* A step of one process that leaves the rows alone.                         *)
LEMMA StepKeeps ==
  ASSUME Phase3Constants, Phase3Inv, NEW p \in Procs, NEW m, Moves(p, m),
         SameRows, FilesGrow, DatabaseOK', FilesOK', DrawsOK', EndStored',
         ProcessOK(m), Knows(m)'
  PROVE  Phase3Inv'
<1>1. /\ proc = [q \in Procs |-> proc[q]]
      /\ DatabaseOK /\ RowsStored
      /\ \A q \in Procs : ProcessOK(proc[q]) /\ Knows(proc[q])
  BY DEF Phase3Inv
<1>2. /\ proc' = [q \in Procs |-> proc'[q]]
      /\ proc'[p] = m
      /\ \A q \in Procs : q # p => proc'[q] = proc[q]
  BY <1>1 DEF Moves
<1>3. \A q \in Procs : ProcessOK(proc'[q])
  BY <1>1, <1>2
<1>4. ASSUME NEW q \in Procs PROVE Knows(proc[q])'
  <2>1. CASE q = p
    BY <2>1, <1>2
  <2>2. CASE q # p
    <3>1. PICK k : k = proc[q]
      OBVIOUS
    <3>2. Knows(k)
      BY <1>1, <3>1
    <3>3. Knows(k)'
      BY <3>2, KnowledgeKeeps
    <3>4. proc'[q] = k
      BY <1>2, <2>2, <3>1
    <3> QED BY <3>3, <3>4
  <2> QED BY <2>1, <2>2
<1>5. RowsStored'
  BY <1>1, RowsStay
<1> QED BY <1>2, <1>3, <1>4, <1>5 DEF Phase3Inv

-----------------------------------------------------------------------------
(* Steps that write nothing, a status, or a file. *)

(* A process that only moves on or ends.                                     *)
LEMMA IdleKnows ==
  ASSUME Phase3Constants
  PROVE  ProcessOK(Idle) /\ Idle.pc = "idle"
<1>1. EmptyBudget \in Budgets /\ ValidBudget(EmptyBudget)
  BY EmptyBudgetFits
<1>2. EmptyMechanism.programs = {} /\ EmptyMechanism.held = None
  BY DEF EmptyMechanism
<1> HIDE DEF EmptyBudget, EmptyMechanism
<1> QED BY <1>1, <1>2 DEF ProcessOK, Idle, Places

(* Processes at these places rely on nothing.                                *)
LEMMA NothingKnown ==
  ASSUME NEW m, m.pc \in {"idle", "initialize", "open", "interrupt"}
  PROVE  Knows(m) /\ Knows(m)'
BY DEF Knows, Following, Ending

(* Another place, with the memory it has.                                    *)
LEMMA GotoMoves ==
  ASSUME Phase3Inv, NEW p \in Procs, NEW pc \in Places, Goto(p, pc)
  PROVE  \E m : /\ Moves(p, m) /\ ProcessOK(m) /\ m.pc = pc /\ m.purpose = proc[p].purpose
                /\ m.mechanism = proc[p].mechanism /\ m.budget = proc[p].budget
                /\ m.attempt = proc[p].attempt
<1> DEFINE m == [proc[p] EXCEPT !.pc = pc]
<1>1. ProcessOK(proc[p])
  BY DEF Phase3Inv
<1>2. /\ m.pc = pc /\ m.purpose = proc[p].purpose
      /\ m.mechanism = proc[p].mechanism /\ m.budget = proc[p].budget
      /\ m.attempt = proc[p].attempt /\ m.limit = proc[p].limit
      /\ m = [pc |-> m.pc, limit |-> m.limit, purpose |-> m.purpose, mechanism |-> m.mechanism,
              budget |-> m.budget, attempt |-> m.attempt]
  BY <1>1 DEF ProcessOK
<1>3. Moves(p, m)
  BY DEF Goto, Moves
<1> HIDE DEF m
<1>4. ProcessOK(m)
  BY <1>1, <1>2 DEF ProcessOK
<1> QED BY <1>2, <1>3, <1>4

(* Nothing is stored.                                                        *)
LEMMA ProcessSteps ==
  ASSUME Phase3Constants, Phase3Inv, NEW p \in Procs, NEW m, Moves(p, m),
         UNCHANGED <<db, files, draws>>, ProcessOK(m), Knows(m)
  PROVE  Phase3Inv'
<1>1. SameRows /\ FilesGrow
  BY DEF SameRows, FilesGrow
<1>2. Knows(m)'
  BY <1>1, KnowledgeKeeps
<1>3. DatabaseOK' /\ FilesOK' /\ DrawsOK'
  BY DEF Phase3Inv, DatabaseOK, FilesOK, DrawsOK
<1>4. EndStored'
  BY <1>1, EndStays DEF Phase3Inv
<1> QED BY <1>1, <1>2, <1>3, <1>4, StepKeeps

(* A process that returns or raises, or is killed.                           *)
LEMMA EndSteps ==
  ASSUME Phase3Constants, Phase3Inv, NEW p \in Procs, Ends(p), UNCHANGED <<db, files, draws>>
  PROVE  Phase3Inv'
<1>1. Moves(p, Idle)
  BY DEF Ends, Moves
<1> QED BY <1>1, IdleKnows, NothingKnown, ProcessSteps

(* The status says that the run goes on, or that it was interrupted.         *)
LEMMA StatusSteps ==
  ASSUME Phase3Constants, Phase3Inv, NEW p \in Procs, NEW m, Moves(p, m),
         NEW status \in {"running", "interrupted"}, db' = [db EXCEPT !.status = status],
         UNCHANGED <<files, draws>>, ProcessOK(m), Knows(m)
  PROVE  Phase3Inv'
<1>1. DatabaseOK
  BY DEF Phase3Inv
<1>2. /\ SameRows /\ db'.status = status
      /\ db' = [status |-> db'.status, next |-> db'.next, budget |-> db'.budget,
                attempts |-> db'.attempts]
  BY <1>1 DEF SameRows, DatabaseOK
<1>3. FilesGrow
  BY DEF FilesGrow
<1>4. Knows(m)'
  BY <1>2, <1>3, KnowledgeKeeps
<1>5. DatabaseOK'
  BY <1>1, <1>2 DEF DatabaseOK, SameRows
<1>6. FilesOK' /\ DrawsOK'
  BY DEF Phase3Inv, FilesOK, DrawsOK
<1>7. EndStored'
  BY <1>2, <1>3, EndStays DEF Phase3Inv
<1> QED BY <1>2, <1>3, <1>4, <1>5, <1>6, <1>7, StepKeeps

(* One of the files of the end is written, or found as it would be written.  *)
LEMMA FileSteps ==
  ASSUME Phase3Constants, Phase3Inv, NEW p \in Procs, NEW m, Moves(p, m),
         NEW name \in {"manifest", "lineage", "access", "analysis"}, NEW c,
         name # "analysis" \/ ~ Collides(files.analysis, c),
         files' = [files EXCEPT ![name] = Whole(c)],
         UNCHANGED <<db, draws>>, ProcessOK(m), Knows(m)'
  PROVE  Phase3Inv' /\ SameRows /\ FilesGrow
<1>1. FilesOK
  BY DEF Phase3Inv
<1>2. /\ files'.proposals = files.proposals /\ files'.results = files.results
      /\ files' = [manifest |-> files'.manifest, proposals |-> files'.proposals,
                   lineage |-> files'.lineage, access |-> files'.access,
                   analysis |-> files'.analysis, results |-> files'.results]
      /\ files'.analysis = IF name = "analysis" THEN Whole(c) ELSE files.analysis
  BY <1>1 DEF FilesOK
<1>3. files.analysis # Absent => files'.analysis = files.analysis
  BY <1>1, <1>2, FilesDiffer DEF FilesOK
<1>4. SameRows /\ FilesGrow
  BY <1>2, <1>3 DEF SameRows, FilesGrow
<1>5. FilesOK'
  BY <1>1, <1>2, FilesDiffer DEF FilesOK, Stored
<1>6. DatabaseOK' /\ DrawsOK'
  BY DEF Phase3Inv, DatabaseOK, DrawsOK
<1>7. EndStored'
  BY <1>2, <1>4, EndStays DEF Phase3Inv
<1> QED BY <1>4, <1>5, <1>6, <1>7, StepKeeps

-----------------------------------------------------------------------------
(* The steps, but for the attempts and the end. *)

(* All of the parts of a process's memory.                                   *)
Complete(m) ==
  m = [pc |-> m.pc, limit |-> m.limit, purpose |-> m.purpose, mechanism |-> m.mechanism,
       budget |-> m.budget, attempt |-> m.attempt]

(* A process begins, for a run that is new or not.                           *)
LEMMA BeginMoves ==
  ASSUME Phase3Inv, NEW p \in Procs, NEW pc \in {"initialize", "open"}, NEW limit, NEW purpose,
         proc' = [proc EXCEPT ![p].pc = pc, ![p].limit = limit, ![p].purpose = purpose]
  PROVE  \E m : Moves(p, m) /\ ProcessOK(m) /\ m.pc = pc
<1>1. ProcessOK(proc[p]) /\ proc = [q \in Procs |-> proc[q]]
  BY DEF Phase3Inv
<1>2. PICK k : k = proc[p]
  OBVIOUS
<1>3. PICK m : m = [k EXCEPT !.pc = pc, !.limit = limit, !.purpose = purpose]
  OBVIOUS
<1>4. Moves(p, m)
  BY <1>1, <1>2, <1>3 DEF Moves
<1>5. Complete(k)
  BY <1>1, <1>2 DEF ProcessOK, Complete
<1>6. /\ m.pc = pc /\ m.mechanism = k.mechanism /\ m.budget = k.budget
      /\ Complete(m)
  BY <1>3, <1>5 DEF Complete
<1>7. ProcessOK(m)
  BY <1>1, <1>2, <1>6 DEF ProcessOK, Places, Complete
<1> QED BY <1>4, <1>6, <1>7

(* start_phase3_run: only a manifest is added.                               *)
LEMMA StartKeeps ==
  ASSUME Phase3Constants, Phase3Inv, NEW p \in Procs, Start(p)
  PROVE  Phase3Inv'
<1>1. PICK m : Moves(p, m) /\ ProcessOK(m) /\ m.pc = "initialize"
  BY BeginMoves DEF Start
<1>2. files' = [files EXCEPT !["manifest"] = Whole(Locked)] /\ UNCHANGED <<db, draws>>
  BY DEF Start
<1>3. Knows(m)'
  BY <1>1, NothingKnown
<1>4. "manifest" \in {"manifest", "lineage", "access", "analysis"} /\ "manifest" # "analysis"
  OBVIOUS
<1> QED BY <1>1, <1>2, <1>3, <1>4, FileSteps

(* resume_phase3_run: nothing is written yet.                                *)
LEMMA ResumeKeeps ==
  ASSUME Phase3Constants, Phase3Inv, NEW p \in Procs, Resume(p)
  PROVE  Phase3Inv'
<1>1. PICK m : Moves(p, m) /\ ProcessOK(m) /\ m.pc = "open"
  <2>1. PICK purpose, limit :
          proc' = [proc EXCEPT ![p].pc = "open", ![p].limit = limit, ![p].purpose = purpose]
    BY DEF Resume
  <2> QED BY <2>1, BeginMoves
<1>2. UNCHANGED <<db, files, draws>>
  BY DEF Resume
<1> QED BY <1>1, <1>2, NothingKnown, ProcessSteps

(* restore_mechanism: the process knows the rows it restored.                *)
LEMMA OpenKeeps ==
  ASSUME Phase3Constants, Phase3Inv, NEW p \in Procs, Open(p)
  PROVE  Phase3Inv'
<1>1. UNCHANGED <<db, files, draws>>
  BY DEF Open
<1>2. CASE Ends(p)
  BY <1>1, <1>2, EndSteps
<1>3. CASE proc' = [proc EXCEPT ![p].pc = "run", ![p].mechanism = Restored(db.attempts).mechanism,
                                ![p].budget = db.budget]
  <2>1. ProcessOK(proc[p]) /\ proc = [q \in Procs |-> proc[q]] /\ DatabaseOK /\ RowsStored
    BY DEF Phase3Inv
  <2>2. PICK k, mechanism, budget :
          k = proc[p] /\ mechanism = Restored(db.attempts).mechanism /\ budget = db.budget
    OBVIOUS
  <2>3. PICK m : m = [k EXCEPT !.pc = "run", !.mechanism = mechanism, !.budget = budget]
    OBVIOUS
  <2>4. Moves(p, m)
    BY <1>3, <2>1, <2>2, <2>3 DEF Moves
  <2>5. /\ m.pc = "run" /\ m.mechanism = mechanism /\ m.budget = budget
        /\ Complete(m)
    <3>1. Complete(k)
      BY <2>1, <2>2 DEF ProcessOK, Complete
    <3> QED BY <2>3, <3>1 DEF Complete
  <2>6. /\ db.budget \in Budgets /\ ValidBudget(db.budget) /\ db.budget.attempts = db.next
        /\ db.budget = BudgetAt(db.attempts, db.next) /\ db.next \in Nat
        /\ Restored(db.attempts).mechanism.programs \subseteq Programs
        /\ Condition = "diverse" => Restored(db.attempts).mechanism.held = None
    BY <2>1, RowsFacts
  <2>7. ProcessOK(m)
    BY <2>2, <2>5, <2>6 DEF ProcessOK, Places, Following, Complete
  <2>8. Knows(m)
    BY <2>2, <2>5, <2>6 DEF Knows, Ending
  <2> QED BY <1>1, <2>4, <2>7, <2>8, ProcessSteps
<1> QED BY <1>2, <1>3 DEF Open

(* set_status: the place follows from the budget.                            *)
LEMMA SetRunningKeeps ==
  ASSUME Phase3Constants, Phase3Inv, NEW p \in Procs, SetRunning(p)
  PROVE  Phase3Inv'
<1> DEFINE pc == AfterStep(proc[p].budget)
<1>1. pc = IF Exhausted(proc[p].budget) THEN "lineage" ELSE "attempt"
  BY DEF AfterStep
<1>2. /\ proc[p].pc = "run" /\ Goto(p, pc) /\ UNCHANGED <<files, draws>>
      /\ db' = [db EXCEPT !.status = "running"]
  BY DEF SetRunning, At
<1> HIDE DEF pc
<1>3. pc \in Places
  BY <1>1 DEF Places, Following, Ending
<1>4. PICK m : /\ Moves(p, m) /\ ProcessOK(m) /\ m.pc = pc
               /\ m.mechanism = proc[p].mechanism /\ m.budget = proc[p].budget
  BY <1>2, <1>3, GotoMoves
<1>5. Knows(proc[p])
  BY DEF Phase3Inv
<1>6. Knows(m)
  BY <1>1, <1>2, <1>4, <1>5 DEF Knows, Following, Ending
<1> QED BY <1>2, <1>4, <1>6, StatusSteps

(* The database of a new run.                                                *)
LEMMA InitializeKeeps ==
  ASSUME Phase3Constants, Phase3Inv, NEW p \in Procs, InitializePhase3(p)
  PROVE  Phase3Inv'
<1>1. Goto(p, "open") /\ UNCHANGED <<files, draws>> /\ db' = [db EXCEPT !.status = "running"]
  BY DEF InitializePhase3
<1>2. PICK m : Moves(p, m) /\ ProcessOK(m) /\ m.pc = "open"
  BY <1>1, GotoMoves DEF Places
<1> QED BY <1>1, <1>2, NothingKnown, StatusSteps

(* A run that is interrupted keeps its rows.                                 *)
LEMMA InterruptKeeps ==
  ASSUME Phase3Constants, Phase3Inv, NEW p \in Procs, Interrupt(p)
  PROVE  Phase3Inv'
<1>1. Moves(p, Idle) /\ UNCHANGED <<files, draws>> /\ db' = [db EXCEPT !.status = "interrupted"]
  BY DEF Interrupt, Ends, Moves
<1> QED BY <1>1, IdleKnows, NothingKnown, StatusSteps

(* A signal lets the process end in good order.                              *)
LEMMA SignalKeeps ==
  ASSUME Phase3Constants, Phase3Inv, NEW p \in Procs, Signal(p)
  PROVE  Phase3Inv'
<1>1. Goto(p, "interrupt") /\ UNCHANGED <<db, files, draws>>
  BY DEF Signal
<1>2. PICK m : Moves(p, m) /\ ProcessOK(m) /\ m.pc = "interrupt"
  BY <1>1, GotoMoves DEF Places
<1> QED BY <1>1, <1>2, NothingKnown, ProcessSteps

(* A killed process leaves what it had stored.                               *)
LEMMA CrashKeeps ==
  ASSUME Phase3Constants, Phase3Inv, NEW p \in Procs, Crash(p)
  PROVE  Phase3Inv'
<1>1. Ends(p) /\ UNCHANGED <<db, files, draws>>
  BY DEF Crash
<1> QED BY <1>1, EndSteps

-----------------------------------------------------------------------------
(* One attempt. *)

(* What a process at k makes of its next attempt.                            *)
MadeFits(made, k) ==
  /\ RowFits(made.attempt, k.budget.attempts + 1, k.mechanism, k.budget)
  /\ made.mechanism = IF made.attempt.candidate = None
                        THEN k.mechanism
                        ELSE Evaluate(k.mechanism, MemberOf(made.attempt)).mechanism

(* A process that is about to make an attempt may make it.                   *)
LEMMA AttemptFacts ==
  ASSUME Phase3Constants, Phase3Inv, NEW p \in Procs, At(p, "attempt")
  PROVE  /\ proc[p].budget \in Budgets /\ ValidBudget(proc[p].budget)
         /\ ~ Exhausted(proc[p].budget)
         /\ Index(p) = proc[p].budget.attempts
         /\ Index(p) \in Nat /\ Index(p) \in Ids /\ Index(p) <= db.next
         /\ Index(p) = db.next =>
              /\ proc[p].budget = db.budget
              /\ proc[p].mechanism = Restored(db.attempts).mechanism
<1>1. /\ ProcessOK(proc[p]) /\ Knows(proc[p]) /\ DatabaseOK /\ RowsStored
      /\ proc[p].pc = "attempt"
  BY DEF Phase3Inv, At
<1>2. PICK b : b = proc[p].budget
  OBVIOUS
<1>3. b \in Budgets /\ ValidBudget(b) /\ ~ Exhausted(b)
  BY <1>1, <1>2 DEF ProcessOK, Knows
<1>4. Index(p) = b.attempts
  BY <1>2 DEF Index
<1>5. /\ b.attempts <= db.next
      /\ b = BudgetAt(db.attempts, b.attempts)
      /\ b.attempts = db.next => proc[p].mechanism = Restored(db.attempts).mechanism
  BY <1>1, <1>2 DEF Knows, Following
<1>6. db.budget = BudgetAt(db.attempts, db.next)
  BY <1>1, RowsFacts
<1>7. b.attempts \in Nat /\ b.attempts \in Ids
  <2>1. AttemptCap \in Nat /\ Ids = 0..(AttemptCap - 1)
    BY DEF Phase3Constants
  <2>2. b.attempts \in Nat /\ ~ (b.attempts >= AttemptCap)
    BY <1>3 DEF Budgets, Exhausted
  <2> QED BY <2>1, <2>2
<1> QED BY <1>2, <1>3, <1>4, <1>5, <1>6, <1>7

(* A rejected attempt, or one that gave its parent back.                     *)
LEMMA FailedFits ==
  ASSUME Phase3Constants, Phase3Inv, NEW p \in Procs, At(p, "attempt"),
         NEW outcome \in {"invalid", "no-op"}, NEW lineage
  PROVE  MadeFits(Failed(p, Index(p), outcome, lineage), proc[p])
<1>1. PICK k, made, row : /\ k = proc[p] /\ made = Failed(p, Index(p), outcome, lineage)
                          /\ row = made.attempt
  OBVIOUS
<1>2. /\ k.budget \in Budgets /\ ValidBudget(k.budget) /\ ~ Exhausted(k.budget)
      /\ Index(p) = k.budget.attempts /\ Index(p) \in Nat
  BY <1>1, AttemptFacts
<1>3. /\ made.mechanism = k.mechanism /\ row.index = k.budget.attempts
      /\ row.candidate = None /\ row.program = None
      /\ row.outcome = outcome /\ row.canonical = FALSE /\ row.semantic = FALSE
      /\ row.budget = BudgetAfterFailure(k.budget, outcome)
  BY <1>1, <1>2 DEF Failed
<1>4. FailureFits(row, k.budget)
  BY <1>3 DEF FailureFits
<1>5. /\ row.budget \in Budgets /\ ValidBudget(row.budget)
      /\ row.budget.attempts = k.budget.attempts + 1
  BY <1>2, <1>3, BudgetSteps
<1>6. row.index = (k.budget.attempts + 1) - 1
  BY <1>2, <1>3
<1>7. RowFits(row, k.budget.attempts + 1, k.mechanism, k.budget)
  BY <1>2, <1>4, <1>5, <1>6 DEF RowFits
<1> QED BY <1>1, <1>3, <1>7 DEF MadeFits

(* An attempt that gave a program.                                           *)
LEMMA EvaluatedFits ==
  ASSUME Phase3Constants, Phase3Inv, NEW p \in Procs, At(p, "attempt"),
         NEW program \in Programs, NEW lineage, NEW byOperator,
         Count(byOperator) = Count(lineage.operator # "initialization")
  PROVE  MadeFits(Evaluated(p, Index(p), program, lineage, byOperator), proc[p])
<1>1. PICK k, made, row, id :
        /\ k = proc[p] /\ made = Evaluated(p, Index(p), program, lineage, byOperator)
        /\ row = made.attempt /\ id = CandidateId(Index(p), program, lineage)
  OBVIOUS
<1>2. /\ k.budget \in Budgets /\ ValidBudget(k.budget) /\ ~ Exhausted(k.budget)
      /\ Index(p) = k.budget.attempts /\ Index(p) \in Nat /\ Index(p) \in Ids
  BY <1>1, AttemptFacts
<1>3. id # None
  <2> DEFINE same == {i \in DOMAIN db.attempts :
                        /\ db.attempts[i].candidate # None
                        /\ db.attempts[i].program = program
                        /\ db.attempts[i].lineage = lineage}
  <2>1. id = IF same = {} THEN Index(p) ELSE db.attempts[CHOOSE i \in same : TRUE].candidate
    BY <1>1 DEF CandidateId
  <2>2. \A i \in same : db.attempts[i].candidate # None
    OBVIOUS
  <2>3. same # {} => (CHOOSE i \in same : TRUE) \in same
    OBVIOUS
  <2>4. Index(p) # None
    BY <1>2 DEF Phase3Constants
  <2> HIDE DEF same
  <2> QED BY <2>1, <2>2, <2>3, <2>4
<1> DEFINE member == [id |-> id, program |-> program, lineage |-> lineage]
           canonical == program \in k.mechanism.programs
           semantic == SemanticOf[program] \in k.mechanism.semantics
           step == Evaluate(k.mechanism, member)
           budget == BudgetAfterEvaluation(k.budget, byOperator, canonical, semantic,
                                           step.decision.outcome)
<1>4. made = [mechanism |-> step.mechanism,
              attempt |-> [index |-> Index(p), candidate |-> id, program |-> program,
                    lineage |-> lineage, outcome |-> "emitted", decision |-> step.decision,
                    canonical |-> canonical, semantic |-> semantic, budget |-> budget]]
  BY <1>1 DEF Evaluated
<1>5. MemberOf(row) = member
  <2>1. row.candidate = id /\ row.program = program /\ row.lineage = lineage
    BY <1>1, <1>4
  <2> QED BY <2>1 DEF MemberOf
<1> HIDE DEF member, canonical, semantic
<1>6. budget = BudgetAfterEvaluation(k.budget, lineage.operator # "initialization",
                                     canonical, semantic, step.decision.outcome)
  BY DEF BudgetAfterEvaluation
<1> HIDE DEF step
<1>7. budget \in Budgets /\ ValidBudget(budget) /\ budget.attempts = k.budget.attempts + 1
  BY <1>2, BudgetSteps
<1> HIDE DEF budget
<1>8. /\ made.mechanism = step.mechanism /\ row.index = Index(p) /\ row.candidate = id
      /\ row.program = program /\ row.lineage = lineage /\ row.outcome = "emitted"
      /\ row.decision = step.decision /\ row.canonical = canonical /\ row.semantic = semantic
      /\ row.budget = budget
  BY <1>1, <1>4
<1>9. /\ step = Evaluate(k.mechanism, MemberOf(row))
      /\ row.canonical = (row.program \in k.mechanism.programs)
      /\ row.semantic = (SemanticOf[row.program] \in k.mechanism.semantics)
  BY <1>5, <1>8 DEF step, canonical, semantic
<1>10. EvaluationFits(row, k.mechanism, k.budget)
  BY <1>3, <1>6, <1>8, <1>9 DEF EvaluationFits
<1>11. row.index = (k.budget.attempts + 1) - 1
  BY <1>2, <1>8
<1>12. RowFits(row, k.budget.attempts + 1, k.mechanism, k.budget)
  BY <1>2, <1>7, <1>8, <1>10, <1>11 DEF RowFits
<1> QED BY <1>1, <1>3, <1>8, <1>9, <1>12 DEF MadeFits

(* The proposal is stored beside the memory it was made from, or the process *)
(* finds another one there and ends.                                         *)
LEMMA ProposeKeeps ==
  ASSUME Phase3Constants, Phase3Inv, NEW p \in Procs, At(p, "attempt"),
         NEW made, MadeFits(made, proc[p]), Propose(p, made), UNCHANGED db, DrawsOK'
  PROVE  Phase3Inv'
<1>1. PICK k, row, content :
        k = proc[p] /\ row = made.attempt /\ content = ArtifactOf(made.attempt)
  OBVIOUS
<1>2. /\ DatabaseOK /\ FilesOK /\ RowsStored /\ EndStored /\ ProcessOK(k)
      /\ proc = [q \in Procs |-> proc[q]]
  BY <1>1 DEF Phase3Inv
<1>3. /\ k.budget.attempts = Index(p) /\ Index(p) \in Nat /\ Index(p) \in Ids /\ Index(p) <= db.next
      /\ Index(p) = db.next => k.budget = db.budget /\ k.mechanism = Restored(db.attempts).mechanism
  BY <1>1, AttemptFacts
<1>4. /\ RowFits(row, Index(p) + 1, k.mechanism, k.budget)
      /\ made.mechanism = IF row.candidate = None THEN k.mechanism
                          ELSE Evaluate(k.mechanism, MemberOf(row)).mechanism
  BY <1>1, <1>3 DEF MadeFits
<1>5. row.index = Index(p) /\ row.budget \in Budgets /\ ValidBudget(row.budget)
  <2>1. row.index = (Index(p) + 1) - 1
    BY <1>4 DEF RowFits
  <2> QED BY <1>3, <1>4, <2>1 DEF RowFits
<1>6. SameRows /\ DatabaseOK'
  BY <1>2 DEF SameRows, DatabaseOK
<1>7. CASE Ends(p) /\ UNCHANGED files
  <2>1. Moves(p, Idle)
    BY <1>7 DEF Ends, Moves
  <2>2. FilesGrow /\ FilesOK'
    BY <1>2, <1>7 DEF FilesGrow, FilesOK
  <2>3. EndStored'
    BY <1>2, <1>6, <1>7, <2>2, EndStays
  <2> QED BY <1>6, <2>1, <2>2, <2>3, IdleKnows, NothingKnown, StepKeeps
<1>8. CASE /\ ~ Collides(files.proposals[row.index], content)
           /\ files' = [files EXCEPT !.proposals[row.index] = Whole(content)]
           /\ proc' = [proc EXCEPT ![p].pc = "commit", ![p].mechanism = made.mechanism,
                         ![p].budget = row.budget, ![p].attempt = row]
  <2>1. PICK n : n = Index(p)
    OBVIOUS
  <2>2. files.proposals[n] \in {Absent, Whole(content)}
    BY <1>2, <1>3, <1>5, <1>8, <2>1, FilesDiffer DEF FilesOK
  <2>3. /\ files' = [manifest |-> files'.manifest, proposals |-> files'.proposals,
                     lineage |-> files'.lineage, access |-> files'.access,
                     analysis |-> files'.analysis, results |-> files'.results]
        /\ files'.analysis = files.analysis /\ files'.results = files.results
        /\ files'.proposals = [files.proposals EXCEPT ![n] = Whole(content)]
    BY <1>2, <1>5, <1>8, <2>1 DEF FilesOK
  <2>4. /\ files'.proposals = [i \in Ids |-> files'.proposals[i]]
        /\ files'.proposals[n] = Whole(content)
        /\ \A i \in Ids : i # n => files'.proposals[i] = files.proposals[i]
    BY <1>2, <1>3, <2>1, <2>3 DEF FilesOK
  <2>5. FilesGrow
    BY <2>1, <2>2, <2>3, <2>4 DEF FilesGrow
  <2>6. FilesOK'
    <3>1. \A i \in Ids : Stored(files'.proposals[i])
      <4>1. Stored(Whole(content))
        BY FilesDiffer DEF Stored
      <4> QED BY <1>2, <2>4, <4>1 DEF FilesOK
    <3>2. Stored(files'.analysis) /\ Stored(files'.results)
      BY <1>2, <2>3 DEF FilesOK
    <3> QED BY <2>3, <2>4, <3>1, <3>2 DEF FilesOK
  <2>7. EndStored'
    BY <1>2, <1>6, <2>3, <2>5, EndStays
  <2>8. PICK m : m = [k EXCEPT !.pc = "commit", !.mechanism = made.mechanism,
                               !.budget = row.budget, !.attempt = row]
    OBVIOUS
  <2>9. Moves(p, m)
    BY <1>1, <1>2, <1>8, <2>8 DEF Moves
  <2>10. /\ m.pc = "commit" /\ m.mechanism = made.mechanism /\ m.budget = row.budget
         /\ m.attempt = row /\ Complete(m)
    <3>1. Complete(k)
      BY <1>2 DEF ProcessOK, Complete
    <3> QED BY <2>8, <3>1 DEF Complete
  <2>11. /\ made.mechanism.programs \subseteq Programs
         /\ Condition = "diverse" => made.mechanism.held = None
    <3>1. CASE row.candidate = None
      BY <1>2, <1>4, <3>1 DEF ProcessOK
    <3>2. CASE row.candidate # None
      <4>1. row.program \in Programs
        BY <1>4, <3>2 DEF RowFits, FailureFits, EvaluationFits
      <4>2. MemberOf(row).program = row.program
        BY DEF MemberOf
      <4>3. k.mechanism.programs \subseteq Programs
        BY <1>2 DEF ProcessOK
      <4>4. /\ made.mechanism.programs = k.mechanism.programs \cup {row.program}
            /\ Condition = "diverse" => made.mechanism.held = None
        BY <1>4, <3>2, <4>2, EvaluateKeeps
      <4> QED BY <4>1, <4>3, <4>4
    <3> QED BY <3>1, <3>2
  <2>12. ProcessOK(m)
    BY <1>5, <2>10, <2>11 DEF ProcessOK, Places, Complete
  <2>13. Knows(m)'
    <3>1. db' = db
      OBVIOUS
    <3>2. Index(p) = db.next =>
            /\ RowFits(row, db.next + 1, Restored(db.attempts).mechanism, db.budget)
            /\ made.mechanism = Reinserted(Restored(db.attempts), row).mechanism
      BY <1>3, <1>4 DEF Reinserted
    <3>3. /\ m.attempt.index \in 0..db'.next /\ m.attempt.index \in Ids
          /\ m.attempt.budget = m.budget
          /\ files'.proposals[m.attempt.index] = Whole(ArtifactOf(m.attempt))
      <4>1. db.next \in Nat
        BY <1>2, RowsFacts
      <4> QED BY <1>1, <1>3, <1>5, <2>1, <2>4, <2>10, <4>1
    <3> QED BY <1>5, <2>10, <3>1, <3>2, <3>3 DEF Knows, Following, Ending
  <2> QED BY <1>6, <2>5, <2>6, <2>7, <2>9, <2>12, <2>13, StepKeeps
<1> QED BY <1>1, <1>7, <1>8 DEF Propose

(* Every attempt, with what a seed gives to it.                              *)
LEMMA AttemptKeeps ==
  ASSUME Phase3Constants, Phase3Inv, NEW p \in Procs, Attempt(p)
  PROVE  Phase3Inv'
<1>1. At(p, "attempt") /\ UNCHANGED db
  BY DEF Attempt
<1>2. Index(p) \in Nat /\ Index(p) \in Ids
  BY <1>1, AttemptFacts
<1>3. DrawsOK
  BY DEF Phase3Inv
<1>4. ASSUME Index(p) < Len(InitialPrograms), UNCHANGED draws,
             Propose(p, Evaluated(p, Index(p), InitialPrograms[Index(p) + 1],
                                  [parents |-> <<>>, operator |-> "initialization"], FALSE))
      PROVE  Phase3Inv'
  <2> DEFINE lineage == [parents |-> <<>>, operator |-> "initialization"]
  <2>1. InitialPrograms[Index(p) + 1] \in Programs
    <3>1. InitialPrograms \in Seq(Programs)
      BY DEF Phase3Constants
    <3> QED BY <1>2, <1>4, <3>1
  <2>2. Count(FALSE) = Count(lineage.operator # "initialization")
    BY DEF Count
  <2>3. DrawsOK'
    BY <1>3, <1>4 DEF DrawsOK
  <2> HIDE DEF lineage
  <2>4. MadeFits(Evaluated(p, Index(p), InitialPrograms[Index(p) + 1], lineage, FALSE), proc[p])
    BY <1>1, <2>1, <2>2, EvaluatedFits
  <2>5. Propose(p, Evaluated(p, Index(p), InitialPrograms[Index(p) + 1], lineage, FALSE))
    BY <1>4 DEF lineage
  <2> QED BY <1>1, <2>3, <2>4, <2>5, ProposeKeeps
<1>5. ASSUME NEW draw, draw \in (IF draws[Index(p)] = None THEN DrawsFor(proc[p].mechanism)
                                                           ELSE {draws[Index(p)].draw}),
             NEW lineage, lineage.operator = draw.operator,
             NEW product,
             product \in (IF draws[Index(p)] # None /\ draws[Index(p)].lineage = lineage
                            THEN {draws[Index(p)].product}
                            ELSE Products(ParentsFor(proc[p].mechanism, draw))),
             draws' = [draws EXCEPT ![Index(p)] =
                         [draw |-> draw, lineage |-> lineage, product |-> product]],
             Propose(p, IF product \in {"invalid", "no-op"}
                          THEN Failed(p, Index(p), product, lineage)
                          ELSE Evaluated(p, Index(p), product, lineage, TRUE))
      PROVE  Phase3Inv'
  <2>1. draw.operator # "initialization"
    <3>1. CASE draws[Index(p)] = None
      <4>1. draw.operator \in {"local-mutation", "typed-crossover"}
        BY <1>5, <3>1 DEF DrawsFor
      <4> QED BY <4>1
    <3>2. CASE draws[Index(p)] # None
      BY <1>2, <1>3, <1>5, <3>2 DEF DrawsOK
    <3> QED BY <3>1, <3>2
  <2>2. product \in {"invalid", "no-op"} \cup Programs
    <3>1. CASE draws[Index(p)] # None /\ draws[Index(p)].lineage = lineage
      BY <1>2, <1>3, <1>5, <3>1 DEF DrawsOK
    <3>2. CASE ~ (draws[Index(p)] # None /\ draws[Index(p)].lineage = lineage)
      <4>1. product \in Products(ParentsFor(proc[p].mechanism, draw))
        BY <1>5, <3>2
      <4> QED BY <4>1 DEF Products
    <3> QED BY <3>1, <3>2
  <2>3. DrawsOK'
    <3>1. PICK n : n = Index(p)
      OBVIOUS
    <3>2. PICK d : d = [draw |-> draw, lineage |-> lineage, product |-> product]
      OBVIOUS
    <3>3. d.product = product /\ d.draw = draw
      BY <3>2
    <3>4. draws' = [draws EXCEPT ![n] = d]
      BY <1>5, <3>1, <3>2
    <3>5. /\ draws' = [i \in Ids |-> draws'[i]]
          /\ draws'[n] = d /\ \A i \in Ids : i # n => draws'[i] = draws[i]
      BY <1>2, <1>3, <3>1, <3>4 DEF DrawsOK
    <3> QED BY <1>3, <2>1, <2>2, <3>3, <3>5 DEF DrawsOK
  <2>4. CASE product \in {"invalid", "no-op"}
    <3>1. MadeFits(Failed(p, Index(p), product, lineage), proc[p])
      BY <1>1, <2>4, FailedFits
    <3>2. Propose(p, Failed(p, Index(p), product, lineage))
      BY <1>5, <2>4
    <3> QED BY <1>1, <2>3, <3>1, <3>2, ProposeKeeps
  <2>5. CASE product \notin {"invalid", "no-op"}
    <3>1. Count(TRUE) = Count(lineage.operator # "initialization")
      BY <1>5, <2>1 DEF Count
    <3>2. product \in Programs
      BY <2>2, <2>5
    <3>3. MadeFits(Evaluated(p, Index(p), product, lineage, TRUE), proc[p])
      BY <1>1, <3>1, <3>2, EvaluatedFits
    <3>4. Propose(p, Evaluated(p, Index(p), product, lineage, TRUE))
      BY <1>5, <2>5
    <3> QED BY <1>1, <2>3, <3>3, <3>4, ProposeKeeps
  <2> QED BY <2>4, <2>5
<1>6. CASE Index(p) < Len(InitialPrograms)
  <2>1. Len(InitialPrograms) \in Nat
    BY DEF Phase3Constants
  <2>2. ~ (Index(p) >= Len(InitialPrograms))
    BY <1>2, <1>6, <2>1
  <2>3. /\ UNCHANGED draws
        /\ Propose(p, Evaluated(p, Index(p), InitialPrograms[Index(p) + 1],
                                [parents |-> <<>>, operator |-> "initialization"], FALSE))
    BY <2>2 DEF Attempt
  <2> QED BY <1>4, <1>6, <2>3
<1>7. CASE ~ (Index(p) < Len(InitialPrograms))
  <2>1. PICK draw \in (IF draws[Index(p)] = None THEN DrawsFor(proc[p].mechanism)
                                                 ELSE {draws[Index(p)].draw}) :
          LET parents == ParentsFor(proc[p].mechanism, draw)
              lineage == [parents |-> [i \in DOMAIN parents |-> parents[i].id],
                          operator |-> draw.operator]
              known == draws[Index(p)] # None /\ draws[Index(p)].lineage = lineage
          IN  \E product \in IF known THEN {draws[Index(p)].product} ELSE Products(parents) :
                /\ draws' = [draws EXCEPT ![Index(p)] =
                     [draw |-> draw, lineage |-> lineage, product |-> product]]
                /\ Propose(p, IF product \in {"invalid", "no-op"}
                                THEN Failed(p, Index(p), product, lineage)
                                ELSE Evaluated(p, Index(p), product, lineage, TRUE))
    BY <1>7 DEF Attempt
  <2>2. PICK lineage :
          lineage = [parents |-> [i \in DOMAIN ParentsFor(proc[p].mechanism, draw) |->
                                    ParentsFor(proc[p].mechanism, draw)[i].id],
                     operator |-> draw.operator]
    OBVIOUS
  <2>3. lineage.operator = draw.operator
    BY <2>2
  <2> QED BY <1>5, <2>1, <2>2, <2>3
<1> QED BY <1>6, <1>7

-----------------------------------------------------------------------------
(* One commit. *)

(* What can be appended is the next attempt: the others are there already.   *)
LEMMA CommitFacts ==
  ASSUME Phase3Constants, Phase3Inv, NEW p \in Procs, At(p, "commit"),
         Appendable(proc[p].attempt)
  PROVE  /\ proc[p].attempt.index = db.next
         /\ RowFits(proc[p].attempt, db.next + 1, Restored(db.attempts).mechanism, db.budget)
         /\ proc[p].mechanism = Reinserted(Restored(db.attempts), proc[p].attempt).mechanism
         /\ proc[p].attempt.budget = proc[p].budget
         /\ files.proposals[db.next] = Whole(ArtifactOf(proc[p].attempt))
<1>1. PICK k, a : k = proc[p] /\ a = proc[p].attempt
  OBVIOUS
<1>2. k.pc = "commit" /\ Knows(k) /\ DatabaseOK /\ RowsStored
  BY <1>1 DEF Phase3Inv, At
<1>3. /\ a.index \in 0..db.next /\ a.budget = k.budget
      /\ files.proposals[a.index] = Whole(ArtifactOf(a))
      /\ a.index = db.next =>
           /\ RowFits(a, db.next + 1, Restored(db.attempts).mechanism, db.budget)
           /\ k.mechanism = Reinserted(Restored(db.attempts), a).mechanism
  BY <1>1, <1>2 DEF Knows
<1>4. db.next \in Nat /\ DOMAIN db.attempts = 1..db.next /\ db.next = Len(db.attempts)
  BY <1>2, RowsFacts
<1>5. a.index = db.next
  <2> SUFFICES ASSUME a.index # db.next PROVE FALSE
    OBVIOUS
  <2>1. a.index + 1 \in 1..db.next
    BY <1>3, <1>4
  <2>2. db.attempts[a.index + 1].index = (a.index + 1) - 1
    BY <1>2, <1>4, <2>1 DEF RowsStored, RowsFit, RowFits
  <2>3. db.attempts[a.index + 1].index = a.index
    BY <1>3, <1>4, <2>2
  <2>4. \A j \in DOMAIN db.attempts : db.attempts[j].index # a.index
    BY <1>1 DEF Appendable
  <2> QED BY <1>4, <2>1, <2>3, <2>4
<1> QED BY <1>1, <1>3, <1>5

(* append_phase3_step: one row more, and the process goes on with it.        *)
LEMMA CommitKeeps ==
  ASSUME Phase3Constants, Phase3Inv, NEW p \in Procs, Commit(p)
  PROVE  Phase3Inv'
<1>1. At(p, "commit") /\ UNCHANGED <<files, draws>>
  BY DEF Commit
<1>2. CASE ~ Appendable(proc[p].attempt)
  <2>1. Ends(p) /\ UNCHANGED db
    BY <1>2 DEF Commit
  <2> QED BY <1>1, <2>1, EndSteps
<1>3. CASE Appendable(proc[p].attempt)
  <2>1. PICK k, a, n, before : k = proc[p] /\ a = proc[p].attempt /\ n = db.next /\ before = db.attempts
    OBVIOUS
  <2>2. /\ a.index = n /\ RowFits(a, n + 1, Restored(before).mechanism, db.budget)
        /\ k.mechanism = Reinserted(Restored(before), a).mechanism
        /\ a.budget = k.budget /\ files.proposals[n] = Whole(ArtifactOf(a))
    BY <1>1, <1>3, <2>1, CommitFacts
  <2>3. PICK pc : pc = IF proc[p].limit # 0 /\ a.budget.attempts >= proc[p].limit
                         THEN "interrupt" ELSE AfterStep(a.budget)
    OBVIOUS
  <2>4. /\ db' = [db EXCEPT !.attempts = Append(@, a), !.budget = a.budget, !.next = a.index + 1]
        /\ proc' = [proc EXCEPT ![p].attempt = NoAttempt, ![p].pc = pc]
    BY <1>3, <2>1, <2>3 DEF Commit, AppendStep
  <2>5. /\ DatabaseOK /\ RowsStored /\ EndStored /\ FilesOK /\ DrawsOK
        /\ proc = [q \in Procs |-> proc[q]]
        /\ \A q \in Procs : ProcessOK(proc[q]) /\ Knows(proc[q])
        /\ ProcessOK(k)
    BY <2>1 DEF Phase3Inv
  <2>6. /\ n \in Nat /\ n = Len(before) /\ db.budget = BudgetAt(before, n)
        /\ before \in Seq(SeqRange(before))
    BY <2>1, <2>5, RowsFacts DEF DatabaseOK
  <2>7. PICK t : t = Append(before, a)
    OBVIOUS
  <2>8. /\ db' = [status |-> db'.status, next |-> db'.next, budget |-> db'.budget,
                  attempts |-> db'.attempts]
        /\ db'.status = db.status /\ db'.attempts = t /\ db'.budget = a.budget
        /\ db'.next = n + 1
    BY <2>1, <2>2, <2>4, <2>5, <2>7 DEF DatabaseOK
  <2>9. /\ t \in Seq(SeqRange(t)) /\ Len(t) = n + 1 /\ t[n + 1] = a
        /\ \A i \in 1..n : t[i] = before[i]
    BY <2>6, <2>7, RangeAppend
  <2>10. DatabaseOK'
    BY <2>5, <2>8, <2>9 DEF DatabaseOK
  <2>11. FilesOK' /\ DrawsOK'
    BY <1>1, <2>5 DEF FilesOK, DrawsOK
  <2>12. RowsFit(t) /\ Restored(t) = Reinserted(Restored(before), a)
    <3>1. PICK S : before \in Seq(S) /\ a \in S
      BY <2>6, RangeAppend
    <3>2. RowsFit(before)
      BY <2>1, <2>5 DEF RowsStored
    <3>3. RowFits(a, Len(before) + 1, Restored(before).mechanism, BudgetAt(before, Len(before)))
      BY <2>2, <2>6
    <3>4. RowsFit(t)
      BY <2>7, <3>1, <3>2, <3>3, RowsFitAppend
    <3> QED BY <2>7, <3>1, <3>4, RunAppend
  <2>13. BudgetAt(t, n + 1) = a.budget
    BY <2>6, <2>9 DEF BudgetAt
  <2>14. RowsStored'
    <3>1. ASSUME NEW i \in 1..(n + 1)
          PROVE  files'.proposals[i - 1] = Whole(ArtifactOf(t[i]))
      <4>1. CASE i = n + 1
        <5>1. i - 1 = n
          BY <2>6, <4>1
        <5> QED BY <1>1, <2>2, <2>9, <4>1, <5>1
      <4>2. CASE i # n + 1
        <5>1. i \in 1..n
          BY <2>6, <4>2
        <5> QED BY <1>1, <2>1, <2>5, <2>9, <5>1 DEF RowsStored
      <4> QED BY <4>1, <4>2
    <3> QED BY <2>8, <2>9, <2>12, <2>13, <3>1 DEF RowsStored
  <2>15. EndStored'
    <3>1. ~ Exhausted(db.budget)
      BY <2>2 DEF RowFits
    <3>2. files.results = Absent /\ db.status # "completed"
      BY <2>5, <3>1 DEF EndStored
    <3> QED BY <1>1, <2>8, <3>2 DEF EndStored
  <2>16. PICK m : m = [k EXCEPT !.attempt = NoAttempt, !.pc = pc]
    OBVIOUS
  <2>17. /\ proc'[p] = m /\ proc' = [q \in Procs |-> proc'[q]]
         /\ \A q \in Procs : q # p => proc'[q] = proc[q]
    <3>1. proc' = [proc EXCEPT ![p] = m]
      BY <2>1, <2>4, <2>5, <2>16
    <3> QED BY <2>5, <3>1
  <2>18. /\ m.pc = pc /\ m.mechanism = k.mechanism /\ m.budget = k.budget /\ Complete(m)
    <3>1. Complete(k)
      BY <2>5 DEF ProcessOK, Complete
    <3> QED BY <2>16, <3>1 DEF Complete
  <2>19. pc \in {"interrupt", "lineage", "attempt"} /\ pc \in Places
    BY <2>3 DEF AfterStep, Places, Following, Ending
  <2>20. ProcessOK(m)
    BY <2>5, <2>18, <2>19 DEF ProcessOK, Complete
  <2>21. Knows(m)'
    <3>1. a.budget.attempts = n + 1
      BY <2>2 DEF RowFits
    <3>2. pc = "attempt" => ~ Exhausted(a.budget)
      BY <2>3 DEF AfterStep
    <3>3. pc \in Ending => Exhausted(a.budget)
      BY <2>3 DEF AfterStep, Ending
    <3>4. m.mechanism = Restored(t).mechanism /\ m.budget = a.budget
      BY <2>2, <2>12, <2>18
    <3>5. m.pc \notin {"commit", "results", "complete"}
      BY <2>18, <2>19
    <3> QED BY <2>6, <2>8, <2>13, <2>18, <3>1, <3>2, <3>3, <3>4, <3>5 DEF Knows
  <2>22. ASSUME NEW q \in Procs, q # p PROVE Knows(proc[q])'
    <3>1. PICK o : o = proc[q]
      OBVIOUS
    <3>2. Knows(o) /\ o.budget \in Budgets
      BY <2>5, <3>1 DEF ProcessOK
    <3>3. Knows(o)'
      BY <1>1, <2>1, <2>5, <2>7, <2>8, <3>2, KnowledgeSurvivesAppend
    <3>4. proc'[q] = o
      BY <2>17, <2>22, <3>1
    <3> QED BY <3>3, <3>4
  <2>23. \A q \in Procs : Knows(proc[q])'
    BY <2>17, <2>21, <2>22
  <2>24. \A q \in Procs : ProcessOK(proc'[q])
    BY <2>5, <2>17, <2>20
  <2> QED BY <2>10, <2>11, <2>14, <2>15, <2>17, <2>23, <2>24 DEF Phase3Inv
<1> QED BY <1>2, <1>3

-----------------------------------------------------------------------------
(* The end of a run. *)

(* A process that writes the end of the run has all of its rows.             *)
LEMMA EndingFacts ==
  ASSUME Phase3Constants, Phase3Inv, NEW p \in Procs, proc[p].pc \in Ending
  PROVE  /\ Exhausted(db.budget) /\ proc[p].budget = db.budget
         /\ proc[p].budget.attempts = db.next
         /\ proc[p].mechanism = Restored(db.attempts).mechanism
         /\ Results(p) = Content
<1>1. PICK k : k = proc[p]
  OBVIOUS
<1>2. ProcessOK(k) /\ Knows(k) /\ DatabaseOK /\ RowsStored
  BY <1>1 DEF Phase3Inv
<1>3. /\ k.budget.attempts <= db.next /\ k.budget = BudgetAt(db.attempts, k.budget.attempts)
      /\ k.budget.attempts = db.next => k.mechanism = Restored(db.attempts).mechanism
      /\ Exhausted(k.budget)
  BY <1>1, <1>2 DEF Knows, Following
<1>4. k.budget.attempts \in Nat /\ db.next \in Nat
  BY <1>2, RowsFacts DEF ProcessOK, Budgets
<1>5. k.budget.attempts = db.next
  <2>1. k.budget.attempts \in 0..db.next
    BY <1>3, <1>4
  <2>2. Exhausted(BudgetAt(db.attempts, k.budget.attempts))
    BY <1>3
  <2> QED BY <1>2, <2>1, <2>2, RowsFacts
<1>6. k.budget = db.budget
  <2>1. db.budget = BudgetAt(db.attempts, db.next)
    BY <1>2, RowsFacts
  <2> QED BY <1>3, <1>5, <2>1
<1>7. Results(p) = Content
  BY <1>1, <1>3, <1>5, <1>6 DEF Results, Content
<1> QED BY <1>1, <1>3, <1>5, <1>6, <1>7

(* The lineage, the access of the authority and the analysis.                *)
LEMMA WriteKeeps ==
  ASSUME Phase3Constants, Phase3Inv, NEW p \in Procs, NEW c,
         NEW name \in {"lineage", "access", "analysis"},
         NEW here \in Ending, NEW next \in {"access", "analysis", "results"},
         next = "results" => name = "analysis",
         WriteChecked(p, name, c, here, next)
  PROVE  Phase3Inv'
<1>1. proc[p].pc = here /\ UNCHANGED <<db, draws>>
  BY DEF WriteChecked, At
<1>2. CASE Ends(p) /\ UNCHANGED files
  BY <1>1, <1>2, EndSteps
<1>3. CASE /\ ~ Collides(files[name], c)
           /\ files' = [files EXCEPT ![name] = Whole(c)] /\ Goto(p, next)
  <2>1. next \in Places /\ next \in Ending
    BY DEF Places, Following, Ending
  <2>2. PICK m : /\ Moves(p, m) /\ ProcessOK(m) /\ m.pc = next
                 /\ m.mechanism = proc[p].mechanism /\ m.budget = proc[p].budget
    BY <1>3, <2>1, GotoMoves
  <2>3. /\ Exhausted(db.budget) /\ m.budget = db.budget
        /\ m.budget.attempts = db.next
        /\ m.mechanism = Restored(db.attempts).mechanism
        /\ db.budget = BudgetAt(db.attempts, db.next) /\ db.next \in Nat
    <3>1. DatabaseOK /\ RowsStored
      BY DEF Phase3Inv
    <3> QED BY <1>1, <2>2, <3>1, EndingFacts, RowsFacts
  <2>4. name = "analysis" => IsWhole(files'.analysis)
    <3> HAVE name = "analysis"
    <3>1. files'.analysis = Whole(c)
      BY <1>3 DEF Phase3Inv, FilesOK
    <3> QED BY <3>1, FilesDiffer
  <2>5. Knows(m)'
    <3>1. m.pc \notin {"attempt", "commit", "complete"} /\ db' = db
      BY <1>1, <2>2
    <3> QED BY <2>2, <2>3, <2>4, <3>1 DEF Knows
  <2>6. name # "analysis" \/ ~ Collides(files.analysis, c)
    BY <1>3
  <2>7. name \in {"manifest", "lineage", "access", "analysis"}
    OBVIOUS
  <2> QED BY <1>1, <1>3, <2>2, <2>5, <2>6, <2>7, FileSteps
<1> QED BY <1>2, <1>3 DEF WriteChecked

(* results.json: what the rows say, whoever writes it.                       *)
LEMMA ResultsKeep ==
  ASSUME Phase3Constants, Phase3Inv, NEW p \in Procs,
         WriteChecked(p, "results", Results(p), "results", "complete")
  PROVE  Phase3Inv'
<1>1. proc[p].pc = "results" /\ UNCHANGED <<db, draws>>
  BY DEF WriteChecked, At
<1>2. CASE Ends(p) /\ UNCHANGED files
  BY <1>1, <1>2, EndSteps
<1>3. CASE /\ ~ Collides(files.results, Results(p))
           /\ files' = [files EXCEPT !.results = Whole(Results(p))] /\ Goto(p, "complete")
  <2>1. "complete" \in Places /\ "results" \in Ending
    BY DEF Places, Following, Ending
  <2>2. PICK m : /\ Moves(p, m) /\ ProcessOK(m) /\ m.pc = "complete"
                 /\ m.mechanism = proc[p].mechanism /\ m.budget = proc[p].budget
    BY <1>3, <2>1, GotoMoves
  <2>3. DatabaseOK /\ RowsStored /\ EndStored /\ FilesOK /\ DrawsOK /\ Knows(proc[p])
    BY DEF Phase3Inv
  <2>4. /\ Exhausted(db.budget) /\ m.budget = db.budget
        /\ m.budget.attempts = db.next
        /\ m.mechanism = Restored(db.attempts).mechanism
        /\ db.budget = BudgetAt(db.attempts, db.next) /\ db.next \in Nat
        /\ Results(p) = Content
    BY <1>1, <2>1, <2>2, <2>3, EndingFacts, RowsFacts
  <2>5. PICK c : c = Content
    OBVIOUS
  <2>6. /\ files' = [manifest |-> files'.manifest, proposals |-> files'.proposals,
                     lineage |-> files'.lineage, access |-> files'.access,
                     analysis |-> files'.analysis, results |-> files'.results]
        /\ files'.proposals = files.proposals /\ files'.analysis = files.analysis
        /\ files'.results = Whole(c)
    BY <1>3, <2>3, <2>4, <2>5 DEF FilesOK
  <2>7. files.results \in {Absent, Whole(c)}
    BY <1>3, <2>3, <2>4, <2>5, FilesDiffer DEF FilesOK
  <2>8. SameRows /\ FilesGrow
    BY <1>1, <2>6, <2>7 DEF SameRows, FilesGrow
  <2>9. FilesOK'
    BY <2>3, <2>6, FilesDiffer DEF FilesOK, Stored
  <2>10. DatabaseOK' /\ DrawsOK'
    BY <1>1, <2>3 DEF DatabaseOK, DrawsOK
  <2>11. c = Content'
    BY <1>1, <2>5 DEF Content
  <2>12. EndStored'
    <3>1. IsWhole(files'.results)
      BY <2>6, FilesDiffer
    <3>2. db'.status = "completed" => IsWhole(files'.analysis)
      BY <1>1, <2>3, <2>6 DEF EndStored
    <3> QED BY <1>1, <2>4, <2>6, <2>11, <3>1, <3>2 DEF EndStored
  <2>13. Knows(m)'
    <3>1. m.pc \notin {"attempt", "commit"} /\ db' = db
      BY <1>1, <2>2
    <3>2. IsWhole(files'.analysis) /\ IsWhole(files'.results)
      BY <1>1, <2>3, <2>6, FilesDiffer DEF Knows
    <3> QED BY <2>2, <2>4, <3>1, <3>2 DEF Knows
  <2> QED BY <2>2, <2>8, <2>9, <2>10, <2>12, <2>13, StepKeeps
<1> QED BY <1>2, <1>3 DEF WriteChecked

(* The status says completed when everything is there.                       *)
LEMMA CompleteKeeps ==
  ASSUME Phase3Constants, Phase3Inv, NEW p \in Procs, At(p, "complete"),
         db' = [db EXCEPT !.status = "completed"], Ends(p), UNCHANGED <<files, draws>>
  PROVE  Phase3Inv'
<1>1. DatabaseOK /\ RowsStored /\ EndStored /\ FilesOK /\ DrawsOK /\ Knows(proc[p])
  BY DEF Phase3Inv
<1>2. proc[p].pc = "complete" /\ proc[p].pc \in Ending
  BY DEF At, Ending
<1>3. /\ db' = [status |-> db'.status, next |-> db'.next, budget |-> db'.budget,
                attempts |-> db'.attempts]
      /\ db'.status = "completed" /\ db'.attempts = db.attempts
      /\ db'.next = db.next /\ db'.budget = db.budget
  BY <1>1 DEF DatabaseOK
<1>4. SameRows /\ FilesGrow
  BY <1>3 DEF SameRows, FilesGrow
<1>5. DatabaseOK' /\ FilesOK' /\ DrawsOK'
  BY <1>1, <1>3 DEF DatabaseOK, FilesOK, DrawsOK
<1>6. EndStored'
  <2>1. Exhausted(db.budget)
    BY <1>2, EndingFacts
  <2>2. IsWhole(files.results) /\ IsWhole(files.analysis)
    BY <1>1, <1>2 DEF Knows
  <2>3. Content' = Content
    BY <1>3 DEF Content
  <2> QED BY <1>1, <1>3, <2>1, <2>2, <2>3 DEF EndStored
<1>7. Moves(p, Idle)
  BY DEF Ends, Moves
<1> QED BY <1>4, <1>5, <1>6, <1>7, IdleKnows, NothingKnown, StepKeeps

(* phase3_results, write_phase3_analysis and the status.                     *)
LEMMA FinalizeKeeps ==
  ASSUME Phase3Constants, Phase3Inv, NEW p \in Procs, Finalize(p)
  PROVE  Phase3Inv'
<1>1. CASE WriteChecked(p, "lineage", db.attempts, "lineage", "access")
  <2>1. PICK c : c = db.attempts
    OBVIOUS
  <2>2. WriteChecked(p, "lineage", c, "lineage", "access")
    BY <1>1, <2>1 DEF WriteChecked
  <2> QED BY <2>2, WriteKeeps DEF Ending
<1>2. CASE WriteChecked(p, "access", proc[p].purpose, "access", "analysis")
  <2>1. PICK c : c = proc[p].purpose
    OBVIOUS
  <2>2. WriteChecked(p, "access", c, "access", "analysis")
    BY <1>2, <2>1 DEF WriteChecked
  <2> QED BY <2>2, WriteKeeps DEF Ending
<1>3. CASE WriteChecked(p, "analysis", [lineage |-> db.attempts, access |-> proc[p].purpose],
                        "analysis", "results")
  <2>1. PICK c : c = [lineage |-> db.attempts, access |-> proc[p].purpose]
    OBVIOUS
  <2>2. WriteChecked(p, "analysis", c, "analysis", "results")
    BY <1>3, <2>1 DEF WriteChecked
  <2> QED BY <2>2, WriteKeeps DEF Ending
<1>4. CASE WriteChecked(p, "results", Results(p), "results", "complete")
  BY <1>4, ResultsKeep
<1>5. CASE /\ At(p, "complete") /\ db' = [db EXCEPT !.status = "completed"] /\ Ends(p)
           /\ UNCHANGED <<files, draws, faults>>
  BY <1>5, CompleteKeeps
<1> QED BY <1>1, <1>2, <1>3, <1>4, <1>5 DEF Finalize

-----------------------------------------------------------------------------
(* The invariant holds. *)

(* Before anything has been done.                                            *)
LEMMA InitFits ==
  ASSUME Phase3Constants, Init
  PROVE  Phase3Inv
<1>1. /\ DatabaseOK /\ db.status = None /\ db.next = 0 /\ db.budget = EmptyBudget
      /\ db.attempts = <<>>
  <2>1. <<>> \in Seq(SeqRange(<<>>))
    OBVIOUS
  <2>2. /\ db.status = None /\ db.next = 0 /\ db.budget = EmptyBudget /\ db.attempts = <<>>
        /\ db = [status |-> db.status, next |-> db.next, budget |-> db.budget,
                 attempts |-> db.attempts]
    BY DEF Init
  <2> QED BY <2>1, <2>2 DEF DatabaseOK
<1>2. /\ FilesOK /\ files.results = Absent
  <2>1. /\ files = [manifest |-> files.manifest, proposals |-> files.proposals,
                    lineage |-> files.lineage, access |-> files.access,
                    analysis |-> files.analysis, results |-> files.results]
        /\ files.proposals = [n \in Ids |-> Absent]
        /\ files.analysis = Absent /\ files.results = Absent
    BY DEF Init
  <2> QED BY <2>1 DEF FilesOK, Stored
<1>3. DrawsOK
  BY DEF Init, DrawsOK
<1>4. /\ proc = [p \in Procs |-> proc[p]]
      /\ \A p \in Procs : proc[p] = Idle
  BY DEF Init
<1>5. \A p \in Procs : ProcessOK(proc[p]) /\ Knows(proc[p])
  BY <1>4, IdleKnows, NothingKnown
<1>6. RowsStored
  <2>1. Len(db.attempts) = 0
    BY <1>1
  <2>2. RowsFit(db.attempts)
    BY <2>1 DEF RowsFit
  <2> QED BY <1>1, <2>1, <2>2 DEF RowsStored, BudgetAt
<1>7. EndStored
  BY <1>1, <1>2 DEF EndStored, Phase3Constants
<1> QED BY <1>1, <1>2, <1>3, <1>4, <1>5, <1>6, <1>7 DEF Phase3Inv

(* Every step, of any process.                                               *)
LEMMA NextKeeps ==
  ASSUME Phase3Constants, Phase3Inv, [Next]_vars
  PROVE  Phase3Inv'
<1>1. CASE UNCHANGED vars
  <2>1. SameRows /\ FilesGrow
    BY <1>1 DEF vars, SameRows, FilesGrow
  <2>2. DatabaseOK' /\ FilesOK' /\ DrawsOK' /\ RowsStored' /\ EndStored'
    BY <1>1 DEF vars, Phase3Inv, DatabaseOK, FilesOK, DrawsOK, RowsStored, EndStored, Content
  <2>3. ASSUME NEW q \in Procs PROVE Knows(proc[q])'
    <3>1. PICK o : o = proc[q]
      OBVIOUS
    <3>2. Knows(o)
      BY <3>1 DEF Phase3Inv
    <3>3. Knows(o)'
      BY <2>1, <3>2, KnowledgeKeeps
    <3> QED BY <1>1, <3>1, <3>3 DEF vars
  <2>4. \A q \in Procs : ProcessOK(proc'[q])
    BY <1>1 DEF vars, Phase3Inv
  <2>5. proc' = [q \in Procs |-> proc'[q]]
    BY <1>1 DEF vars, Phase3Inv
  <2> QED BY <2>2, <2>3, <2>4, <2>5 DEF Phase3Inv
<1>2. ASSUME NEW p \in Procs, Start(p) \/ Resume(p) \/ Step(p) \/ Crash(p) \/ Signal(p)
      PROVE  Phase3Inv'
  <2>1. CASE Start(p)
    BY <2>1, StartKeeps
  <2>2. CASE Resume(p)
    BY <2>2, ResumeKeeps
  <2>3. CASE InitializePhase3(p)
    BY <2>3, InitializeKeeps
  <2>4. CASE Open(p)
    BY <2>4, OpenKeeps
  <2>5. CASE SetRunning(p)
    BY <2>5, SetRunningKeeps
  <2>6. CASE Attempt(p)
    BY <2>6, AttemptKeeps
  <2>7. CASE Commit(p)
    BY <2>7, CommitKeeps
  <2>8. CASE Interrupt(p)
    BY <2>8, InterruptKeeps
  <2>9. CASE Finalize(p)
    BY <2>9, FinalizeKeeps
  <2>10. CASE Crash(p)
    BY <2>10, CrashKeeps
  <2>11. CASE Signal(p)
    BY <2>11, SignalKeeps
  <2> QED BY <1>2, <2>1, <2>2, <2>3, <2>4, <2>5, <2>6, <2>7, <2>8, <2>9, <2>10, <2>11 DEF Step
<1> QED BY <1>1, <1>2 DEF Next

(* In every state of a run.                                                  *)
LEMMA Phase3InvHolds ==
  ASSUME Phase3Constants
  PROVE  Spec => []Phase3Inv
<1>1. Init => Phase3Inv
  BY InitFits
<1>2. Phase3Inv /\ [Next]_vars => Phase3Inv'
  BY NextKeeps
<1> QED BY <1>1, <1>2, PTL DEF Spec

-----------------------------------------------------------------------------
(* What the rows alone imply. *)

(* An evaluation is marked by what was evaluated before it.                  *)
LEMMA RowsAreFlagged ==
  ASSUME NEW s, Len(s) \in Nat, RowsFit(s), NEW i \in 1..Len(s), s[i].candidate # None
  PROVE  /\ s[i].canonical <=> \E j \in 1..i - 1 : /\ s[j].candidate # None
                                                   /\ s[j].program = s[i].program
         /\ s[i].semantic <=> \E j \in 1..i - 1 :
                                /\ s[j].candidate # None
                                /\ SemanticOf[s[j].program] = SemanticOf[s[i].program]
<1> DEFINE before == Run(s)[i - 1].mechanism
<1>1. i - 1 \in 0..Len(s)
  OBVIOUS
<1>2. /\ \A x : x \in before.programs <=>
                  \E j \in 1..(i - 1) : s[j].candidate # None /\ s[j].program = x
      /\ \A x : x \in before.semantics <=>
                  \E j \in 1..(i - 1) : s[j].candidate # None /\ SemanticOf[s[j].program] = x
  BY <1>1, RestoredSeen
<1>3. EvaluationFits(s[i], before, BudgetAt(s, i - 1))
  BY DEF RowsFit, RowFits, FailureFits
<1>4. /\ s[i].canonical = (s[i].program \in before.programs)
      /\ s[i].semantic = (SemanticOf[s[i].program] \in before.semantics)
  BY <1>3 DEF EvaluationFits
<1> HIDE DEF before
<1>5. s[i].canonical <=> s[i].program \in before.programs
  BY <1>4
<1>6. s[i].semantic <=> SemanticOf[s[i].program] \in before.semantics
  BY <1>4
<1> QED BY <1>2, <1>5, <1>6

(* How many of the first k rows are in a set of rows.                        *)
Upto(T, k) == {i \in T : i <= k}
Within(k, T) == IF k \in T THEN 1 ELSE 0

(* One row more is one more of the set, or none.                             *)
LEMMA UptoSteps ==
  ASSUME NEW n \in Nat, NEW T, T \subseteq 1..n
  PROVE  /\ Upto(T, 0) = {} /\ Upto(T, n) = T
         /\ \A k \in 1..n :
              Cardinality(Upto(T, k)) = Cardinality(Upto(T, k - 1)) + Within(k, T)
<1>1. \A i \in T : i \in Nat /\ i >= 1 /\ i <= n
  OBVIOUS
<1>2. Upto(T, 0) = {} /\ Upto(T, n) = T
  <2>1. \A i \in T : ~ (i <= 0)
    BY <1>1
  <2>2. \A i : i \in Upto(T, n) <=> i \in T
    BY <1>1 DEF Upto
  <2> QED BY <2>1, <2>2 DEF Upto
<1>3. ASSUME NEW k \in 1..n
      PROVE  Cardinality(Upto(T, k)) = Cardinality(Upto(T, k - 1)) + Within(k, T)
  <2>1. IsFiniteSet(1..n)
    BY FS_Interval
  <2>2. Upto(T, k) \subseteq 1..n /\ Upto(T, k - 1) \subseteq 1..n
    BY DEF Upto
  <2>3. IsFiniteSet(Upto(T, k)) /\ IsFiniteSet(Upto(T, k - 1))
    BY <2>1, <2>2, FS_Subset
  <2>4. k \notin Upto(T, k - 1)
    BY DEF Upto
  <2>5. \A i : i \in Upto(T, k) <=> i \in Upto(T, k - 1) \/ (i = k /\ k \in T)
    <3>1. \A i \in T : i <= k <=> (i <= k - 1 \/ i = k)
      BY <1>1
    <3>2. \A i, j : i \in Upto(T, j) <=> i \in T /\ i <= j
      BY DEF Upto
    <3>3. k <= k
      OBVIOUS
    <3> QED BY <3>1, <3>2, <3>3, Zenon
  <2>6. Upto(T, k) = IF k \in T THEN Upto(T, k - 1) \cup {k} ELSE Upto(T, k - 1)
    BY <2>5
  <2>7. Cardinality(Upto(T, k - 1)) \in Nat
    BY <2>3, FS_CardinalityType
  <2>8. CASE k \in T
    <3>1. Upto(T, k) = Upto(T, k - 1) \cup {k}
      BY <2>6, <2>8
    <3>2. Cardinality(Upto(T, k)) = Cardinality(Upto(T, k - 1)) + 1
      BY <2>3, <2>4, <3>1, FS_AddElement
    <3>3. Within(k, T) = 1
      BY <2>8 DEF Within
    <3> QED BY <3>2, <3>3
  <2>9. CASE k \notin T
    <3>1. Upto(T, k) = Upto(T, k - 1)
      BY <2>6, <2>9
    <3>2. Within(k, T) = 0
      BY <2>9 DEF Within
    <3>3. Cardinality(Upto(T, k)) = Cardinality(Upto(T, k - 1)) + 0
      BY <2>7, <3>1
    <3> QED BY <3>2, <3>3
  <2> QED BY <2>8, <2>9
<1> QED BY <1>2, <1>3

(* A counter that goes up with each row of a set counts the set.             *)
LEMMA CountersTally ==
  ASSUME NEW n \in Nat, NEW T, T \subseteq 1..n, NEW c, c[0] = 0,
         \A k \in 1..n : c[k] = c[k - 1] + Within(k, T)
  PROVE  c[n] = Cardinality(T)
<1> DEFINE F == {k \in 0..n : c[k] # Cardinality(Upto(T, k))}
<1>1. F = {}
  <2> SUFFICES ASSUME F # {} PROVE FALSE
    OBVIOUS
  <2>1. PICK k \in F : \A y \in F : k <= y
    <3>1. F \subseteq Nat
      OBVIOUS
    <3> HIDE DEF F
    <3> QED BY <3>1, LeastNatural
  <2>2. k # 0
    <3>1. Cardinality(Upto(T, 0)) = 0
      BY UptoSteps, FS_EmptySet
    <3> QED BY <2>1, <3>1
  <2>3. k \in 1..n /\ k - 1 \in 0..n /\ k - 1 \notin F
    BY <2>1, <2>2
  <2>4. c[k - 1] = Cardinality(Upto(T, k - 1))
    BY <2>3
  <2>5. Cardinality(Upto(T, k)) = Cardinality(Upto(T, k - 1)) + Within(k, T)
    <3> HIDE DEF F
    <3>1. \A j \in 1..n : Cardinality(Upto(T, j)) = Cardinality(Upto(T, j - 1)) + Within(j, T)
      BY UptoSteps
    <3> QED BY <2>3, <3>1
  <2>6. c[k] = c[k - 1] + Within(k, T)
    BY <2>3
  <2> QED BY <2>1, <2>4, <2>5, <2>6
<1>2. c[n] = Cardinality(Upto(T, n))
  BY <1>1
<1> QED BY <1>2, UptoSteps

(* What one row adds to the counters.                                        *)
LEMMA RowCounts ==
  ASSUME NEW b \in Budgets, NEW row, NEW i, NEW mechanism, RowFits(row, i, mechanism, b)
  PROVE  /\ row.budget.evaluated = b.evaluated + (IF row.candidate # None THEN 1 ELSE 0)
         /\ row.budget.invalid = b.invalid + (IF row.outcome = "invalid" THEN 1 ELSE 0)
         /\ row.budget.noop = b.noop + (IF row.outcome = "no-op" THEN 1 ELSE 0)
         /\ row.budget.canonicalDuplicates = b.canonicalDuplicates + (IF row.canonical THEN 1 ELSE 0)
         /\ row.budget.distinct =
              b.distinct + (IF row.candidate # None /\ ~ row.semantic THEN 1 ELSE 0)
         /\ row.budget.distinct + row.budget.semanticDuplicates - row.budget.evaluated =
              b.distinct + b.semanticDuplicates - b.evaluated
<1>1. /\ b.attempts \in Nat /\ b.operators \in Nat /\ b.invalid \in Nat /\ b.noop \in Nat
      /\ b.evaluated \in Nat /\ b.canonicalDuplicates \in Nat
      /\ b.semanticDuplicates \in Nat /\ b.distinct \in Nat
      /\ b = [attempts |-> b.attempts, operators |-> b.operators, invalid |-> b.invalid,
              noop |-> b.noop, evaluated |-> b.evaluated,
              canonicalDuplicates |-> b.canonicalDuplicates,
              semanticDuplicates |-> b.semanticDuplicates, distinct |-> b.distinct,
              archive |-> b.archive]
  BY DEF Budgets
<1>2. CASE FailureFits(row, b)
  <2>1. /\ row.candidate = None /\ row.canonical = FALSE
        /\ row.budget = BudgetAfterFailure(b, row.outcome)
    BY <1>2 DEF FailureFits
  <2>2. PICK c, x, y : /\ c = row.budget /\ x = Count(row.outcome = "invalid")
                       /\ y = Count(row.outcome = "no-op")
    OBVIOUS
  <2>3. c = [b EXCEPT !.attempts = @ + 1, !.operators = @ + 1, !.invalid = @ + x, !.noop = @ + y]
    BY <2>1, <2>2 DEF BudgetAfterFailure
  <2>4. /\ c.evaluated = b.evaluated /\ c.invalid = b.invalid + x /\ c.noop = b.noop + y
        /\ c.canonicalDuplicates = b.canonicalDuplicates
        /\ c.semanticDuplicates = b.semanticDuplicates /\ c.distinct = b.distinct
    BY <1>1, <2>3
  <2>5. /\ x = IF row.outcome = "invalid" THEN 1 ELSE 0
        /\ y = IF row.outcome = "no-op" THEN 1 ELSE 0
    BY <2>2 DEF Count
  <2> QED BY <1>1, <2>1, <2>2, <2>4, <2>5
<1>3. CASE EvaluationFits(row, mechanism, b)
  <2>1. /\ row.candidate # None /\ row.outcome = "emitted"
        /\ row.budget = BudgetAfterEvaluation(b, row.lineage.operator # "initialization",
                                        row.canonical, row.semantic, row.decision.outcome)
    BY <1>3 DEF EvaluationFits
  <2>2. PICK c, o, x, y, z, out :
          /\ c = row.budget /\ o = Count(row.lineage.operator # "initialization")
          /\ x = Count(row.canonical) /\ y = Count(row.semantic) /\ z = Count(~ row.semantic)
          /\ out = row.decision.outcome
    OBVIOUS
  <2>3. c = [b EXCEPT !.attempts = @ + 1, !.operators = @ + o, !.evaluated = @ + 1,
                      !.canonicalDuplicates = @ + x, !.semanticDuplicates = @ + y,
                      !.distinct = @ + z, !.archive[out] = @ + 1]
    BY <2>1, <2>2 DEF BudgetAfterEvaluation
  <2>4. /\ c.evaluated = b.evaluated + 1 /\ c.invalid = b.invalid /\ c.noop = b.noop
        /\ c.canonicalDuplicates = b.canonicalDuplicates + x
        /\ c.semanticDuplicates = b.semanticDuplicates + y /\ c.distinct = b.distinct + z
    BY <1>1, <2>3
  <2>5. /\ x = IF row.canonical THEN 1 ELSE 0
        /\ y = IF row.semantic THEN 1 ELSE 0
        /\ z = IF row.semantic THEN 0 ELSE 1
    BY <2>2 DEF Count
  <2>6. row.outcome # "invalid" /\ row.outcome # "no-op"
    BY <2>1
  <2>7. /\ c.distinct = b.distinct + (IF row.candidate # None /\ ~ row.semantic THEN 1 ELSE 0)
        /\ c.distinct + c.semanticDuplicates - c.evaluated =
             b.distinct + b.semanticDuplicates - b.evaluated
    <3>1. CASE row.semantic
      BY <1>1, <2>4, <2>5, <3>1
    <3>2. CASE ~ row.semantic
      BY <1>1, <2>1, <2>4, <2>5, <3>2
    <3> QED BY <3>1, <3>2
  <2> QED BY <1>1, <2>1, <2>2, <2>4, <2>5, <2>6, <2>7
<1> QED BY <1>2, <1>3 DEF RowFits

(* The counters after all of the rows.                                       *)
LEMMA RowsTally ==
  ASSUME NEW s, NEW n \in Nat, n = Len(s), RowsFit(s),
         \A k \in 0..n : BudgetAt(s, k) \in Budgets
  PROVE  /\ BudgetAt(s, n).evaluated = Cardinality({i \in 1..n : s[i].candidate # None})
         /\ BudgetAt(s, n).invalid = Cardinality({i \in 1..n : s[i].outcome = "invalid"})
         /\ BudgetAt(s, n).noop = Cardinality({i \in 1..n : s[i].outcome = "no-op"})
         /\ BudgetAt(s, n).canonicalDuplicates = Cardinality({i \in 1..n : s[i].canonical})
<1>1. /\ BudgetAt(s, 0).evaluated = 0 /\ BudgetAt(s, 0).invalid = 0
      /\ BudgetAt(s, 0).noop = 0 /\ BudgetAt(s, 0).canonicalDuplicates = 0
  BY DEF BudgetAt, EmptyBudget
<1>2. ASSUME NEW k \in 1..n
      PROVE  LET b == BudgetAt(s, k - 1)  c == BudgetAt(s, k) IN
             /\ c.evaluated = b.evaluated + (IF s[k].candidate # None THEN 1 ELSE 0)
             /\ c.invalid = b.invalid + (IF s[k].outcome = "invalid" THEN 1 ELSE 0)
             /\ c.noop = b.noop + (IF s[k].outcome = "no-op" THEN 1 ELSE 0)
             /\ c.canonicalDuplicates =
                  b.canonicalDuplicates + (IF s[k].canonical THEN 1 ELSE 0)
  <2>1. k - 1 \in 0..n /\ k # 0
    OBVIOUS
  <2>2. RowFits(s[k], k, Run(s)[k - 1].mechanism, BudgetAt(s, k - 1))
    BY DEF RowsFit
  <2>3. BudgetAt(s, k) = s[k].budget
    BY <2>1 DEF BudgetAt
  <2>4. BudgetAt(s, k - 1) \in Budgets
    BY <2>1
  <2> QED BY <2>2, <2>3, <2>4, RowCounts
<1>3. BudgetAt(s, n).evaluated = Cardinality({i \in 1..n : s[i].candidate # None})
  <2> DEFINE T == {i \in 1..n : s[i].candidate # None}
             c == [k \in 0..n |-> BudgetAt(s, k).evaluated]
  <2>1. c[0] = 0 /\ c[n] = BudgetAt(s, n).evaluated
    BY <1>1
  <2>2. \A k \in 1..n : c[k] = c[k - 1] + Within(k, T)
    BY <1>2 DEF Within
  <2>3. T \subseteq 1..n
    OBVIOUS
  <2> HIDE DEF c, T
  <2>4. c[n] = Cardinality(T)
    BY <2>1, <2>2, <2>3, CountersTally
  <2> QED BY <2>1, <2>4 DEF T
<1>4. BudgetAt(s, n).invalid = Cardinality({i \in 1..n : s[i].outcome = "invalid"})
  <2> DEFINE T == {i \in 1..n : s[i].outcome = "invalid"}
             c == [k \in 0..n |-> BudgetAt(s, k).invalid]
  <2>1. c[0] = 0 /\ c[n] = BudgetAt(s, n).invalid
    BY <1>1
  <2>2. \A k \in 1..n : c[k] = c[k - 1] + Within(k, T)
    BY <1>2 DEF Within
  <2>3. T \subseteq 1..n
    OBVIOUS
  <2> HIDE DEF c, T
  <2>4. c[n] = Cardinality(T)
    BY <2>1, <2>2, <2>3, CountersTally
  <2> QED BY <2>1, <2>4 DEF T
<1>5. BudgetAt(s, n).noop = Cardinality({i \in 1..n : s[i].outcome = "no-op"})
  <2> DEFINE T == {i \in 1..n : s[i].outcome = "no-op"}
             c == [k \in 0..n |-> BudgetAt(s, k).noop]
  <2>1. c[0] = 0 /\ c[n] = BudgetAt(s, n).noop
    BY <1>1
  <2>2. \A k \in 1..n : c[k] = c[k - 1] + Within(k, T)
    BY <1>2 DEF Within
  <2>3. T \subseteq 1..n
    OBVIOUS
  <2> HIDE DEF c, T
  <2>4. c[n] = Cardinality(T)
    BY <2>1, <2>2, <2>3, CountersTally
  <2> QED BY <2>1, <2>4 DEF T
<1>6. BudgetAt(s, n).canonicalDuplicates = Cardinality({i \in 1..n : s[i].canonical})
  <2> DEFINE T == {i \in 1..n : s[i].canonical}
             c == [k \in 0..n |-> BudgetAt(s, k).canonicalDuplicates]
  <2>1. c[0] = 0 /\ c[n] = BudgetAt(s, n).canonicalDuplicates
    BY <1>1
  <2>2. \A k \in 1..n : c[k] = c[k - 1] + Within(k, T)
    BY <1>2 DEF Within
  <2>3. T \subseteq 1..n
    OBVIOUS
  <2> HIDE DEF c, T
  <2>4. c[n] = Cardinality(T)
    BY <2>1, <2>2, <2>3, CountersTally
  <2> QED BY <2>1, <2>4 DEF T
<1> QED BY <1>3, <1>4, <1>5, <1>6

(* Every meaning is counted once, and every other evaluation as a duplicate. *)
LEMMA RowsDistinct ==
  ASSUME NEW s, NEW n \in Nat, n = Len(s), RowsFit(s),
         \A k \in 0..n : BudgetAt(s, k) \in Budgets
  PROVE  /\ BudgetAt(s, n).distinct = Cardinality(Run(s)[n].mechanism.semantics)
         /\ BudgetAt(s, n).distinct + BudgetAt(s, n).semanticDuplicates = BudgetAt(s, n).evaluated
<1> DEFINE M(k) == Run(s)[k].mechanism.semantics
           Q(k) == /\ IsFiniteSet(M(k)) /\ BudgetAt(s, k).distinct = Cardinality(M(k))
                   /\ BudgetAt(s, k).distinct + BudgetAt(s, k).semanticDuplicates
                        - BudgetAt(s, k).evaluated = 0
           F == {k \in 0..n : ~ Q(k)}
<1>1. F = {}
  <2> SUFFICES ASSUME F # {} PROVE FALSE
    OBVIOUS
  <2>1. PICK k \in 0..n : ~ Q(k) /\ \A y \in 0..n : ~ Q(y) => k <= y
    <3> HIDE DEF Q
    <3>1. F \subseteq Nat
      OBVIOUS
    <3>2. PICK k \in F : \A y \in F : k <= y
      <4> HIDE DEF F
      <4> QED BY <3>1, LeastNatural
    <3> QED BY <3>2
  <2>2. k # 0
    <3>1. M(0) = {}
      BY RunIsRestored DEF NothingRestored, EmptyMechanism
    <3>2. IsFiniteSet({}) /\ Cardinality({}) = 0
      BY FS_EmptySet
    <3>3. /\ BudgetAt(s, 0).distinct = 0 /\ BudgetAt(s, 0).semanticDuplicates = 0
          /\ BudgetAt(s, 0).evaluated = 0
      BY DEF BudgetAt, EmptyBudget
    <3>4. Q(0)
      <4>1. BudgetAt(s, 0).distinct + BudgetAt(s, 0).semanticDuplicates
              - BudgetAt(s, 0).evaluated = 0
        BY <3>3
      <4>2. IsFiniteSet(M(0)) /\ BudgetAt(s, 0).distinct = Cardinality(M(0))
        BY <3>1, <3>2, <3>3
      <4> HIDE DEF M
      <4> QED BY <4>1, <4>2
    <3> HIDE DEF Q
    <3> QED BY <2>1, <3>4
  <2>3. k \in 1..n /\ k - 1 \in 0..n /\ ~ (k <= k - 1)
    BY <2>2
  <2>4. Q(k - 1)
    <3> HIDE DEF Q
    <3> QED BY <2>1, <2>3
  <2>5. RowFits(s[k], k, Run(s)[k - 1].mechanism, BudgetAt(s, k - 1))
    BY <2>3 DEF RowsFit
  <2>6. BudgetAt(s, k) = s[k].budget /\ BudgetAt(s, k - 1) \in Budgets
    BY <2>2, <2>3 DEF BudgetAt
  <2>7. /\ BudgetAt(s, k).distinct =
             BudgetAt(s, k - 1).distinct + (IF s[k].candidate # None /\ ~ s[k].semantic THEN 1 ELSE 0)
        /\ BudgetAt(s, k).distinct + BudgetAt(s, k).semanticDuplicates - BudgetAt(s, k).evaluated =
             BudgetAt(s, k - 1).distinct + BudgetAt(s, k - 1).semanticDuplicates
               - BudgetAt(s, k - 1).evaluated
    BY <2>5, <2>6, RowCounts
  <2>8. Run(s)[k] = Reinserted(Run(s)[k - 1], s[k])
    BY <2>3, RunIsRestored
  <2>9. IsFiniteSet(M(k)) /\ BudgetAt(s, k).distinct = Cardinality(M(k))
    <3>1. CASE s[k].candidate = None
      <4>1. M(k) = M(k - 1)
        BY <2>8, <3>1 DEF Reinserted
      <4>2. BudgetAt(s, k).distinct = BudgetAt(s, k - 1).distinct + 0
        BY <2>7, <3>1
      <4>3. BudgetAt(s, k - 1).distinct \in Nat
        BY <2>6 DEF Budgets
      <4> HIDE DEF M
      <4> QED BY <2>4, <4>1, <4>2, <4>3
    <3>2. CASE s[k].candidate # None
      <4>1. M(k) = M(k - 1) \cup {SemanticOf[s[k].program]}
        <5>1. Run(s)[k].mechanism = Evaluate(Run(s)[k - 1].mechanism, MemberOf(s[k])).mechanism
          BY <2>8, <3>2 DEF Reinserted
        <5>2. MemberOf(s[k]).program = s[k].program
          BY DEF MemberOf
        <5> QED BY <5>1, <5>2, EvaluateKeeps
      <4>2. s[k].semantic = (SemanticOf[s[k].program] \in M(k - 1))
        BY <2>5, <3>2 DEF RowFits, FailureFits, EvaluationFits
      <4>3. s[k].semantic <=> SemanticOf[s[k].program] \in M(k - 1)
        BY <4>2
      <4>4. IsFiniteSet(M(k - 1)) /\ BudgetAt(s, k - 1).distinct = Cardinality(M(k - 1))
        BY <2>4
      <4>5. BudgetAt(s, k - 1).distinct \in Nat
        BY <2>6 DEF Budgets
      <4> HIDE DEF M
      <4>6. CASE s[k].semantic
        <5>1. M(k) = M(k - 1)
          BY <4>1, <4>3, <4>6
        <5>2. BudgetAt(s, k).distinct = BudgetAt(s, k - 1).distinct + 0
          BY <2>7, <4>6
        <5> QED BY <4>4, <4>5, <5>1, <5>2
      <4>7. CASE ~ s[k].semantic
        <5>1. SemanticOf[s[k].program] \notin M(k - 1)
          BY <4>3, <4>7
        <5>2. IsFiniteSet(M(k)) /\ Cardinality(M(k)) = Cardinality(M(k - 1)) + 1
          BY <4>1, <4>4, <5>1, FS_AddElement
        <5>3. BudgetAt(s, k).distinct = BudgetAt(s, k - 1).distinct + 1
          BY <2>7, <3>2, <4>7
        <5> QED BY <4>4, <5>2, <5>3
      <4> QED BY <4>6, <4>7
    <3> QED BY <3>1, <3>2
  <2> HIDE DEF M
  <2>10. Q(k)
    BY <2>4, <2>7, <2>9
  <2> HIDE DEF Q
  <2> QED BY <2>1, <2>10
<1>2. Q(n)
  <2> HIDE DEF Q
  <2> QED BY <1>1
<1>3. /\ BudgetAt(s, n).distinct \in Nat /\ BudgetAt(s, n).semanticDuplicates \in Nat
      /\ BudgetAt(s, n).evaluated \in Nat
  BY DEF Budgets
<1> QED BY <1>2, <1>3

-----------------------------------------------------------------------------
(* The replay. *)

(* f[k] is what the replay holds after the first k rows.                     *)
ReplayedUpTo(f, n) ==
  f = [k \in 0..n |->
         IF k = 0 THEN [mechanism |-> EmptyMechanism, budget |-> EmptyBudget, agrees |-> TRUE]
                  ELSE Replayed(k, f[k - 1])]

(* One row is replayed after the other.                                      *)
LEMMA ReplayedStep ==
  ASSUME NEW f, NEW n \in Nat, ReplayedUpTo(f, n)
  PROVE  /\ f[0].mechanism = EmptyMechanism /\ f[0].budget = EmptyBudget /\ f[0].agrees
         /\ \A k \in 1..n : f[k] = Replayed(k, f[k - 1])
<1>1. PICK start : start = [mechanism |-> EmptyMechanism, budget |-> EmptyBudget, agrees |-> TRUE]
  OBVIOUS
<1>2. f = [k \in 0..n |-> IF k = 0 THEN start ELSE Replayed(k, f[k - 1])]
  BY <1>1 DEF ReplayedUpTo
<1>3. 0 \in 0..n /\ \A k \in 1..n : k \in 0..n /\ k # 0
  OBVIOUS
<1>4. f[0] = start
  BY <1>2, <1>3
<1>5. \A k \in 1..n : f[k] = Replayed(k, f[k - 1])
  BY <1>2, <1>3
<1> QED BY <1>1, <1>4, <1>5

(* The rows can be replayed.                                                 *)
LEMMA ReplayedExists ==
  ASSUME NEW n \in Nat
  PROVE  \E f : ReplayedUpTo(f, n)
<1>1. PICK start : start = [mechanism |-> EmptyMechanism, budget |-> EmptyBudget, agrees |-> TRUE]
  OBVIOUS
<1> DEFINE Good(f, m) == f = [k \in 0..m |-> IF k = 0 THEN start ELSE Replayed(k, f[k - 1])]
           T == {k \in Nat : ~ \E f : Good(f, k)}
<1>2. \A f, m : Good(f, m) <=> ReplayedUpTo(f, m)
  BY <1>1 DEF ReplayedUpTo
<1> SUFFICES ASSUME T # {} PROVE FALSE
  BY <1>2
<1>3. PICK m \in T : \A y \in T : m <= y
  <2>1. T \subseteq Nat
    OBVIOUS
  <2> HIDE DEF T
  <2> QED BY <2>1, LeastNatural
<1>4. m # 0
  <2>1. Good([k \in 0..0 |-> start], 0)
    OBVIOUS
  <2> HIDE DEF Good
  <2> QED BY <1>3, <2>1
<1>5. m \in Nat /\ m - 1 \in Nat /\ m - 1 \notin T
  <2>1. m \in Nat
    BY <1>3
  <2>2. m - 1 \in Nat /\ ~ (m <= m - 1)
    BY <1>4, <2>1
  <2> HIDE DEF T
  <2> QED BY <1>3, <2>1, <2>2
<1>6. PICK f : Good(f, m - 1)
  <2> HIDE DEF Good
  <2> QED BY <1>5
<1> DEFINE g == [k \in 0..m |-> IF k = m THEN Replayed(m, f[m - 1]) ELSE f[k]]
<1>7. f[0] = start /\ \A k \in 1..(m - 1) : f[k] = Replayed(k, f[k - 1])
  <2>1. 0 \in 0..(m - 1) /\ \A k \in 1..(m - 1) : k \in 0..(m - 1) /\ k # 0
    BY <1>5
  <2> QED BY <1>6, <2>1
<1>8. ASSUME NEW k \in 0..m
      PROVE  g[k] = IF k = 0 THEN start ELSE Replayed(k, g[k - 1])
  <2>1. CASE k = 0
    BY <2>1, <1>4, <1>5, <1>7
  <2>2. CASE k = m
    <3>1. m - 1 \in 0..m /\ m - 1 # m /\ m \in 0..m
      BY <1>5
    <3>2. g[m] = Replayed(m, f[m - 1]) /\ g[m - 1] = f[m - 1]
      BY <3>1
    <3> QED BY <2>2, <3>2, <1>4
  <2>3. CASE k # 0 /\ k # m
    <3>1. k \in 1..(m - 1) /\ k - 1 \in 0..m /\ k - 1 # m
      BY <2>3, <1>5
    <3>2. g[k] = f[k] /\ g[k - 1] = f[k - 1]
      BY <2>3, <3>1
    <3> QED BY <2>3, <3>1, <3>2, <1>7
  <2> QED BY <2>1, <2>2, <2>3
<1>9. Good(g, m)
  <2>1. g = [k \in 0..m |-> g[k]]
    OBVIOUS
  <2> HIDE DEF g
  <2> QED BY <2>1, <1>8
<1> HIDE DEF Good
<1> QED BY <1>3, <1>9

(* A row that fits, beside its proposal, replays as it was made.             *)
LEMMA RowReplays ==
  ASSUME Phase3Constants, NEW n, NEW before, NEW row, NEW done,
         row = db.attempts[n], before.agrees,
         files.proposals[row.index] = Whole(ArtifactOf(row)),
         done.mechanism = before.mechanism,
         RowFits(row, n, before.mechanism, before.budget)
  PROVE  /\ Replayed(n, before).mechanism = Reinserted(done, row).mechanism
         /\ Replayed(n, before).budget = row.budget
         /\ Replayed(n, before).agrees
<1>1. PICK proposal : proposal = ArtifactOf(row)
  OBVIOUS
<1>2. /\ files.proposals[row.index].content = proposal
      /\ IsWhole(files.proposals[row.index])
  BY <1>1, FilesDiffer
<1>3. proposal.lineage = row.lineage /\ proposal.outcome = row.outcome /\ proposal.program = row.program
  BY <1>1 DEF ArtifactOf
<1>4. CASE FailureFits(row, before.budget)
  <2>1. PICK failed : failed = [before.budget EXCEPT !.attempts = @ + 1, !.operators = @ + 1,
                   !.invalid = @ + Count(proposal.outcome = "invalid"),
                   !.noop = @ + Count(proposal.outcome = "no-op")]
    OBVIOUS
  <2>2. row.budget = failed /\ row.candidate = None /\ proposal.program = None
    BY <1>3, <1>4, <2>1 DEF FailureFits, BudgetAfterFailure
  <2>3. Replayed(n, before) = [mechanism |-> before.mechanism, budget |-> failed,
                               agrees |-> before.agrees /\ row.budget = failed]
    BY <1>1, <1>2, <2>1, <2>2 DEF Replayed
  <2>4. Reinserted(done, row).mechanism = before.mechanism
    BY <2>2 DEF Reinserted
  <2>5. PICK ok : ok = (before.agrees /\ row.budget = failed)
    OBVIOUS
  <2>6. Replayed(n, before).mechanism = before.mechanism /\ Replayed(n, before).budget = failed
    BY <2>3
  <2>7. Replayed(n, before).agrees
    <3>1. Replayed(n, before) = [mechanism |-> before.mechanism, budget |-> failed, agrees |-> ok]
      BY <2>3, <2>5
    <3>2. ok
      BY <2>2, <2>5
    <3> QED BY <3>1, <3>2
  <2> QED BY <2>2, <2>4, <2>6, <2>7
<1>5. CASE EvaluationFits(row, before.mechanism, before.budget)
  <2>1. row.program \in Programs /\ row.candidate # None
    BY <1>5 DEF EvaluationFits
  <2>2. proposal.program # None
    BY <1>3, <2>1 DEF Phase3Constants
  <2>3. PICK member, canonical, semantic, step, budget :
          /\ member = [id |-> row.candidate, program |-> proposal.program,
                       lineage |-> proposal.lineage]
          /\ canonical = (proposal.program \in before.mechanism.programs)
          /\ semantic = (SemanticOf[proposal.program] \in before.mechanism.semantics)
          /\ step = Evaluate(before.mechanism, member)
          /\ budget = BudgetAfterEvaluation(before.budget,
                  proposal.lineage.operator # "initialization", canonical, semantic,
                  step.decision.outcome)
    OBVIOUS
  <2>4. member = MemberOf(row)
    BY <1>3, <2>3 DEF MemberOf
  <2>5. /\ row.canonical = canonical /\ row.semantic = semantic
        /\ row.decision = step.decision
    BY <1>3, <1>5, <2>3, <2>4 DEF EvaluationFits
  <2>6. row.budget = budget
    BY <1>3, <1>5, <2>3, <2>5 DEF EvaluationFits
  <2>7. Replayed(n, before) =
          [mechanism |-> step.mechanism, budget |-> budget,
           agrees |-> /\ before.agrees /\ row.budget = budget
                      /\ row.canonical = canonical /\ row.semantic = semantic
                      /\ row.decision = step.decision]
    BY <1>1, <1>2, <2>2, <2>3 DEF Replayed
  <2>8. Reinserted(done, row).mechanism = step.mechanism
    BY <2>1, <2>3, <2>4 DEF Reinserted
  <2>9. Replayed(n, before).agrees <=>
          /\ before.agrees /\ row.budget = budget
          /\ row.canonical = canonical /\ row.semantic = semantic
          /\ row.decision = step.decision
    BY <2>7
  <2> QED BY <2>5, <2>6, <2>7, <2>8, <2>9
<1> QED BY <1>4, <1>5 DEF RowFits

(* The rows of a completed run replay to its results.                        *)
LEMMA RowsReplay ==
  ASSUME Phase3Constants, DatabaseOK, RowsStored,
         NEW f, ReplayedUpTo(f, db.next)
  PROVE  /\ f[db.next].agrees /\ f[db.next].budget = db.budget
         /\ f[db.next].mechanism = Restored(db.attempts).mechanism
<1>1. PICK s, n : s = db.attempts /\ n = db.next
  OBVIOUS
<1>2. n \in Nat /\ n = Len(s) /\ db.budget = BudgetAt(s, n) /\ Restored(s) = Run(s)[n]
  BY <1>1, RowsFacts
<1>3. /\ f[0].mechanism = EmptyMechanism /\ f[0].budget = EmptyBudget /\ f[0].agrees
      /\ \A k \in 1..n : f[k] = Replayed(k, f[k - 1])
  BY <1>1, <1>2, ReplayedStep
<1> DEFINE Q(k) == /\ f[k].agrees /\ f[k].budget = BudgetAt(s, k)
                   /\ f[k].mechanism = Run(s)[k].mechanism
           F == {k \in 0..n : ~ Q(k)}
<1>4. F = {}
  <2> SUFFICES ASSUME F # {} PROVE FALSE
    OBVIOUS
  <2>1. PICK k \in 0..n : ~ Q(k) /\ \A y \in 0..n : ~ Q(y) => k <= y
    <3> HIDE DEF Q
    <3>1. F \subseteq Nat
      OBVIOUS
    <3>2. PICK k \in F : \A y \in F : k <= y
      <4> HIDE DEF F
      <4> QED BY <3>1, LeastNatural
    <3> QED BY <3>2
  <2>2. k # 0
    <3>1. Run(s)[0] = NothingRestored
      BY <1>2, RunIsRestored
    <3>2. Q(0)
      BY <1>3, <3>1 DEF NothingRestored, BudgetAt
    <3> HIDE DEF Q
    <3> QED BY <2>1, <3>2
  <2>3. k \in 1..n /\ k - 1 \in 0..n /\ ~ (k <= k - 1)
    BY <1>2, <2>2
  <2>4. Q(k - 1)
    <3> HIDE DEF Q
    <3> QED BY <2>1, <2>3
  <2>5. RowFits(s[k], k, Run(s)[k - 1].mechanism, BudgetAt(s, k - 1))
    BY <1>1, <1>2, <2>3 DEF RowsStored, RowsFit
  <2>6. Run(s)[k] = Reinserted(Run(s)[k - 1], s[k])
    BY <1>2, <2>3, RunIsRestored
  <2>7. files.proposals[s[k].index] = Whole(ArtifactOf(s[k]))
    BY <1>1, <2>3, <2>5 DEF RowsStored, RowFits
  <2>8. f[k] = Replayed(k, f[k - 1])
    BY <1>3, <2>3
  <2>9. BudgetAt(s, k) = s[k].budget
    BY <2>2 DEF BudgetAt
  <2>10. PICK before, row, done : before = f[k - 1] /\ row = s[k] /\ done = Run(s)[k - 1]
    OBVIOUS
  <2>11. /\ row = db.attempts[k] /\ before.agrees /\ done.mechanism = before.mechanism
         /\ files.proposals[row.index] = Whole(ArtifactOf(row))
         /\ RowFits(row, k, before.mechanism, before.budget)
    BY <1>1, <2>4, <2>5, <2>7, <2>10
  <2>12. /\ f[k].mechanism = Reinserted(done, row).mechanism
         /\ f[k].budget = row.budget /\ f[k].agrees
    BY <2>8, <2>10, <2>11, RowReplays
  <2>13. Q(k)
    BY <2>6, <2>9, <2>10, <2>12
  <2> HIDE DEF Q
  <2> QED BY <2>1, <2>13
<1>5. Q(n)
  <2> HIDE DEF Q
  <2> QED BY <1>2, <1>4
<1> QED BY <1>1, <1>2, <1>5

-----------------------------------------------------------------------------
(* The theorems. *)

(* The database holds one row for each attempt, in order, and no process     *)
(* keeps a budget beyond the caps or a program that does not exist.          *)
THEOREM Phase3TypeCorrect ==
  ASSUME Phase3Constants
  PROVE  Spec => []Phase3TypeOK
<1>1. Phase3Inv => Phase3TypeOK
  <2> SUFFICES ASSUME Phase3Inv PROVE Phase3TypeOK
    OBVIOUS
  <2>1. DatabaseOK /\ RowsStored /\ \A p \in Procs : ProcessOK(proc[p])
    BY DEF Phase3Inv
  <2>2. db.next \in Nat /\ db.next = Len(db.attempts) /\ DOMAIN db.attempts = 1..db.next
    BY <2>1, RowsFacts
  <2>3. ValidBudget(db.budget) /\ db.budget.attempts = db.next /\ db.budget \in Budgets
    BY <2>1, RowsFacts
  <2>4. db.next \in 0..AttemptCap
    BY <2>2, <2>3 DEF ValidBudget, Phase3Constants
  <2>5. \A i \in DOMAIN db.attempts : db.attempts[i].index = i - 1
    BY <2>1, <2>2 DEF RowsStored, RowsFit, RowFits
  <2>6. db.status \in {None, "running", "interrupted", "completed"}
    BY <2>1 DEF DatabaseOK
  <2>7. \A p \in Procs : /\ Condition = "diverse" => proc[p].mechanism.held = None
                         /\ proc[p].mechanism.programs \subseteq Programs
                         /\ ValidBudget(proc[p].budget)
    BY <2>1 DEF ProcessOK
  <2> QED BY <2>2, <2>3, <2>4, <2>5, <2>6, <2>7 DEF Phase3TypeOK
<1> QED BY <1>1, Phase3InvHolds, PTL

(* A resume rebuilds the mechanism that its rows record, and whoever makes   *)
(* the next attempt or writes the end of the run holds that mechanism        *)
(* (restore_mechanism).                                                      *)
THEOREM ResumesRestore ==
  ASSUME Phase3Constants
  PROVE  Spec => []MemoryAgreesWithRows
<1>1. Phase3Inv => MemoryAgreesWithRows
  <2> SUFFICES ASSUME Phase3Inv PROVE MemoryAgreesWithRows
    OBVIOUS
  <2>1. DatabaseOK /\ RowsStored /\ \A p \in Procs : Knows(proc[p])
    BY DEF Phase3Inv
  <2>2. Restored(db.attempts).agrees /\ db.budget = BudgetAt(db.attempts, db.next)
    BY <2>1, RowsFacts
  <2>3. ASSUME NEW p \in Procs, proc[p].pc \in Following, proc[p].budget.attempts = db.next
        PROVE  /\ proc[p].mechanism = Restored(db.attempts).mechanism
               /\ proc[p].budget = db.budget
    BY <2>1, <2>2, <2>3 DEF Knows
  <2> QED BY <2>2, <2>3 DEF MemoryAgreesWithRows, Index, Following, Ending
<1> QED BY <1>1, Phase3InvHolds, PTL

(* Duplicates are flagged for what they repeat, whichever process evaluated  *)
(* it (canonical_seen and semantic_seen).                                    *)
THEOREM DuplicatesAreTrue ==
  ASSUME Phase3Constants
  PROVE  Spec => []DuplicatesAreFlagged
<1>1. Phase3Inv => DuplicatesAreFlagged
  <2> SUFFICES ASSUME Phase3Inv PROVE DuplicatesAreFlagged
    OBVIOUS
  <2>1. DatabaseOK /\ RowsStored
    BY DEF Phase3Inv
  <2>2. PICK s : s = db.attempts
    OBVIOUS
  <2>3. Len(s) \in Nat /\ DOMAIN s = 1..Len(s) /\ RowsFit(s)
    BY <2>1, <2>2, RowsFacts DEF RowsStored
  <2>4. ASSUME NEW i \in 1..Len(s), s[i].candidate # None
        PROVE  /\ s[i].canonical <=> \E j \in {j \in 1..i - 1 : s[j].candidate # None} :
                                       s[j].program = s[i].program
               /\ s[i].semantic <=> \E j \in {j \in 1..i - 1 : s[j].candidate # None} :
                                      SemanticOf[s[j].program] = SemanticOf[s[i].program]
    BY <2>3, <2>4, RowsAreFlagged
  <2> QED BY <2>2, <2>3, <2>4 DEF DuplicatesAreFlagged
<1> QED BY <1>1, Phase3InvHolds, PTL

(* The charged budget is what the rows add up to (BudgetState), however      *)
(* often the run was killed and resumed.                                     *)
THEOREM BudgetAddsUp ==
  ASSUME Phase3Constants
  PROVE  Spec => []BudgetMatchesRows
<1>1. Phase3Inv => BudgetMatchesRows
  <2> SUFFICES ASSUME Phase3Inv PROVE BudgetMatchesRows
    OBVIOUS
  <2>1. DatabaseOK /\ RowsStored
    BY DEF Phase3Inv
  <2>2. PICK s, n : s = db.attempts /\ n = db.next
    OBVIOUS
  <2>3. /\ n \in Nat /\ n = Len(s) /\ DOMAIN s = 1..n /\ RowsFit(s)
        /\ \A k \in 0..n : BudgetAt(s, k) \in Budgets
        /\ db.budget = BudgetAt(s, n) /\ db.budget.attempts = n
    BY <2>1, <2>2, RowsFacts DEF RowsStored
  <2>4. /\ db.budget.evaluated = Cardinality({i \in DOMAIN s : s[i].candidate # None})
        /\ db.budget.invalid = Cardinality({i \in DOMAIN s : s[i].outcome = "invalid"})
        /\ db.budget.noop = Cardinality({i \in DOMAIN s : s[i].outcome = "no-op"})
        /\ db.budget.canonicalDuplicates = Cardinality({i \in DOMAIN s : s[i].canonical})
    <3>1. /\ BudgetAt(s, n).evaluated = Cardinality({i \in 1..n : s[i].candidate # None})
          /\ BudgetAt(s, n).invalid = Cardinality({i \in 1..n : s[i].outcome = "invalid"})
          /\ BudgetAt(s, n).noop = Cardinality({i \in 1..n : s[i].outcome = "no-op"})
          /\ BudgetAt(s, n).canonicalDuplicates = Cardinality({i \in 1..n : s[i].canonical})
      BY <2>3, RowsTally
    <3> QED BY <2>3, <3>1
  <2>5. /\ db.budget.distinct = Cardinality(Run(s)[n].mechanism.semantics)
        /\ db.budget.distinct + db.budget.semanticDuplicates = db.budget.evaluated
    BY <2>3, RowsDistinct
  <2>6. Run(s)[n].mechanism.semantics =
          {SemanticOf[s[i].program] : i \in {i \in DOMAIN s : s[i].candidate # None}}
    <3>1. n \in 0..Len(s)
      BY <2>3
    <3>2. \A x : x \in Run(s)[n].mechanism.semantics <=>
                   \E i \in 1..n : s[i].candidate # None /\ SemanticOf[s[i].program] = x
      BY <2>3, <3>1, RestoredSeen
    <3> QED BY <2>3, <3>2
  <2> QED BY <2>2, <2>3, <2>4, <2>5, <2>6 DEF BudgetMatchesRows
<1> QED BY <1>1, Phase3InvHolds, PTL

(* Whoever wrote the results wrote what the rows say, and a completed run    *)
(* has all its files (phase3_results).                                       *)
THEOREM ResultsAreTrue ==
  ASSUME Phase3Constants
  PROVE  Spec => []ResultsMatchRows
<1>1. Phase3Inv => ResultsMatchRows
  <2> SUFFICES ASSUME Phase3Inv PROVE ResultsMatchRows
    OBVIOUS
  <2>1. EndStored
    BY DEF Phase3Inv
  <2>2. IsWhole(files.results) => files.results.content = Content
    BY <2>1, FilesDiffer DEF EndStored
  <2> QED BY <2>1, <2>2 DEF EndStored, ResultsMatchRows, Content
<1> QED BY <1>1, Phase3InvHolds, PTL

(* A completed run passes its replay, whatever its processes went through    *)
(* (replay.py).                                                              *)
THEOREM CompletedRunsReplay ==
  ASSUME Phase3Constants
  PROVE  Spec => []CompletedReplays
<1>1. Phase3Inv => CompletedReplays
  <2> SUFFICES ASSUME Phase3Inv, db.status = "completed" PROVE Phase3Replays
    BY DEF CompletedReplays
  <2>1. DatabaseOK /\ RowsStored /\ EndStored
    BY DEF Phase3Inv
  <2>2. db.next \in Nat /\ db.next = Len(db.attempts)
    BY <2>1, RowsFacts
  <2>3. IsWhole(files.analysis) /\ IsWhole(files.results) /\ files.results.content = Content
    BY <2>1, FilesDiffer DEF EndStored
  <2> DEFINE after == CHOOSE f : ReplayedUpTo(f, Len(db.attempts))
  <2>4. ReplayedUpTo(after, db.next)
    BY <2>2, ReplayedExists
  <2>5. PICK end : end = after[Len(db.attempts)]
    OBVIOUS
  <2>6. /\ end.agrees /\ end.budget = db.budget
        /\ end.mechanism = Restored(db.attempts).mechanism
    <3> HIDE DEF after
    <3> QED BY <2>1, <2>2, <2>4, <2>5, RowsReplay
  <2>7. files.results.content = [budget |-> end.budget, events |-> db.attempts,
                                 coverage |-> Occupied(end.mechanism.archive)]
    BY <2>3, <2>6 DEF Content
  <2>8. Phase3Replays <=>
          /\ db.status = "completed"
          /\ after[Len(db.attempts)].agrees /\ after[Len(db.attempts)].budget = db.budget
          /\ IsWhole(files.analysis) /\ IsWhole(files.results)
          /\ files.results.content =
               [budget |-> after[Len(db.attempts)].budget, events |-> db.attempts,
                coverage |-> Occupied(after[Len(db.attempts)].mechanism.archive)]
    BY DEF Phase3Replays, ReplayedUpTo
  <2> HIDE DEF after
  <2> QED BY <2>3, <2>5, <2>6, <2>7, <2>8
<1> QED BY <1>1, Phase3InvHolds, PTL

=============================================================================
