------------------------- MODULE LedgerViewsProofs --------------------------
(***************************************************************************)
(* Two views of the ledger.                                                *)
(*                                                                         *)
(* The ledger implements SpendAccount for every limit of the hierarchy:    *)
(* initial states map to initial states, and every transaction to Hold,    *)
(* Settle or a stuttering step.  Only this rests on ScopeAssumption.       *)
(*                                                                         *)
(* A balance read query by query is sound for every number of runs and     *)
(* reservations and every value of the caps, whatever transactions fall    *)
(* between the queries.  Each sum that has been read is compared with the  *)
(* same sum over the table as it is now and as it was when the call began: *)
(* a settled row is final, so a sum over settled rows only grows, and the  *)
(* rows of the beginning that are still active only become fewer.          *)
(***************************************************************************)
EXTENDS LedgerAccount, LedgerReader, LedgerProofs

-----------------------------------------------------------------------------
(* The account of a limit. *)

(* Held and spent money make up what a scope has committed.                   *)
LEMMA HeldAndSpent ==
  ASSUME LedgerInv
  PROVE  /\ Total(HeldColumn(Scope)) \in Int /\ Total(HeldColumn(Scope)) >= 0
         /\ Total(SpentColumn(Scope)) \in Int
         /\ Committed(Scope) = Total(HeldColumn(Scope)) + Total(SpentColumn(Scope))
<1> DEFINE n == Len(reservation)
           h == HeldColumn(Scope)
           s == SpentColumn(Scope)
           e == ExposureColumn(Scope)
<1>1. n \in Nat /\ \A k \in 1..n : reservation[k] \in ReservationRow
  BY DEF LedgerInv, LedgerTypeOK
<1>2. \A row \in ReservationRow :
        row.reserved \in Nat /\ row.actual \in Nat /\ row.uncertain \in Nat
  BY DEF ReservationRow
<1>3. ASSUME NEW k \in 1..n
      PROVE  /\ h[k] \in Nat /\ s[k] \in Nat /\ e[k] \in Nat
             /\ e[k] = h[k] + s[k]
  BY <1>1, <1>2 DEF HeldColumn, SpentColumn, ExposureColumn, Exposure, Rowids
<1>4. h \in [1..n -> Int] /\ s \in [1..n -> Int] /\ e \in [1..n -> Int]
  BY <1>3 DEF HeldColumn, SpentColumn, ExposureColumn, Rowids
<1> HIDE DEF h, s, e
<1>5. IsColumn(h) /\ IsColumn(s) /\ IsColumn(e)
  BY <1>1, <1>4, TableIsColumn
<1>6. /\ \A k \in Nat : ValueAt(h, k) >= 0
      /\ \A k \in Nat : ValueAt(e, k) = ValueAt(h, k) + ValueAt(s, k)
  BY <1>1, <1>3, <1>4 DEF ValueAt
<1>7. RunningSum(e)[n] = RunningSum(h)[n] + RunningSum(s)[n]
  BY <1>1, <1>5, <1>6, SumAdd
<1>8. RunningSum(h)[n] \in Int /\ RunningSum(h)[n] >= 0 /\ RunningSum(s)[n] \in Int
  BY <1>1, <1>5, <1>6, RunningSumDef, SumNatural
<1>9. QED
  BY <1>7, <1>8 DEF h, s, e, Total, Committed

(* A reservation spends nothing.                                              *)
LEMMA InsertionSpendsNothing ==
  ASSUME LedgerInv, NEW q \in Request, Insertion(q)
  PROVE  Total(SpentColumn(Scope))' = Total(SpentColumn(Scope))
<1> DEFINE n == Len(reservation)
           v == SpentColumn(Scope)
           w == [k \in 1..(n + 1) |->
                   IF <<reservation'[k].run_id, reservation'[k].stage>> \in Scope
                   THEN reservation'[k].actual + reservation'[k].uncertain ELSE 0]
<1>0. LedgerTypeOK
  BY DEF LedgerInv
<1>1. n \in Nat /\ Len(reservation') = n + 1
  BY <1>0, TableAfterStep
<1>2. \A row \in ReservationRow : row.actual + row.uncertain \in Int
  BY DEF ReservationRow
<1>3. v \in [1..n -> Int]
  BY <1>0, <1>2, TableAfterStep DEF SpentColumn, Rowids
<1>4. \A k \in 1..n : w[k] = v[k]
  <2>1. \A k \in 1..n : reservation'[k] = reservation[k] /\ k \in 1..(n + 1)
    BY <1>0, <1>1, TableAfterStep DEF Rowids
  <2>2. QED
    BY <2>1 DEF SpentColumn, Rowids
<1>5. w[n + 1] = 0
  <2>1. reservation'[n + 1] = NewRow(q) /\ n + 1 \in 1..(n + 1)
    BY <1>0, <1>1, TableAfterStep
  <2>2. NewRow(q).actual = 0 /\ NewRow(q).uncertain = 0
    BY DEF NewRow
  <2>3. QED
    BY <2>1, <2>2
<1>6. w \in [1..(n + 1) -> Int]
  <2>1. \A k \in 1..(n + 1) : k \in 1..n \/ k = n + 1
    BY <1>1
  <2>2. \A k \in 1..n : v[k] \in Int
    BY <1>3
  <2>3. \A k \in 1..(n + 1) : w[k] \in Int
    <3> HIDE DEF v, w
    <3>1. QED
      BY <1>4, <1>5, <2>1, <2>2
  <2>4. QED
    BY <2>3
<1>7. Total(SpentColumn(Scope))' = RunningSum(w)[n + 1]
  BY <1>1 DEF Total, SpentColumn, Rowids
<1>8. RunningSum(w)[n + 1] = RunningSum(v)[n] + w[n + 1]
  <2> HIDE DEF v, w
  <2>1. QED
    BY <1>1, <1>3, <1>4, <1>6, SumAppend
<1>9. RunningSum(v)[n] \in Int
  <2> HIDE DEF v
  <2>1. QED
    BY <1>1, <1>3, TableIsColumn, RunningSumDef
<1>10. QED
  BY <1>5, <1>7, <1>8, <1>9 DEF Total

(* A settlement never takes spent money back.                                 *)
LEMMA SettlementSpends ==
  ASSUME LedgerInv, NEW j \in Rowids, NEW row \in ReservationRow, Settlement(j, row)
  PROVE  Total(SpentColumn(Scope))' >= Total(SpentColumn(Scope))
<1> DEFINE n == Len(reservation)
           v == SpentColumn(Scope)
           w == [k \in 1..n |->
                   IF <<reservation'[k].run_id, reservation'[k].stage>> \in Scope
                   THEN reservation'[k].actual + reservation'[k].uncertain ELSE 0]
<1>0. LedgerTypeOK /\ RowsOK
  BY DEF LedgerInv
<1>1. n \in Nat /\ Len(reservation') = n /\ j \in 1..n
  BY <1>0, TableAfterStep DEF Rowids
<1>2. \A r \in ReservationRow : r.actual \in Nat /\ r.uncertain \in Nat /\ r.actual + r.uncertain \in Int
  BY DEF ReservationRow
<1>3. v \in [1..n -> Int]
  BY <1>0, <1>2, TableAfterStep DEF SpentColumn, Rowids
<1>4. \A k \in 1..n : k # j => w[k] = v[k]
  BY <1>0, <1>1, TableAfterStep DEF SpentColumn, Rowids
<1>5. w[j] \in Int /\ v[j] \in Int /\ w[j] >= v[j]
  <2>1. /\ reservation[j] \in ReservationRow /\ RowOK(reservation[j])
        /\ reservation[j].state = "active" /\ Settles(reservation[j], row)
        /\ reservation'[j] = row
    BY <1>0, TableAfterStep DEF Settlement, RowsOK
  <2>2. reservation[j].actual = 0 /\ reservation[j].uncertain = 0
    BY <2>1 DEF RowOK
  <2>3. row.run_id = reservation[j].run_id /\ row.stage = reservation[j].stage
    BY <2>1 DEF Settles
  <2>4. row.actual \in Nat /\ row.uncertain \in Nat
    BY <1>2
  <2>5. w[j] = IF <<row.run_id, row.stage>> \in Scope THEN row.actual + row.uncertain ELSE 0
    BY <1>1, <2>1
  <2>6. v[j] = 0
    BY <1>1, <2>2 DEF SpentColumn, Rowids
  <2>7. QED
    BY <2>4, <2>5, <2>6
<1>6. w \in [1..n -> Int]
  <2>1. \A k \in 1..n : w[k] \in Int
    BY <1>3, <1>4, <1>5
  <2>2. QED
    BY <2>1
<1>7. Total(SpentColumn(Scope))' = RunningSum(w)[n]
  BY <1>1 DEF Total, SpentColumn, Rowids
<1>8. RunningSum(v)[n] \in Int /\ RunningSum(w)[n] = RunningSum(v)[n] + (w[j] - v[j])
  <2> HIDE DEF v, w
  <2>1. QED
    BY <1>1, <1>3, <1>4, <1>6, SumReplace
<1>9. RunningSum(w)[n] >= RunningSum(v)[n]
  <2> HIDE DEF v, w
  <2>1. QED
    BY <1>5, <1>8
<1>10. QED
  BY <1>7, <1>9 DEF Total

(* The limit of the chosen scope is one of the caps.                          *)
LEMMA ScopeWithinCap ==
  ASSUME CapsRespected
  PROVE  Committed(Scope) <= ScopeCap
BY ScopeAssumption DEF CapsRespected

(* Every limit of the hierarchy behaves as an account of its own, whatever    *)
(* the other runs that share the table do.                                    *)
THEOREM LedgerImplementsAccount == LedgerSpec => ScopeIsAccount
<1> DEFINE Held == Total(HeldColumn(Scope))
           Spent == Total(SpentColumn(Scope))
           Facts == /\ Held \in Int /\ Held >= 0 /\ Spent \in Int
                    /\ Committed(Scope) = Held + Spent
                    /\ Committed(Scope) <= ScopeCap
<1>1. LedgerInv => Facts
  BY HeldAndSpent, ScopeWithinCap DEF LedgerInv
<1>2. LedgerInit => Held = 0 /\ Spent = 0
  <2> SUFFICES ASSUME LedgerInit PROVE Held = 0 /\ Spent = 0
    OBVIOUS
  <2>1. Len(reservation) = 0
    BY DEF LedgerInit
  <2>2. HeldColumn(Scope) \in [1..0 -> Int] /\ SpentColumn(Scope) \in [1..0 -> Int]
    BY <2>1 DEF HeldColumn, SpentColumn, Rowids
  <2>3. IsColumn(HeldColumn(Scope)) /\ IsColumn(SpentColumn(Scope))
    BY <2>2, TableIsColumn
  <2>4. QED
    BY <2>1, <2>3, RunningSumDef DEF Total
<1>3. LedgerInv /\ Facts /\ Facts' /\ [LedgerNext]_ledgerVars
        => [ScopeAccount!Hold \/ ScopeAccount!Settle]_<<Held, Spent>>
  <2> SUFFICES ASSUME LedgerInv, Facts, Facts', [LedgerNext]_ledgerVars
               PROVE  \/ ScopeAccount!Hold \/ ScopeAccount!Settle
                      \/ Held' = Held /\ Spent' = Spent
    OBVIOUS
  <2>0. LedgerTypeOK /\ RowsOK
    BY DEF LedgerInv
  <2>1. PICK h \in Int, h1 \in Int, s \in Int, s1 \in Int, c \in Int, c1 \in Int :
          /\ h = Held /\ h1 = Held' /\ s = Spent /\ s1 = Spent'
          /\ c = Committed(Scope) /\ c1 = Committed(Scope)'
          /\ c = h + s /\ c1 = h1 + s1 /\ h1 >= 0
    OBVIOUS
  <2>2. c1 <= ScopeCap
    BY <2>1
  <2>3. ASSUME NEW q \in Request, Insertion(q) PROVE ScopeAccount!Hold
    <3>1. s1 = s
      BY <2>1, <2>3, InsertionSpendsNothing
    <3>2. q.amount \in Nat
      BY RequestAmount
    <3>3. Committed(Scope)' =
            Committed(Scope) + (IF <<q.run_id, q.stage>> \in Scope THEN q.amount ELSE 0)
      BY <2>0, <2>3, InsertionAdds
    <3>4. c1 >= c
      <4>1. c1 = c + (IF <<q.run_id, q.stage>> \in Scope THEN q.amount ELSE 0)
        BY <2>1, <3>3
      <4>2. QED
        BY <3>2, <4>1
    <3>5. h1 >= h /\ h1 + s <= ScopeCap
      BY <2>1, <2>2, <3>1, <3>4
    <3>6. QED
      BY <2>1, <3>1, <3>5 DEF ScopeAccount!Hold
  <2>4. ASSUME NEW k \in Rowids, NEW row \in ReservationRow, Settlement(k, row)
        PROVE  ScopeAccount!Settle
    <3>1. s1 >= s
      BY <2>1, <2>4, SettlementSpends
    <3>2. c1 <= c
      BY <2>0, <2>1, <2>4, SettlementReleases
    <3>3. h1 + s1 <= h + s
      BY <2>1, <3>2
    <3>4. QED
      BY <2>1, <3>1, <3>3 DEF ScopeAccount!Settle
  <2>5. CASE UNCHANGED reservation
    BY <2>5 DEF Total, HeldColumn, SpentColumn, Rowids
  <2>6. QED
    BY <2>0, <2>3, <2>4, <2>5, StepShape
<1>4. QED
  BY <1>1, <1>2, <1>3, InvariantHolds, PTL
     DEF LedgerSpec, ScopeIsAccount, ScopeAccount!AccountSpec, ScopeAccount!AccountInit

-----------------------------------------------------------------------------
(* The columns that are compared. *)

(* The rows after the coverage, by the state they are in now.                 *)
ReconciledColumn ==
  [k \in Rowids |-> IF k > seen.covered /\ reservation[k].state = "reconciled"
                    THEN reservation[k].actual ELSE 0]
UncertainColumn ==
  [k \in Rowids |-> IF k > seen.covered /\ reservation[k].state = "uncertain"
                    THEN reservation[k].uncertain ELSE 0]
ActiveColumn ==
  [k \in Rowids |-> IF k > seen.covered /\ reservation[k].state = "active"
                    THEN reservation[k].reserved ELSE 0]
ReservedColumn ==
  [k \in Rowids |-> IF k > seen.covered THEN reservation[k].reserved ELSE 0]

(* The rows after the coverage that were there when the call began.           *)
Was(k, state) == k \in DOMAIN before /\ k > seen.covered /\ before[k].state = state

WasReconciled == [k \in Rowids |-> IF Was(k, "reconciled") THEN before[k].actual ELSE 0]
WasUncertain == [k \in Rowids |-> IF Was(k, "uncertain") THEN before[k].uncertain ELSE 0]
StillActive ==
  [k \in Rowids |-> IF Was(k, "active") /\ reservation[k].state = "active"
                    THEN before[k].reserved ELSE 0]

(* The table contains what it was when the call began, and the coverage that  *)
(* was read is a coverage of finished rows.                                   *)
Kept ==
  /\ seen.covered <= Len(before) /\ Len(before) <= Len(reservation)
  /\ FinishedThrough(seen.covered)
  /\ \A k \in 1..Len(before) :
       /\ reservation[k].reserved = before[k].reserved
       /\ before[k].state # "active" => reservation[k] = before[k]

ActualRead ==
  /\ Total(WasReconciled) <= seen.actual
  /\ seen.actual <= Total(ReconciledColumn)
UncertainRead ==
  /\ Total(WasUncertain) <= seen.uncertain
  /\ seen.uncertain <= Total(UncertainColumn)
Answered ==
  /\ Total(WasReconciled) <= seen.actual
  /\ Total(WasUncertain) <= seen.uncertain
  /\ Total(StillActive) <= seen.active
  /\ seen.actual + seen.uncertain + seen.active <= Total(ReservedColumn)

(* The inductive invariant: what each query has read is between what the      *)
(* table held at the beginning and what it holds now.                         *)
ReaderInv ==
  /\ LedgerInv /\ ReaderTypeOK /\ ReaderIsNotRefused
  /\ pc # "idle" => Kept
  /\ pc \in {"uncertain", "active"} => ActualRead
  /\ pc = "active" => UncertainRead
  /\ pc = "told" => Answered

-----------------------------------------------------------------------------
(* Sums over a table that grows. *)

(* A sum over a longer table whose rows weigh at least as much is larger.     *)
LEMMA SumGrows ==
  ASSUME NEW m \in Nat, NEW n \in Nat, m <= n,
         NEW v \in [1..m -> Nat], NEW w \in [1..n -> Nat],
         \A k \in 1..m : v[k] <= w[k]
  PROVE  RunningSum(v)[m] <= RunningSum(w)[n]
<1> DEFINE f == [k \in 1..m |-> k]
<1>1. f \in [1..m -> 1..n] /\ (\A a, b \in 1..m : f[a] = f[b] => a = b)
  OBVIOUS
<1>2. \A k \in 1..m : v[k] <= w[f[k]]
  OBVIOUS
<1> HIDE DEF f
<1>3. QED
  BY <1>1, <1>2, SumInjection

(* A sum over a longer table whose new rows weigh nothing, and whose old rows *)
(* weigh no more than before, is not larger.                                  *)
LEMMA SumShrinks ==
  ASSUME NEW m \in Nat, NEW n \in Nat, m <= n,
         NEW v \in [1..m -> Nat], NEW w \in [1..n -> Nat],
         \A k \in 1..m : w[k] <= v[k],
         \A k \in 1..n : k > m => w[k] = 0
  PROVE  RunningSum(w)[n] <= RunningSum(v)[m]
<1>1. IsColumn(v) /\ IsColumn(w)
  BY TableIsColumn
<1>2. \A k \in Nat : ValueAt(w, k) <= ValueAt(v, k)
  BY DEF ValueAt
<1>3. RunningSum(w)[m] <= RunningSum(v)[m]
  BY <1>1, <1>2, RunningSumMonotone
<1>4. \A k \in Nat : k > m => ValueAt(w, k) = 0
  BY DEF ValueAt
<1>5. RunningSum(w)[n] = RunningSum(w)[m]
  BY <1>1, <1>4, SumConstantAfter
<1>6. QED
  BY <1>3, <1>5

(* A sum over natural numbers is one.                                         *)
LEMMA SumIsNatural ==
  ASSUME NEW n \in Nat, NEW v \in [1..n -> Nat]
  PROVE  RunningSum(v)[n] \in Nat
<1>1. IsColumn(v)
  BY TableIsColumn
<1>2. \A k \in Nat : ValueAt(v, k) >= 0
  BY DEF ValueAt
<1>3. RunningSum(v)[n] >= 0
  BY <1>1, <1>2, SumNatural
<1>4. RunningSum(v)[n] \in Int
  BY <1>1, RunningSumDef
<1>5. QED
  BY <1>3, <1>4

(* The sum of three columns is the three sums together.                       *)
LEMMA SumOfThree ==
  ASSUME NEW n \in Nat, NEW u \in [1..n -> Nat], NEW v \in [1..n -> Nat],
         NEW w \in [1..n -> Nat]
  PROVE  RunningSum([k \in 1..n |-> u[k] + v[k] + w[k]])[n]
           = RunningSum(u)[n] + RunningSum(v)[n] + RunningSum(w)[n]
<1> DEFINE uv == [k \in 1..n |-> u[k] + v[k]]
           t == [k \in 1..n |-> u[k] + v[k] + w[k]]
<1>1. /\ uv \in [1..n -> Nat] /\ (\A k \in 1..n : uv[k] = u[k] + v[k])
      /\ t \in [1..n -> Nat] /\ (\A k \in 1..n : t[k] = u[k] + v[k] + w[k])
  OBVIOUS
<1> SUFFICES RunningSum(t)[n] = RunningSum(u)[n] + RunningSum(v)[n] + RunningSum(w)[n]
  OBVIOUS
<1> HIDE DEF uv, t
<1>2. \A k \in 1..n : t[k] = uv[k] + w[k]
  BY <1>1
<1>3. IsColumn(u) /\ IsColumn(v) /\ IsColumn(w) /\ IsColumn(t) /\ IsColumn(uv)
  BY <1>1, TableIsColumn
<1>4. \A k \in Nat : ValueAt(uv, k) = ValueAt(u, k) + ValueAt(v, k)
  BY <1>1 DEF ValueAt
<1>5. \A k \in Nat : ValueAt(t, k) = ValueAt(uv, k) + ValueAt(w, k)
  BY <1>1, <1>2 DEF ValueAt
<1>6. RunningSum(uv)[n] = RunningSum(u)[n] + RunningSum(v)[n]
  <2>1. \A m \in Nat : RunningSum(uv)[m] = RunningSum(u)[m] + RunningSum(v)[m]
    BY <1>3, <1>4, SumAdd
  <2>2. QED
    BY <2>1
<1>7. RunningSum(t)[n] = RunningSum(uv)[n] + RunningSum(w)[n]
  <2>1. \A m \in Nat : RunningSum(t)[m] = RunningSum(uv)[m] + RunningSum(w)[m]
    BY <1>3, <1>5, SumAdd
  <2>2. QED
    BY <2>1
<1>8. QED
  BY <1>6, <1>7

-----------------------------------------------------------------------------
(* The columns are tables of natural numbers. *)

(* The amounts of the rows that a reader sums are natural numbers.            *)
LEMMA ReaderRows ==
  ASSUME LedgerTypeOK, ReaderTypeOK
  PROVE  /\ Len(reservation) \in Nat /\ Len(before) \in Nat
         /\ seen.covered \in Nat /\ seen.billed \in Nat /\ seen.actual \in Nat
         /\ seen.uncertain \in Nat /\ seen.active \in Nat
         /\ \A k \in 1..Len(reservation) :
              /\ reservation[k] \in ReservationRow
              /\ reservation[k].actual \in Nat /\ reservation[k].uncertain \in Nat
              /\ reservation[k].reserved \in Nat
              /\ reservation[k].state \in {"active", "reconciled", "uncertain"}
         /\ DOMAIN before = 1..Len(before)
         /\ \A k \in 1..Len(before) :
              /\ before[k] \in ReservationRow
              /\ before[k].actual \in Nat /\ before[k].uncertain \in Nat
              /\ before[k].reserved \in Nat
              /\ before[k].state \in {"active", "reconciled", "uncertain"}
<1>1. \A row \in ReservationRow :
        /\ row.actual \in Nat /\ row.uncertain \in Nat /\ row.reserved \in Nat
        /\ row.state \in {"active", "reconciled", "uncertain"}
  BY DEF ReservationRow
<1>2. /\ reservation \in Seq(ReservationRow) /\ before \in Seq(ReservationRow)
      /\ seen \in [covered : Nat, billed : Nat, actual : Nat, uncertain : Nat, active : Nat]
  BY DEF LedgerTypeOK, ReaderTypeOK
<1>3. QED
  BY <1>1, <1>2

(* The columns over the present table.                                        *)
LEMMA PresentColumns ==
  ASSUME LedgerTypeOK, ReaderTypeOK
  PROVE  LET n == Len(reservation) IN
         /\ ReconciledColumn \in [1..n -> Nat] /\ UncertainColumn \in [1..n -> Nat]
         /\ ActiveColumn \in [1..n -> Nat] /\ ReservedColumn \in [1..n -> Nat]
BY ReaderRows DEF ReconciledColumn, UncertainColumn, ActiveColumn, ReservedColumn, Rowids

(* The columns over the table as it was when the call began.                  *)
LEMMA FormerColumns ==
  ASSUME LedgerTypeOK, ReaderTypeOK
  PROVE  LET n == Len(reservation) IN
         /\ WasReconciled \in [1..n -> Nat] /\ WasUncertain \in [1..n -> Nat]
         /\ StillActive \in [1..n -> Nat]
BY ReaderRows DEF WasReconciled, WasUncertain, StillActive, Was, Rowids

(* The three sums over the states a row can be in are the sum of the amounts  *)
(* reserved, less what settlements released.                                  *)
LEMMA StatesAreDisjoint ==
  ASSUME LedgerTypeOK, RowsOK, ReaderTypeOK
  PROVE  Total(ReconciledColumn) + Total(UncertainColumn) + Total(ActiveColumn)
           <= Total(ReservedColumn)
<1> DEFINE n == Len(reservation)
           r == ReconciledColumn
           u == UncertainColumn
           a == ActiveColumn
           p == ReservedColumn
           t == [k \in 1..n |-> r[k] + u[k] + a[k]]
<1>0. n \in Nat
  BY ReaderRows
<1>1. r \in [1..n -> Nat] /\ u \in [1..n -> Nat] /\ a \in [1..n -> Nat] /\ p \in [1..n -> Nat]
  BY PresentColumns
<1>2. ASSUME NEW k \in 1..n PROVE r[k] + u[k] + a[k] <= p[k]
  <2>0. k \in Rowids
    BY DEF Rowids
  <2>1. /\ RowOK(reservation[k]) /\ reservation[k].actual \in Nat
        /\ reservation[k].uncertain \in Nat /\ reservation[k].reserved \in Nat
        /\ reservation[k].state \in {"active", "reconciled", "uncertain"}
    BY <2>0, ReaderRows DEF RowsOK
  <2>2. /\ r[k] = IF k > seen.covered /\ reservation[k].state = "reconciled"
                  THEN reservation[k].actual ELSE 0
        /\ u[k] = IF k > seen.covered /\ reservation[k].state = "uncertain"
                  THEN reservation[k].uncertain ELSE 0
        /\ a[k] = IF k > seen.covered /\ reservation[k].state = "active"
                  THEN reservation[k].reserved ELSE 0
        /\ p[k] = IF k > seen.covered THEN reservation[k].reserved ELSE 0
    BY <2>0 DEF ReconciledColumn, UncertainColumn, ActiveColumn, ReservedColumn
  <2> HIDE DEF r, u, a, p
  <2>3. CASE reservation[k].state = "reconciled"
    <3>1. /\ r[k] = IF k > seen.covered THEN reservation[k].actual ELSE 0
          /\ u[k] = 0 /\ a[k] = 0
      BY <2>2, <2>3
    <3>2. reservation[k].actual <= reservation[k].reserved
      BY <2>1, <2>3 DEF RowOK
    <3>3. QED
      BY <2>1, <2>2, <3>1, <3>2
  <2>4. CASE reservation[k].state = "uncertain"
    <3>1. /\ u[k] = IF k > seen.covered THEN reservation[k].uncertain ELSE 0
          /\ r[k] = 0 /\ a[k] = 0
      BY <2>2, <2>4
    <3>2. reservation[k].uncertain = reservation[k].reserved
      BY <2>1, <2>4 DEF RowOK
    <3>3. QED
      BY <2>1, <2>2, <3>1, <3>2
  <2>5. CASE reservation[k].state = "active"
    <3>1. a[k] = p[k] /\ r[k] = 0 /\ u[k] = 0
      BY <2>2, <2>5
    <3>2. QED
      BY <2>1, <2>2, <3>1
  <2>6. QED
    BY <2>1, <2>3, <2>4, <2>5
<1> HIDE DEF n, r, u, a, p
<1>3. t \in [1..n -> Nat] /\ (\A k \in 1..n : t[k] = r[k] + u[k] + a[k])
  BY <1>1
<1>4. RunningSum(t)[n] = RunningSum(r)[n] + RunningSum(u)[n] + RunningSum(a)[n]
  BY <1>0, <1>1, SumOfThree
<1> HIDE DEF t
<1>5. \A k \in 1..n : t[k] <= p[k]
  BY <1>2, <1>3
<1>6. RunningSum(t)[n] <= RunningSum(p)[n]
  <2>1. n <= n
    BY <1>0
  <2>2. QED
    BY <1>0, <1>1, <1>3, <1>5, <2>1, SumGrows, Zenon
<1>7. QED
  BY <1>4, <1>6 DEF n, r, u, a, p, Total

-----------------------------------------------------------------------------
(* What a transaction between two queries changes. *)

(* A transaction appends a row or settles an active one; every other row, and *)
(* the amount of every row, stay as they are.                                 *)
LEMMA RowsOnlyEnd ==
  ASSUME LedgerTypeOK, [LedgerNext]_ledgerVars
  PROVE  /\ Len(reservation) \in Nat /\ Len(reservation') \in Nat
         /\ Len(reservation) <= Len(reservation')
         /\ \A k \in 1..Len(reservation) :
              /\ reservation'[k].reserved = reservation[k].reserved
              /\ reservation[k].state # "active" => reservation'[k] = reservation[k]
<1> DEFINE n == Len(reservation)
<1>0. n \in Nat /\ Rowids = 1..n
  BY TableAfterStep DEF Rowids
<1>1. ASSUME NEW q \in Request, Insertion(q)
      PROVE  Len(reservation') = n + 1 /\ \A k \in 1..n : reservation'[k] = reservation[k]
  BY <1>0, <1>1, TableAfterStep
<1>2. ASSUME NEW j \in Rowids, NEW row \in ReservationRow, Settlement(j, row)
      PROVE  /\ Len(reservation') = n
             /\ \A k \in 1..n : /\ reservation'[k].reserved = reservation[k].reserved
                                /\ reservation[k].state # "active" => reservation'[k] = reservation[k]
  <2>1. /\ Len(reservation') = n
        /\ \A k \in Rowids : k # j => reservation'[k] = reservation[k]
        /\ reservation'[j] = row
    BY <1>2, TableAfterStep
  <2>2. row.reserved = reservation[j].reserved /\ reservation[j].state = "active"
    BY <1>2 DEF Settlement, Settles
  <2>3. QED
    BY <1>0, <2>1, <2>2
<1>3. CASE UNCHANGED reservation
  BY <1>0, <1>3
<1>4. QED
  BY <1>0, <1>1, <1>2, <1>3, StepShape

(* The table keeps containing what it was when the call began.                *)
LEMMA KeptStep ==
  ASSUME LedgerTypeOK, ReaderTypeOK, Kept, [LedgerNext]_ledgerVars,
         before' = before, seen'.covered = seen.covered
  PROVE  Kept'
<1> DEFINE n == Len(reservation)
           m == Len(before)
           c == seen.covered
<1>1. /\ n \in Nat /\ Len(reservation') \in Nat /\ n <= Len(reservation')
      /\ \A k \in 1..n : /\ reservation'[k].reserved = reservation[k].reserved
                         /\ reservation[k].state # "active" => reservation'[k] = reservation[k]
  BY RowsOnlyEnd
<1>2. /\ m \in Nat /\ c \in Nat /\ c <= m /\ m <= n
      /\ \A k \in 1..n : k <= c => reservation[k].state = "reconciled"
      /\ \A k \in 1..m : /\ reservation[k].reserved = before[k].reserved
                         /\ before[k].state # "active" => reservation[k] = before[k]
  BY ReaderRows DEF Kept, FinishedThrough, Rowids
<1>3. m <= Len(reservation') /\ \A k \in 1..m : k \in 1..n
  BY <1>1, <1>2
<1>4. \A k \in 1..m : /\ reservation'[k].reserved = before[k].reserved
                      /\ before[k].state # "active" => reservation'[k] = before[k]
  BY <1>1, <1>2, <1>3
<1>5. \A k \in 1..Len(reservation') : k <= c => reservation'[k].state = "reconciled"
  <2> TAKE k \in 1..Len(reservation')
  <2> HAVE k <= c
  <2>1. k \in 1..n
    BY <1>1, <1>2
  <2>2. reservation[k].state = "reconciled"
    BY <1>2, <2>1
  <2>3. QED
    BY <1>1, <2>1, <2>2
<1>6. QED
  BY <1>2, <1>3, <1>4, <1>5 DEF Kept, FinishedThrough, Rowids

(* Sums over settled rows, and the sum of the amounts reserved, only grow;    *)
(* sums over the rows of the beginning do not.                                *)
LEMMA ColumnsStep ==
  ASSUME LedgerTypeOK, LedgerTypeOK', ReaderTypeOK, ReaderTypeOK', Kept,
         [LedgerNext]_ledgerVars, before' = before, seen'.covered = seen.covered
  PROVE  /\ Total(ReconciledColumn) <= Total(ReconciledColumn)'
         /\ Total(UncertainColumn) <= Total(UncertainColumn)'
         /\ Total(ReservedColumn) <= Total(ReservedColumn)'
         /\ Total(WasReconciled)' <= Total(WasReconciled)
         /\ Total(WasUncertain)' <= Total(WasUncertain)
         /\ Total(StillActive)' <= Total(StillActive)
<1> DEFINE n == Len(reservation)
           n1 == Len(reservation')
<1>1. /\ n \in Nat /\ n1 \in Nat /\ n <= n1
      /\ \A k \in 1..n : /\ reservation'[k].reserved = reservation[k].reserved
                         /\ reservation[k].state # "active" => reservation'[k] = reservation[k]
  BY RowsOnlyEnd
<1>2. /\ \A k \in 1..n : /\ reservation[k].actual \in Nat /\ reservation[k].uncertain \in Nat
                         /\ reservation[k].reserved \in Nat
      /\ DOMAIN before = 1..Len(before) /\ Len(before) <= n /\ Len(before) \in Nat
  BY ReaderRows DEF Kept
<1>3. /\ ReconciledColumn \in [1..n -> Nat] /\ UncertainColumn \in [1..n -> Nat]
      /\ ReservedColumn \in [1..n -> Nat]
      /\ WasReconciled \in [1..n -> Nat] /\ WasUncertain \in [1..n -> Nat]
      /\ StillActive \in [1..n -> Nat]
  BY PresentColumns, FormerColumns
<1>4. /\ ReconciledColumn' \in [1..n1 -> Nat] /\ UncertainColumn' \in [1..n1 -> Nat]
      /\ ReservedColumn' \in [1..n1 -> Nat]
      /\ WasReconciled' \in [1..n1 -> Nat] /\ WasUncertain' \in [1..n1 -> Nat]
      /\ StillActive' \in [1..n1 -> Nat]
  <2>1. /\ n1 \in Nat
        /\ \A k \in 1..n1 : /\ reservation'[k].actual \in Nat /\ reservation'[k].uncertain \in Nat
                            /\ reservation'[k].reserved \in Nat
        /\ \A k \in 1..Len(before) :
             /\ before[k].actual \in Nat /\ before[k].uncertain \in Nat
             /\ before[k].reserved \in Nat
    <3>1. \A row \in ReservationRow :
            row.actual \in Nat /\ row.uncertain \in Nat /\ row.reserved \in Nat
      BY DEF ReservationRow
    <3>2. reservation' \in Seq(ReservationRow)
      BY DEF LedgerTypeOK
    <3>3. \A k \in 1..n1 : reservation'[k] \in ReservationRow
      BY <3>2
    <3>4. QED
      BY <1>1, <3>1, <3>3, ReaderRows
  <2>2. /\ ReconciledColumn' \in [1..n1 -> Nat] /\ UncertainColumn' \in [1..n1 -> Nat]
        /\ ReservedColumn' \in [1..n1 -> Nat]
    BY <2>1 DEF ReconciledColumn, UncertainColumn, ReservedColumn, Rowids
  <2>3. /\ WasReconciled' \in [1..n1 -> Nat] /\ WasUncertain' \in [1..n1 -> Nat]
        /\ StillActive' \in [1..n1 -> Nat]
    BY <1>2, <2>1 DEF WasReconciled, WasUncertain, StillActive, Was, Rowids
  <2>4. QED
    BY <2>2, <2>3
<1>5. \A k \in 1..n : k \in 1..n1
  BY <1>1
<1>6. /\ \A k \in 1..n : ReconciledColumn[k] <= ReconciledColumn'[k]
      /\ \A k \in 1..n : UncertainColumn[k] <= UncertainColumn'[k]
      /\ \A k \in 1..n : ReservedColumn[k] <= ReservedColumn'[k]
  <2> SUFFICES ASSUME NEW k \in 1..n
               PROVE  /\ ReconciledColumn[k] <= ReconciledColumn'[k]
                      /\ UncertainColumn[k] <= UncertainColumn'[k]
                      /\ ReservedColumn[k] <= ReservedColumn'[k]
    OBVIOUS
  <2>1. /\ ReconciledColumn[k] \in Nat /\ UncertainColumn[k] \in Nat /\ ReservedColumn[k] \in Nat
        /\ ReconciledColumn'[k] \in Nat /\ UncertainColumn'[k] \in Nat /\ ReservedColumn'[k] \in Nat
    BY <1>3, <1>4, <1>5
  <2>2. CASE reservation[k].state = "active"
    <3>1. ReconciledColumn[k] = 0 /\ UncertainColumn[k] = 0
      BY <2>2 DEF ReconciledColumn, UncertainColumn, Rowids
    <3>2. ReservedColumn[k] = ReservedColumn'[k]
      BY <1>1, <1>5 DEF ReservedColumn, Rowids
    <3>3. QED
      BY <2>1, <3>1, <3>2
  <2>3. CASE reservation[k].state # "active"
    <3>1. reservation'[k] = reservation[k]
      BY <1>1, <2>3
    <3>2. /\ ReconciledColumn[k] = ReconciledColumn'[k]
          /\ UncertainColumn[k] = UncertainColumn'[k]
          /\ ReservedColumn[k] = ReservedColumn'[k]
      BY <1>5, <3>1 DEF ReconciledColumn, UncertainColumn, ReservedColumn, Rowids
    <3>3. QED
      BY <2>1, <3>2
  <2>4. QED
    BY <2>2, <2>3
<1>7. /\ \A k \in 1..n : WasReconciled'[k] <= WasReconciled[k]
      /\ \A k \in 1..n : WasUncertain'[k] <= WasUncertain[k]
      /\ \A k \in 1..n : StillActive'[k] <= StillActive[k]
  <2> SUFFICES ASSUME NEW k \in 1..n
               PROVE  /\ WasReconciled'[k] <= WasReconciled[k]
                      /\ WasUncertain'[k] <= WasUncertain[k]
                      /\ StillActive'[k] <= StillActive[k]
    OBVIOUS
  <2>1. /\ WasReconciled[k] \in Nat /\ WasUncertain[k] \in Nat /\ StillActive[k] \in Nat
        /\ WasReconciled'[k] \in Nat /\ WasUncertain'[k] \in Nat /\ StillActive'[k] \in Nat
    BY <1>3, <1>4, <1>5
  <2>2. WasReconciled'[k] = WasReconciled[k] /\ WasUncertain'[k] = WasUncertain[k]
    BY <1>5 DEF WasReconciled, WasUncertain, Was, Rowids
  <2>3. CASE reservation'[k].state = "active" /\ reservation[k].state # "active"
    BY <1>1, <2>3
  <2>4. CASE reservation'[k].state = "active" <=> reservation[k].state = "active"
    <3>1. StillActive'[k] = StillActive[k]
      BY <1>5, <2>4 DEF StillActive, Was, Rowids
    <3>2. QED
      BY <2>1, <2>2, <3>1
  <2>5. CASE reservation'[k].state # "active"
    <3>1. StillActive'[k] = 0
      BY <1>5, <2>5 DEF StillActive, Was, Rowids
    <3>2. QED
      BY <2>1, <2>2, <3>1
  <2>6. QED
    BY <2>3, <2>4, <2>5
<1>8. \A k \in 1..n1 : k > n => WasReconciled'[k] = 0 /\ WasUncertain'[k] = 0 /\ StillActive'[k] = 0
  <2>1. \A k \in 1..n1 : k > n => k \notin DOMAIN before
    BY <1>1, <1>2
  <2>2. QED
    BY <2>1 DEF WasReconciled, WasUncertain, StillActive, Was, Rowids
<1>9. /\ Total(ReconciledColumn)' = RunningSum(ReconciledColumn')[n1]
      /\ Total(UncertainColumn)' = RunningSum(UncertainColumn')[n1]
      /\ Total(ReservedColumn)' = RunningSum(ReservedColumn')[n1]
      /\ Total(WasReconciled)' = RunningSum(WasReconciled')[n1]
      /\ Total(WasUncertain)' = RunningSum(WasUncertain')[n1]
      /\ Total(StillActive)' = RunningSum(StillActive')[n1]
  BY DEF Total
<1> HIDE DEF n, n1
<1>10. RunningSum(ReconciledColumn)[n] <= RunningSum(ReconciledColumn')[n1]
  BY <1>1, <1>3, <1>4, <1>6, SumGrows
<1>11. RunningSum(UncertainColumn)[n] <= RunningSum(UncertainColumn')[n1]
  BY <1>1, <1>3, <1>4, <1>6, SumGrows
<1>12. RunningSum(ReservedColumn)[n] <= RunningSum(ReservedColumn')[n1]
  BY <1>1, <1>3, <1>4, <1>6, SumGrows
<1>13. RunningSum(WasReconciled')[n1] <= RunningSum(WasReconciled)[n]
  BY <1>1, <1>3, <1>4, <1>7, <1>8, SumShrinks
<1>14. RunningSum(WasUncertain')[n1] <= RunningSum(WasUncertain)[n]
  BY <1>1, <1>3, <1>4, <1>7, <1>8, SumShrinks
<1>15. RunningSum(StillActive')[n1] <= RunningSum(StillActive)[n]
  BY <1>1, <1>3, <1>4, <1>7, <1>8, SumShrinks
<1>16. QED
  BY <1>9, <1>10, <1>11, <1>12, <1>13, <1>14, <1>15 DEF n, n1, Total

-----------------------------------------------------------------------------
(* The queries. *)

(* The bill of the latest checkpoint and what it covers are natural numbers.  *)
LEMMA LatestAreNatural ==
  ASSUME LedgerInv
  PROVE  LatestBilled \in Nat /\ LatestCovered \in Nat
<1>1. LatestCovered \in Nat
  BY LatestIsValid DEF LedgerInv, LedgerTypeOK
<1>2. LatestBilled \in Nat
  <2>1. cash_checkpoint \in Seq(CheckpointRow)
    BY DEF LedgerInv, LedgerTypeOK
  <2>2. CASE cash_checkpoint = <<>>
    BY <2>2, LedgerConstants DEF LatestBilled
  <2>3. CASE cash_checkpoint # <<>>
    <3>1. cash_checkpoint[Len(cash_checkpoint)] \in CheckpointRow
      BY <2>1, <2>3
    <3>2. QED
      BY <2>3, <3>1 DEF LatestBilled, CheckpointRow
  <2>4. QED
    BY <2>2, <2>3
<1>3. QED
  BY <1>1, <1>2

(* The columns of the beginning are not larger than those of the present.     *)
LEMMA FormerWithinPresent ==
  ASSUME LedgerTypeOK, ReaderTypeOK, Kept
  PROVE  /\ Total(WasReconciled) <= Total(ReconciledColumn)
         /\ Total(WasUncertain) <= Total(UncertainColumn)
         /\ Total(StillActive) <= Total(ActiveColumn)
<1> DEFINE n == Len(reservation)
<1>1. /\ n \in Nat /\ n <= n
      /\ DOMAIN before = 1..Len(before)
      /\ \A k \in 1..Len(before) :
           /\ reservation[k].reserved = before[k].reserved
           /\ before[k].state # "active" => reservation[k] = before[k]
  BY ReaderRows DEF Kept
<1>2. /\ ReconciledColumn \in [1..n -> Nat] /\ UncertainColumn \in [1..n -> Nat]
      /\ ActiveColumn \in [1..n -> Nat]
      /\ WasReconciled \in [1..n -> Nat] /\ WasUncertain \in [1..n -> Nat]
      /\ StillActive \in [1..n -> Nat]
  BY PresentColumns, FormerColumns
<1>3. \A k \in 1..n : WasReconciled[k] <= ReconciledColumn[k]
  <2> SUFFICES ASSUME NEW k \in 1..n PROVE WasReconciled[k] <= ReconciledColumn[k]
    OBVIOUS
  <2>1. WasReconciled[k] \in Nat /\ ReconciledColumn[k] \in Nat
    BY <1>2
  <2>2. Was(k, "reconciled") => WasReconciled[k] = ReconciledColumn[k]
    BY <1>1 DEF WasReconciled, ReconciledColumn, Was, Rowids
  <2>3. ~ Was(k, "reconciled") => WasReconciled[k] = 0
    BY DEF WasReconciled, Rowids
  <2>4. QED
    BY <2>1, <2>2, <2>3
<1>4. \A k \in 1..n : WasUncertain[k] <= UncertainColumn[k]
  <2> SUFFICES ASSUME NEW k \in 1..n PROVE WasUncertain[k] <= UncertainColumn[k]
    OBVIOUS
  <2>1. WasUncertain[k] \in Nat /\ UncertainColumn[k] \in Nat
    BY <1>2
  <2>2. Was(k, "uncertain") => WasUncertain[k] = UncertainColumn[k]
    BY <1>1 DEF WasUncertain, UncertainColumn, Was, Rowids
  <2>3. ~ Was(k, "uncertain") => WasUncertain[k] = 0
    BY DEF WasUncertain, Rowids
  <2>4. QED
    BY <2>1, <2>2, <2>3
<1>5. \A k \in 1..n : StillActive[k] <= ActiveColumn[k]
  <2> SUFFICES ASSUME NEW k \in 1..n PROVE StillActive[k] <= ActiveColumn[k]
    OBVIOUS
  <2> DEFINE still == Was(k, "active") /\ reservation[k].state = "active"
  <2>1. StillActive[k] \in Nat /\ ActiveColumn[k] \in Nat
    BY <1>2
  <2>2. still => StillActive[k] = ActiveColumn[k]
    BY <1>1 DEF StillActive, ActiveColumn, Was, Rowids
  <2>3. ~ still => StillActive[k] = 0
    BY DEF StillActive, Rowids
  <2>4. QED
    BY <2>1, <2>2, <2>3
<1> HIDE DEF n
<1>6. RunningSum(WasReconciled)[n] <= RunningSum(ReconciledColumn)[n]
  BY <1>1, <1>2, <1>3, SumGrows
<1>7. RunningSum(WasUncertain)[n] <= RunningSum(UncertainColumn)[n]
  BY <1>1, <1>2, <1>4, SumGrows
<1>8. RunningSum(StillActive)[n] <= RunningSum(ActiveColumn)[n]
  BY <1>1, <1>2, <1>5, SumGrows
<1>9. QED
  BY <1>6, <1>7, <1>8 DEF n, Total

(* What a query reads are the columns above.                                  *)
LEMMA QueriesReadColumns ==
  /\ Sum("reconciled", LAMBDA row : row.actual) = Total(ReconciledColumn)
  /\ Sum("uncertain", LAMBDA row : row.uncertain) = Total(UncertainColumn)
  /\ Sum("active", LAMBDA row : row.reserved) = Total(ActiveColumn)
BY DEF Sum, ReconciledColumn, UncertainColumn, ActiveColumn

(* The sums over the present table are natural numbers, and so are those over *)
(* the table of the beginning.                                                *)
LEMMA TotalsAreNatural ==
  ASSUME LedgerTypeOK, ReaderTypeOK
  PROVE  /\ Total(ReconciledColumn) \in Nat /\ Total(UncertainColumn) \in Nat
         /\ Total(ActiveColumn) \in Nat /\ Total(ReservedColumn) \in Nat
         /\ Total(WasReconciled) \in Nat /\ Total(WasUncertain) \in Nat
         /\ Total(StillActive) \in Nat
<1> DEFINE n == Len(reservation)
<1>1. n \in Nat
  BY ReaderRows
<1>2. /\ ReconciledColumn \in [1..n -> Nat] /\ UncertainColumn \in [1..n -> Nat]
      /\ ActiveColumn \in [1..n -> Nat] /\ ReservedColumn \in [1..n -> Nat]
      /\ WasReconciled \in [1..n -> Nat] /\ WasUncertain \in [1..n -> Nat]
      /\ StillActive \in [1..n -> Nat]
  BY PresentColumns, FormerColumns
<1>3. \A v \in [1..n -> Nat] : RunningSum(v)[n] \in Nat
  BY <1>1, SumIsNatural
<1>4. QED
  BY <1>2, <1>3 DEF Total

(* A query that only reads leaves the columns as they are.                    *)
LEMMA ColumnsStay ==
  ASSUME UNCHANGED ledgerVars, before' = before, seen'.covered = seen.covered
  PROVE  /\ Kept => Kept'
         /\ Total(ReconciledColumn)' = Total(ReconciledColumn)
         /\ Total(UncertainColumn)' = Total(UncertainColumn)
         /\ Total(ReservedColumn)' = Total(ReservedColumn)
         /\ Total(WasReconciled)' = Total(WasReconciled)
         /\ Total(WasUncertain)' = Total(WasUncertain)
         /\ Total(StillActive)' = Total(StillActive)
<1>1. reservation' = reservation
  BY DEF ledgerVars
<1>2. Kept => Kept'
  BY <1>1 DEF Kept, FinishedThrough, Rowids
<1>3. Rowids' = Rowids
  BY <1>1 DEF Rowids
<1>4. /\ ReconciledColumn' = ReconciledColumn /\ UncertainColumn' = UncertainColumn
      /\ ReservedColumn' = ReservedColumn
  BY <1>1, <1>3 DEF ReconciledColumn, UncertainColumn, ReservedColumn
<1>5. \A k, state : Was(k, state)' <=> Was(k, state)
  BY DEF Was
<1>6. WasReconciled' = WasReconciled /\ WasUncertain' = WasUncertain
  BY <1>3 DEF WasReconciled, WasUncertain, Was
<1>7. StillActive' = StillActive
  BY <1>1, <1>3 DEF StillActive, Was
<1>8. QED
  BY <1>1, <1>2, <1>4, <1>6, <1>7 DEF Total

(* Nothing of the ledger changes while a query reads it.                      *)
LEMMA LedgerStays ==
  ASSUME LedgerInv, UNCHANGED ledgerVars
  PROVE  LedgerInv'
BY TypeStep, RowsStep, CapsStep, CheckpointsStep DEF LedgerInv

(* A call begins by taking the latest checkpoint, which covers finished rows  *)
(* of the table as it is.                                                     *)
LEMMA CheckpointStep ==
  ASSUME ReaderInv, ReadCheckpoint
  PROVE  ReaderInv'
<1>1. /\ UNCHANGED ledgerVars /\ reservation' = reservation /\ before' = reservation
      /\ seen' = [Unread EXCEPT !.covered = LatestCovered, !.billed = LatestBilled]
      /\ pc' = "validity"
  BY DEF ReadCheckpoint, ledgerVars
<1>2. LedgerInv /\ LedgerTypeOK
  BY DEF ReaderInv, LedgerInv
<1>3. LatestBilled \in Nat /\ LatestCovered \in Nat
  BY <1>2, LatestAreNatural
<1>4. seen' = [covered |-> LatestCovered, billed |-> LatestBilled,
               actual |-> 0, uncertain |-> 0, active |-> 0]
  BY <1>1 DEF Unread
<1>5. LedgerInv'
  BY <1>1, <1>2, LedgerStays
<1>6. ReaderTypeOK'
  <2>1. LedgerTypeOK'
    BY <1>5 DEF LedgerInv
  <2>2. reservation \in Seq(ReservationRow)
    BY <1>2 DEF LedgerTypeOK
  <2>3. QED
    BY <1>1, <1>3, <1>4, <2>1, <2>2 DEF ReaderTypeOK
<1>7. Kept'
  <2>1. LatestCovered \in 0..Len(reservation) /\ FinishedThrough(LatestCovered)
    BY <1>2, LatestIsValid
  <2>2. Len(reservation) \in Nat
    BY <1>2, TableAfterStep
  <2>3. seen'.covered = LatestCovered
    BY <1>4
  <2>4. QED
    BY <1>1, <2>1, <2>2, <2>3 DEF Kept, FinishedThrough, Rowids
<1>8. QED
  BY <1>1, <1>5, <1>6, <1>7 DEF ReaderInv, ReaderIsNotRefused

(* The coverage that was taken is still one of finished rows, and the call    *)
(* goes on.                                                                   *)
LEMMA ValidityStep ==
  ASSUME ReaderInv, ReadValidity
  PROVE  ReaderInv'
<1>1. /\ UNCHANGED ledgerVars /\ UNCHANGED <<seen, before>> /\ pc = "validity"
      /\ pc' = IF FinishedThrough(seen.covered) THEN "actual" ELSE "raised"
  BY DEF ReadValidity
<1>2. Kept
  BY <1>1 DEF ReaderInv
<1>3. pc' = "actual"
  BY <1>1, <1>2 DEF Kept
<1>4. LedgerInv'
  BY <1>1, LedgerStays DEF ReaderInv
<1>5. ReaderTypeOK'
  BY <1>1, <1>3, <1>4 DEF ReaderInv, ReaderTypeOK, LedgerInv
<1>6. Kept'
  BY <1>1, <1>2, ColumnsStay
<1>7. QED
  BY <1>3, <1>4, <1>5, <1>6 DEF ReaderInv, ReaderIsNotRefused

(* The sum of the published costs.                                            *)
LEMMA ActualStep ==
  ASSUME ReaderInv, ReadActual
  PROVE  ReaderInv'
<1>1. /\ UNCHANGED ledgerVars /\ UNCHANGED before /\ pc = "actual" /\ pc' = "uncertain"
      /\ seen' = [seen EXCEPT !.actual = Total(ReconciledColumn)]
  BY QueriesReadColumns DEF ReadActual
<1>2. Kept /\ LedgerInv /\ LedgerTypeOK /\ ReaderTypeOK
  BY <1>1 DEF ReaderInv, LedgerInv
<1>3. Total(ReconciledColumn) \in Nat /\ Total(WasReconciled) <= Total(ReconciledColumn)
  BY <1>2, TotalsAreNatural, FormerWithinPresent
<1>4. /\ seen \in [covered : Nat, billed : Nat, actual : Nat, uncertain : Nat, active : Nat]
      /\ seen'.actual = Total(ReconciledColumn) /\ seen'.covered = seen.covered
  BY <1>1, <1>2 DEF ReaderTypeOK
<1>5. LedgerInv'
  BY <1>1, <1>2, LedgerStays
<1>6. ReaderTypeOK'
  <2>1. seen' \in [covered : Nat, billed : Nat, actual : Nat, uncertain : Nat, active : Nat]
    BY <1>1, <1>3, <1>4
  <2>2. QED
    BY <1>1, <1>2, <1>5, <2>1 DEF ReaderTypeOK, LedgerInv
<1>7. Kept' /\ ActualRead'
  BY <1>1, <1>2, <1>3, <1>4, ColumnsStay DEF ActualRead
<1>8. QED
  BY <1>1, <1>5, <1>6, <1>7 DEF ReaderInv, ReaderIsNotRefused

(* The sum of the uncertain costs.                                            *)
LEMMA UncertainStep ==
  ASSUME ReaderInv, ReadUncertain
  PROVE  ReaderInv'
<1>1. /\ UNCHANGED ledgerVars /\ UNCHANGED before /\ pc = "uncertain" /\ pc' = "active"
      /\ seen' = [seen EXCEPT !.uncertain = Total(UncertainColumn)]
  BY QueriesReadColumns DEF ReadUncertain
<1>2. Kept /\ LedgerInv /\ LedgerTypeOK /\ ReaderTypeOK /\ ActualRead
  BY <1>1 DEF ReaderInv, LedgerInv
<1>3. Total(UncertainColumn) \in Nat /\ Total(WasUncertain) <= Total(UncertainColumn)
  BY <1>2, TotalsAreNatural, FormerWithinPresent
<1>4. /\ seen \in [covered : Nat, billed : Nat, actual : Nat, uncertain : Nat, active : Nat]
      /\ seen'.uncertain = Total(UncertainColumn) /\ seen'.covered = seen.covered
      /\ seen'.actual = seen.actual
  BY <1>1, <1>2 DEF ReaderTypeOK
<1>5. LedgerInv'
  BY <1>1, <1>2, LedgerStays
<1>6. ReaderTypeOK'
  <2>1. seen' \in [covered : Nat, billed : Nat, actual : Nat, uncertain : Nat, active : Nat]
    BY <1>1, <1>3, <1>4
  <2>2. QED
    BY <1>1, <1>2, <1>5, <2>1 DEF ReaderTypeOK, LedgerInv
<1>7. Kept' /\ ActualRead' /\ UncertainRead'
  BY <1>1, <1>2, <1>3, <1>4, ColumnsStay DEF ActualRead, UncertainRead
<1>8. QED
  BY <1>1, <1>5, <1>6, <1>7 DEF ReaderInv, ReaderIsNotRefused

(* The sum of the reservations still active completes the answer: the rows    *)
(* summed before are in other states now, so the three sums are disjoint.     *)
LEMMA ActiveStep ==
  ASSUME ReaderInv, ReadActive
  PROVE  ReaderInv'
<1>1. /\ UNCHANGED ledgerVars /\ UNCHANGED before /\ pc = "active" /\ pc' = "told"
      /\ seen' = [seen EXCEPT !.active = Total(ActiveColumn)]
  BY QueriesReadColumns DEF ReadActive
<1>2. Kept /\ LedgerInv /\ LedgerTypeOK /\ RowsOK /\ ReaderTypeOK /\ ActualRead /\ UncertainRead
  BY <1>1 DEF ReaderInv, LedgerInv
<1>3. /\ Total(ActiveColumn) \in Nat /\ Total(ReconciledColumn) \in Nat
      /\ Total(UncertainColumn) \in Nat /\ Total(ReservedColumn) \in Nat
      /\ Total(StillActive) <= Total(ActiveColumn)
  BY <1>2, TotalsAreNatural, FormerWithinPresent
<1>4. /\ seen \in [covered : Nat, billed : Nat, actual : Nat, uncertain : Nat, active : Nat]
      /\ seen'.active = Total(ActiveColumn) /\ seen'.covered = seen.covered
      /\ seen'.actual = seen.actual /\ seen'.uncertain = seen.uncertain
      /\ seen.actual \in Nat /\ seen.uncertain \in Nat
  BY <1>1, <1>2 DEF ReaderTypeOK
<1>5. LedgerInv'
  BY <1>1, <1>2, LedgerStays
<1>6. ReaderTypeOK'
  <2>1. seen' \in [covered : Nat, billed : Nat, actual : Nat, uncertain : Nat, active : Nat]
    BY <1>1, <1>3, <1>4
  <2>2. QED
    BY <1>1, <1>2, <1>5, <2>1 DEF ReaderTypeOK, LedgerInv
<1>7. seen.actual + seen.uncertain + Total(ActiveColumn) <= Total(ReservedColumn)
  <2>1. Total(ReconciledColumn) + Total(UncertainColumn) + Total(ActiveColumn)
          <= Total(ReservedColumn)
    BY <1>2, StatesAreDisjoint
  <2>2. seen.actual <= Total(ReconciledColumn) /\ seen.uncertain <= Total(UncertainColumn)
    BY <1>2 DEF ActualRead, UncertainRead
  <2>3. QED
    BY <1>3, <1>4, <2>1, <2>2
<1>8. Kept' /\ Answered'
  BY <1>1, <1>2, <1>3, <1>4, <1>7, ColumnsStay DEF ActualRead, UncertainRead, Answered
<1>9. QED
  BY <1>1, <1>5, <1>6, <1>8 DEF ReaderInv, ReaderIsNotRefused

(* The amounts are natural numbers after a step too.                          *)
LEMMA NextAmounts ==
  (LedgerTypeOK /\ ReaderTypeOK =>
     /\ Total(ReconciledColumn) \in Nat /\ Total(UncertainColumn) \in Nat
     /\ Total(ReservedColumn) \in Nat /\ Total(WasReconciled) \in Nat
     /\ Total(WasUncertain) \in Nat /\ Total(StillActive) \in Nat)'
<1>1. LedgerTypeOK /\ ReaderTypeOK =>
        /\ Total(ReconciledColumn) \in Nat /\ Total(UncertainColumn) \in Nat
        /\ Total(ReservedColumn) \in Nat /\ Total(WasReconciled) \in Nat
        /\ Total(WasUncertain) \in Nat /\ Total(StillActive) \in Nat
  BY TotalsAreNatural
<1>2. QED
  BY <1>1, PTL

(* A transaction before, between or after the queries.                        *)
LEMMA WriteStep ==
  ASSUME ReaderInv, [LedgerNext]_ledgerVars, UNCHANGED <<pc, seen, before>>
  PROVE  ReaderInv'
<1>1. LedgerInv /\ LedgerTypeOK /\ ReaderTypeOK
  BY DEF ReaderInv, LedgerInv
<1>2. LedgerInv' /\ LedgerTypeOK'
  BY <1>1, TypeStep, RowsStep, CapsStep, CheckpointsStep DEF LedgerInv
<1>3. ReaderTypeOK'
  BY <1>1, <1>2 DEF ReaderTypeOK
<1>4. CASE pc = "idle"
  BY <1>2, <1>3, <1>4 DEF ReaderInv, ReaderIsNotRefused
<1>5. CASE pc # "idle"
  <2>1. Kept
    BY <1>5 DEF ReaderInv
  <2>2. Kept'
    BY <1>1, <2>1, KeptStep
  <2>3. /\ Total(ReconciledColumn) <= Total(ReconciledColumn)'
        /\ Total(UncertainColumn) <= Total(UncertainColumn)'
        /\ Total(ReservedColumn) <= Total(ReservedColumn)'
        /\ Total(WasReconciled)' <= Total(WasReconciled)
        /\ Total(WasUncertain)' <= Total(WasUncertain)
        /\ Total(StillActive)' <= Total(StillActive)
    BY <1>1, <1>2, <1>3, <2>1, ColumnsStep
  <2>4. /\ Total(ReconciledColumn) \in Nat /\ Total(UncertainColumn) \in Nat
        /\ Total(ReservedColumn) \in Nat /\ Total(WasReconciled) \in Nat
        /\ Total(WasUncertain) \in Nat /\ Total(StillActive) \in Nat
    BY <1>1, TotalsAreNatural
  <2>5. /\ Total(ReconciledColumn)' \in Nat /\ Total(UncertainColumn)' \in Nat
        /\ Total(ReservedColumn)' \in Nat /\ Total(WasReconciled)' \in Nat
        /\ Total(WasUncertain)' \in Nat /\ Total(StillActive)' \in Nat
    BY <1>2, <1>3, NextAmounts
  <2>6. seen.actual \in Nat /\ seen.uncertain \in Nat /\ seen.active \in Nat
    BY <1>1, ReaderRows
  <2>7. ActualRead => ActualRead'
    BY <2>3, <2>4, <2>5, <2>6 DEF ActualRead
  <2>8. UncertainRead => UncertainRead'
    BY <2>3, <2>4, <2>5, <2>6 DEF UncertainRead
  <2>9. Answered => Answered'
    BY <2>3, <2>4, <2>5, <2>6 DEF Answered
  <2>10. QED
    BY <1>2, <1>3, <2>2, <2>7, <2>8, <2>9 DEF ReaderInv, ReaderIsNotRefused
<1>6. QED
  BY <1>4, <1>5

-----------------------------------------------------------------------------
(* A call of the reader. *)

(* Every step of a reader keeps the invariant.                                *)
LEMMA ReaderStep ==
  ASSUME ReaderInv, [Next]_vars
  PROVE  ReaderInv'
<1>1. CASE ReadCheckpoint
  BY <1>1, CheckpointStep
<1>2. CASE ReadValidity
  BY <1>2, ValidityStep
<1>3. CASE ReadActual
  BY <1>3, ActualStep
<1>4. CASE ReadUncertain
  BY <1>4, UncertainStep
<1>5. CASE ReadActive
  BY <1>5, ActiveStep
<1>6. CASE Return
  <2>1. /\ UNCHANGED ledgerVars /\ pc' = "idle" /\ before' = <<>>
        /\ seen' = [covered |-> 0, billed |-> 0, actual |-> 0, uncertain |-> 0, active |-> 0]
    BY <1>6 DEF Return, Unread
  <2>2. LedgerInv'
    BY <2>1, LedgerStays DEF ReaderInv
  <2>3. before' \in Seq(ReservationRow)
    BY <2>1
  <2>4. ReaderTypeOK'
    BY <2>1, <2>2, <2>3 DEF ReaderTypeOK, LedgerInv
  <2>5. QED
    BY <2>1, <2>2, <2>4 DEF ReaderInv, ReaderIsNotRefused
<1>7. CASE Write
  BY <1>7, WriteStep DEF Write
<1>8. CASE UNCHANGED vars
  BY <1>8, WriteStep DEF vars, ledgerVars
<1>9. QED
  BY <1>1, <1>2, <1>3, <1>4, <1>5, <1>6, <1>7, <1>8 DEF Next

(* A reader's steps are steps of the ledger or leave it alone.                *)
LEMMA ReaderLeavesLedger == Spec => LedgerSpec
<1>1. Init => LedgerInit
  BY DEF Init
<1>2. [Next]_vars => [LedgerNext]_ledgerVars
  BY DEF Next, ReadCheckpoint, ReadValidity, ReadActual, ReadUncertain, ReadActive,
         Return, Write, vars, ledgerVars
<1>3. QED
  BY <1>1, <1>2, PTL DEF Spec, LedgerSpec

(* ReaderInv holds in every reachable state.                                  *)
LEMMA ReaderInvariant == Spec => []ReaderInv
<1>1. Init /\ LedgerInv => ReaderInv
  <2> SUFFICES ASSUME Init, LedgerInv PROVE ReaderInv
    OBVIOUS
  <2>1. /\ pc = "idle" /\ before = <<>>
        /\ seen = [covered |-> 0, billed |-> 0, actual |-> 0, uncertain |-> 0, active |-> 0]
    BY DEF Init, Unread
  <2>2. before \in Seq(ReservationRow)
    BY <2>1
  <2>3. QED
    BY <2>1, <2>2 DEF ReaderInv, ReaderTypeOK, ReaderIsNotRefused, LedgerInv
<1>2. ReaderInv /\ [Next]_vars => ReaderInv'
  BY ReaderStep
<1>3. QED
  BY <1>1, <1>2, ReaderLeavesLedger, InvariantHolds, PTL DEF Spec

(* No call of cash_balance() or status() is refused, although the checkpoint  *)
(* it holds may have been replaced when it looks at the covered rows.         *)
THEOREM ReaderNeverRefused == Spec => [](ReaderTypeOK /\ ReaderIsNotRefused)
<1>1. ReaderInv => ReaderTypeOK /\ ReaderIsNotRefused
  BY DEF ReaderInv
<1>2. QED
  BY <1>1, ReaderInvariant, PTL

(* No reservation is counted twice in an answer, however it was settled or    *)
(* covered by a checkpoint between two queries.                               *)
THEOREM AnswerCountsOnce == Spec => []NothingCountedTwice
<1>1. ReaderInv => NothingCountedTwice
  <2> SUFFICES ASSUME ReaderInv, pc = "told"
               PROVE  Told <= seen.billed + SafetyBuffer + Total(ReservedColumn)
    BY DEF NothingCountedTwice, ReservedColumn
  <2>1. ReaderTypeOK /\ LedgerTypeOK /\ Answered
    BY DEF ReaderInv, LedgerInv
  <2>2. /\ seen.billed \in Nat /\ seen.actual \in Nat /\ seen.uncertain \in Nat
        /\ seen.active \in Nat /\ Total(ReservedColumn) \in Nat /\ SafetyBuffer \in Nat
    BY <2>1, ReaderRows, TotalsAreNatural, LedgerConstants
  <2>3. seen.actual + seen.uncertain + seen.active <= Total(ReservedColumn)
    BY <2>1 DEF Answered
  <2>4. QED
    BY <2>2, <2>3 DEF Told
<1>2. QED
  BY <1>1, ReaderInvariant, PTL

(* What an answer misses are reservations that were open when the call began  *)
(* and ended while it was made, and nothing else.                             *)
THEOREM AnswerMissesOnlyEnded == Spec => []OnlyEndedAreMissed
<1> DEFINE counted(k) ==
      CASE before[k].state = "reconciled" -> before[k].actual
        [] before[k].state = "uncertain" -> before[k].uncertain
        [] before[k].state = "active" ->
             IF reservation[k].state = "active" THEN before[k].reserved ELSE 0
    column == [k \in Rowids |-> IF k \in DOMAIN before /\ k > seen.covered THEN counted(k) ELSE 0]
<1>1. ReaderInv => OnlyEndedAreMissed
  <2> SUFFICES ASSUME ReaderInv, pc = "told"
               PROVE  Told >= seen.billed + Total(column) + SafetyBuffer
    BY DEF OnlyEndedAreMissed
  <2> DEFINE n == Len(reservation)
             r == WasReconciled
             u == WasUncertain
             a == StillActive
  <2>1. ReaderTypeOK /\ LedgerTypeOK /\ Answered
    BY DEF ReaderInv, LedgerInv
  <2>2. r \in [1..n -> Nat] /\ u \in [1..n -> Nat] /\ a \in [1..n -> Nat] /\ n \in Nat
    BY <2>1, FormerColumns, ReaderRows
  <2>3. ASSUME NEW k \in 1..n PROVE column[k] = r[k] + u[k] + a[k]
    <3>0. k \in Rowids
      BY DEF Rowids
    <3>1. /\ r[k] = IF Was(k, "reconciled") THEN before[k].actual ELSE 0
          /\ u[k] = IF Was(k, "uncertain") THEN before[k].uncertain ELSE 0
          /\ a[k] = IF Was(k, "active") /\ reservation[k].state = "active"
                    THEN before[k].reserved ELSE 0
      BY <3>0 DEF WasReconciled, WasUncertain, StillActive
    <3>2. column[k] = IF k \in DOMAIN before /\ k > seen.covered THEN counted(k) ELSE 0
      BY <3>0
    <3> HIDE DEF r, u, a, column
    <3>3. CASE ~ (k \in DOMAIN before /\ k > seen.covered)
      BY <3>1, <3>2, <3>3 DEF Was
    <3>4. CASE k \in DOMAIN before /\ k > seen.covered
      <4>1. /\ before[k].actual \in Nat /\ before[k].uncertain \in Nat
            /\ before[k].reserved \in Nat
            /\ before[k].state \in {"active", "reconciled", "uncertain"}
        BY <2>1, <3>4, ReaderRows
      <4>2. \A s : Was(k, s) <=> before[k].state = s
        BY <3>4 DEF Was
      <4>3. CASE before[k].state = "reconciled"
        BY <3>1, <3>2, <3>4, <4>1, <4>2, <4>3
      <4>4. CASE before[k].state = "uncertain"
        BY <3>1, <3>2, <3>4, <4>1, <4>2, <4>4
      <4>5. CASE before[k].state = "active"
        BY <3>1, <3>2, <3>4, <4>1, <4>2, <4>5
      <4>6. QED
        BY <4>1, <4>3, <4>4, <4>5
    <3>5. QED
      BY <3>3, <3>4
  <2>4. column = [k \in 1..n |-> r[k] + u[k] + a[k]]
    <3>1. column = [k \in 1..n |-> column[k]]
      <4> HIDE DEF counted
      <4>1. QED
        BY DEF Rowids
    <3> HIDE DEF r, u, a, column
    <3>2. QED
      BY <2>3, <3>1
  <2> HIDE DEF r, u, a, n, column
  <2>5. RunningSum(column)[n] = RunningSum(r)[n] + RunningSum(u)[n] + RunningSum(a)[n]
    BY <2>2, <2>4, SumOfThree
  <2>6. Total(column) = Total(WasReconciled) + Total(WasUncertain) + Total(StillActive)
    BY <2>5 DEF Total, n, r, u, a
  <2>7. /\ Total(WasReconciled) <= seen.actual /\ Total(WasUncertain) <= seen.uncertain
        /\ Total(StillActive) <= seen.active
    BY <2>1 DEF Answered
  <2>8. /\ seen.billed \in Nat /\ seen.actual \in Nat /\ seen.uncertain \in Nat
        /\ seen.active \in Nat /\ SafetyBuffer \in Nat
        /\ Total(WasReconciled) \in Nat /\ Total(WasUncertain) \in Nat
        /\ Total(StillActive) \in Nat
    BY <2>1, ReaderRows, TotalsAreNatural, LedgerConstants
  <2>9. QED
    BY <2>6, <2>7, <2>8 DEF Told
<1>2. QED
  BY <1>1, ReaderInvariant, PTL

(* What a run checks of one reader among few reservations, for every reader,  *)
(* policy and table.                                                          *)
THEOREM BalanceIsSound == Spec => []BalanceMissesOnlyEnded
BY ReaderNeverRefused, AnswerCountsOnce, AnswerMissesOnlyEnded, PTL DEF BalanceMissesOnlyEnded

=============================================================================
