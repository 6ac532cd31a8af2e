---------------------------- MODULE Phase4EndProofs ----------------------------
(***************************************************************************)
(* validate() never raises: whatever a request turns out to cost and to    *)
(* bring, the checks made before it left room for it.  The invariant says  *)
(* how much room each row and each process still has.                      *)
(*                                                                         *)
(* How a run ends: no reservation of it is left held, and its results say  *)
(* what its database says, though the process that decided to end may have *)
(* died and others decided again.  A decision is made from the stored run, *)
(* the ledger and the cache, so it is repeated unless another run changed  *)
(* one of the shared two: what is excluded of that is stated as Unshared   *)
(* and Alone.                                                              *)
(***************************************************************************)
EXTENDS Phase4RunProofs

-----------------------------------------------------------------------------
(* The room below the caps: the invariant. *)

(* There is room for n more items and evaluations. *)
Fits(d, n) == d.budget.items + n <= ItemCap /\ d.budget.oracle + n <= OracleCap

(* The stored counters that no sum over the rows bounds. *)
CountersBounded(d) ==
  /\ d.budget.tokens <= TokenCap /\ Fits(d, 0)
  /\ d.budget.provider + d.budget.hits = d.budget.attempts

(* The last row: room for its batch until it is answered and for the rest of *)
(* its items afterwards.  No row is made before the baselines are charged.   *)
RowRoom(d) ==
  /\ LastIn(d, {"pending", "dispatched", "schema-failure", "failed"}) =>
       Fits(d, LastRow(d).batch)
  /\ LastIn(d, {"responded"}) => Fits(d, LastRow(d).item_count - LastRow(d).next_item)
  /\ Size(d) > 0 => d.evaluations >= InitialCandidates

(* An answer from the cache costs nothing. *)
HitsFree(d) ==
  \A i \in 1..Size(d) :
    d.requests[i].cache_hit => d.requests[i].actual = 0 /\ d.requests[i].uncertain = 0

(* An answer has at most as many items as were requested: in the cache, in   *)
(* the files and in memory.                                                  *)
CacheSized(h) ==
  \A s \in Runs, l \in 0..ModelRequestCap, b \in 0..BatchSize :
    h[RequestHash[s, l, b]] # Nothing => Len(h[RequestHash[s, l, b]].items) <= b

FileSized(d, f) ==
  Waiting(d) /\ Size(d) \in DOMAIN f.answers =>
    Len(f.answers[Size(d)].items) <= LastRow(d).batch

(* The process has room for what it is about to ask for, and its counters    *)
(* are the stored ones but for the logical call and the answer in hand.      *)
LikeStored(b, d) == \E n \in Nat : b = [d.budget EXCEPT !.logical = n]

ProcRoom(d, p) ==
  /\ p.pc \in Asking => Fits(d, p.batch)
  /\ p.pc \in Answering => Len(p.answer.items) <= LastRow(d).batch
  /\ p.pc \in Begun \ {"initialize"} => d.evaluations >= InitialCandidates
  /\ IF p.pc \in {"none", "open"} THEN p.budget = EmptyBudget
     ELSE p.pc \notin {"store", "commit"} => LikeStored(p.budget, d)

RunRoom(d, f, p) ==
  CountersBounded(d) /\ RowRoom(d) /\ HitsFree(d) /\ FileSized(d, f) /\ ProcRoom(d, p)

RoomInv == CacheSized(cache) /\ \A r \in Runs : RunRoom(db[r], files[r], proc[r])

(* A reservation belongs to the run that its identity names. *)
OwnReservations ==
  \A k \in 1..Len(reservation) : \A r, i, h :
    reservation[k].reservation_id = <<r, i, h>> => reservation[k].run_id = r
-----------------------------------------------------------------------------
(* The money. *)

(* Amounts of which each is zero or within a reservation of its own stay     *)
(* together within the cap of the run.                                       *)
LEMMA WithinCap ==
  ASSUME LedgerInv, OwnReservations, NEW r \in Runs, NEW m \in Nat, NEW v \in [1..m -> Nat], NEW h,
         \A i \in 1..m : v[i] # 0 => \E k \in RowsWith(reservation, <<r, i, h[i]>>) :
                                        v[i] <= Exposure(reservation[k])
  PROVE  RunningSum(v)[m] <= ChildCap[r]
<1> DEFINE n == Len(reservation)
           w == ExposureColumn(ChildScope(r))
           x == [k \in 1..(n + m) |-> IF k \in 1..n THEN w[k] ELSE 0]
           place(i) == RowsWith(reservation, <<r, i, h[i]>>)
           f == [i \in 1..m |-> IF v[i] = 0 THEN n + i
                                ELSE CHOOSE k \in place(i) : v[i] <= Exposure(reservation[k])]
<1>1. n \in Nat /\ \A k \in 1..n : reservation[k] \in ReservationRow
  BY DEF LedgerInv, LedgerTypeOK
<1>2. w \in [1..n -> Nat]
  <2>1. \A k \in 1..n : Exposure(reservation[k]) \in Nat
    BY <1>1 DEF ReservationRow, Exposure
  <2>2. QED
    BY <2>1 DEF ExposureColumn, Rowids
<1>3. ASSUME NEW i \in 1..m, v[i] # 0
      PROVE  /\ f[i] \in 1..n /\ reservation[f[i]].reservation_id = <<r, i, h[i]>>
             /\ v[i] <= w[f[i]]
  <2>1. \E k \in place(i) : v[i] <= Exposure(reservation[k])
    BY <1>3
  <2> HIDE DEF place
  <2>2. f[i] \in place(i) /\ v[i] <= Exposure(reservation[f[i]])
    BY <1>3, <2>1
  <2> HIDE DEF f
  <2>3. f[i] \in 1..n /\ reservation[f[i]].reservation_id = <<r, i, h[i]>>
    BY <2>2 DEF place, RowsWith
  <2>4. reservation[f[i]].run_id = r
    BY <2>3 DEF OwnReservations
  <2>5. <<reservation[f[i]].run_id, reservation[f[i]].stage>> \in ChildScope(r)
    BY <1>1, <2>3, <2>4 DEF ChildScope, ReservationRow
  <2>6. w[f[i]] = Exposure(reservation[f[i]])
    BY <2>3, <2>5 DEF ExposureColumn, Rowids
  <2>7. QED
    BY <2>2, <2>3, <2>6
<1> HIDE DEF w, place
<1>4. \A i \in 1..m : v[i] = 0 => f[i] = n + i
  OBVIOUS
<1> HIDE DEF f
<1>5. \A i \in 1..m : f[i] \in 1..(n + m)
  BY <1>1, <1>3, <1>4
<1>6. f = [i \in 1..m |-> f[i]]
  BY DEF f
<1>7. f \in [1..m -> 1..(n + m)]
  BY <1>5, <1>6
<1>8. \A i, j \in 1..m : f[i] = f[j] => i = j
  <2> SUFFICES ASSUME NEW i \in 1..m, NEW j \in 1..m, f[i] = f[j] PROVE i = j
    OBVIOUS
  <2>1. CASE v[i] # 0 /\ v[j] # 0
    <3>1. <<r, i, h[i]>> = <<r, j, h[j]>>
      BY <1>3, <2>1
    <3>2. QED
      BY <3>1
  <2>2. CASE v[i] = 0 \/ v[j] = 0
    BY <1>1, <1>3, <1>4, <2>2
  <2>3. QED
    BY <2>1, <2>2
<1>9. x \in [1..(n + m) -> Nat] /\ \A i \in 1..m : v[i] <= x[f[i]]
  <2>1. x \in [1..(n + m) -> Nat]
    BY <1>2
  <2>2. ASSUME NEW i \in 1..m PROVE v[i] <= x[f[i]]
    <3>1. CASE v[i] = 0
      BY <1>5, <2>1, <3>1
    <3>2. CASE v[i] # 0
      BY <1>1, <1>3, <1>5, <3>2
    <3>3. QED
      BY <3>1, <3>2
  <2>3. QED
    BY <2>1, <2>2
<1>10. n + m \in Nat
  BY <1>1
<1>11. \A k \in 1..n : x[k] = w[k]
  BY <1>1
<1>12. \A k \in 1..(n + m) : k > n => x[k] = 0
  BY <1>1
<1> HIDE DEF x
<1>13. RunningSum(v)[m] <= RunningSum(x)[n + m]
  BY <1>7, <1>8, <1>9, <1>10, SumInjection
<1>14. x \in [1..(n + m) -> Int] /\ w \in [1..n -> Int]
  BY <1>2, <1>9
<1>15. /\ IsColumn(x) /\ \A k \in 1..(n + m) : ValueAt(x, k) = x[k]
       /\ \A k \in Nat : k \notin 1..(n + m) => ValueAt(x, k) = 0
  BY <1>10, <1>14, TableIsColumn
<1>16. IsColumn(w) /\ \A k \in 1..n : ValueAt(w, k) = w[k]
  BY <1>1, <1>14, TableIsColumn
<1>17. RunningSum(x)[n + m] = RunningSum(x)[n]
  <2>1. \A k \in Nat : k > n => ValueAt(x, k) = 0
    BY <1>1, <1>12, <1>15
  <2>2. \A j \in Nat : j >= n => RunningSum(x)[j] = RunningSum(x)[n]
    BY <1>1, <1>15, <2>1, SumConstantAfter
  <2>3. QED
    BY <1>1, <1>10, <2>2
<1>18. RunningSum(x)[n] = RunningSum(w)[n]
  <2>1. \A k \in 1..n : ValueAt(x, k) = ValueAt(w, k)
    BY <1>1, <1>11, <1>15, <1>16
  <2>2. \A j \in Nat : j <= n => RunningSum(x)[j] = RunningSum(w)[j]
    BY <1>1, <1>15, <1>16, <2>1, SumAgree
  <2>3. QED
    BY <1>1, <2>2
<1>19. RunningSum(w)[n] <= ChildCap[r] /\ ChildCap[r] \in Nat
  <2>1. Committed(ChildScope(r)) <= ChildCap[r]
    BY DEF LedgerInv, CapsRespected
  <2>2. ChildCap[r] \in Nat
    BY LedgerConstants
  <2>3. QED
    BY <2>1, <2>2 DEF Committed, Total, w
<1>20. RunningSum(w)[n] \in Int /\ RunningSum(v)[m] \in Int
  <2>1. v \in [1..m -> Int]
    OBVIOUS
  <2>2. IsColumn(v)
    BY <2>1, TableIsColumn
  <2>3. QED
    BY <1>1, <1>16, <2>2, RunningSumDef
<1>21. QED
  BY <1>13, <1>17, <1>18, <1>19, <1>20

(* A reservation names the run that made it.                                 *)
LEMMA OwnNext ==
  ASSUME Phase4Inv, MoneyInv, LedgerTypeOK, OwnReservations, [Next]_vars
  PROVE  OwnReservations'
<1>1. reservation \in Seq(ReservationRow) /\ Len(reservation) \in Nat /\ AmountsFit(reservation)
  BY DEF LedgerTypeOK, MoneyInv
<1>2. CASE UNCHANGED reservation
  BY <1>2 DEF OwnReservations
<1>3. ASSUME NEW r \in Runs, ReserveCost(r)
      PROVE  OwnReservations'
  <2> DEFINE q == ReservationRequest(r)
             n == Len(reservation)
  <2>1. reservation' = Append(reservation, NewRow(q)) \/ UNCHANGED reservation
    BY <1>3 DEF ReserveCost, Reserve
  <2>2. CASE reservation' = Append(reservation, NewRow(q))
    <3>1. /\ Len(reservation') = n + 1 /\ reservation'[n + 1] = NewRow(q)
          /\ \A k \in 1..n : reservation'[k] = reservation[k]
      BY <1>1, <2>2
    <3>2. NewRow(q).run_id = r /\ NewRow(q).reservation_id =
            <<r, Index(r) + 1, RequestHash[r, proc[r].logical, proc[r].batch]>>
      BY DEF NewRow, ReservationRequest, NextHash, ReservationId
    <3>3. \A k \in 1..Len(reservation') : k \in 1..n \/ k = n + 1
      BY <1>1, <3>1
    <3> HIDE DEF q
    <3>4. ASSUME NEW k \in 1..Len(reservation'), NEW s, NEW i, NEW h,
                 reservation'[k].reservation_id = <<s, i, h>>
          PROVE  reservation'[k].run_id = s
      <4>1. CASE k \in 1..n
        BY <3>1, <3>4, <4>1 DEF OwnReservations
      <4>2. CASE k = n + 1
        <5>1. <<r, Index(r) + 1, RequestHash[r, proc[r].logical, proc[r].batch]>> = <<s, i, h>>
          BY <3>1, <3>2, <3>4, <4>2
        <5>2. r = s
          BY <5>1
        <5>3. QED
          BY <3>1, <3>2, <4>2, <5>2
      <4>3. QED
        BY <3>3, <4>1, <4>2
    <3>5. QED
      BY <3>4 DEF OwnReservations
  <2>3. QED
    BY <1>2, <2>1, <2>2
<1>4. ASSUME NEW r \in Runs, Settle(r)
      PROVE  OwnReservations'
  <2> DEFINE a == proc[r].answer
  <2>1. SettleLedger(r, a) /\ proc[r].pc = "settle"
    BY <1>4 DEF Settle, At
  <2>2. CASE ~ Paid(r)
    <3>1. UNCHANGED reservation
      BY <2>1, <2>2 DEF SettleLedger, ledgerVars
    <3>2. QED
      BY <1>2, <3>1
  <2>3. CASE Paid(r)
    <3>1. a \in Answers
      <4>1. proc[r] \in Process /\ AnsweringFits(db[r], files[r], proc[r])
        BY <2>1, AtWork DEF PlaceFits, Answering
      <4>2. QED
        BY <4>1 DEF AnsweringFits, Process
    <3> HIDE DEF a
    <3>2. PICK k \in RowsWith(reservation, <<r, Index(r), Row(r).hash>>) :
           /\ Len(reservation') = Len(reservation)
           /\ \A l \in 1..Len(reservation) : l # k => reservation'[l] = reservation[l]
           /\ reservation'[k].reservation_id = reservation[k].reservation_id
           /\ reservation'[k].run_id = reservation[k].run_id
      BY <1>1, <2>1, <2>3, <3>1, SettleTable
    <3>3. \A l \in 1..Len(reservation) :
            /\ reservation'[l].reservation_id = reservation[l].reservation_id
            /\ reservation'[l].run_id = reservation[l].run_id
      BY <3>2
    <3>4. QED
      BY <3>2, <3>3 DEF OwnReservations
  <2>4. QED
    BY <2>2, <2>3
<1>5. ASSUME NEW r \in Runs, Step(r), ~ ReserveCost(r), ~ Settle(r)
      PROVE  UNCHANGED reservation
  BY <1>5
  DEF Step, Open, Initialize, Item, Initialized, Recover, Interrupt, Stop, GiveUp,
      Gate, NextCall, Attempt, RefuseCost, Prepare, NextHash, Send, Provider, Record,
      Store, Commit, Complete, WriteReport, WriteAccessLedger, WriteResults, Close, ledgerVars
<1>6. ASSUME NEW r \in Runs,
             Start(r) \/ Crash(r) \/ Raise(r) \/ \E online \in BOOLEAN : Resume(r, online)
      PROVE  UNCHANGED reservation
  BY <1>6 DEF Start, Crash, Raise, Resume, ledgerVars
<1>7. CASE UNCHANGED vars
  BY <1>2, <1>7 DEF vars
<1>8. ASSUME NEW r \in Runs, Step(r)
      PROVE  OwnReservations'
  BY <1>2, <1>3, <1>4, <1>5, <1>8
<1>9. QED
  BY <1>2, <1>6, <1>7, <1>8 DEF Next

(* What the rows of a run say that it cost, and what they will say when the  *)
(* answer in hand is stored, is within the cap of the run.                   *)
RowCost(d) == [i \in 1..Size(d) |-> d.requests[i].actual + d.requests[i].uncertain]

AnswerCostOf(d, answer) ==
  (IF ~ LastRow(d).cache_hit /\ IsResponse(answer) THEN CostOf[answer.usage] ELSE 0)
    + (IF ~ LastRow(d).cache_hit /\ answer.kind = "uncertain" THEN MaxCost ELSE 0)

(* A row that cost something stands in the ledger with that cost.            *)
LEMMA CostReserved ==
  ASSUME Phase4Inv, MoneyInv, CountInv, NEW r \in Runs, HitsFree(db[r]),
         NEW i \in 1..Size(db[r]), RowCost(db[r])[i] # 0
  PROVE  \E k \in RowsWith(reservation, <<r, i, db[r].requests[i].hash>>) :
           RowCost(db[r])[i] <= Exposure(reservation[k])
<1> DEFINE d == db[r]
           row == d.requests[i]
<1>1. /\ d \in Database /\ RowsFit(r, d, cache) /\ Size(d) \in Nat /\ WaitingFree(d)
      /\ RowsPaid(r, d, reservation)
  BY AtWork, MoneyOf DEF CountInv
<1>2. row \in RequestRow
  BY <1>1 DEF Database, Size
<1>3. row.actual \in Nat /\ row.uncertain \in Nat
  BY <1>2 DEF RequestRow
<1>4. ~ row.cache_hit
  BY <1>3 DEF HitsFree, RowCost
<1>5. row.state \in Finalized
  <2>1. CASE i = Size(d)
    <3>1. row = LastRow(d)
      BY <2>1 DEF LastRow
    <3>2. ~ Waiting(d)
      <4>1. RowCost(d)[i] = row.actual + row.uncertain
        BY DEF RowCost
      <4>2. row.actual # 0 \/ row.uncertain # 0
        BY <1>3, <4>1
      <4>3. QED
        BY <1>1, <3>1, <4>2 DEF WaitingFree
    <3>3. row.state \notin {"pending", "dispatched"}
      BY <1>1, <2>1, <3>1, <3>2 DEF Waiting, LastIn
    <3>4. QED
      BY <1>2, <3>3 DEF RequestRow
  <2>2. CASE i # Size(d)
    <3>1. i + 1 \in 2..Size(d) /\ (i + 1) - 1 = i
      BY <1>1, <2>2
    <3>2. Follows(d.requests[(i + 1) - 1], d.requests[i + 1])
      BY <1>1, <3>1 DEF RowsFit
    <3>3. QED
      BY <3>1, <3>2 DEF Follows, Finalized
  <2>3. QED
    BY <2>1, <2>2
<1>6. PICK k \in RowsWith(reservation, <<r, i, row.hash>>) : Agrees(reservation[k], row)
  BY <1>1, <1>4 DEF RowsPaid
<1>7. /\ reservation[k].actual = row.actual /\ reservation[k].uncertain = row.uncertain
      /\ reservation[k].state # "active"
  BY <1>5, <1>6 DEF Agrees
<1>8. Exposure(reservation[k]) = RowCost(d)[i]
  BY <1>3, <1>7 DEF Exposure, RowCost
<1>9. RowCost(d)[i] \in Nat
  BY <1>3 DEF RowCost
<1>10. QED
  BY <1>6, <1>8, <1>9

(* The counters of the money are the cost of the rows. *)
LEMMA CostIsSum ==
  ASSUME Phase4Inv, CountInv, NEW r \in Runs
  PROVE  /\ RowCost(db[r]) \in [1..Size(db[r]) -> Nat]
         /\ RunningSum(RowCost(db[r]))[Size(db[r])] = db[r].budget.actual + db[r].budget.uncertain
<1> DEFINE d == db[r]
           n == Size(d)
           u == RowCost(d)
           v == ActualOf(d)
           w == UncertainOf(d)
<1>1. n \in Nat /\ d.requests \in Seq(RequestRow) /\ \A k \in 1..n : d.requests[k] \in RequestRow
  <2>1. d.requests \in Seq(RequestRow)
    BY AtWork DEF Database
  <2>2. QED
    BY <2>1, TallyTypes
<1>2. v \in [1..n -> Int] /\ w \in [1..n -> Int]
  BY <1>1, TallyTypes
<1>3. u \in [1..n -> Nat]
  <2>1. \A k \in 1..n : d.requests[k].actual \in Nat /\ d.requests[k].uncertain \in Nat
    BY <1>1 DEF RequestRow
  <2>2. QED
    BY <2>1 DEF RowCost
<1>4. \A k \in 1..n : u[k] = v[k] + w[k]
  BY DEF RowCost, ActualOf, UncertainOf
<1> HIDE DEF n, u, v, w
<1>5. u \in [1..n -> Int]
  BY <1>3
<1>6. /\ IsColumn(u) /\ IsColumn(v) /\ IsColumn(w)
      /\ \A k \in 1..n : ValueAt(u, k) = u[k] /\ ValueAt(v, k) = v[k] /\ ValueAt(w, k) = w[k]
      /\ \A k \in Nat : k \notin 1..n => ValueAt(u, k) = 0 /\ ValueAt(v, k) = 0 /\ ValueAt(w, k) = 0
  BY <1>1, <1>2, <1>5, TableIsColumn
<1>7. \A k \in Nat : ValueAt(u, k) = ValueAt(v, k) + ValueAt(w, k)
  <2> SUFFICES ASSUME NEW k \in Nat PROVE ValueAt(u, k) = ValueAt(v, k) + ValueAt(w, k)
    OBVIOUS
  <2>1. CASE k \in 1..n
    BY <1>4, <1>6, <2>1
  <2>2. CASE k \notin 1..n
    BY <1>6, <2>2
  <2>3. QED
    BY <2>1, <2>2
<1>8. RunningSum(u)[n] = RunningSum(v)[n] + RunningSum(w)[n]
  <2>1. \A k \in Nat : RunningSum(u)[k] = RunningSum(v)[k] + RunningSum(w)[k]
    BY <1>6, <1>7, SumAdd
  <2>2. QED
    BY <1>1, <2>1
<1>9. d.budget.actual = RunningSum(v)[n] /\ d.budget.uncertain = RunningSum(w)[n]
  BY DEF CountInv, TallyFits, Sum, v, w, n
<1>10. QED
  BY <1>3, <1>8, <1>9 DEF n, u

(* The stored costs stay within the cap of the run, and so do the costs with *)
(* the answer that was settled but is not stored yet.                        *)
LEMMA CostsFit ==
  ASSUME Phase4Inv, MoneyInv, CountInv, LedgerInv, OwnReservations, NEW r \in Runs,
         HitsFree(db[r])
  PROVE  /\ db[r].budget.actual + db[r].budget.uncertain <= ChildCap[r]
         /\ proc[r].pc \in {"store", "commit"} =>
              db[r].budget.actual + db[r].budget.uncertain + AnswerCostOf(db[r], proc[r].answer)
                <= ChildCap[r]
<1> DEFINE d == db[r]
           n == Size(d)
           u == RowCost(d)
           hash == [i \in 1..n |-> d.requests[i].hash]
<1>1. /\ u \in [1..n -> Nat] /\ n \in Nat
      /\ RunningSum(u)[n] = d.budget.actual + d.budget.uncertain
  BY AtWork, CostIsSum
<1>2. \A i \in 1..n : u[i] # 0 => \E k \in RowsWith(reservation, <<r, i, hash[i]>>) :
                                      u[i] <= Exposure(reservation[k])
  BY CostReserved
<1>3. RunningSum(u)[n] <= ChildCap[r]
  <2> HIDE DEF n, u, hash
  <2>1. QED
    BY <1>1, <1>2, WithinCap
<1>4. ASSUME proc[r].pc \in {"store", "commit"}
      PROVE  d.budget.actual + d.budget.uncertain + AnswerCostOf(d, proc[r].answer) <= ChildCap[r]
  <2> DEFINE a == proc[r].answer
             x == AnswerCostOf(d, a)
             v == [u EXCEPT ![n] = x]
  <2>1. AnsweringFits(d, files[r], proc[r]) /\ proc[r] \in Process
    BY <1>4, AtWork DEF PlaceFits, Answering
  <2>2. a \in Answers /\ Waiting(d) /\ n > 0
    BY <2>1 DEF AnsweringFits, Process, Waiting, LastIn
  <2>3. n \in 1..n
    BY <1>1, <2>2
  <2>4. /\ MaxCost \in Nat /\ (IsResponse(a) => CostOf[a.usage] \in 0..MaxCost)
    BY <2>2, AnswerCost
  <2>5. x \in Nat
    BY <2>4 DEF AnswerCostOf
  <2>6. u[n] = 0
    <3>1. LastRow(d).actual = 0 /\ LastRow(d).uncertain = 0
      BY <2>2 DEF CountInv, WaitingFree
    <3>2. QED
      BY <2>3, <3>1 DEF RowCost, LastRow
  <2>7. x # 0 => \E k \in RowsWith(reservation, <<r, n, hash[n]>>) : x <= Exposure(reservation[k])
    <3> SUFFICES ASSUME x # 0
                 PROVE  \E k \in RowsWith(reservation, <<r, n, hash[n]>>) :
                          x <= Exposure(reservation[k])
      OBVIOUS
    <3>1. ~ LastRow(d).cache_hit
      BY DEF AnswerCostOf
    <3>2. hash[n] = LastRow(d).hash
      BY <2>3 DEF LastRow
    <3>3. PICK k \in RowsWith(reservation, <<r, n, hash[n]>>) : SettledAs(reservation[k], a)
      BY <1>4, <3>1, <3>2, MoneyOf DEF AnswerSettled
    <3>4. Exposure(reservation[k]) = x
      BY <2>4, <3>1, <3>3 DEF SettledAs, Exposure, AnswerCostOf
    <3>5. x <= Exposure(reservation[k])
      BY <2>5, <3>4
    <3> HIDE DEF x, n, u, hash, a
    <3>6. QED
      BY <3>2, <3>3, <3>5
  <2> HIDE DEF x, n, u, hash, a
  <2>8. v \in [1..n -> Nat] /\ v[n] = x /\ \A i \in 1..n : i # n => v[i] = u[i]
    BY <1>1, <2>3, <2>5
  <2> HIDE DEF v
  <2>9. \A i \in 1..n : v[i] # 0 => \E k \in RowsWith(reservation, <<r, i, hash[i]>>) :
                                        v[i] <= Exposure(reservation[k])
    <3> SUFFICES ASSUME NEW i \in 1..n, v[i] # 0
                 PROVE  \E k \in RowsWith(reservation, <<r, i, hash[i]>>) :
                          v[i] <= Exposure(reservation[k])
      OBVIOUS
    <3>1. CASE i = n
      BY <2>7, <2>8, <3>1
    <3>2. CASE i # n
      BY <1>2, <2>8, <3>2
    <3>3. QED
      BY <3>1, <3>2
  <2>10. RunningSum(v)[n] <= ChildCap[r]
    BY <1>1, <2>8, <2>9, WithinCap
  <2>11. RunningSum(v)[n] = RunningSum(u)[n] + (v[n] - u[n])
    <3>1. u \in [1..n -> Int] /\ v \in [1..n -> Int]
      BY <1>1, <2>8
    <3>2. QED
      BY <1>1, <2>3, <2>8, <3>1, SumReplace
  <2>12. d.budget.actual \in Nat /\ d.budget.uncertain \in Nat
    <3>1. d.budget \in BudgetState
      BY AtWork DEF Database
    <3>2. QED
      BY <3>1, BudgetType
  <2>13. QED
    BY <1>1, <2>5, <2>6, <2>8, <2>10, <2>11, <2>12 DEF x, a
<1>5. QED
  BY <1>1, <1>3, <1>4
-----------------------------------------------------------------------------
(* Steps of one run. *)

(* The parts of the invariant, for one run. *)
LEMMA RoomOf ==
  ASSUME RoomInv, NEW r \in Runs
  PROVE  /\ CacheSized(cache) /\ CountersBounded(db[r]) /\ RowRoom(db[r]) /\ HitsFree(db[r])
         /\ FileSized(db[r], files[r]) /\ ProcRoom(db[r], proc[r])
BY DEF RoomInv, RunRoom

(* It suffices to look at the run that moved, and at the cache. *)
LEMMA RoomStep ==
  ASSUME RoomInv, NEW r \in Runs, OthersRest(r), CacheSized(cache'),
         RunRoom(db'[r], files'[r], proc'[r])
  PROVE  RoomInv'
<1>1. ASSUME NEW s \in Runs
      PROVE  RunRoom(db'[s], files'[s], proc'[s])
  <2>1. CASE s = r
    BY <2>1
  <2>2. CASE s # r
    BY <2>2 DEF OthersRest, RoomInv
  <2>3. QED
    BY <2>1, <2>2
<1>2. QED
  BY <1>1 DEF RoomInv

(* The invariant speaks of the rows, the counters and the evaluations of a   *)
(* database and of nothing else of it.                                       *)
LEMMA SameRowsRoom ==
  ASSUME NEW r, SameRows(r), CountersBounded(db[r]), RowRoom(db[r]), HitsFree(db[r])
  PROVE  /\ CountersBounded(db'[r]) /\ RowRoom(db'[r]) /\ HitsFree(db'[r])
         /\ LastRow(db'[r]) = LastRow(db[r]) /\ Size(db'[r]) = Size(db[r])
         /\ Waiting(db'[r]) <=> Waiting(db[r])
         /\ \A p : ProcRoom(db[r], p) => ProcRoom(db'[r], p)
<1>1. /\ LastRow(db'[r]) = LastRow(db[r]) /\ Size(db'[r]) = Size(db[r])
      /\ db'[r].requests = db[r].requests /\ db'[r].budget = db[r].budget
      /\ db'[r].evaluations = db[r].evaluations
  BY DEF SameRows, LastRow, Size
<1>2. \A states : LastIn(db'[r], states) <=> LastIn(db[r], states)
  BY <1>1 DEF LastIn
<1>3. \A n : Fits(db'[r], n) <=> Fits(db[r], n)
  BY <1>1 DEF Fits
<1>4. CountersBounded(db'[r])
  BY <1>1, <1>3 DEF CountersBounded
<1>5. RowRoom(db'[r])
  BY <1>1, <1>2, <1>3 DEF RowRoom
<1>6. HitsFree(db'[r])
  BY <1>1 DEF HitsFree
<1>7. \A p : ProcRoom(db[r], p) => ProcRoom(db'[r], p)
  BY <1>1, <1>3 DEF ProcRoom, LikeStored
<1>8. QED
  BY <1>1, <1>2, <1>4, <1>5, <1>6, <1>7 DEF Waiting

(* A step that writes neither a row, nor the counters, nor an answer. *)
LEMMA QuietRoom ==
  ASSUME RoomInv, NEW r \in Runs, OthersRest(r), SameRows(r), UNCHANGED cache,
         files'[r].answers = files[r].answers, ProcRoom(db[r], proc'[r])
  PROVE  RoomInv'
<1>1. /\ CacheSized(cache) /\ CountersBounded(db[r]) /\ RowRoom(db[r]) /\ HitsFree(db[r])
      /\ FileSized(db[r], files[r])
  BY RoomOf
<1>2. /\ CountersBounded(db'[r]) /\ RowRoom(db'[r]) /\ HitsFree(db'[r])
      /\ ProcRoom(db'[r], proc'[r])
  BY <1>1, SameRowsRoom
<1>3. FileSized(db'[r], files'[r])
  BY <1>1, SameRowsRoom DEF FileSized
<1>4. RunRoom(db'[r], files'[r], proc'[r]) /\ CacheSized(cache')
  BY <1>1, <1>2, <1>3 DEF RunRoom
<1>5. QED
  BY <1>4, RoomStep

(* A process that asks for nothing and has no answer needs no room. *)
LEMMA NeedsNothing ==
  ASSUME NEW d, NEW p, p.pc \notin Asking \cup Answering \cup {"none", "open"},
         p.pc \in Begun \ {"initialize"} => d.evaluations >= InitialCandidates,
         LikeStored(p.budget, d)
  PROVE  ProcRoom(d, p)
BY DEF ProcRoom, Answering

(* The stored counters are like themselves, and so are they with one more or *)
(* less logical call.                                                        *)
LEMMA LikeSelf ==
  ASSUME NEW d \in Database
  PROVE  /\ LikeStored(d.budget, d)
         /\ LikeStored([d.budget EXCEPT !.logical = @ + 1], d)
         /\ \A b : LikeStored(b, d) => LikeStored([b EXCEPT !.logical = @ + 1], d)
<1>1. d.budget \in BudgetState /\ d.budget.logical \in Nat
  BY BudgetType DEF Database
<1>2. d.budget = [d.budget EXCEPT !.logical = d.budget.logical]
  BY <1>1, BudgetType
<1>3. ASSUME NEW n \in Nat
      PROVE  LET b == [d.budget EXCEPT !.logical = n]
             IN  [b EXCEPT !.logical = @ + 1] = [d.budget EXCEPT !.logical = n + 1]
  BY <1>1, BudgetType
<1>4. LikeStored(d.budget, d)
  BY <1>1, <1>2 DEF LikeStored
<1>5. ASSUME NEW b, LikeStored(b, d)
      PROVE  LikeStored([b EXCEPT !.logical = @ + 1], d)
  <2>1. PICK n \in Nat : b = [d.budget EXCEPT !.logical = n]
    BY <1>5 DEF LikeStored
  <2>2. [b EXCEPT !.logical = @ + 1] = [d.budget EXCEPT !.logical = n + 1]
    BY <1>3, <2>1
  <2>3. n + 1 \in Nat
    OBVIOUS
  <2>4. QED
    BY <2>2, <2>3 DEF LikeStored
<1>6. QED
  BY <1>4, <1>5

(* The process that is recovering, asking or stopping has the evaluations    *)
(* behind it, and its counters are like the stored ones.                     *)
LEMMA AtWorkRoom ==
  ASSUME Phase4Inv, RoomInv, NEW r \in Runs
  PROVE  /\ ProcRoom(db[r], proc[r]) /\ proc[r] \in Process /\ db[r] \in Database
         /\ proc \in [Runs -> Process]
         /\ proc[r].pc \in Asking => Fits(db[r], proc[r].batch)
         /\ proc[r].pc \in Answering => Len(proc[r].answer.items) <= LastRow(db[r]).batch
         /\ proc[r].pc \in Begun \ {"initialize"} => db[r].evaluations >= InitialCandidates
         /\ proc[r].pc \notin {"none", "open", "store", "commit"} =>
              LikeStored(proc[r].budget, db[r])
<1>1. ProcRoom(db[r], proc[r]) /\ proc[r] \in Process /\ db[r] \in Database
      /\ proc \in [Runs -> Process]
  BY RoomOf, AtWork
<1>2. QED
  BY <1>1 DEF ProcRoom

(* Processes come, and go or die. *)
LEMMA ComeAndGoRoom ==
  ASSUME Phase4Inv, RoomInv, NEW r \in Runs,
         \/ Start(r) \/ Crash(r) \/ Raise(r) \/ Interrupt(r) \/ Close(r)
         \/ \E online \in BOOLEAN : Resume(r, online)
  PROVE  ProcRoom(db[r], proc'[r])
<1>1. proc \in [Runs -> Process]
  BY AtWorkRoom
<1>2. ASSUME NEW q, q.pc \in {"none", "open"}, q.budget = EmptyBudget
      PROVE  ProcRoom(db[r], q)
  BY <1>2 DEF ProcRoom, Asking, Answering, Begun
<1>3. CASE Crash(r) \/ Raise(r) \/ Interrupt(r) \/ Close(r)
  <2>1. proc'[r] = NoProcess
    BY <1>1, <1>3 DEF Crash, Raise, Interrupt, Close, End, Become
  <2>2. proc'[r].pc = "none" /\ proc'[r].budget = EmptyBudget
    BY <2>1 DEF NoProcess
  <2>3. QED
    BY <1>2, <2>2
<1>4. CASE Start(r) \/ \E online \in BOOLEAN : Resume(r, online)
  <2>1. CASE Start(r)
    <3>1. proc'[r] = [NoProcess EXCEPT !.pc = "open", !.online = TRUE, !.purpose = "run"]
      BY <1>1, <2>1 DEF Start, Become
    <3>2. proc'[r].pc = "open" /\ proc'[r].budget = EmptyBudget
      BY <3>1 DEF NoProcess
    <3>3. QED
      BY <1>2, <3>2
  <2>2. ASSUME NEW online \in BOOLEAN, Resume(r, online)
        PROVE  ProcRoom(db[r], proc'[r])
    <3>1. proc'[r] = [NoProcess EXCEPT !.pc = "open", !.online = online, !.purpose = "resume"]
      BY <1>1, <2>2 DEF Resume, Become
    <3>2. proc'[r].pc = "open" /\ proc'[r].budget = EmptyBudget
      BY <3>1 DEF NoProcess
    <3>3. QED
      BY <1>2, <3>2
  <2>3. QED
    BY <1>4, <2>1, <2>2
<1>5. QED
  BY <1>3, <1>4

(* The steps of the control flow: a process goes on with the counters it has *)
(* or with the stored ones.                                                  *)
LEMMA ControlRoom ==
  ASSUME Phase4Inv, RoomInv, NEW r \in Runs,
         \/ Open(r) \/ Initialized(r) \/ Gate(r) \/ Stop(r) \/ GiveUp(r) \/ RefuseCost(r)
         \/ WriteReport(r) \/ WriteAccessLedger(r) \/ WriteResults(r)
  PROVE  ProcRoom(db[r], proc'[r])
<1> DEFINE d == db[r]
           p == proc[r]
<1>1. /\ p \in Process /\ d \in Database /\ proc \in [Runs -> Process]
      /\ p.pc \in Begun \ {"initialize"} => d.evaluations >= InitialCandidates
      /\ p.pc \notin {"none", "open", "store", "commit"} => LikeStored(p.budget, d)
      /\ LikeStored(d.budget, d) /\ d.evaluations \in Nat /\ InitialCandidates \in Nat
  BY AtWorkRoom, LikeSelf, Phase4Constants DEF Database
<1>2. ASSUME NEW q, q.pc \in Ending \cup {"initialize"}, LikeStored(q.budget, d)
      PROVE  ProcRoom(d, q)
  BY <1>2, NeedsNothing DEF Ending, Asking, Answering, Begun
<1>3. ASSUME NEW q, q.pc \in {"recover", "loop", "interrupt"}, LikeStored(q.budget, d),
             d.evaluations >= InitialCandidates
      PROVE  ProcRoom(d, q)
  BY <1>3, NeedsNothing DEF Asking, Answering
<1>4. CASE Open(r)
  <2>1. proc'[r].pc \in {"report", "initialize"} /\ proc'[r].budget = d.budget
    <3>1. \/ proc'[r] = [p EXCEPT !.pc = "report", !.budget = d.budget, !.status = d.status]
          \/ proc'[r] = [p EXCEPT !.pc = "initialize", !.budget = d.budget]
      BY <1>1, <1>4 DEF Open, Become
    <3>2. QED
      BY <1>1, <3>1 DEF Process
  <2>2. QED
    BY <1>1, <1>2, <2>1 DEF Ending
<1>5. CASE Initialized(r)
  <2>1. /\ proc'[r].pc = "recover" /\ proc'[r].budget = p.budget /\ p.pc = "initialize"
        /\ d.evaluations >= InitialCandidates
    BY <1>1, <1>5 DEF Initialized, At, Goto, Become, Process
  <2>2. QED
    BY <1>1, <1>3, <2>1
<1>6. CASE Gate(r)
  <2>1. proc'[r].pc \in {"loop", "interrupt"} /\ proc'[r].budget = p.budget /\ p.pc = "gate"
    BY <1>1, <1>6 DEF Gate, At, Goto, Become, Process
  <2>2. QED
    BY <1>1, <1>3, <2>1 DEF Begun
<1>7. CASE Stop(r) \/ GiveUp(r)
  <2>1. proc'[r].pc = "report" /\ proc'[r].budget = p.budget /\ p.pc \in {"stop", "give-up"}
    <3>1. \E status : proc'[r] = [p EXCEPT !.pc = "report", !.status = status]
      BY <1>1, <1>7 DEF Stop, GiveUp, Finish, Become
    <3>2. p.pc \in {"stop", "give-up"}
      BY <1>7 DEF Stop, GiveUp, At
    <3>3. QED
      BY <1>1, <3>1, <3>2 DEF Process
  <2>2. QED
    BY <1>1, <1>2, <2>1 DEF Ending
<1>8. CASE RefuseCost(r)
  <2>1. proc'[r].pc = "report" /\ proc'[r].budget = d.budget
    BY <1>1, <1>8 DEF RefuseCost, Become, Process
  <2>2. QED
    BY <1>1, <1>2, <2>1 DEF Ending
<1>9. CASE WriteReport(r) \/ WriteAccessLedger(r) \/ WriteResults(r)
  <2>1. /\ p.pc \in Ending
        /\ \/ proc'[r] = NoProcess
           \/ \E pc \in Ending : proc'[r] = [p EXCEPT !.pc = pc]
    BY <1>1, <1>9 DEF WriteReport, WriteAccessLedger, WriteResults, At, Goto, End, Become, Ending
  <2>2. CASE proc'[r] = NoProcess
    <3>1. proc'[r].pc = "none" /\ proc'[r].budget = EmptyBudget
      BY <2>2 DEF NoProcess
    <3>2. QED
      BY <3>1 DEF ProcRoom, Asking, Answering, Begun
  <2>3. ASSUME NEW pc \in Ending, proc'[r] = [p EXCEPT !.pc = pc]
        PROVE  ProcRoom(d, proc'[r])
    <3>1. proc'[r].pc = pc /\ proc'[r].budget = p.budget
      BY <1>1, <2>3 DEF Process
    <3>2. QED
      BY <1>1, <1>2, <2>1, <3>1 DEF Ending
  <2>4. QED
    BY <2>1, <2>2, <2>3
<1>10. QED
  BY <1>4, <1>5, <1>6, <1>7, <1>8, <1>9

(* The batch that is asked for next fits: the counters are not exhausted. *)
LEMMA NextCallRoom ==
  ASSUME Phase4Inv, RoomInv, NEW r \in Runs, NextCall(r)
  PROVE  ProcRoom(db[r], proc'[r])
<1> DEFINE d == db[r]
           p == proc[r]
           b == p.budget
<1>1. /\ p \in Process /\ d \in Database /\ proc \in [Runs -> Process] /\ p.pc = "loop"
      /\ d.evaluations >= InitialCandidates /\ LikeStored(b, d) /\ b = d.budget
      /\ LikeStored([b EXCEPT !.logical = @ + 1], d) /\ b \in BudgetState
  <2>1. p.pc = "loop"
    BY DEF NextCall, At
  <2>2. b = d.budget
    BY <2>1, AtWork DEF MemoryFits, InMemory
  <2>3. d.evaluations >= InitialCandidates /\ d \in Database /\ p \in Process
        /\ proc \in [Runs -> Process] /\ LikeStored(b, d)
    BY <2>1, AtWorkRoom DEF Begun
  <2>4. QED
    BY <2>1, <2>2, <2>3, LikeSelf DEF Database
<1>2. CASE Exhausted(r, b) \/ ~ Preflight(b)
  <2>1. proc'[r].pc = "report" /\ proc'[r].budget = b
    <3>1. proc'[r] = [p EXCEPT !.pc = "report", !.status = "completed"]
      BY <1>1, <1>2 DEF NextCall, Finish, Become
    <3>2. QED
      BY <1>1, <3>1 DEF Process
  <2>2. QED
    BY <1>1, <2>1, NeedsNothing DEF Asking, Answering, Begun
<1>3. CASE ~ (Exhausted(r, b) \/ ~ Preflight(b))
  <2>1. /\ proc'[r].pc = "attempt" /\ proc'[r].batch = BatchFor(b)
        /\ proc'[r].budget = [b EXCEPT !.logical = @ + 1]
    <3>1. proc'[r] = [p EXCEPT !.pc = "attempt", !.recovering = FALSE,
                        !.logical = b.logical, !.retry = 0,
                        !.batch = BatchFor(b), !.budget.logical = @ + 1]
      BY <1>1, <1>3 DEF NextCall, Become
    <3>2. QED
      BY <1>1, <3>1 DEF Process
  <2>2. Fits(d, BatchFor(b))
    <3>1. /\ b.items \in Nat /\ b.oracle \in Nat /\ ItemCap \in Nat /\ OracleCap \in Nat
          /\ BatchSize \in Nat
      BY <1>1, BudgetType, Phase4Constants
    <3>2. b.items < ItemCap /\ b.oracle < OracleCap
      BY <1>3, <3>1 DEF Exhausted
    <3>3. BatchFor(b) <= ItemCap - b.items /\ BatchFor(b) <= OracleCap - b.oracle
          /\ BatchFor(b) \in Int
      BY <3>1, <3>2 DEF BatchFor, MinOf
    <3>4. QED
      BY <1>1, <3>1, <3>3 DEF Fits
  <2>3. QED
    BY <1>1, <2>1, <2>2 DEF ProcRoom, Asking, Answering
<1>4. QED
  BY <1>2, <1>3

(* The attempt and its reservation keep the batch. *)
LEMMA AskRoom ==
  ASSUME Phase4Inv, RoomInv, NEW r \in Runs, Attempt(r) \/ ReserveCost(r)
  PROVE  ProcRoom(db[r], proc'[r])
<1> DEFINE d == db[r]
           p == proc[r]
<1>1. /\ p \in Process /\ proc \in [Runs -> Process] /\ p.pc \in Asking /\ Fits(d, p.batch)
      /\ d.evaluations >= InitialCandidates /\ LikeStored(p.budget, d)
  <2>1. p.pc \in Asking
    BY DEF Attempt, NextHash, ReserveCost, At, Asking
  <2>2. p.pc \in Begun \ {"initialize"} /\ p.pc \notin {"none", "open", "store", "commit"}
    BY <2>1 DEF Asking, Begun
  <2>3. QED
    BY <2>1, <2>2, AtWorkRoom
<1>2. /\ proc'[r].pc \in {"interrupt", "give-up", "reserve", "prepare"}
      /\ proc'[r].batch = p.batch /\ proc'[r].budget = p.budget
  <2>1. \E hit : \E pc \in {"interrupt", "give-up", "reserve", "prepare"} :
          proc'[r] = [p EXCEPT !.pc = pc] \/ proc'[r] = [p EXCEPT !.hit = hit, !.pc = pc]
    <3>1. CASE ReserveCost(r)
      BY <1>1, <3>1 DEF ReserveCost, Goto, Become
    <3>2. CASE Attempt(r)
      BY <1>1, <3>2 DEF Attempt, NextHash, Goto, Become
    <3>3. QED
      BY <3>1, <3>2
  <2>2. QED
    BY <1>1, <2>1 DEF Process
<1>3. QED
  BY <1>1, <1>2 DEF ProcRoom, Answering

(* The numbers of a row are those of a request. *)
LEMMA RowNumbers ==
  ASSUME NEW row \in RequestRow, NEW r, NEW h, RowFits(r, row, h)
  PROVE  row.batch \in 0..BatchSize /\ row.logical \in 0..ModelRequestCap
<1>1. row.batch \in Nat /\ row.logical \in Nat /\ BatchSize \in Nat /\ ModelRequestCap \in Nat
  BY Phase4Constants DEF RequestRow
<1>2. row.batch <= BatchSize /\ row.logical <= ModelRequestCap
  BY DEF RowFits
<1>3. QED
  BY <1>1, <1>2

(* An answer from the cache fits the row that was prepared with it. *)
LEMMA HitSized ==
  ASSUME Phase4Inv, RoomInv, NEW r \in Runs, NEW l \in 0..ModelRequestCap,
         NEW batch \in 0..BatchSize, cache[RequestHash[r, l, batch]] # Nothing
  PROVE  Len(cache[RequestHash[r, l, batch]].items) <= batch
BY RoomOf DEF CacheSized

(* Where a resume takes up the last row there is room for it. *)
LEMMA RecoverRoom ==
  ASSUME Phase4Inv, RoomInv, NEW r \in Runs, Recover(r)
  PROVE  ProcRoom(db[r], proc'[r])
<1> DEFINE d == db[r]
           p == proc[r]
           row == LastRow(d)
<1>1. At(r, "recover") /\ p.pc = "recover"
  BY DEF Recover, At
<1>2. /\ d \in Database /\ p \in Process /\ proc \in [Runs -> Process]
      /\ p.budget = d.budget /\ Index(r) = Size(d) /\ Row(r) = row
      /\ (Requests(r) = <<>> <=> Size(d) = 0) /\ Size(d) \in Nat
      /\ files[r] \in Directory
  <2>1. /\ d \in Database /\ p \in Process /\ proc \in [Runs -> Process]
        /\ p.budget = d.budget /\ Index(r) = Size(d) /\ Row(r) = row /\ files[r] \in Directory
    BY <1>1, AtWork DEF MemoryFits, InMemory
  <2>2. d.requests \in Seq(RequestRow) /\ Requests(r) = d.requests
    BY <2>1 DEF Database, Requests
  <2>3. QED
    BY <2>1, <2>2 DEF Size
<1>3. /\ d.evaluations >= InitialCandidates /\ LikeStored(d.budget, d)
      /\ RowRoom(d) /\ FileSized(d, files[r])
  BY <1>1, <1>2, AtWorkRoom, RoomOf, LikeSelf DEF Begun
<1>4. ASSUME NEW q, q.pc \in {"gate", "items", "stop", "interrupt", "send", "give-up"},
             q.budget = d.budget
      PROVE  ProcRoom(d, q)
  BY <1>3, <1>4, NeedsNothing DEF Asking, Answering
<1>5. ASSUME NEW q, q.pc = "attempt", q.budget = d.budget, Fits(d, q.batch)
      PROVE  ProcRoom(d, q)
  BY <1>3, <1>5 DEF ProcRoom, Answering
<1>6. ASSUME NEW q, q.pc = "record", q.budget = d.budget, Len(q.answer.items) <= row.batch
      PROVE  ProcRoom(d, q)
  BY <1>3, <1>6 DEF ProcRoom, Asking
<1>7. CASE Size(d) = 0
  <2>1. proc'[r] = [p EXCEPT !.pc = "gate"]
    BY <1>2, <1>7 DEF Recover, Goto, Become
  <2>2. proc'[r].pc = "gate" /\ proc'[r].budget = d.budget
    BY <1>2, <2>1 DEF Process
  <2>3. QED
    BY <1>4, <2>2
<1>8. CASE Size(d) > 0
  <2> DEFINE x == Recovered(r)
  <2>1. /\ x \in Process /\ x.budget = d.budget /\ x.batch = row.batch
        /\ row \in RequestRow /\ RowFits(r, row, cache)
    BY <1>1, <1>8, RecoveredProcess, AtWork
  <2>2. row.batch \in 0..BatchSize /\ row.logical \in 0..ModelRequestCap
    BY <2>1, RowNumbers
  <2>3. proc' = [proc EXCEPT ![r] =
       CASE Row(r).state = "completed" -> [proc[r] EXCEPT !.pc = "gate"]
         [] Row(r).state = "responded" ->
              [Recovered(r) EXCEPT !.pc = "items", !.answer = AnswerFile(r)]
         [] Row(r).state \in {"schema-failure", "failed"} ->
              AfterFailure(Recovered(r), AnswerFile(r).kind, Row(r).retry)
         [] Row(r).state = "usage-uncertain" -> [proc[r] EXCEPT !.pc = "stop"]
         [] Row(r).state = "pending" -> ResumePending(r)
         [] Row(r).state = "dispatched" -> ResumeDispatched(r)]
    <3>1. Requests(r) # <<>>
      BY <1>2, <1>8
    <3>2. QED
      BY <3>1, Zenon DEF Recover, Become
  <2>4. CASE row.state \in {"completed", "usage-uncertain"}
    <3>1. \E pc \in {"gate", "stop"} : proc'[r] = [p EXCEPT !.pc = pc]
      BY <1>2, <2>3, <2>4
    <3>2. proc'[r].pc \in {"gate", "stop"} /\ proc'[r].budget = d.budget
      BY <1>2, <3>1 DEF Process
    <3>3. QED
      BY <1>4, <3>2
  <2>5. CASE row.state = "responded"
    <3>1. proc'[r] = [x EXCEPT !.pc = "items", !.answer = AnswerFile(r)]
      BY <1>2, <2>3, <2>5
    <3> HIDE DEF x
    <3>2. proc'[r].pc = "items" /\ proc'[r].budget = d.budget
      BY <2>1, <3>1 DEF Process
    <3>3. QED
      BY <1>4, <3>2
  <2>6. CASE row.state \in {"schema-failure", "failed"}
    <3>1. proc'[r] = AfterFailure(x, AnswerFile(r).kind, row.retry)
      BY <1>2, <2>3, <2>6
    <3> HIDE DEF x
    <3>2. /\ proc'[r].pc \in {"attempt", "give-up"} /\ proc'[r].budget = d.budget
          /\ proc'[r].batch = row.batch
      BY <2>1, <3>1 DEF AfterFailure, Process
    <3>3. Fits(d, row.batch)
      BY <1>3, <1>8, <2>6 DEF RowRoom, LastIn
    <3>4. QED
      BY <1>4, <1>5, <3>2, <3>3
  <2>7. CASE row.state = "pending"
    <3>1. proc'[r] = ResumePending(r)
      BY <1>2, <2>3, <2>7
    <3>2. CASE ~ p.online
      <4>1. proc'[r] = [p EXCEPT !.pc = "interrupt"]
        BY <3>1, <3>2 DEF ResumePending
      <4>2. proc'[r].pc = "interrupt" /\ proc'[r].budget = d.budget
        BY <1>2, <4>1 DEF Process
      <4>3. QED
        BY <1>4, <4>2
    <3>3. CASE p.online /\ row.cache_hit
      <4> DEFINE a == cache[row.hash]
      <4>1. proc'[r] = [x EXCEPT !.pc = "record", !.hit = a, !.answer = a]
        BY <1>2, <3>1, <3>3 DEF ResumePending
      <4>2. a # Nothing /\ row.hash = RequestHash[r, row.logical, row.batch]
        BY <2>1, <3>3 DEF RowFits
      <4>3. Len(a.items) <= row.batch
        BY <2>2, <4>2, HitSized
      <4> HIDE DEF x, a
      <4>4. proc'[r].pc = "record" /\ proc'[r].budget = d.budget /\ proc'[r].answer = a
        BY <2>1, <4>1 DEF Process
      <4>5. QED
        BY <1>6, <4>3, <4>4
    <3>4. CASE p.online /\ ~ row.cache_hit
      <4>1. proc'[r] = [x EXCEPT !.pc = "send"]
        BY <1>2, <3>1, <3>4 DEF ResumePending
      <4> HIDE DEF x
      <4>2. proc'[r].pc = "send" /\ proc'[r].budget = d.budget
        BY <2>1, <4>1 DEF Process
      <4>3. QED
        BY <1>4, <4>2
    <3>5. QED
      BY <1>2, <3>2, <3>3, <3>4 DEF Process
  <2>8. CASE row.state = "dispatched"
    <3> DEFINE ambiguous == [kind |-> "uncertain", usage |-> 0, items |-> <<>>]
               a == IF AnswerFile(r) # Nothing THEN AnswerFile(r) ELSE ambiguous
    <3>1. proc'[r] = [x EXCEPT !.pc = "record", !.answer = a]
      BY <1>2, <2>3, <2>8 DEF ResumeDispatched
    <3>2. Len(a.items) <= row.batch
      <4>1. CASE AnswerFile(r) # Nothing
        <5>1. Size(d) \in DOMAIN files[r].answers /\ a = files[r].answers[Size(d)]
          BY <1>2, <4>1 DEF AnswerFile
        <5>2. Waiting(d)
          BY <1>8, <2>8 DEF Waiting, LastIn
        <5>3. QED
          BY <1>3, <5>1, <5>2 DEF FileSized
      <4>2. CASE AnswerFile(r) = Nothing
        <5>1. a.items = <<>>
          BY <4>2
        <5>2. Len(a.items) = 0 /\ 0 <= row.batch
          BY <2>2, <5>1
        <5>3. QED
          BY <5>2
      <4>3. QED
        BY <4>1, <4>2
    <3> HIDE DEF x, a
    <3>3. proc'[r].pc = "record" /\ proc'[r].budget = d.budget /\ proc'[r].answer = a
      BY <2>1, <3>1 DEF Process
    <3>4. QED
      BY <1>6, <3>2, <3>3
  <2>9. QED
    BY <2>1, <2>4, <2>5, <2>6, <2>7, <2>8 DEF RequestRow, Finalized
<1>9. QED
  BY <1>2, <1>7, <1>8

(* The provider answers with at most what was asked for. *)
LEMMA ProviderRoom ==
  ASSUME Phase4Inv, RoomInv, NEW r \in Runs, NEW a \in Answer(proc[r].batch),
         NEW charge \in Charges(a), Provider(r, a, charge)
  PROVE  ProcRoom(db[r], proc'[r])
<1> DEFINE d == db[r]
           p == proc[r]
<1>1. /\ p \in Process /\ proc \in [Runs -> Process] /\ p.pc = "wire" /\ p.batch = LastRow(d).batch
      /\ d.evaluations >= InitialCandidates /\ LikeStored(p.budget, d)
  <2>1. p.pc = "wire"
    BY DEF Provider, At
  <2>2. p.batch = LastRow(d).batch
    BY <2>1, AtWork DEF PlaceFits
  <2>3. QED
    BY <2>1, <2>2, AtWorkRoom DEF Begun
<1>2. Len(a.items) <= p.batch
  <2>1. p.batch \in Nat
    BY <1>1, Phase4Constants DEF Process
  <2>2. CASE a.items \in [1..p.batch -> BOOLEAN]
    BY <2>1, <2>2
  <2>3. CASE a.items = <<>>
    BY <2>1, <2>3
  <2>4. QED
    BY <2>2, <2>3 DEF Answer
<1>3. /\ proc'[r].pc = "record" /\ proc'[r].answer = a /\ proc'[r].budget = p.budget
  <2>1. proc'[r] = [p EXCEPT !.pc = "record", !.answer = a]
    BY <1>1 DEF Provider, Become
  <2>2. QED
    BY <1>1, <2>1 DEF Process
<1>4. QED
  BY <1>1, <1>2, <1>3 DEF ProcRoom, Asking

(* Settling an answer keeps it. *)
LEMMA SettleRoom ==
  ASSUME Phase4Inv, RoomInv, NEW r \in Runs, Settle(r)
  PROVE  ProcRoom(db[r], proc'[r])
<1> DEFINE d == db[r]
           p == proc[r]
<1>1. /\ p \in Process /\ proc \in [Runs -> Process] /\ p.pc = "settle"
      /\ d.evaluations >= InitialCandidates /\ Len(p.answer.items) <= LastRow(d).batch
  <2>1. p.pc = "settle"
    BY DEF Settle, At
  <2>2. QED
    BY <2>1, AtWorkRoom DEF Begun, Answering
<1>2. proc'[r].pc \in {"store", "commit"} /\ proc'[r].answer = p.answer
  <2>1. \E b : \E pc \in {"store", "commit"} : proc'[r] = [p EXCEPT !.budget = b, !.pc = pc]
    BY <1>1 DEF Settle, Become
  <2>2. QED
    BY <1>1, <2>1 DEF Process
<1>3. QED
  BY <1>1, <1>2 DEF ProcRoom, Asking

(* A process whose counters are the stored ones has counters like them. *)
LEMMA MemoryLike ==
  ASSUME Phase4Inv, NEW r \in Runs, proc[r].pc \in InMemory \cup Asking
  PROVE  LikeStored(proc[r].budget, db[r])
<1>1. db[r] \in Database /\ MemoryFits(db[r], proc[r])
  BY AtWork
<1>2. LikeStored(db[r].budget, db[r]) /\ LikeStored([db[r].budget EXCEPT !.logical = @ + 1], db[r])
  BY <1>1, LikeSelf
<1>3. \/ proc[r].budget = db[r].budget
      \/ proc[r].budget = [db[r].budget EXCEPT !.logical = @ + 1]
  BY <1>1 DEF MemoryFits
<1>4. QED
  BY <1>2, <1>3

(* The recorded answer is the one in hand. *)
LEMMA RecordRoom ==
  ASSUME Phase4Inv, RoomInv, NEW r \in Runs, OthersRest(r), Record(r)
  PROVE  RoomInv'
<1> DEFINE d == db[r]
           p == proc[r]
<1>1. /\ p.pc = "record" /\ UNCHANGED <<db, cache>> /\ Index(r) = Size(d)
      /\ p \in Process /\ proc \in [Runs -> Process] /\ files \in [Runs -> Directory]
  BY AtWork DEF Record, At
<1>2. /\ CacheSized(cache) /\ CountersBounded(d) /\ RowRoom(d) /\ HitsFree(d)
      /\ d.evaluations >= InitialCandidates /\ Len(p.answer.items) <= LastRow(d).batch
      /\ LikeStored(p.budget, d)
  BY <1>1, RoomOf, AtWorkRoom, MemoryLike DEF Begun, Answering, InMemory
<1>3. proc'[r].pc = "settle" /\ proc'[r].answer = p.answer /\ proc'[r].budget = p.budget
  <2>1. proc'[r] = [p EXCEPT !.pc = "settle"]
    BY <1>1 DEF Record, Goto, Become
  <2>2. QED
    BY <1>1, <2>1 DEF Process
<1>4. ProcRoom(d, proc'[r])
  BY <1>2, <1>3 DEF ProcRoom, Asking
<1>5. files'[r].answers[Size(d)] = p.answer
  <2> DEFINE answers == [i \in DOMAIN files[r].answers \cup {Size(d)} |->
                           IF i = Size(d) THEN p.answer ELSE files[r].answers[i]]
  <2>1. files' = [files EXCEPT ![r].answers = answers]
    BY <1>1 DEF Record
  <2>2. answers[Size(d)] = p.answer
    OBVIOUS
  <2> HIDE DEF answers
  <2>3. files'[r].answers = answers
    BY <1>1, <2>1 DEF Directory
  <2>4. QED
    BY <2>2, <2>3
<1>6. FileSized(d, files'[r])
  BY <1>2, <1>5 DEF FileSized
<1>7. RunRoom(db'[r], files'[r], proc'[r]) /\ CacheSized(cache')
  BY <1>1, <1>2, <1>4, <1>6 DEF RunRoom
<1>8. QED
  BY <1>7, RoomStep

(* Requests with the same hash ask for batches of the same size, so what the *)
(* cache keeps of one of them fits them all.                                 *)
LEMMA StoreRoom ==
  ASSUME Phase4Inv, RoomInv, NEW r \in Runs, OthersRest(r), Store(r)
  PROVE  RoomInv'
<1> DEFINE d == db[r]
           p == proc[r]
           row == LastRow(d)
           a == p.answer
<1>1. /\ p.pc = "store" /\ UNCHANGED <<db, files>> /\ Row(r) = row
      /\ p \in Process /\ proc \in [Runs -> Process] /\ CacheFits(cache)
      /\ AnsweringFits(d, files[r], p)
  BY AtWork DEF Store, At, PlaceFits, Answering
<1>2. /\ CacheSized(cache) /\ CountersBounded(d) /\ RowRoom(d) /\ HitsFree(d)
      /\ FileSized(d, files[r]) /\ d.evaluations >= InitialCandidates
      /\ Len(a.items) <= row.batch
  BY <1>1, RoomOf, AtWorkRoom DEF Begun, Answering
<1>3. row \in RequestRow /\ RowFits(r, row, cache)
  BY <1>1, AtWork DEF AnsweringFits, Waiting, LastIn
<1>4. CASE ~ Writable(cache[row.hash], a)
  <2>1. proc'[r] = NoProcess /\ UNCHANGED cache
    BY <1>1, <1>4 DEF Store, End, Become
  <2>2. proc'[r].pc = "none" /\ proc'[r].budget = EmptyBudget
    BY <2>1 DEF NoProcess
  <2>3. ProcRoom(d, proc'[r])
    BY <2>2 DEF ProcRoom, Asking, Answering, Begun
  <2>4. RunRoom(db'[r], files'[r], proc'[r]) /\ CacheSized(cache')
    BY <1>1, <1>2, <2>1, <2>3 DEF RunRoom
  <2>5. QED
    BY <2>4, RoomStep
<1>5. CASE Writable(cache[row.hash], a)
  <2>1. cache' = [cache EXCEPT ![row.hash] = a] /\ proc'[r] = [p EXCEPT !.pc = "commit"]
    BY <1>1, <1>5 DEF Store, Goto, Become
  <2>2. proc'[r].pc = "commit" /\ proc'[r].answer = a
    BY <1>1, <2>1 DEF Process
  <2>3. ProcRoom(d, proc'[r])
    BY <1>2, <2>2 DEF ProcRoom, Asking
  <2>4. CacheSized(cache')
    <3> SUFFICES ASSUME NEW s \in Runs, NEW l \in 0..ModelRequestCap, NEW b \in 0..BatchSize,
                        cache'[RequestHash[s, l, b]] # Nothing
                 PROVE  Len(cache'[RequestHash[s, l, b]].items) <= b
      BY DEF CacheSized
    <3>1. RequestHash[s, l, b] \in Hashes
      BY Phase4Constants
    <3>2. CASE RequestHash[s, l, b] = row.hash
      <4>1. row.logical \in 0..ModelRequestCap /\ row.batch \in 0..BatchSize
        BY <1>3, RowNumbers
      <4>2. RequestHash[s, l, b] = RequestHash[r, row.logical, row.batch]
        BY <1>3, <3>2 DEF RowFits
      <4>3. <<s, l, b>> \in DOMAIN RequestHash /\ <<r, row.logical, row.batch>> \in DOMAIN RequestHash
        BY <4>1, Phase4Constants
      <4>4. <<s, l, b>>[3] = <<r, row.logical, row.batch>>[3]
        BY <4>2, <4>3, Phase4Constants
      <4>5. b = row.batch
        BY <4>4
      <4>6. cache'[RequestHash[s, l, b]] = a
        BY <1>1, <2>1, <3>1, <3>2 DEF CacheFits
      <4>7. QED
        BY <1>2, <4>5, <4>6
    <3>3. CASE RequestHash[s, l, b] # row.hash
      <4>1. cache'[RequestHash[s, l, b]] = cache[RequestHash[s, l, b]]
        BY <1>1, <2>1, <3>1, <3>3 DEF CacheFits
      <4>2. QED
        BY <1>2, <4>1 DEF CacheSized
    <3>4. QED
      BY <3>2, <3>3
  <2>5. RunRoom(db'[r], files'[r], proc'[r])
    BY <1>1, <1>2, <2>3 DEF RunRoom
  <2>6. QED
    BY <2>4, <2>5, RoomStep
<1>6. QED
  BY <1>4, <1>5

(* The baselines are charged before any request is made, and the oracle cap  *)
(* leaves room for them.                                                     *)
LEMMA InitializeRoom ==
  ASSUME Phase4Inv, Phase4Inv', CountInv, RoomInv, NEW r \in Runs, OthersRest(r),
         NEW stop \in BOOLEAN, Initialize(r, stop)
  PROVE  RoomInv'
<1> DEFINE d == db[r]
           e == db'[r]
           p == proc[r]
<1>1. /\ p.pc = "initialize" /\ UNCHANGED <<files, cache>> /\ d.evaluations < InitialCandidates
      /\ d \in Database /\ db \in [Runs -> Database] /\ proc \in [Runs -> Process]
      /\ p \in Process /\ p.budget = d.budget /\ Size(d) \in Nat
  BY AtWork DEF Initialize, At, MemoryFits, InMemory
<1>2. /\ CacheSized(cache) /\ CountersBounded(d) /\ RowRoom(d)
      /\ d.budget \in BudgetState /\ d.evaluations \in Nat /\ d.budget.oracle = d.evaluations
      /\ InitialCandidates \in Nat /\ OracleCap \in Nat /\ InitialCandidates <= OracleCap
  BY <1>1, RoomOf, Phase4Constants DEF Database, CountInv, TallyFits
<1>3. db' = [db EXCEPT ![r].evaluations = @ + 1, ![r].budget = [d.budget EXCEPT !.oracle = @ + 1],
                       ![r].status = IF stop THEN "interrupted" ELSE @]
  BY <1>1 DEF Initialize
<1>4. /\ e.requests = d.requests /\ e.budget = [d.budget EXCEPT !.oracle = @ + 1]
  BY <1>1, <1>3 DEF Database
<1>5. Size(d) = 0 /\ Size(e) = 0
  <2>1. ~ (d.evaluations >= InitialCandidates)
    BY <1>1, <1>2
  <2>2. ~ (Size(d) > 0)
    BY <1>2, <2>1 DEF RowRoom
  <2>3. Size(e) = Size(d)
    BY <1>4 DEF Size
  <2>4. QED
    BY <1>1, <2>2, <2>3
<1>6. /\ e.budget.oracle = d.budget.oracle + 1 /\ e.budget.items = d.budget.items
      /\ e.budget.tokens = d.budget.tokens /\ e.budget.provider = d.budget.provider
      /\ e.budget.hits = d.budget.hits /\ e.budget.attempts = d.budget.attempts
  BY <1>2, <1>4, BudgetType
<1>7. CountersBounded(e)
  <2>1. d.budget.oracle + 1 <= OracleCap
    BY <1>1, <1>2
  <2>2. e.budget.oracle \in Nat
    BY <1>2, <1>6
  <2>3. QED
    BY <1>2, <1>6, <2>1, <2>2 DEF CountersBounded, Fits
<1>8. RowRoom(e) /\ HitsFree(e) /\ FileSized(e, files'[r])
  BY <1>5 DEF RowRoom, HitsFree, FileSized, Waiting, LastIn
<1>9. ProcRoom(e, proc'[r])
  <2>1. CASE stop
    <3>1. proc'[r] = NoProcess
      BY <1>1, <2>1 DEF Initialize, Evaluated, Become
    <3>2. proc'[r].pc = "none" /\ proc'[r].budget = EmptyBudget
      BY <3>1 DEF NoProcess
    <3>3. QED
      BY <3>2 DEF ProcRoom, Asking, Answering, Begun
  <2>2. CASE ~ stop
    <3>1. proc'[r].pc = "initialize"
      <4>1. \E b : proc'[r] = [p EXCEPT !.pc = "initialize", !.budget = b]
        BY <1>1, <2>2 DEF Initialize, Evaluated, Become
      <4>2. QED
        BY <1>1, <4>1 DEF Process
    <3>2. LikeStored(proc'[r].budget, e)
      <4>1. db'[r] \in Database /\ MemoryFits(db'[r], proc'[r])
        BY DEF Phase4Inv, RunFits
      <4>2. proc'[r].budget = e.budget
        BY <3>1, <4>1 DEF MemoryFits, InMemory
      <4>3. QED
        BY <4>1, <4>2, LikeSelf
    <3>3. QED
      BY <3>1, <3>2 DEF ProcRoom, Asking, Answering
  <2>3. QED
    BY <2>1, <2>2
<1>10. RunRoom(e, files'[r], proc'[r]) /\ CacheSized(cache')
  BY <1>1, <1>2, <1>7, <1>8, <1>9 DEF RunRoom
<1> HIDE DEF e
<1>11. QED
  BY <1>10, RoomStep DEF e

(* What the invariant needs of the last row when it is written again. *)
LEMMA RewriteRoom ==
  ASSUME NEW d, NEW e, NEW row, Rewritten(d, e, row), HitsFree(d),
         row.cache_hit => row.actual = 0 /\ row.uncertain = 0
  PROVE  /\ Size(e) = Size(d) /\ LastRow(e) = row /\ HitsFree(e) /\ Size(d) > 0
         /\ \A states : LastIn(e, states) <=> row.state \in states
         /\ Waiting(e) <=> row.state \in {"pending", "dispatched"}
<1>1. /\ Size(d) \in 1..Len(d.requests) /\ Size(e) = Size(d) /\ e.requests[Size(d)] = row
      /\ Size(d) > 0 /\ \A i \in 1..Size(d) : i # Size(d) => e.requests[i] = d.requests[i]
  BY DEF Rewritten, Size
<1>2. LastRow(e) = row /\ \A states : LastIn(e, states) <=> row.state \in states
  BY <1>1 DEF LastRow, LastIn
<1>3. HitsFree(e)
  <2> SUFFICES ASSUME NEW i \in 1..Size(d), e.requests[i].cache_hit
               PROVE  e.requests[i].actual = 0 /\ e.requests[i].uncertain = 0
    BY <1>1 DEF HitsFree
  <2>1. CASE i = Size(d)
    BY <1>1, <2>1
  <2>2. CASE i # Size(d)
    BY <1>1, <2>2 DEF HitsFree
  <2>3. QED
    BY <2>1, <2>2
<1>4. QED
  BY <1>1, <1>2, <1>3 DEF Waiting

(* A prepared request has the room its process had, and an answer from the   *)
(* cache fits it.                                                            *)
LEMMA PrepareRoom ==
  ASSUME Phase4Inv, Phase4Inv', RoomInv, NEW r \in Runs, OthersRest(r), Prepare(r)
  PROVE  RoomInv'
<1> DEFINE d == db[r]
           e == db'[r]
           p == proc[r]
           row == NewRequest(r)
<1>1. /\ e.requests = Append(d.requests, row) /\ e.budget = p.budget
      /\ e.evaluations = d.evaluations /\ p.pc = "prepare" /\ files'[r] = files[r]
      /\ IF p.hit = Nothing THEN proc'[r].pc = "send" ELSE proc'[r].pc = "record"
  BY PrepareShape DEF OnlyRows
<1>2. /\ d \in Database /\ d.requests \in Seq(RequestRow) /\ d.budget \in BudgetState
      /\ p \in Process /\ proc \in [Runs -> Process] /\ AskingFits(r, d, p, cache)
      /\ FilesFit(d, files[r]) /\ Size(d) \in Nat /\ UNCHANGED cache
  BY <1>1, AtWork DEF Database, PlaceFits, Asking, Prepare, NextHash
<1>3. /\ CacheSized(cache) /\ CountersBounded(d) /\ HitsFree(d) /\ Fits(d, p.batch)
      /\ d.evaluations >= InitialCandidates /\ LikeStored(p.budget, d)
  BY <1>1, RoomOf, AtWorkRoom DEF Asking, Begun
<1>4. /\ row.state = "pending" /\ row.batch = p.batch /\ row.actual = 0 /\ row.uncertain = 0
  BY DEF NewRequest
<1> HIDE DEF row, e
<1>5. /\ Size(e) = Size(d) + 1 /\ LastRow(e) = row /\ e.requests[Size(d) + 1] = row
      /\ \A i \in 1..Size(d) : e.requests[i] = d.requests[i]
  <2>1. Len(d.requests) \in Nat /\ Size(e) = Len(d.requests) + 1
    BY <1>1, <1>2 DEF Size
  <2>2. e.requests[Len(d.requests) + 1] = row
    BY <1>1, <1>2
  <2>3. \A i \in 1..Len(d.requests) : e.requests[i] = d.requests[i]
    BY <1>1, <1>2
  <2>4. QED
    BY <2>1, <2>2, <2>3 DEF Size, LastRow
<1>6. /\ e.budget.items = d.budget.items /\ e.budget.oracle = d.budget.oracle
      /\ e.budget.tokens = d.budget.tokens /\ e.budget.provider = d.budget.provider
      /\ e.budget.hits = d.budget.hits /\ e.budget.attempts = d.budget.attempts
  BY <1>1, <1>2, <1>3, BudgetType DEF LikeStored
<1>7. \A n : Fits(e, n) <=> Fits(d, n)
  BY <1>6 DEF Fits
<1>8. CountersBounded(e)
  BY <1>3, <1>6, <1>7 DEF CountersBounded
<1>9. RowRoom(e)
  BY <1>1, <1>3, <1>4, <1>5, <1>7 DEF RowRoom, LastIn
<1>10. HitsFree(e)
  <2>1. \A i \in 1..Size(e) : i \in 1..Size(d) \/ i = Size(d) + 1
    BY <1>2, <1>5
  <2>2. QED
    BY <1>3, <1>4, <1>5, <2>1 DEF HitsFree
<1>11. FileSized(e, files'[r])
  <2>1. Size(e) \notin DOMAIN files[r].answers
    BY <1>2, <1>5 DEF FilesFit
  <2>2. QED
    BY <1>1, <2>1 DEF FileSized
<1>12. ProcRoom(e, proc'[r])
  <2>1. LikeStored(proc'[r].budget, e)
    <3>1. proc'[r].pc \in InMemory
      BY <1>1 DEF InMemory
    <3>2. MemoryFits(db'[r], proc'[r]) /\ db'[r] \in Database
      BY DEF Phase4Inv, RunFits
    <3>3. proc'[r].budget = db'[r].budget
      BY <3>1, <3>2 DEF MemoryFits
    <3>4. QED
      BY <3>2, <3>3, LikeSelf DEF e
  <2>2. CASE p.hit = Nothing
    BY <1>1, <1>3, <2>1, <2>2, NeedsNothing DEF Asking, Answering
  <2>3. CASE p.hit # Nothing
    <3>1. proc'[r].answer = p.hit
      <4>1. \E pc : proc'[r] = [p EXCEPT !.pc = pc, !.answer = p.hit]
        BY <1>2 DEF Prepare, NextHash, Become
      <4>2. QED
        BY <1>2, <4>1 DEF Process
    <3>2. p.hit = cache[RequestHash[r, p.logical, p.batch]]
      BY <1>1, <1>2, <2>3 DEF AskingFits
    <3>3. p.logical \in 0..ModelRequestCap /\ p.batch \in 0..BatchSize
      BY <1>2 DEF Process
    <3>4. Len(p.hit.items) <= p.batch
      BY <2>3, <3>2, <3>3, HitSized
    <3>5. Len(proc'[r].answer.items) <= LastRow(e).batch
      BY <1>4, <1>5, <3>1, <3>4
    <3>6. proc'[r].pc = "record" /\ e.evaluations >= InitialCandidates
      BY <1>1, <1>3, <2>3
    <3>7. QED
      BY <2>1, <3>5, <3>6 DEF ProcRoom, Asking
  <2>4. QED
    BY <2>2, <2>3
<1>13. RunRoom(e, files'[r], proc'[r]) /\ CacheSized(cache')
  BY <1>2, <1>3, <1>8, <1>9, <1>10, <1>11, <1>12 DEF RunRoom
<1>14. QED
  BY <1>13, RoomStep DEF e

(* mark_dispatched() changes no more than the state of the row. *)
LEMMA SendRoom ==
  ASSUME Phase4Inv, Phase4Inv', RoomInv, NEW r \in Runs, OthersRest(r), Send(r)
  PROVE  RoomInv'
<1> DEFINE d == db[r]
           e == db'[r]
           old == LastRow(d)
           row == [old EXCEPT !.state = "dispatched"]
<1>1. /\ e.requests = [d.requests EXCEPT ![Size(d)] = row] /\ e.budget = d.budget
      /\ e.evaluations = d.evaluations /\ proc[r].pc = "send" /\ proc'[r].pc = "wire"
      /\ files'[r] = files[r]
  BY SendShape DEF OnlyRows
<1>2. /\ d.requests \in Seq(RequestRow) /\ LastIn(d, {"pending"}) /\ old \in RequestRow
      /\ ~ old.cache_hit /\ UNCHANGED cache
  BY <1>1, AtWork DEF Database, PlaceFits, LastIn, Send
<1>3. /\ CacheSized(cache) /\ CountersBounded(d) /\ RowRoom(d) /\ HitsFree(d)
      /\ FileSized(d, files[r]) /\ d.evaluations >= InitialCandidates
  BY <1>1, RoomOf, AtWorkRoom DEF Begun
<1>4. /\ row.state = "dispatched" /\ row.batch = old.batch /\ row.hash = old.hash
      /\ row.cache_hit = old.cache_hit
  BY <1>2 DEF RequestRow
<1> HIDE DEF row, e, old
<1>5. Rewritten(d, e, row)
  BY <1>1, <1>2, <1>4 DEF Rewritten, LastIn, old
<1>6. /\ Size(e) = Size(d) /\ LastRow(e) = row /\ HitsFree(e) /\ Size(d) > 0
      /\ \A states : LastIn(e, states) <=> row.state \in states
  BY <1>2, <1>3, <1>4, <1>5, RewriteRoom
<1>7. \A n : Fits(e, n) <=> Fits(d, n)
  BY <1>1 DEF Fits
<1>8. CountersBounded(e)
  BY <1>1, <1>3, <1>7 DEF CountersBounded
<1>9. RowRoom(e)
  <2>1. Fits(d, old.batch)
    BY <1>2, <1>3 DEF RowRoom, LastIn, old
  <2>2. QED
    BY <1>1, <1>3, <1>4, <1>6, <1>7, <2>1 DEF RowRoom
<1>10. FileSized(e, files'[r])
  <2>1. Waiting(d)
    BY <1>2 DEF Waiting, LastIn
  <2>2. QED
    BY <1>1, <1>3, <1>4, <1>6, <2>1 DEF FileSized, old
<1>11. ProcRoom(e, proc'[r])
  <2>1. LikeStored(proc'[r].budget, e)
    <3>1. MemoryFits(db'[r], proc'[r]) /\ db'[r] \in Database
      BY DEF Phase4Inv, RunFits
    <3>2. proc'[r].budget = db'[r].budget
      BY <1>1, <3>1 DEF MemoryFits, InMemory
    <3>3. QED
      BY <3>1, <3>2, LikeSelf DEF e
  <2>2. QED
    BY <1>1, <1>3, <2>1, NeedsNothing DEF Asking, Answering
<1>12. RunRoom(e, files'[r], proc'[r]) /\ CacheSized(cache')
  BY <1>2, <1>3, <1>6, <1>8, <1>9, <1>10, <1>11 DEF RunRoom
<1>13. QED
  BY <1>12, RoomStep DEF e

(* complete_request() needs no room any more. *)
LEMMA CompleteRoom ==
  ASSUME Phase4Inv, Phase4Inv', RoomInv, NEW r \in Runs, OthersRest(r), Complete(r)
  PROVE  RoomInv'
<1> DEFINE d == db[r]
           e == db'[r]
           old == LastRow(d)
           row == [old EXCEPT !.state = "completed"]
<1>1. /\ e.requests = [d.requests EXCEPT ![Size(d)] = row] /\ e.budget = d.budget
      /\ e.evaluations = d.evaluations /\ proc[r].pc = "items"
      /\ proc'[r].pc \in {"gate", "loop"} /\ files'[r] = files[r]
  BY CompleteShape DEF OnlyRows
<1>2. /\ d.requests \in Seq(RequestRow) /\ LastIn(d, {"responded"}) /\ old \in RequestRow
      /\ UNCHANGED cache
  BY <1>1, AtWork DEF Database, PlaceFits, LastIn, Complete
<1>3. /\ CacheSized(cache) /\ CountersBounded(d) /\ HitsFree(d)
      /\ d.evaluations >= InitialCandidates
  BY <1>1, RoomOf, AtWorkRoom DEF Begun
<1>4. /\ row.state = "completed" /\ row.hash = old.hash /\ row.cache_hit = old.cache_hit
      /\ row.actual = old.actual /\ row.uncertain = old.uncertain
  BY <1>2 DEF RequestRow
<1>5. old.cache_hit => old.actual = 0 /\ old.uncertain = 0
  <2>1. Size(d) \in 1..Size(d)
    BY <1>2 DEF LastIn, Size
  <2>2. QED
    BY <1>3, <2>1 DEF HitsFree, LastRow
<1> HIDE DEF row, e, old
<1>6. Rewritten(d, e, row)
  BY <1>1, <1>2, <1>4 DEF Rewritten, LastIn, old
<1>7. /\ HitsFree(e) /\ \A states : LastIn(e, states) <=> row.state \in states
      /\ Waiting(e) <=> row.state \in {"pending", "dispatched"}
  BY <1>3, <1>4, <1>5, <1>6, RewriteRoom
<1>8. CountersBounded(e)
  BY <1>1, <1>3 DEF CountersBounded, Fits
<1>9. RowRoom(e) /\ FileSized(e, files'[r])
  BY <1>1, <1>3, <1>4, <1>7 DEF RowRoom, FileSized
<1>10. ProcRoom(e, proc'[r])
  <2>1. LikeStored(proc'[r].budget, e)
    <3>1. MemoryFits(db'[r], proc'[r]) /\ db'[r] \in Database
      BY DEF Phase4Inv, RunFits
    <3>2. proc'[r].budget = db'[r].budget
      BY <1>1, <3>1 DEF MemoryFits, InMemory
    <3>3. QED
      BY <3>1, <3>2, LikeSelf DEF e
  <2>2. QED
    BY <1>1, <1>3, <2>1, NeedsNothing DEF Asking, Answering
<1>11. RunRoom(e, files'[r], proc'[r]) /\ CacheSized(cache')
  BY <1>2, <1>3, <1>7, <1>8, <1>9, <1>10 DEF RunRoom
<1>12. QED
  BY <1>11, RoomStep DEF e

(* An item uses up the room that the row had for it. *)
LEMMA ItemRoom ==
  ASSUME Phase4Inv, Phase4Inv', RoomInv, NEW r \in Runs, OthersRest(r),
         NEW stop \in BOOLEAN, Item(r, stop)
  PROVE  RoomInv'
<1> DEFINE d == db[r]
           e == db'[r]
           old == LastRow(d)
           row == [old EXCEPT !.next_item = @ + 1]
<1>1. PICK more \in {0, 1} :
        /\ e.requests = [d.requests EXCEPT ![Size(d)] = row]
        /\ e.budget = [d.budget EXCEPT !.items = @ + 1, !.oracle = @ + more]
        /\ e.evaluations = d.evaluations + more /\ proc[r].pc = "items"
        /\ proc'[r].pc \in {"none", "items"} /\ files'[r] = files[r]
  BY ItemShape DEF OnlyRows
<1>2. /\ d \in Database /\ d.requests \in Seq(RequestRow) /\ LastIn(d, {"responded"})
      /\ old \in RequestRow /\ d.budget \in BudgetState /\ d.evaluations \in Nat
      /\ Row(r) = old /\ UNCHANGED cache
  BY <1>1, AtWork DEF Database, PlaceFits, LastIn, Item
<1>3. old.next_item < old.item_count
  BY <1>2 DEF Item
<1>4. /\ CacheSized(cache) /\ CountersBounded(d) /\ RowRoom(d) /\ HitsFree(d)
      /\ d.evaluations >= InitialCandidates
  BY <1>1, RoomOf, AtWorkRoom DEF Begun
<1>5. /\ row.state = "responded" /\ row.hash = old.hash /\ row.cache_hit = old.cache_hit
      /\ row.actual = old.actual /\ row.uncertain = old.uncertain
      /\ row.next_item = old.next_item + 1 /\ row.item_count = old.item_count
      /\ old.next_item \in Nat /\ old.item_count \in Nat
  BY <1>2 DEF RequestRow, LastIn
<1>6. old.cache_hit => old.actual = 0 /\ old.uncertain = 0
  <2>1. Size(d) \in 1..Size(d)
    BY <1>2 DEF LastIn, Size
  <2>2. QED
    BY <1>4, <2>1 DEF HitsFree, LastRow
<1> HIDE DEF row, e, old
<1>7. Rewritten(d, e, row)
  BY <1>1, <1>2, <1>5 DEF Rewritten, LastIn, old
<1>8. /\ HitsFree(e) /\ LastRow(e) = row /\ \A states : LastIn(e, states) <=> row.state \in states
      /\ Waiting(e) <=> row.state \in {"pending", "dispatched"}
  BY <1>4, <1>5, <1>6, <1>7, RewriteRoom
<1>9. /\ e.budget.items = d.budget.items + 1 /\ e.budget.oracle = d.budget.oracle + more
      /\ e.budget.tokens = d.budget.tokens /\ e.budget.provider = d.budget.provider
      /\ e.budget.hits = d.budget.hits /\ e.budget.attempts = d.budget.attempts
      /\ d.budget.items \in Nat /\ d.budget.oracle \in Nat
      /\ ItemCap \in Nat /\ OracleCap \in Nat /\ InitialCandidates \in Nat
  BY <1>1, <1>2, BudgetType, Phase4Constants
<1>10. Fits(d, old.item_count - old.next_item)
  BY <1>2, <1>4 DEF RowRoom, old
<1>11. Fits(e, row.item_count - row.next_item) /\ Fits(e, 0)
  BY <1>3, <1>5, <1>9, <1>10 DEF Fits
<1>12. CountersBounded(e)
  BY <1>4, <1>9, <1>11 DEF CountersBounded
<1>13. e.evaluations >= InitialCandidates
  BY <1>1, <1>2, <1>4, <1>9
<1>14. RowRoom(e) /\ FileSized(e, files'[r])
  BY <1>5, <1>8, <1>11, <1>13 DEF RowRoom, FileSized
<1>15. ProcRoom(e, proc'[r])
  <2>1. /\ MemoryFits(db'[r], proc'[r]) /\ db'[r] \in Database
    BY DEF Phase4Inv, RunFits
  <2>2. CASE proc'[r].pc = "items"
    <3>1. LikeStored(proc'[r].budget, e)
      <4>1. proc'[r].budget = db'[r].budget
        BY <2>1, <2>2 DEF MemoryFits, InMemory
      <4>2. QED
        BY <2>1, <4>1, LikeSelf DEF e
    <3>2. QED
      BY <1>13, <2>2, <3>1, NeedsNothing DEF Asking, Answering
  <2>3. CASE proc'[r].pc = "none"
    <3>1. proc \in [Runs -> Process] /\ proc[r] \in Process
      BY AtWork
    <3>2. \/ proc'[r] = NoProcess
          \/ \E b : proc'[r] = [proc[r] EXCEPT !.pc = "items", !.budget = b]
      BY <3>1 DEF Item, Evaluated, Become
    <3>3. proc'[r] = NoProcess
      BY <2>3, <3>1, <3>2 DEF Process
    <3>4. proc'[r].budget = EmptyBudget
      BY <3>3 DEF NoProcess
    <3>5. QED
      BY <2>3, <3>4 DEF ProcRoom, Asking, Answering, Begun
  <2>4. QED
    BY <1>1, <2>2, <2>3
<1>16. RunRoom(e, files'[r], proc'[r]) /\ CacheSized(cache')
  BY <1>2, <1>4, <1>8, <1>12, <1>14, <1>15 DEF RunRoom
<1>17. QED
  BY <1>16, RoomStep DEF e

(* The answer that was settled fits what was left for it: its tokens by the  *)
(* preflight, its items by the size of the batch.                            *)
LEMMA CommitRoom ==
  ASSUME Phase4Inv, Phase4Inv', RoomInv, NEW r \in Runs, OthersRest(r), Commit(r)
  PROVE  RoomInv'
<1> DEFINE d == db[r]
           e == db'[r]
           p == proc[r]
           a == p.answer
           old == LastRow(d)
           row == Answered(r)
<1>1. /\ e.requests = [d.requests EXCEPT ![Size(d)] = row] /\ e.budget = CountedIn(d, a)
      /\ e.evaluations = d.evaluations /\ p.pc = "commit" /\ files'[r] = files[r]
      /\ proc'[r].pc \in {"items", "stop", "attempt", "give-up"}
  BY CommitShape, AtWork DEF MemoryFits, OnlyRows
<1>2. /\ AnsweringFits(d, files[r], p) /\ d.requests \in Seq(RequestRow) /\ d \in Database
      /\ p \in Process /\ proc \in [Runs -> Process] /\ Row(r) = old /\ UNCHANGED cache
      /\ CountersFit(d) /\ d.budget \in BudgetState
  BY <1>1, AtWork DEF PlaceFits, Answering, Database, Commit
<1>3. /\ a \in Answers /\ Size(d) > 0 /\ Waiting(d) /\ p.batch = old.batch
  BY <1>2 DEF AnsweringFits, Process, Waiting, LastIn
<1>4. old \in RequestRow /\ RowFits(r, old, cache)
  BY <1>3, AtWork
<1>5. /\ CacheSized(cache) /\ CountersBounded(d) /\ RowRoom(d) /\ HitsFree(d)
      /\ d.evaluations >= InitialCandidates /\ Len(a.items) <= old.batch
  BY <1>1, RoomOf, AtWorkRoom DEF Begun, Answering
<1>6. /\ old.batch \in Nat /\ old.next_item = 0 /\ Len(a.items) \in Nat
      /\ a.usage \in 0..TokenBound
      /\ FinalState(a) \in {"responded", "schema-failure", "failed", "usage-uncertain"}
  <2>1. old.batch \in Nat /\ old.next_item \in Nat
    BY <1>4 DEF RequestRow
  <2>2. old.next_item <= 0
    BY <1>3, <1>4 DEF RowFits, Waiting, LastIn
  <2>3. Len(a.items) \in Nat /\ a.usage \in 0..TokenBound
        /\ FinalState(a) \in {"responded", "schema-failure", "failed", "usage-uncertain"}
    BY <1>3, AnswerShape DEF FinalState
  <2>4. QED
    BY <2>1, <2>2, <2>3
<1>7. old.cache_hit => Actual(r, a) = 0 /\ Uncertain(r, a) = 0
  BY <1>2 DEF Actual, Uncertain, Paid
<1>8. /\ row.state = FinalState(a) /\ row.hash = old.hash /\ row.cache_hit = old.cache_hit
      /\ row.batch = old.batch /\ row.next_item = old.next_item
      /\ row.item_count = Len(a.items)
      /\ row.actual = Actual(r, a) /\ row.uncertain = Uncertain(r, a)
  <2> DEFINE x == [old EXCEPT !.state = FinalState(a), !.usage = a.usage,
                     !.actual = Actual(r, a), !.released = Released(r, a),
                     !.uncertain = Uncertain(r, a), !.item_count = Len(a.items)]
  <2>1. row = x
    BY DEF Answered
  <2> HIDE DEF old, a
  <2>2. /\ x.state = FinalState(a) /\ x.hash = old.hash /\ x.cache_hit = old.cache_hit
        /\ x.batch = old.batch /\ x.next_item = old.next_item
        /\ x.item_count = Len(a.items)
        /\ x.actual = Actual(r, a) /\ x.uncertain = Uncertain(r, a)
    BY <1>4 DEF RequestRow
  <2> HIDE DEF x
  <2>3. QED
    BY <2>1, <2>2
<1>9. /\ e.budget.items = d.budget.items /\ e.budget.oracle = d.budget.oracle
      /\ e.budget.tokens = d.budget.tokens + a.usage
      /\ e.budget.attempts = d.budget.attempts + 1
      /\ e.budget.provider = d.budget.provider + (IF old.cache_hit THEN 0 ELSE 1)
      /\ e.budget.hits = d.budget.hits + (IF old.cache_hit THEN 1 ELSE 0)
  BY <1>1, <1>2, BudgetType DEF CountedIn
<1>10. Fits(d, old.batch)
  BY <1>3, <1>5 DEF RowRoom, Waiting, LastIn
<1> HIDE DEF row, e, old, a
<1>11. Rewritten(d, e, row)
  BY <1>1, <1>2, <1>3, <1>8 DEF Rewritten, old
<1>12. /\ HitsFree(e) /\ LastRow(e) = row /\ \A states : LastIn(e, states) <=> row.state \in states
       /\ Waiting(e) <=> row.state \in {"pending", "dispatched"}
  BY <1>5, <1>7, <1>8, <1>11, RewriteRoom
<1>13. CountersBounded(e)
  <2>1. /\ d.budget.tokens \in Nat /\ d.budget.attempts \in Nat /\ d.budget.provider \in Nat
        /\ d.budget.hits \in Nat /\ TokenBound \in Nat /\ TokenCap \in Nat
    BY <1>2, BudgetType, Phase4Constants
  <2>2. d.budget.tokens + TokenBound <= TokenCap
    BY <1>2, <1>3 DEF CountersFit, Preflight
  <2>3. e.budget.tokens <= TokenCap
    BY <1>6, <1>9, <2>1, <2>2
  <2>4. e.budget.provider + e.budget.hits = e.budget.attempts
    BY <1>5, <1>9, <2>1 DEF CountersBounded
  <2>5. Fits(e, 0)
    BY <1>5, <1>9 DEF CountersBounded, Fits
  <2>6. QED
    BY <2>3, <2>4, <2>5 DEF CountersBounded
<1>14. Fits(e, row.batch) /\ Fits(e, row.item_count - row.next_item)
  <2>1. /\ d.budget.items \in Nat /\ d.budget.oracle \in Nat /\ ItemCap \in Nat
        /\ OracleCap \in Nat
    BY <1>2, BudgetType, Phase4Constants
  <2>2. Len(a.items) <= old.batch
    BY <1>5 DEF old, a
  <2>3. QED
    BY <1>6, <1>8, <1>9, <1>10, <2>1, <2>2 DEF Fits
<1>15. RowRoom(e) /\ FileSized(e, files'[r])
  BY <1>1, <1>5, <1>6, <1>8, <1>12, <1>14 DEF RowRoom, FileSized
<1>16. ProcRoom(e, proc'[r])
  <2>1. proc'[r].batch = old.batch /\ proc'[r].budget = p.budget
    <3>1. \/ \E pc : proc'[r] = [p EXCEPT !.pc = pc]
          \/ \E n : proc'[r] = [p EXCEPT !.pc = "attempt", !.retry = n]
      BY <1>2 DEF Commit, Become, AfterFailure
    <3>2. QED
      BY <1>2, <1>3, <3>1 DEF Process
  <2>2. LikeStored(proc'[r].budget, e)
    <3>1. db'[r] \in Database
      BY DEF Phase4Inv
    <3>2. p.budget = e.budget
      BY <1>1, AtWork DEF MemoryFits, a
    <3>3. QED
      BY <2>1, <3>1, <3>2, LikeSelf DEF e
  <2>3. CASE proc'[r].pc \in {"items", "stop", "give-up"}
    BY <1>1, <1>5, <2>2, <2>3, NeedsNothing DEF Asking, Answering
  <2>4. CASE proc'[r].pc = "attempt"
    BY <1>1, <1>5, <1>8, <1>14, <2>1, <2>2, <2>4 DEF ProcRoom, Answering
  <2>5. QED
    BY <1>1, <2>3, <2>4
<1>17. RunRoom(e, files'[r], proc'[r]) /\ CacheSized(cache')
  BY <1>2, <1>5, <1>12, <1>13, <1>15, <1>16 DEF RunRoom
<1>18. QED
  BY <1>17, RoomStep DEF e

-----------------------------------------------------------------------------
(* The room is there in every behaviour of the engine. *)

(* The actions that write neither an answer nor the cache. *)
LEMMA KeepsAnswers ==
  ASSUME Phase4Inv, NEW r \in Runs,
         \/ Start(r) \/ Crash(r) \/ Raise(r) \/ Interrupt(r) \/ Close(r)
         \/ \E online \in BOOLEAN : Resume(r, online)
         \/ Open(r) \/ Initialized(r) \/ Gate(r) \/ Stop(r) \/ GiveUp(r) \/ RefuseCost(r)
         \/ WriteReport(r) \/ WriteAccessLedger(r) \/ WriteResults(r)
         \/ NextCall(r) \/ Attempt(r) \/ ReserveCost(r) \/ Recover(r) \/ Settle(r)
         \/ (\E answer \in Answer(proc[r].batch) :
               \E charge \in Charges(answer) : Provider(r, answer, charge))
  PROVE  files'[r].answers = files[r].answers /\ UNCHANGED cache
<1>1. files \in [Runs -> Directory] /\ files[r] \in Directory
  BY AtWork
<1>2. /\ UNCHANGED cache
      /\ \/ UNCHANGED files
         \/ \E x : \/ files' = [files EXCEPT ![r].report = x]
                   \/ files' = [files EXCEPT ![r].access = x]
                   \/ files' = [files EXCEPT ![r].results = x]
  BY DEF Start, Crash, Raise, Resume, Open, Initialized, Recover, Interrupt, Stop, GiveUp, Gate,
    NextCall, Attempt, NextHash, ReserveCost, RefuseCost, Provider, Settle, WriteReport,
    WriteAccessLedger, WriteResults, Close
<1>3. QED
  BY <1>1, <1>2 DEF Directory

(* At first nothing is used. *)
LEMMA RoomInit == Init => RoomInv
<1> SUFFICES ASSUME Init PROVE RoomInv
  OBVIOUS
<1>1. {TokenCap, ItemCap, OracleCap} \subseteq Nat
  BY Phase4Constants
<1>2. CacheSized(cache)
  <2>1. \A h \in Hashes : cache[h] = Nothing
    BY DEF Init
  <2>2. \A s \in Runs, l \in 0..ModelRequestCap, b \in 0..BatchSize : RequestHash[s, l, b] \in Hashes
    BY Phase4Constants
  <2>3. QED
    BY <2>1, <2>2 DEF CacheSized
<1>3. ASSUME NEW r \in Runs
      PROVE  RunRoom(db[r], files[r], proc[r])
  <2>1. /\ db[r].requests = <<>> /\ db[r].budget = EmptyBudget /\ proc[r] = NoProcess
        /\ Size(db[r]) = 0
    BY DEF Init, Size
  <2>2. CountersBounded(db[r])
    BY <1>1, <2>1 DEF CountersBounded, Fits, EmptyBudget
  <2>3. RowRoom(db[r]) /\ HitsFree(db[r]) /\ FileSized(db[r], files[r])
    BY <2>1 DEF RowRoom, HitsFree, FileSized, Waiting, LastIn
  <2>4. ProcRoom(db[r], proc[r])
    BY <2>1 DEF ProcRoom, NoProcess, Asking, Answering, Begun
  <2>5. QED
    BY <2>2, <2>3, <2>4 DEF RunRoom
<1>4. QED
  BY <1>2, <1>3 DEF RoomInv

(* Every step keeps room for what is still to come. *)
LEMMA RoomNext ==
  ASSUME Phase4Inv, Phase4Inv', CountInv, RoomInv, [Next]_vars
  PROVE  RoomInv'
<1>1. CASE UNCHANGED vars
  BY <1>1 DEF vars, RoomInv
<1>2. ASSUME NEW r \in Runs, Step(r)
      PROVE  RoomInv'
  <2>1. OthersRest(r)
    BY <1>2, OneRunMoves
  <2>2. CASE Interrupt(r) \/ Close(r)
    BY <2>1, <2>2, KeepsRows, KeepsAnswers, ComeAndGoRoom, QuietRoom
  <2>3. CASE \/ Open(r) \/ Initialized(r) \/ Gate(r) \/ Stop(r) \/ GiveUp(r) \/ RefuseCost(r)
             \/ WriteReport(r) \/ WriteAccessLedger(r) \/ WriteResults(r)
    BY <2>1, <2>3, KeepsRows, KeepsAnswers, ControlRoom, QuietRoom
  <2>4. CASE NextCall(r)
    BY <2>1, <2>4, KeepsRows, KeepsAnswers, NextCallRoom, QuietRoom
  <2>5. CASE Attempt(r) \/ ReserveCost(r)
    BY <2>1, <2>5, KeepsRows, KeepsAnswers, AskRoom, QuietRoom
  <2>6. CASE Recover(r)
    BY <2>1, <2>6, KeepsRows, KeepsAnswers, RecoverRoom, QuietRoom
  <2>7. CASE Settle(r)
    BY <2>1, <2>7, KeepsRows, KeepsAnswers, SettleRoom, QuietRoom
  <2>8. ASSUME NEW answer \in Answer(proc[r].batch), NEW charge \in Charges(answer),
               Provider(r, answer, charge)
        PROVE  RoomInv'
    <3>1. \E an \in Answer(proc[r].batch) : \E ch \in Charges(an) : Provider(r, an, ch)
      BY <2>8
    <3>2. ProcRoom(db[r], proc'[r])
      BY <2>8, ProviderRoom
    <3>3. SameRows(r) /\ files'[r].answers = files[r].answers /\ UNCHANGED cache
      BY <3>1, KeepsRows, KeepsAnswers
    <3>4. QED
      BY <2>1, <3>2, <3>3, QuietRoom
  <2>9. CASE Record(r)
    BY <2>1, <2>9, RecordRoom
  <2>10. CASE Store(r)
    BY <2>1, <2>10, StoreRoom
  <2>11. ASSUME NEW stop \in BOOLEAN, Initialize(r, stop)
         PROVE  RoomInv'
    BY <2>1, <2>11, InitializeRoom
  <2>12. ASSUME NEW stop \in BOOLEAN, Item(r, stop)
         PROVE  RoomInv'
    BY <2>1, <2>12, ItemRoom
  <2>13. CASE Prepare(r)
    BY <2>1, <2>13, PrepareRoom
  <2>14. CASE Send(r)
    BY <2>1, <2>14, SendRoom
  <2>15. CASE Commit(r)
    BY <2>1, <2>15, CommitRoom
  <2>16. CASE Complete(r)
    BY <2>1, <2>16, CompleteRoom
  <2>17. QED
    BY <1>2, <2>2, <2>3, <2>4, <2>5, <2>6, <2>7, <2>8, <2>9, <2>10, <2>11, <2>12, <2>13,
       <2>14, <2>15, <2>16 DEF Step
<1>3. ASSUME NEW r \in Runs,
             Start(r) \/ Crash(r) \/ Raise(r) \/ \E online \in BOOLEAN : Resume(r, online)
      PROVE  RoomInv'
  <2>1. OthersRest(r)
    BY <1>3, OneRunMoves
  <2>2. QED
    BY <1>3, <2>1, KeepsRows, KeepsAnswers, ComeAndGoRoom, QuietRoom
<1>4. QED
  BY <1>1, <1>2, <1>3 DEF Next

-----------------------------------------------------------------------------
(* What there is room for is valid. *)

(* Everything that is known of a reachable state. *)
EngineInv ==
  Phase4Inv /\ MoneyInv /\ CountInv /\ LedgerInv /\ OwnReservations /\ RoomInv

(* The stored counters are within the caps. *)
LEMMA StoredValid ==
  ASSUME EngineInv, NEW r \in Runs
  PROVE  Valid(r, db[r].budget)
<1> DEFINE d == db[r]
           b == d.budget
<1>1. /\ d \in Database /\ d.requests \in Seq(RequestRow) /\ b \in BudgetState
      /\ CountersFit(d) /\ Size(d) \in Nat /\ ModelRequestCap \in Nat
  BY AtWork, Phase4Constants DEF EngineInv, Database
<1>2. CountersBounded(d) /\ HitsFree(d)
  BY RoomOf DEF EngineInv
<1>3. b.attempts <= ModelRequestCap
  BY <1>1 DEF CountersFit
<1>4. /\ b.tokens <= TokenCap /\ b.items <= ItemCap /\ b.oracle <= OracleCap
      /\ b.provider + b.hits = b.attempts
  <2>1. b.items \in Nat /\ b.oracle \in Nat
    BY <1>1, BudgetType
  <2>2. QED
    BY <1>2, <2>1 DEF CountersBounded, Fits
<1>5. b.retries <= b.attempts
  <2>1. IsFiniteSet(FinalRows(d)) /\ RetryRows(d) \subseteq FinalRows(d)
    BY <1>1, TallyTypes DEF RetryRows
  <2>2. Cardinality(RetryRows(d)) <= Cardinality(FinalRows(d))
    BY <2>1, FS_Subset
  <2>3. b.retries = Cardinality(RetryRows(d)) /\ b.attempts = Cardinality(FinalRows(d))
    BY DEF EngineInv, CountInv, TallyFits
  <2>4. QED
    BY <2>2, <2>3
<1>6. b.actual + b.uncertain <= ChildCap[r]
  BY <1>2, CostsFit DEF EngineInv
<1>7. QED
  BY <1>3, <1>4, <1>5, <1>6 DEF Valid

(* So are they when the answer in hand is counted: the row waits for it, and *)
(* its worst case was reserved.                                              *)
LEMMA CountedValid ==
  ASSUME EngineInv, NEW r \in Runs, proc[r].pc \in {"store", "commit"}
  PROVE  Valid(r, proc[r].budget)
<1> DEFINE d == db[r]
           b == d.budget
           a == proc[r].answer
           e == proc[r].budget
           row == LastRow(d)
           actual == IF ~ row.cache_hit /\ IsResponse(a) THEN CostOf[a.usage] ELSE 0
           uncertain == IF ~ row.cache_hit /\ a.kind = "uncertain" THEN MaxCost ELSE 0
<1>1. /\ d \in Database /\ b \in BudgetState /\ CountersFit(d) /\ e = CountedIn(d, a)
      /\ AnsweringFits(d, files[r], proc[r]) /\ proc[r] \in Process /\ Size(d) \in Nat
  BY AtWork DEF EngineInv, Database, MemoryFits, PlaceFits, Answering
<1>2. a \in Answers /\ Waiting(d) /\ Size(d) > 0
  BY <1>1 DEF AnsweringFits, Process, Waiting, LastIn
<1>3. Valid(r, b) /\ CountersBounded(d) /\ HitsFree(d)
  BY StoredValid, RoomOf DEF EngineInv
<1>4. /\ e.attempts = b.attempts + 1 /\ e.items = b.items /\ e.oracle = b.oracle
      /\ e.provider = b.provider + (IF row.cache_hit THEN 0 ELSE 1)
      /\ e.hits = b.hits + (IF row.cache_hit THEN 1 ELSE 0)
      /\ e.retries = b.retries + (IF row.retry > 0 THEN 1 ELSE 0)
      /\ e.tokens = b.tokens + a.usage
      /\ e.actual = b.actual + actual /\ e.uncertain = b.uncertain + uncertain
  BY <1>1, BudgetType DEF CountedIn
<1>5. /\ b.attempts \in Nat /\ b.provider \in Nat /\ b.hits \in Nat /\ b.retries \in Nat
      /\ b.tokens \in Nat /\ b.actual \in Nat /\ b.uncertain \in Nat
      /\ TokenBound \in Nat /\ TokenCap \in Nat /\ ModelRequestCap \in Nat
      /\ ChildCap[r] \in Nat /\ a.usage \in 0..TokenBound
  BY <1>1, <1>2, BudgetType, Phase4Constants, LedgerConstants, AnswerShape
<1>6. actual \in Nat /\ uncertain \in Nat
  <2>1. MaxCost \in Nat /\ (IsResponse(a) => CostOf[a.usage] \in 0..MaxCost)
    BY <1>2, AnswerCost
  <2>2. QED
    BY <2>1
<1>7. AnswerCostOf(d, a) = actual + uncertain
  BY DEF AnswerCostOf
<1>8. b.actual + b.uncertain + AnswerCostOf(d, a) <= ChildCap[r]
  BY <1>3, CostsFit DEF EngineInv
<1> HIDE DEF d, b, a, e, row, actual, uncertain
<1>9. e.attempts <= ModelRequestCap
  <2>1. b.attempts = Size(d) - 1 /\ Size(d) <= ModelRequestCap
    BY <1>1, <1>2 DEF CountersFit, b
  <2>2. QED
    BY <1>1, <1>4, <1>5, <2>1
<1>10. e.tokens <= TokenCap
  <2>1. b.tokens + TokenBound <= TokenCap
    BY <1>1, <1>2 DEF CountersFit, Preflight, b
  <2>2. QED
    BY <1>4, <1>5, <2>1
<1>11. e.items <= ItemCap /\ e.oracle <= OracleCap
  BY <1>3, <1>4 DEF Valid
<1>12. e.provider + e.hits = e.attempts /\ e.retries <= e.attempts
  BY <1>3, <1>4, <1>5 DEF Valid
<1>13. e.actual + e.uncertain <= ChildCap[r]
  BY <1>4, <1>5, <1>6, <1>7, <1>8
<1>14. QED
  BY <1>9, <1>10, <1>11, <1>12, <1>13 DEF Valid, e

(* At any other moment a process has the stored counters or none at all. *)
LEMMA MemoryValid ==
  ASSUME EngineInv, NEW r \in Runs
  PROVE  Valid(r, proc[r].budget)
<1> DEFINE d == db[r]
           p == proc[r]
<1>1. ProcRoom(d, p) /\ Valid(r, d.budget) /\ d.budget \in BudgetState
  BY RoomOf, StoredValid, AtWork DEF EngineInv, Database
<1>2. CASE p.pc \in {"store", "commit"}
  BY <1>2, CountedValid
<1>3. CASE p.pc \in {"none", "open"}
  <2>1. p.budget = EmptyBudget
    BY <1>1, <1>3 DEF ProcRoom
  <2>2. /\ {ModelRequestCap, TokenCap, ItemCap, OracleCap} \subseteq Nat /\ ChildCap[r] \in Nat
    BY Phase4Constants, LedgerConstants
  <2>3. QED
    BY <2>1, <2>2 DEF Valid, EmptyBudget
<1>4. CASE p.pc \notin {"none", "open", "store", "commit"}
  <2>1. PICK n \in Nat : p.budget = [d.budget EXCEPT !.logical = n]
    BY <1>1, <1>4 DEF ProcRoom, LikeStored
  <2>2. /\ p.budget.attempts = d.budget.attempts /\ p.budget.tokens = d.budget.tokens
        /\ p.budget.items = d.budget.items /\ p.budget.oracle = d.budget.oracle
        /\ p.budget.provider = d.budget.provider /\ p.budget.hits = d.budget.hits
        /\ p.budget.retries = d.budget.retries /\ p.budget.actual = d.budget.actual
        /\ p.budget.uncertain = d.budget.uncertain
    BY <1>1, <2>1, BudgetType
  <2>3. QED
    BY <1>1, <2>2 DEF Valid
<1>5. QED
  BY <1>2, <1>3, <1>4

(* Everything that is known of a reachable state holds in every one of them. *)
THEOREM EngineStaysSound == Spec => []EngineInv
<1>1. Spec => []LedgerInv
  BY EngineImplementsLedger, InvariantHolds, PTL
<1>2. LedgerInv => LedgerTypeOK
  BY DEF LedgerInv
<1>3. Init => OwnReservations
  BY DEF Init, LedgerInit, OwnReservations
<1>4. Phase4Inv /\ MoneyInv /\ LedgerTypeOK /\ OwnReservations /\ [Next]_vars => OwnReservations'
  BY OwnNext
<1>5. Phase4Inv /\ Phase4Inv' /\ CountInv /\ RoomInv /\ [Next]_vars => RoomInv'
  BY RoomNext
<1>6. Spec => []OwnReservations
  BY <1>1, <1>2, <1>3, <1>4, EngineConsistent, MoneyAccounted, PTL DEF Spec
<1>7. Spec => []RoomInv
  BY <1>5, RoomInit, EngineConsistent, CountsHold, PTL DEF Spec
<1>8. QED
  BY <1>1, <1>6, <1>7, EngineConsistent, MoneyAccounted, CountsHold, PTL DEF EngineInv

(* validate() never raises: at every moment the stored counters and those in *)
(* memory are within every cap, whatever the answers cost and brought and    *)
(* whoever died in between.                                                  *)
THEOREM ValidateNeverRaises == Spec => []BudgetStaysValid
<1>1. EngineInv => BudgetStaysValid
  BY StoredValid, MemoryValid DEF BudgetStaysValid
<1>2. QED
  BY <1>1, EngineStaysSound, PTL

-----------------------------------------------------------------------------
(* How a run ends: the invariant. *)

(* No two runs build the same request; there is one run only. *)
Unshared ==
  \A a, b \in DOMAIN RequestHash : RequestHash[a] = RequestHash[b] => a[1] = b[1]
Alone == \A r, s \in Runs : r = s

(* The request a process makes next: the first of a new call, or a retry. *)
LogicalAfter(d) == IF Fresh(d) THEN NextLogical(d) ELSE LastRow(d).logical
BatchAfter(d) == IF Fresh(d) THEN BatchFor(d.budget) ELSE LastRow(d).batch
HashAfter(r, d) == RequestHash[r, LogicalAfter(d), BatchAfter(d)]

(* A process that takes up the run goes on to that request. *)
GoesOn(r, d, f) ==
  /\ Between(d) /\ d.evaluations >= InitialCandidates
  /\ IF Fresh(d) THEN ~ Exhausted(r, d.budget)
     ELSE MayRetry(f.answers[Size(d)].kind, LastRow(d).retry)
Wants(r, d, f) == GoesOn(r, d, f) /\ Preflight(d.budget)

AskFits(r, d, f, p, h) ==
  /\ p.pc \in Asking =>
       GoesOn(r, d, f) /\ p.logical = LogicalAfter(d) /\ p.batch = BatchAfter(d)
  /\ p.pc = "reserve" /\ Unshared => h[HashAfter(r, d)] = Nothing
  /\ p.pc = "give-up" => ~ Wants(r, d, f) /\ p.budget = d.budget

(* A reservation without a row is the one of the next request, which every   *)
(* process that takes up the run still wants and finds in no cache.          *)
Ahead(r, d, R) ==
  {k \in 1..Len(R) : \E i \in 1..ModelRequestCap, h \in Hashes :
                       R[k].reservation_id = <<r, i, h>> /\ i > Size(d)}

AheadFits(r, d, f, p, h, R) ==
  \A k \in Ahead(r, d, R) :
    /\ R[k].reservation_id = <<r, Size(d) + 1, HashAfter(r, d)>>
    /\ Wants(r, d, f) /\ d.status \notin Terminal /\ p.pc \notin Ending
    /\ Unshared => h[HashAfter(r, d)] = Nothing /\ (p.pc = "prepare" => p.hit = Nothing)

(* Any other reservation of the run is that of a paid row. *)
RowsHeld(r, d, R) ==
  \A k \in 1..Len(R), i \in 1..Size(d), h \in Hashes :
    R[k].reservation_id = <<r, i, h>> =>
      h = d.requests[i].hash /\ (Unshared => ~ d.requests[i].cache_hit)

HeldFits(r, d, f, p, h, R) ==
  AskFits(r, d, f, p, h) /\ AheadFits(r, d, f, p, h, R) /\ RowsHeld(r, d, R)

(* Reservations have identities of their own, which name run and request. *)
IdsFit(R) ==
  /\ \A k \in 1..Len(R) : \E i \in 1..ModelRequestCap, h \in Hashes :
       R[k].reservation_id = <<R[k].run_id, i, h>>
  /\ \A j, k \in 1..Len(R) : R[j].reservation_id = R[k].reservation_id => j = k

HeldInv ==
  /\ IdsFit(reservation)
  /\ \A r \in Runs : HeldFits(r, db[r], files[r], proc[r], cache, reservation)

(* The decision to end a run with a status stands: no process that takes it  *)
(* up decides otherwise.                                                     *)
Refused(r, i, h) ==
  /\ cache[h] = Nothing
  /\ ReserveRefused([reservation_id |-> ReservationId(r, i, h), run_id |-> r,
                     stage |-> RunStage[r], request_hash |-> h, amount |-> MaxCost],
                    PhaseCap, StageCap[RunStage[r]])
RefusedAgain(r, d) == Refused(r, Size(d) + 1, HashAfter(r, d))

Stands(r, d, f, status) ==
  \/ d.status \in Terminal
  \/ /\ Ended(d) /\ d.evaluations >= InitialCandidates
     /\ IF status = "cost-cap-exhausted" THEN RefusedAgain(r, d) ELSE ~ Wants(r, d, f)

(* Another run may lift the refusal of the ledger. *)
Sure(status) == status = "cost-cap-exhausted" => Alone

EndFits(r, d, f, p) ==
  /\ p.pc \in Ending => p.budget = d.budget
  /\ p.pc \in Ending /\ Sure(p.status) => Stands(r, d, f, p.status)
  /\ f.results # Nothing /\ Sure(f.results.status) =>
       /\ f.results.report = [requests |-> d.requests, budget |-> d.budget]
       /\ Stands(r, d, f, f.results.status)

EndInv == \A r \in Runs : EndFits(r, db[r], files[r], proc[r])
-----------------------------------------------------------------------------
(* Steps of one run. *)

(* The parts of the invariant, for one run. *)
LEMMA HeldOf ==
  ASSUME HeldInv, NEW r \in Runs
  PROVE  /\ IdsFit(reservation)
         /\ HeldFits(r, db[r], files[r], proc[r], cache, reservation)
         /\ AskFits(r, db[r], files[r], proc[r], cache)
         /\ AheadFits(r, db[r], files[r], proc[r], cache, reservation)
         /\ RowsHeld(r, db[r], reservation)
BY DEF HeldInv, HeldFits

(* The same rows, counters, evaluations and answers: the same decisions. *)
LEMMA SameDecision ==
  ASSUME NEW r, NEW R, NEW d, NEW e, NEW f, NEW g, e.requests = d.requests,
         e.budget = d.budget, e.evaluations = d.evaluations, g.answers = f.answers
  PROVE  /\ Size(e) = Size(d) /\ LastRow(e) = LastRow(d)
         /\ (Fresh(e) <=> Fresh(d)) /\ (Between(e) <=> Between(d)) /\ (Ended(e) <=> Ended(d))
         /\ LogicalAfter(e) = LogicalAfter(d) /\ BatchAfter(e) = BatchAfter(d)
         /\ HashAfter(r, e) = HashAfter(r, d)
         /\ (GoesOn(r, e, g) <=> GoesOn(r, d, f)) /\ (Wants(r, e, g) <=> Wants(r, d, f))
         /\ Ahead(r, e, R) = Ahead(r, d, R) /\ (RowsHeld(r, e, R) <=> RowsHeld(r, d, R))
<1>1. Size(e) = Size(d) /\ LastRow(e) = LastRow(d)
  BY DEF Size, LastRow
<1>2. (Fresh(e) <=> Fresh(d)) /\ (Between(e) <=> Between(d)) /\ (Ended(e) <=> Ended(d))
  BY <1>1 DEF Fresh, Between, Ended
<1>3. LogicalAfter(e) = LogicalAfter(d) /\ BatchAfter(e) = BatchAfter(d)
  BY <1>1, <1>2 DEF LogicalAfter, BatchAfter, NextLogical
<1>4. HashAfter(r, e) = HashAfter(r, d)
  BY <1>3 DEF HashAfter
<1>5. GoesOn(r, e, g) <=> GoesOn(r, d, f)
  BY <1>1, <1>2 DEF GoesOn
<1>6. Wants(r, e, g) <=> Wants(r, d, f)
  BY <1>5 DEF Wants
<1>7. Ahead(r, e, R) = Ahead(r, d, R)
  BY <1>1 DEF Ahead
<1>8. RowsHeld(r, e, R) <=> RowsHeld(r, d, R)
  BY <1>1 DEF RowsHeld
<1>9. QED
  BY <1>1, <1>2, <1>3, <1>4, <1>5, <1>6, <1>7, <1>8

(* The next request of a run is one that it builds. *)
LEMMA NextRequestKnown ==
  ASSUME Phase4Inv, RoomInv, NEW r \in Runs
  PROVE  /\ LogicalAfter(db[r]) \in 0..ModelRequestCap /\ BatchAfter(db[r]) \in 0..BatchSize
         /\ <<r, LogicalAfter(db[r]), BatchAfter(db[r])>> \in DOMAIN RequestHash
         /\ HashAfter(r, db[r]) \in Hashes
<1> DEFINE d == db[r]
           b == d.budget
<1>1. /\ CountersFit(d) /\ d \in Database /\ Size(d) \in Nat /\ b \in BudgetState
      /\ ModelRequestCap \in Nat /\ BatchSize \in Nat /\ ItemCap \in Nat /\ OracleCap \in Nat
  BY AtWork, Phase4Constants DEF Database
<1>2. CASE Fresh(d)
  <2>1. /\ b.logical \in Nat /\ b.items \in Nat /\ b.oracle \in Nat
        /\ b.items <= ItemCap /\ b.oracle <= OracleCap
    BY <1>1, BudgetType, RoomOf DEF CountersBounded, Fits
  <2>2. NextLogical(d) \in 0..ModelRequestCap
    BY <1>1, <2>1 DEF CountersFit
  <2>3. BatchFor(b) \in 0..BatchSize
    BY <1>1, <2>1 DEF BatchFor, MinOf
  <2>4. QED
    BY <1>2, <2>2, <2>3, Phase4Constants DEF LogicalAfter, BatchAfter, HashAfter
<1>3. CASE ~ Fresh(d)
  <2>1. Size(d) > 0
    BY <1>3 DEF Fresh
  <2>2. LastRow(d).batch \in 0..BatchSize /\ LastRow(d).logical \in 0..ModelRequestCap
    BY <2>1, AtWork, RowNumbers
  <2>3. QED
    BY <1>3, <2>2, Phase4Constants DEF LogicalAfter, BatchAfter, HashAfter
<1>4. QED
  BY <1>2, <1>3

(* What run r may do to the shared table and to the shared cache: rows keep  *)
(* their identity, and what is new is one of its own requests.               *)
OwnRows(r, R, S) ==
  /\ Len(R) <= Len(S)
  /\ \A k \in 1..Len(R) :
       S[k].reservation_id = R[k].reservation_id /\ S[k].run_id = R[k].run_id
  /\ \A k \in 1..Len(S) : k > Len(R) => \E i, x : S[k].reservation_id = <<r, i, x>>

OwnHashes(r, h, g) ==
  \A x \in Hashes : g[x] # h[x] =>
    \E a \in DOMAIN RequestHash : a[1] = r /\ RequestHash[a] = x

(* Then the invariant goes on to hold of another run. *)
LEMMA OthersHeld ==
  ASSUME NEW r, NEW s \in Runs, s # r, NEW d, NEW f, NEW p, NEW h, NEW g,
         NEW R \in Seq(ReservationRow), NEW S \in Seq(ReservationRow),
         OwnRows(r, R, S), OwnHashes(r, h, g),
         <<s, LogicalAfter(d), BatchAfter(d)>> \in DOMAIN RequestHash,
         HashAfter(s, d) \in Hashes, HeldFits(s, d, f, p, h, R)
  PROVE  HeldFits(s, d, f, p, g, S)
<1>1. Unshared => g[HashAfter(s, d)] = h[HashAfter(s, d)]
  <2> SUFFICES ASSUME Unshared, g[HashAfter(s, d)] # h[HashAfter(s, d)]
               PROVE  FALSE
    OBVIOUS
  <2> DEFINE b == <<s, LogicalAfter(d), BatchAfter(d)>>
  <2>1. PICK a \in DOMAIN RequestHash : a[1] = r /\ RequestHash[a] = HashAfter(s, d)
    BY DEF OwnHashes
  <2>2. RequestHash[a] = RequestHash[b] /\ b \in DOMAIN RequestHash /\ b[1] = s
    BY <2>1 DEF HashAfter
  <2>3. a[1] = b[1]
    BY <2>1, <2>2 DEF Unshared
  <2>4. QED
    BY <2>1, <2>2, <2>3
<1>2. Len(R) \in Nat /\ Len(S) \in Nat /\ Len(R) <= Len(S)
  BY DEF OwnRows
<1>3. ASSUME NEW k \in 1..Len(S), NEW i, NEW x, S[k].reservation_id = <<s, i, x>>
      PROVE  k \in 1..Len(R) /\ R[k].reservation_id = <<s, i, x>>
  <2>1. CASE k > Len(R)
    <3>1. PICK j, y : S[k].reservation_id = <<r, j, y>>
      BY <2>1 DEF OwnRows
    <3>2. <<r, j, y>> = <<s, i, x>>
      BY <1>3, <3>1
    <3>3. r = s
      BY <3>2
    <3>4. QED
      BY <3>3
  <2>2. CASE ~ (k > Len(R))
    <3>1. k \in 1..Len(R)
      BY <1>2, <2>2
    <3>2. QED
      BY <1>3, <3>1 DEF OwnRows
  <2>3. QED
    BY <2>1, <2>2
<1>4. \A k \in Ahead(s, d, S) : k \in Ahead(s, d, R) /\ S[k].reservation_id = R[k].reservation_id
  BY <1>3 DEF Ahead
<1>5. AskFits(s, d, f, p, g)
  BY <1>1 DEF HeldFits, AskFits
<1>6. AheadFits(s, d, f, p, g, S)
  BY <1>1, <1>4 DEF HeldFits, AheadFits
<1>7. RowsHeld(s, d, S)
  BY <1>3 DEF HeldFits, RowsHeld
<1>8. QED
  BY <1>5, <1>6, <1>7 DEF HeldFits

(* It suffices to look at the run that moved, at the table and at the cache. *)
LEMMA HeldStep ==
  ASSUME Phase4Inv, RoomInv, HeldInv, NEW r \in Runs, OthersRest(r),
         reservation \in Seq(ReservationRow), reservation' \in Seq(ReservationRow),
         OwnRows(r, reservation, reservation'), OwnHashes(r, cache, cache'),
         IdsFit(reservation'),
         HeldFits(r, db'[r], files'[r], proc'[r], cache', reservation')
  PROVE  HeldInv'
<1>1. ASSUME NEW s \in Runs
      PROVE  HeldFits(s, db'[s], files'[s], proc'[s], cache', reservation')
  <2>1. CASE s = r
    BY <2>1
  <2>2. CASE s # r
    <3>1. HeldFits(s, db[s], files[s], proc[s], cache, reservation)
      BY HeldOf
    <3>2. HeldFits(s, db[s], files[s], proc[s], cache', reservation')
      BY <2>2, <3>1, NextRequestKnown, OthersHeld
    <3>3. QED
      BY <2>2, <3>2 DEF OthersRest
  <2>3. QED
    BY <2>1, <2>2
<1>2. QED
  BY <1>1 DEF HeldInv

(* The shared table and the shared cache stay as they are. *)
LEMMA NothingShared ==
  ASSUME NEW r, reservation \in Seq(ReservationRow), UNCHANGED <<reservation, cache>>
  PROVE  OwnRows(r, reservation, reservation') /\ OwnHashes(r, cache, cache')
<1>1. Len(reservation) \in Nat
  OBVIOUS
<1>2. QED
  BY <1>1 DEF OwnRows, OwnHashes

(* A table of the same rows has the same identities. *)
LEMMA SameIds ==
  ASSUME NEW r, NEW R \in Seq(ReservationRow), NEW S \in Seq(ReservationRow),
         OwnRows(r, R, S), Len(S) = Len(R), IdsFit(R)
  PROVE  /\ IdsFit(S)
         /\ \A s, d : Ahead(s, d, S) = Ahead(s, d, R) /\ (RowsHeld(s, d, S) <=> RowsHeld(s, d, R))
<1>1. \A k \in 1..Len(S) :
        S[k].reservation_id = R[k].reservation_id /\ S[k].run_id = R[k].run_id
  BY DEF OwnRows
<1>2. IdsFit(S)
  BY <1>1 DEF IdsFit
<1>3. ASSUME NEW s, NEW d
      PROVE  Ahead(s, d, S) = Ahead(s, d, R) /\ (RowsHeld(s, d, S) <=> RowsHeld(s, d, R))
  <2>1. Len(S) = Len(R)
    OBVIOUS
  <2>2. \A k : k \in Ahead(s, d, S) <=> k \in Ahead(s, d, R)
    BY <1>1, <2>1 DEF Ahead
  <2>3. Ahead(s, d, S) = Ahead(s, d, R)
    BY <2>2
  <2>4. RowsHeld(s, d, S) <=> RowsHeld(s, d, R)
    BY <1>1, <2>1 DEF RowsHeld
  <2>5. QED
    BY <2>3, <2>4
<1>4. QED
  BY <1>2, <1>3

(* A step of the control flow: what it decides must not forsake a reservation *)
(* that was made ahead.                                                       *)
LEMMA QuietHeld ==
  ASSUME Phase4Inv, RoomInv, HeldInv, reservation \in Seq(ReservationRow), NEW r \in Runs,
         OthersRest(r), SameRows(r), files'[r].answers = files[r].answers,
         UNCHANGED <<reservation, cache>>, AskFits(r, db[r], files[r], proc'[r], cache),
         Ahead(r, db[r], reservation) # {} =>
           /\ db'[r].status \notin Terminal /\ proc'[r].pc \notin Ending
           /\ Unshared /\ proc'[r].pc = "prepare" => proc'[r].hit = Nothing
  PROVE  HeldInv'
<1> DEFINE d == db[r]
           e == db'[r]
           f == files[r]
           g == files'[r]
           q == proc'[r]
<1>1. e.requests = d.requests /\ e.budget = d.budget /\ e.evaluations = d.evaluations
      /\ g.answers = f.answers
  BY DEF SameRows
<1>2. /\ IdsFit(reservation) /\ AheadFits(r, d, f, proc[r], cache, reservation)
      /\ RowsHeld(r, d, reservation)
  BY HeldOf
<1>3. /\ Size(e) = Size(d)
      /\ LogicalAfter(e) = LogicalAfter(d) /\ BatchAfter(e) = BatchAfter(d)
      /\ HashAfter(r, e) = HashAfter(r, d)
      /\ (GoesOn(r, e, g) <=> GoesOn(r, d, f)) /\ (Wants(r, e, g) <=> Wants(r, d, f))
      /\ Ahead(r, e, reservation) = Ahead(r, d, reservation)
      /\ RowsHeld(r, e, reservation) <=> RowsHeld(r, d, reservation)
  BY <1>1, SameDecision
<1> HIDE DEF d, e, f, g, q
<1>4. AskFits(r, d, f, q, cache) /\
      (Ahead(r, d, reservation) # {} =>
           /\ e.status \notin Terminal /\ q.pc \notin Ending
           /\ Unshared /\ q.pc = "prepare" => q.hit = Nothing)
  BY DEF d, e, f, q
<1>5. AskFits(r, e, g, q, cache)
  BY <1>1, <1>3, <1>4 DEF AskFits
<1>6. AheadFits(r, e, g, q, cache, reservation)
  BY <1>2, <1>3, <1>4 DEF AheadFits
<1>7. HeldFits(r, e, g, q, cache, reservation)
  BY <1>2, <1>3, <1>5, <1>6 DEF HeldFits
<1>8. reservation' = reservation /\ cache' = cache
  OBVIOUS
<1>9. OwnRows(r, reservation, reservation') /\ OwnHashes(r, cache, cache')
  BY NothingShared
<1>10. IdsFit(reservation') /\ HeldFits(r, e, g, q, cache', reservation')
  BY <1>2, <1>7, <1>8
<1>11. QED
  BY <1>8, <1>9, <1>10, HeldStep DEF e, g, q

(* A step of a run without a reservation ahead, which leaves its rows their  *)
(* hashes and sources.                                                       *)
LEMMA NoneAheadHeld ==
  ASSUME Phase4Inv, RoomInv, HeldInv, NEW r \in Runs, OthersRest(r),
         reservation \in Seq(ReservationRow), reservation' \in Seq(ReservationRow),
         OwnRows(r, reservation, reservation'), Len(reservation') = Len(reservation),
         OwnHashes(r, cache, cache'), Ahead(r, db[r], reservation) = {},
         Size(db'[r]) = Size(db[r]),
         \A i \in 1..Size(db[r]) :
           /\ db'[r].requests[i].hash = db[r].requests[i].hash
           /\ db'[r].requests[i].cache_hit = db[r].requests[i].cache_hit,
         AskFits(r, db'[r], files'[r], proc'[r], cache')
  PROVE  HeldInv'
<1> DEFINE d == db[r]
           e == db'[r]
<1>1. IdsFit(reservation) /\ RowsHeld(r, d, reservation)
  BY HeldOf
<1>2. /\ IdsFit(reservation') /\ Ahead(r, d, reservation') = {}
      /\ RowsHeld(r, d, reservation')
  BY <1>1, SameIds
<1>3. Ahead(r, e, reservation') = {}
  BY <1>2 DEF Ahead
<1>4. RowsHeld(r, e, reservation')
  BY <1>2 DEF RowsHeld
<1>5. AheadFits(r, e, files'[r], proc'[r], cache', reservation')
  BY <1>3 DEF AheadFits
<1>6. HeldFits(r, e, files'[r], proc'[r], cache', reservation')
  BY <1>4, <1>5 DEF HeldFits
<1>7. QED
  BY <1>2, <1>6, HeldStep

(* A run that wants nothing more, or that has ended, has no reservation ahead. *)
LEMMA NoneAhead ==
  ASSUME HeldInv, NEW r \in Runs,
         \/ ~ Wants(r, db[r], files[r]) \/ ~ Between(db[r])
         \/ db[r].evaluations < InitialCandidates /\ db[r].evaluations \in Nat
         \/ db[r].status \in Terminal \/ proc[r].pc \in Ending
  PROVE  Ahead(r, db[r], reservation) = {}
<1>1. AheadFits(r, db[r], files[r], proc[r], cache, reservation)
  BY HeldOf
<1>2. InitialCandidates \in Nat
  BY Phase4Constants
<1>3. QED
  BY <1>1, <1>2 DEF AheadFits, Wants, GoesOn

(* A process that is not about to ask has no request to agree with. *)
LEMMA AsksNothing ==
  ASSUME NEW r, NEW d, NEW f, NEW p, NEW h, p.pc \notin Asking \cup {"give-up"}
  PROVE  AskFits(r, d, f, p, h)
BY DEF AskFits, Asking
-----------------------------------------------------------------------------
(* The actions of the control flow. *)

(* Processes come, and go or die. *)
LEMMA ComesOrGoes ==
  ASSUME Phase4Inv, NEW r \in Runs,
         \/ Start(r) \/ Crash(r) \/ Raise(r) \/ Interrupt(r) \/ Close(r)
         \/ \E online \in BOOLEAN : Resume(r, online)
  PROVE  proc'[r].pc \in {"none", "open"}
<1>1. proc \in [Runs -> Process]
  BY AtWork
<1>2. CASE Crash(r) \/ Raise(r) \/ Interrupt(r) \/ Close(r)
  BY <1>1, <1>2 DEF Crash, Raise, Interrupt, Close, End, Become, NoProcess
<1>3. CASE Start(r)
  <2>1. proc'[r] = [NoProcess EXCEPT !.pc = "open", !.online = TRUE, !.purpose = "run"]
    BY <1>1, <1>3 DEF Start, Become
  <2>2. QED
    BY <2>1 DEF NoProcess
<1>4. ASSUME NEW online \in BOOLEAN, Resume(r, online)
      PROVE  proc'[r].pc = "open"
  <2>1. proc'[r] = [NoProcess EXCEPT !.pc = "open", !.online = online, !.purpose = "resume"]
    BY <1>1, <1>4 DEF Resume, Become
  <2>2. QED
    BY <2>1 DEF NoProcess
<1>5. QED
  BY <1>2, <1>3, <1>4

(* None of that touches a reservation. *)
LEMMA ComeAndGoHeld ==
  ASSUME Phase4Inv, RoomInv, HeldInv, reservation \in Seq(ReservationRow), NEW r \in Runs,
         OthersRest(r),
         \/ Start(r) \/ Crash(r) \/ Raise(r) \/ Interrupt(r) \/ Close(r)
         \/ \E online \in BOOLEAN : Resume(r, online)
  PROVE  HeldInv'
<1>1. SameRows(r) /\ files'[r].answers = files[r].answers /\ UNCHANGED <<reservation, cache>>
  BY KeepsRows, KeepsAnswers, NothingInHand DEF Untouched
<1>2. proc \in [Runs -> Process] /\ db \in [Runs -> Database] /\ db[r] \in Database
  BY AtWork
<1>3. proc'[r].pc \in {"none", "open"}
  BY ComesOrGoes
<1>4. Ahead(r, db[r], reservation) # {} => db'[r].status \notin Terminal
  <2>1. Ahead(r, db[r], reservation) # {} => db[r].status \notin Terminal /\ ~ Close(r)
    BY NoneAhead DEF Close, At, Ending
  <2>2. CASE Start(r) \/ Interrupt(r)
    BY <1>2, <2>2 DEF Start, Interrupt, SetStatus, Database, Terminal
  <2>3. CASE Crash(r) \/ Raise(r) \/ \E online \in BOOLEAN : Resume(r, online)
    BY <2>1, <2>3 DEF Crash, Raise, Resume
  <2>4. QED
    BY <2>1, <2>2, <2>3
<1>5. AskFits(r, db[r], files[r], proc'[r], cache)
  BY <1>3, AsksNothing DEF Asking
<1>6. proc'[r].pc \notin Ending /\ proc'[r].pc # "prepare"
  BY <1>3 DEF Ending
<1>7. QED
  BY <1>1, <1>4, <1>5, <1>6, QuietHeld

(* The files of a run that has ended are written, and its status. *)
LEMMA FinalizeHeld ==
  ASSUME Phase4Inv, RoomInv, HeldInv, reservation \in Seq(ReservationRow), NEW r \in Runs,
         OthersRest(r), WriteReport(r) \/ WriteAccessLedger(r) \/ WriteResults(r)
  PROVE  HeldInv'
<1>1. SameRows(r) /\ files'[r].answers = files[r].answers /\ UNCHANGED <<reservation, cache>>
  BY KeepsRows, KeepsAnswers, NothingInHand DEF Untouched
<1>2. proc[r] \in Process /\ proc \in [Runs -> Process]
  BY AtWork
<1>3. proc[r].pc \in Ending
  BY DEF WriteReport, WriteAccessLedger, WriteResults, At, Ending
<1>4. proc'[r].pc \in Ending \cup {"none"}
  BY <1>2 DEF WriteReport, WriteAccessLedger, WriteResults, Goto, End, Become, Process,
    NoProcess, Ending
<1>5. Ahead(r, db[r], reservation) = {}
  BY <1>3, NoneAhead
<1>6. AskFits(r, db[r], files[r], proc'[r], cache)
  BY <1>4, AsksNothing DEF Asking, Ending
<1>7. QED
  BY <1>1, <1>5, <1>6, QuietHeld

(* The head of execute(), and what only goes on. *)
LEMMA GoOnHeld ==
  ASSUME Phase4Inv, RoomInv, HeldInv, reservation \in Seq(ReservationRow), NEW r \in Runs,
         OthersRest(r), Open(r) \/ Initialized(r) \/ Gate(r)
  PROVE  HeldInv'
<1>1. SameRows(r) /\ files'[r].answers = files[r].answers /\ UNCHANGED <<reservation, cache>>
  BY KeepsRows, KeepsAnswers, NothingInHand DEF Untouched
<1>2. /\ proc[r] \in Process /\ proc \in [Runs -> Process]
      /\ db \in [Runs -> Database] /\ db[r] \in Database
  BY AtWork
<1>3. \/ /\ proc'[r].pc \in {"initialize", "recover", "loop", "interrupt"}
         /\ db'[r].status \in {"running", db[r].status}
      \/ proc'[r].pc = "report" /\ db[r].status \in Terminal
  <2>1. CASE Open(r)
    <3>1. CASE db[r].status \in Terminal
      <4>1. proc'[r] = [proc[r] EXCEPT !.pc = "report", !.budget = db[r].budget,
                                       !.status = db[r].status]
        BY <1>2, <2>1, <3>1 DEF Open, Become
      <4>2. QED
        BY <1>2, <3>1, <4>1 DEF Process
    <3>2. CASE db[r].status \notin Terminal
      <4>1. /\ proc'[r] = [proc[r] EXCEPT !.pc = "initialize", !.budget = db[r].budget]
            /\ db'[r] = [db[r] EXCEPT !.status = "running"]
        BY <1>2, <2>1, <3>2 DEF Open, Become, SetStatus
      <4>2. proc'[r].pc = "initialize" /\ db'[r].status = "running"
        BY <1>2, <4>1 DEF Process, Database
      <4>3. QED
        BY <4>2
    <3>3. QED
      BY <3>1, <3>2
  <2>2. CASE Initialized(r) \/ Gate(r)
    BY <1>2, <2>2 DEF Initialized, Gate, Goto, Become, Process
  <2>3. QED
    BY <2>1, <2>2
<1>4. AskFits(r, db[r], files[r], proc'[r], cache)
  BY <1>3, AsksNothing DEF Asking
<1>5. Ahead(r, db[r], reservation) # {} => db[r].status \notin Terminal
  BY NoneAhead
<1>6. Ahead(r, db[r], reservation) # {} =>
        /\ db'[r].status \notin Terminal /\ proc'[r].pc \notin Ending
        /\ proc'[r].pc # "prepare"
  BY <1>3, <1>5 DEF Ending, Terminal
<1>7. QED
  BY <1>1, <1>4, <1>6, QuietHeld

(* An ambiguous answer is the last one, and so is one that is given up. *)
LEMMA StopHeld ==
  ASSUME Phase4Inv, RoomInv, HeldInv, reservation \in Seq(ReservationRow), NEW r \in Runs,
         OthersRest(r), Stop(r) \/ GiveUp(r)
  PROVE  HeldInv'
<1>1. SameRows(r) /\ files'[r].answers = files[r].answers /\ UNCHANGED <<reservation, cache>>
  BY KeepsRows, KeepsAnswers, NothingInHand DEF Untouched
<1>2. proc[r] \in Process /\ proc \in [Runs -> Process]
  BY AtWork
<1>3. Ahead(r, db[r], reservation) = {}
  <2>1. CASE Stop(r)
    <3>1. LastIn(db[r], {"usage-uncertain"})
      BY <2>1, AtWork DEF Stop, At, PlaceFits
    <3>2. ~ Between(db[r])
      BY <3>1 DEF LastIn, Between, Closed
    <3>3. QED
      BY <3>2, NoneAhead
  <2>2. CASE GiveUp(r)
    <3>1. ~ Wants(r, db[r], files[r])
      BY <2>2, HeldOf DEF GiveUp, At, AskFits
    <3>2. QED
      BY <3>1, NoneAhead
  <2>3. QED
    BY <2>1, <2>2
<1>4. proc'[r].pc = "report"
  <2>1. \E status : proc'[r] = [proc[r] EXCEPT !.pc = "report", !.status = status]
    BY <1>2 DEF Stop, GiveUp, Finish, Become
  <2>2. QED
    BY <1>2, <2>1 DEF Process
<1>5. AskFits(r, db[r], files[r], proc'[r], cache)
  BY <1>4, AsksNothing DEF Asking
<1>6. QED
  BY <1>1, <1>3, <1>5, QuietHeld

(* The main loop goes on exactly when a resume would. *)
LEMMA NextCallDecides ==
  ASSUME Phase4Inv, RoomInv, NEW r \in Runs, NextCall(r)
  PROVE  /\ AskFits(r, db[r], files[r], proc'[r], cache)
         /\ \/ proc'[r].pc = "attempt"
            \/ /\ proc'[r].pc = "report" /\ ~ Wants(r, db[r], files[r])
               /\ proc'[r].status = "completed" /\ proc'[r].budget = db[r].budget
         /\ Between(db[r]) /\ db[r].evaluations >= InitialCandidates
<1> DEFINE d == db[r]
           p == proc[r]
           b == p.budget
<1>1. /\ p \in Process /\ proc \in [Runs -> Process] /\ p.pc = "loop" /\ b = d.budget
      /\ Fresh(d) /\ CountersFit(d) /\ d.evaluations >= InitialCandidates
  <2>1. p.pc = "loop"
    BY DEF NextCall, At
  <2>2. QED
    BY <2>1, AtWork, AtWorkRoom DEF MemoryFits, InMemory, PlaceFits, Begun
<1>2. Between(d)
  BY <1>1 DEF Fresh, Between, Closed
<1>3. CASE Exhausted(r, b) \/ ~ Preflight(b)
  <2>1. proc'[r] = [p EXCEPT !.pc = "report", !.status = "completed"]
    BY <1>1, <1>3 DEF NextCall, Finish, Become
  <2>2. proc'[r].pc = "report" /\ proc'[r].status = "completed" /\ proc'[r].budget = b
    BY <1>1, <2>1 DEF Process
  <2>3. ~ Wants(r, d, files[r])
    BY <1>1, <1>3 DEF Wants, GoesOn
  <2>4. AskFits(r, d, files[r], proc'[r], cache)
    BY <2>2, AsksNothing DEF Asking
  <2>5. QED
    BY <1>1, <1>2, <2>2, <2>3, <2>4
<1>4. CASE ~ (Exhausted(r, b) \/ ~ Preflight(b))
  <2>1. proc'[r] = [p EXCEPT !.pc = "attempt", !.recovering = FALSE,
                      !.logical = b.logical, !.retry = 0,
                      !.batch = BatchFor(b), !.budget.logical = @ + 1]
    BY <1>1, <1>4 DEF NextCall, Become
  <2>2. proc'[r].pc = "attempt" /\ proc'[r].logical = b.logical /\ proc'[r].batch = BatchFor(b)
    BY <1>1, <2>1 DEF Process
  <2>3. GoesOn(r, d, files[r])
    BY <1>1, <1>2, <1>4 DEF GoesOn
  <2>4. LogicalAfter(d) = b.logical /\ BatchAfter(d) = BatchFor(b)
    BY <1>1 DEF LogicalAfter, BatchAfter, CountersFit
  <2>5. AskFits(r, d, files[r], proc'[r], cache)
    BY <2>2, <2>3, <2>4 DEF AskFits
  <2>6. QED
    BY <1>1, <1>2, <2>2, <2>5
<1>5. QED
  BY <1>3, <1>4

(* A new call forsakes no reservation. *)
LEMMA NextCallHeld ==
  ASSUME Phase4Inv, RoomInv, HeldInv, reservation \in Seq(ReservationRow), NEW r \in Runs,
         OthersRest(r), NextCall(r)
  PROVE  HeldInv'
<1>1. SameRows(r) /\ files'[r].answers = files[r].answers /\ UNCHANGED <<reservation, cache>>
  BY KeepsRows, KeepsAnswers, NothingInHand DEF Untouched
<1>2. /\ AskFits(r, db[r], files[r], proc'[r], cache)
      /\ proc'[r].pc = "attempt" \/ ~ Wants(r, db[r], files[r])
  BY NextCallDecides
<1>3. Ahead(r, db[r], reservation) # {} =>
        /\ db'[r].status \notin Terminal /\ proc'[r].pc \notin Ending
        /\ proc'[r].pc # "prepare"
  BY <1>2, NoneAhead DEF NextCall, Ending
<1>4. QED
  BY <1>1, <1>2, <1>3, QuietHeld

(* A retry that the counters do not admit is given up, by a resume too. *)
LEMMA AttemptDecides ==
  ASSUME Phase4Inv, RoomInv, HeldInv, NEW r \in Runs, Attempt(r)
  PROVE  /\ AskFits(r, db[r], files[r], proc'[r], cache)
         /\ proc'[r].pc \in {"interrupt", "give-up", "reserve", "prepare"}
         /\ proc'[r].pc = "prepare" => cache[HashAfter(r, db[r])] # Nothing
<1> DEFINE d == db[r]
           p == proc[r]
           f == files[r]
           hit == cache[HashAfter(r, d)]
<1>1. /\ p \in Process /\ proc \in [Runs -> Process] /\ p.pc = "attempt"
      /\ GoesOn(r, d, f) /\ p.logical = LogicalAfter(d) /\ p.batch = BatchAfter(d)
      /\ AskingFits(r, d, p, cache) /\ d.budget \in BudgetState
      /\ p.budget = IF p.retry = 0 THEN [d.budget EXCEPT !.logical = @ + 1] ELSE d.budget
  <2>1. p.pc = "attempt"
    BY DEF Attempt, NextHash, At
  <2>2. QED
    BY <2>1, AtWork, HeldOf DEF AskFits, Asking, PlaceFits, MemoryFits, Database
<1>2. RequestHash[r, p.logical, p.batch] = HashAfter(r, d)
  BY <1>1 DEF HashAfter
<1>3. CASE ~ p.online
  <2>1. proc'[r].pc = "interrupt"
    BY <1>1, <1>3 DEF Attempt, NextHash, Goto, Become, Process
  <2>2. QED
    BY <2>1, AsksNothing DEF Asking
<1>4. CASE p.online /\ ~ Preflight(p.budget)
  <2>1. proc'[r] = [p EXCEPT !.pc = "give-up"]
    BY <1>1, <1>4 DEF Attempt, NextHash, Goto, Become
  <2>2. proc'[r].pc = "give-up" /\ proc'[r].budget = p.budget
    BY <1>1, <2>1 DEF Process
  <2>3. p.retry # 0
    <3> SUFFICES ASSUME p.retry = 0 PROVE FALSE
      OBVIOUS
    <3>1. p.budget = [d.budget EXCEPT !.logical = @ + 1] /\ Preflight(d.budget)
      BY <1>1 DEF AskingFits
    <3>2. p.budget.attempts = d.budget.attempts /\ p.budget.tokens = d.budget.tokens
      BY <1>1, <3>1, BudgetType
    <3>3. QED
      BY <1>4, <3>1, <3>2 DEF Preflight
  <2>4. p.budget = d.budget
    BY <1>1, <2>3
  <2>5. ~ Wants(r, d, f)
    BY <1>4, <2>4 DEF Wants
  <2>6. AskFits(r, d, f, proc'[r], cache)
    BY <2>2, <2>4, <2>5 DEF AskFits, Asking
  <2>7. QED
    BY <2>2, <2>6
<1>5. CASE p.online /\ Preflight(p.budget)
  <2>1. proc'[r] = [p EXCEPT !.hit = hit, !.pc = IF hit = Nothing THEN "reserve" ELSE "prepare"]
    BY <1>1, <1>2, <1>5 DEF Attempt, NextHash, Become
  <2> HIDE DEF hit
  <2>2. /\ proc'[r].pc = (IF hit = Nothing THEN "reserve" ELSE "prepare")
        /\ proc'[r].logical = p.logical /\ proc'[r].batch = p.batch
    BY <1>1, <2>1 DEF Process
  <2>3. AskFits(r, d, f, proc'[r], cache)
    BY <1>1, <2>2 DEF AskFits, Asking, hit
  <2>4. QED
    BY <2>2, <2>3 DEF hit
<1>6. QED
  BY <1>1, <1>3, <1>4, <1>5 DEF Process

(* Neither does the lookup of the request in the cache. *)
LEMMA AttemptHeld ==
  ASSUME Phase4Inv, RoomInv, HeldInv, reservation \in Seq(ReservationRow), NEW r \in Runs,
         OthersRest(r), Attempt(r)
  PROVE  HeldInv'
<1>1. /\ SameRows(r) /\ files'[r].answers = files[r].answers /\ UNCHANGED <<reservation, cache>>
      /\ db' = db
  BY KeepsRows, KeepsAnswers DEF Attempt, NextHash, ledgerVars
<1>2. /\ AskFits(r, db[r], files[r], proc'[r], cache)
      /\ proc'[r].pc \in {"interrupt", "give-up", "reserve", "prepare"}
      /\ proc'[r].pc = "prepare" => cache[HashAfter(r, db[r])] # Nothing
  BY AttemptDecides
<1>3. Unshared /\ cache[HashAfter(r, db[r])] # Nothing => Ahead(r, db[r], reservation) = {}
  BY HeldOf DEF AheadFits
<1>4. Ahead(r, db[r], reservation) # {} =>
        /\ db'[r].status \notin Terminal /\ proc'[r].pc \notin Ending
        /\ Unshared /\ proc'[r].pc = "prepare" => proc'[r].hit = Nothing
  BY <1>1, <1>2, <1>3, NoneAhead DEF Ending
<1>5. QED
  BY <1>1, <1>2, <1>4, QuietHeld

(* A refused reservation is not there. *)
LEMMA RefusedNone ==
  ASSUME HeldInv, NEW r \in Runs, RefusedAgain(r, db[r])
  PROVE  Ahead(r, db[r], reservation) = {}
<1> DEFINE id == <<r, Size(db[r]) + 1, HashAfter(r, db[r])>>
<1>1. MaxCost \in Nat /\ RequestCap \in Nat /\ MaxCost <= RequestCap
  BY Phase4Constants, LedgerConstants
<1>2. RowOf(id) = {}
  BY <1>1 DEF RefusedAgain, Refused, ReserveRefused, ReservationId
<1>3. \A k \in Ahead(r, db[r], reservation) : k \in RowOf(id)
  BY HeldOf DEF AheadFits, Ahead, RowOf, Rowids
<1>4. QED
  BY <1>2, <1>3

(* The reservation that a process asks for is the one of the next request. *)
LEMMA AskedRequest ==
  ASSUME Phase4Inv, HeldInv, NEW r \in Runs, proc[r].pc = "reserve"
  PROVE  /\ ReservationRequest(r) =
              [reservation_id |-> ReservationId(r, Size(db[r]) + 1, HashAfter(r, db[r])),
               run_id |-> r, stage |-> RunStage[r], request_hash |-> HashAfter(r, db[r]),
               amount |-> MaxCost]
         /\ Wants(r, db[r], files[r]) /\ Between(db[r])
         /\ proc[r].hit = Nothing /\ db[r].status = "running"
         /\ Unshared => cache[HashAfter(r, db[r])] = Nothing
<1> DEFINE d == db[r]
           p == proc[r]
<1>1. /\ GoesOn(r, d, files[r]) /\ p.logical = LogicalAfter(d) /\ p.batch = BatchAfter(d)
      /\ Unshared => cache[HashAfter(r, d)] = Nothing
  BY HeldOf DEF AskFits, Asking
<1>2. AskingFits(r, d, p, cache) /\ Index(r) = Size(d) /\ d.status = "running"
  BY AtWork DEF PlaceFits, Asking, StatusFits, Begun
<1>3. Preflight(d.budget) /\ Between(d) /\ p.hit = Nothing
  BY <1>2 DEF AskingFits
<1>4. RequestHash[r, p.logical, p.batch] = HashAfter(r, d)
  BY <1>1 DEF HashAfter
<1>5. QED
  BY <1>1, <1>2, <1>3, <1>4 DEF ReservationRequest, NextHash, Wants

(* A refused reservation leaves the run without one ahead. *)
LEMMA RefuseCostHeld ==
  ASSUME Phase4Inv, RoomInv, HeldInv, reservation \in Seq(ReservationRow), NEW r \in Runs,
         OthersRest(r), RefuseCost(r)
  PROVE  HeldInv'
<1>1. SameRows(r) /\ files'[r].answers = files[r].answers /\ UNCHANGED <<reservation, cache>>
  BY KeepsRows, KeepsAnswers, NothingInHand DEF Untouched
<1>2. proc[r] \in Process /\ proc \in [Runs -> Process] /\ proc[r].pc = "reserve"
  BY AtWork DEF RefuseCost, At
<1> DEFINE id == <<r, Size(db[r]) + 1, HashAfter(r, db[r])>>
<1>3. RowOf(id) = {}
  <2>1. MaxCost \in Nat /\ RequestCap \in Nat /\ MaxCost <= RequestCap
    BY Phase4Constants, LedgerConstants
  <2>2. ReservationRequest(r).reservation_id = id /\ ReservationRequest(r).amount = MaxCost
    BY <1>2, AskedRequest DEF ReservationId
  <2>3. QED
    BY <2>1, <2>2 DEF RefuseCost, ReserveRefused
<1>4. Ahead(r, db[r], reservation) = {}
  BY <1>3, HeldOf DEF AheadFits, Ahead, RowOf, Rowids
<1>5. proc'[r].pc = "report"
  BY <1>2 DEF RefuseCost, Become, Process
<1>6. AskFits(r, db[r], files[r], proc'[r], cache)
  BY <1>5, AsksNothing DEF Asking
<1>7. QED
  BY <1>1, <1>4, <1>6, QuietHeld
-----------------------------------------------------------------------------
(* A resume, and the steps that change a row. *)

(* After a failed answer a process goes on or gives up as a resume would. *)
LEMMA FailureDecides ==
  ASSUME NEW r, NEW d, NEW f, NEW h, NEW p \in Process, NEW q,
         LastIn(d, {"schema-failure", "failed"}), d.evaluations >= InitialCandidates,
         p.budget = d.budget, p.logical = LastRow(d).logical, p.batch = LastRow(d).batch,
         q = AfterFailure(p, f.answers[Size(d)].kind, LastRow(d).retry)
  PROVE  AskFits(r, d, f, q, h) /\ q.pc \in {"attempt", "give-up"}
<1>1. Between(d) /\ ~ Fresh(d)
  BY DEF LastIn, Between, Fresh, Closed
<1>2. CASE MayRetry(f.answers[Size(d)].kind, LastRow(d).retry)
  <2>1. q = [p EXCEPT !.pc = "attempt", !.retry = LastRow(d).retry + 1]
    BY <1>2 DEF AfterFailure
  <2>2. q.pc = "attempt" /\ q.logical = LastRow(d).logical /\ q.batch = LastRow(d).batch
    BY <2>1 DEF Process
  <2>3. GoesOn(r, d, f)
    BY <1>1, <1>2 DEF GoesOn
  <2>4. QED
    BY <1>1, <2>2, <2>3 DEF AskFits, LogicalAfter, BatchAfter
<1>3. CASE ~ MayRetry(f.answers[Size(d)].kind, LastRow(d).retry)
  <2>1. q = [p EXCEPT !.pc = "give-up"]
    BY <1>3 DEF AfterFailure
  <2>2. q.pc = "give-up" /\ q.budget = d.budget
    BY <2>1 DEF Process
  <2>3. ~ Wants(r, d, f)
    BY <1>1, <1>3 DEF Wants, GoesOn
  <2>4. QED
    BY <2>2, <2>3 DEF AskFits, Asking
<1>4. QED
  BY <1>2, <1>3

(* What a resume decides of the last row. *)
LEMMA RecoverDecides ==
  ASSUME Phase4Inv, RoomInv, NEW r \in Runs, Recover(r)
  PROVE  /\ AskFits(r, db[r], files[r], proc'[r], cache)
         /\ proc'[r].pc \in {"gate", "items", "attempt", "give-up", "stop", "interrupt",
                             "record", "send"}
<1> DEFINE d == db[r]
           p == proc[r]
           row == LastRow(d)
           x == Recovered(r)
           quiet == {"gate", "items", "stop", "interrupt", "record", "send"}
<1>1. At(r, "recover") /\ p.pc = "recover"
  BY DEF Recover, At
<1>2. /\ d \in Database /\ p \in Process /\ proc \in [Runs -> Process]
      /\ Index(r) = Size(d) /\ Row(r) = row /\ FilesFit(d, files[r])
      /\ (Requests(r) = <<>> <=> Size(d) = 0) /\ Size(d) \in Nat
      /\ d.evaluations >= InitialCandidates
  <2>1. /\ d \in Database /\ p \in Process /\ proc \in [Runs -> Process]
        /\ Index(r) = Size(d) /\ Row(r) = row /\ FilesFit(d, files[r])
        /\ d.evaluations >= InitialCandidates
    BY <1>1, AtWork, AtWorkRoom DEF Begun
  <2>2. d.requests \in Seq(RequestRow) /\ Requests(r) = d.requests
    BY <2>1 DEF Database, Requests
  <2>3. QED
    BY <2>1, <2>2 DEF Size
<1>3. ASSUME proc'[r].pc \in quiet
      PROVE  /\ AskFits(r, d, files[r], proc'[r], cache)
             /\ proc'[r].pc \in quiet \cup {"attempt", "give-up"}
  BY <1>3, AsksNothing DEF Asking
<1>4. CASE Size(d) = 0
  <2>1. proc'[r] = [p EXCEPT !.pc = "gate"]
    BY <1>2, <1>4 DEF Recover, Goto, Become
  <2>2. proc'[r].pc = "gate"
    BY <1>2, <2>1 DEF Process
  <2>3. QED
    BY <1>3, <2>2
<1>5. CASE Size(d) > 0
  <2>1. /\ x \in Process /\ x.budget = d.budget /\ x.batch = row.batch
        /\ x.logical = row.logical /\ row \in RequestRow
    BY <1>1, <1>5, RecoveredProcess, AtWork
  <2>2. proc' = [proc EXCEPT ![r] =
       CASE Row(r).state = "completed" -> [proc[r] EXCEPT !.pc = "gate"]
         [] Row(r).state = "responded" ->
              [Recovered(r) EXCEPT !.pc = "items", !.answer = AnswerFile(r)]
         [] Row(r).state \in {"schema-failure", "failed"} ->
              AfterFailure(Recovered(r), AnswerFile(r).kind, Row(r).retry)
         [] Row(r).state = "usage-uncertain" -> [proc[r] EXCEPT !.pc = "stop"]
         [] Row(r).state = "pending" -> ResumePending(r)
         [] Row(r).state = "dispatched" -> ResumeDispatched(r)]
    <3>1. Requests(r) # <<>>
      BY <1>2, <1>5
    <3>2. QED
      BY <3>1, Zenon DEF Recover, Become
  <2>3. CASE row.state \in {"completed", "usage-uncertain"}
    <3>1. \E pc \in {"gate", "stop"} : proc'[r] = [p EXCEPT !.pc = pc]
      BY <1>2, <2>2, <2>3
    <3>2. proc'[r].pc \in {"gate", "stop"}
      BY <1>2, <3>1 DEF Process
    <3>3. QED
      BY <1>3, <3>2
  <2>4. CASE row.state = "responded"
    <3>1. proc'[r] = [x EXCEPT !.pc = "items", !.answer = AnswerFile(r)]
      BY <1>2, <2>2, <2>4
    <3> HIDE DEF x
    <3>2. proc'[r].pc = "items"
      BY <2>1, <3>1 DEF Process
    <3>3. QED
      BY <1>3, <3>2
  <2>5. CASE row.state \in {"schema-failure", "failed"}
    <3>1. proc'[r] = AfterFailure(x, AnswerFile(r).kind, row.retry)
      BY <1>2, <2>2, <2>5
    <3>2. LastIn(d, {"schema-failure", "failed"})
      BY <1>5, <2>5 DEF LastIn
    <3>3. Size(d) \in DOMAIN files[r].answers
      BY <1>2, <1>5, <2>5 DEF FilesFit, LastIn
    <3>4. AnswerFile(r) = files[r].answers[Size(d)]
      BY <1>2, <3>3 DEF AnswerFile
    <3>5. proc'[r] = AfterFailure(x, files[r].answers[Size(d)].kind, LastRow(d).retry)
      BY <3>1, <3>4
    <3> HIDE DEF x, d
    <3>6. AskFits(r, d, files[r], proc'[r], cache) /\ proc'[r].pc \in {"attempt", "give-up"}
      BY <1>2, <2>1, <3>2, <3>5, FailureDecides
    <3>7. QED
      BY <3>6 DEF d
  <2>6. CASE row.state = "pending"
    <3>1. proc'[r] = ResumePending(r)
      BY <1>2, <2>2, <2>6
    <3>2. \/ proc'[r] = [p EXCEPT !.pc = "interrupt"]
          \/ \E a : proc'[r] = [x EXCEPT !.pc = "record", !.hit = a, !.answer = a]
          \/ proc'[r] = [x EXCEPT !.pc = "send"]
      BY <1>2, <3>1 DEF ResumePending, Process
    <3> HIDE DEF x
    <3>3. proc'[r].pc \in {"interrupt", "record", "send"}
      BY <1>2, <2>1, <3>2 DEF Process
    <3>4. QED
      BY <1>3, <3>3
  <2>7. CASE row.state = "dispatched"
    <3>1. \E a : proc'[r] = [x EXCEPT !.pc = "record", !.answer = a]
      BY <1>2, <2>2, <2>7 DEF ResumeDispatched
    <3> HIDE DEF x
    <3>2. proc'[r].pc = "record"
      BY <2>1, <3>1 DEF Process
    <3>3. QED
      BY <1>3, <3>2
  <2>8. QED
    BY <2>1, <2>3, <2>4, <2>5, <2>6, <2>7 DEF RequestRow, Finalized
<1>6. QED
  BY <1>2, <1>4, <1>5

(* A resume takes up what is there. *)
LEMMA RecoverHeld ==
  ASSUME Phase4Inv, RoomInv, HeldInv, reservation \in Seq(ReservationRow), NEW r \in Runs,
         OthersRest(r), Recover(r)
  PROVE  HeldInv'
<1>1. /\ SameRows(r) /\ files'[r].answers = files[r].answers /\ UNCHANGED <<reservation, cache>>
      /\ db' = db
  BY KeepsRows, KeepsAnswers DEF Recover, ledgerVars
<1>2. /\ AskFits(r, db[r], files[r], proc'[r], cache)
      /\ proc'[r].pc \in {"gate", "items", "attempt", "give-up", "stop", "interrupt",
                          "record", "send"}
  BY RecoverDecides
<1>3. Ahead(r, db[r], reservation) # {} =>
        /\ db'[r].status \notin Terminal /\ proc'[r].pc \notin Ending
        /\ proc'[r].pc # "prepare"
  BY <1>1, <1>2, NoneAhead DEF Ending
<1>4. QED
  BY <1>1, <1>2, <1>3, QuietHeld

(* A row that waits for its answer, or for its items, is the last one. *)
LEMMA WaitingNone ==
  ASSUME HeldInv, NEW r \in Runs, LastIn(db[r], {"pending", "dispatched", "responded"})
  PROVE  Ahead(r, db[r], reservation) = {}
<1>1. ~ Between(db[r])
  BY DEF LastIn, Between, Closed
<1>2. QED
  BY <1>1, NoneAhead

(* Where a process goes with an answer in hand. *)
LEMMA AnswerGoes ==
  ASSUME Phase4Inv, NEW r \in Runs,
         \/ (\E answer \in Answer(proc[r].batch) :
               \E charge \in Charges(answer) : Provider(r, answer, charge))
         \/ Record(r) \/ Settle(r) \/ Store(r)
  PROVE  proc'[r].pc \in {"record", "settle", "store", "commit", "none"}
<1> DEFINE p == proc[r]
<1>1. p \in Process /\ proc \in [Runs -> Process]
  BY AtWork
<1>2. CASE Record(r) \/ \E answer \in Answer(proc[r].batch) :
              \E charge \in Charges(answer) : Provider(r, answer, charge)
  <2>1. \/ proc'[r] = [p EXCEPT !.pc = "settle"]
        \/ \E answer : proc'[r] = [p EXCEPT !.pc = "record", !.answer = answer]
    BY <1>1, <1>2 DEF Provider, Record, Goto, Become
  <2>2. QED
    BY <1>1, <2>1 DEF Process
<1>3. CASE Settle(r)
  <2> DEFINE pc == IF p.answer.kind = "response" /\ Paid(r) THEN "store" ELSE "commit"
  <2>1. \E b : proc'[r] = [p EXCEPT !.budget = b, !.pc = pc]
    BY <1>1, <1>3 DEF Settle, Become
  <2>2. pc \in {"store", "commit"}
    OBVIOUS
  <2> HIDE DEF pc
  <2>3. QED
    BY <1>1, <2>1, <2>2 DEF Process
<1>4. CASE Store(r)
  BY <1>1, <1>4 DEF Store, Goto, End, Become, Process, NoProcess
<1>5. QED
  BY <1>2, <1>3, <1>4

(* The call of the provider, its record and the settlement. *)
LEMMA AnswerHeld ==
  ASSUME Phase4Inv, RoomInv, MoneyInv, HeldInv, reservation \in Seq(ReservationRow),
         reservation' \in Seq(ReservationRow), NEW r \in Runs, OthersRest(r),
         \/ (\E answer \in Answer(proc[r].batch) :
               \E charge \in Charges(answer) : Provider(r, answer, charge))
         \/ Record(r) \/ Settle(r) \/ Store(r)
  PROVE  HeldInv'
<1> DEFINE d == db[r]
           p == proc[r]
<1>1. /\ p \in Process /\ proc \in [Runs -> Process] /\ Index(r) = Size(d) /\ Row(r) = LastRow(d)
      /\ db' = db /\ p.pc \in {"wire", "record", "settle", "store"} /\ SameRows(r)
      /\ Len(reservation) \in Nat
  <2>1. db' = db /\ p.pc \in {"wire", "record", "settle", "store"}
    BY DEF Provider, Record, Settle, Store, At
  <2>2. QED
    BY <2>1, AtWork, KeepsRows
<1>2. LastIn(d, {"pending", "dispatched"})
  BY <1>1, AtWork DEF PlaceFits, Answering, AnsweringFits, Waiting, LastIn
<1>3. Ahead(r, d, reservation) = {}
  BY <1>2, WaitingNone DEF LastIn
<1>4. proc'[r].pc \in {"record", "settle", "store", "commit", "none"}
  BY AnswerGoes
<1>5. OwnRows(r, reservation, reservation') /\ Len(reservation') = Len(reservation)
  <2>1. CASE UNCHANGED reservation
    BY <1>1, <2>1 DEF OwnRows
  <2>2. CASE Settle(r) /\ Paid(r)
    <3> DEFINE a == p.answer
    <3>1. SettleLedger(r, a) /\ AmountsFit(reservation)
      BY <2>2 DEF Settle, MoneyInv
    <3>2. a \in Answers
      <4>1. p.pc = "settle"
        BY <2>2 DEF Settle, At
      <4>2. AnsweringFits(d, files[r], p)
        BY <4>1, AtWork DEF PlaceFits, Answering
      <4>3. QED
        BY <1>1, <4>2 DEF AnsweringFits, Process
    <3> HIDE DEF a
    <3>3. PICK k \in RowsWith(reservation, <<r, Index(r), Row(r).hash>>) :
           /\ Len(reservation') = Len(reservation)
           /\ \A l \in 1..Len(reservation) : l # k => reservation'[l] = reservation[l]
           /\ reservation'[k].reservation_id = reservation[k].reservation_id
           /\ reservation'[k].run_id = reservation[k].run_id
      BY <2>2, <3>1, <3>2, SettleTable
    <3>4. \A l \in 1..Len(reservation) :
            /\ reservation'[l].reservation_id = reservation[l].reservation_id
            /\ reservation'[l].run_id = reservation[l].run_id
      BY <3>3
    <3>5. QED
      BY <1>1, <3>3, <3>4 DEF OwnRows
  <2>3. CASE ~ (Settle(r) /\ Paid(r))
    <3>1. UNCHANGED reservation
      BY <2>3 DEF Provider, Record, Settle, Store, SettleLedger, ledgerVars
    <3>2. QED
      BY <2>1, <3>1
  <2>4. QED
    BY <2>2, <2>3
<1>6. OwnHashes(r, cache, cache')
  <2>1. CASE UNCHANGED cache
    BY <2>1 DEF OwnHashes
  <2>2. CASE Store(r) /\ cache' = [cache EXCEPT ![Row(r).hash] = p.answer]
    <3>1. Size(d) > 0
      BY <1>2 DEF LastIn
    <3>2. /\ LastRow(d) \in RequestRow /\ RowFits(r, LastRow(d), cache)
          /\ CacheFits(cache)
      BY <3>1, AtWork
    <3>3. /\ LastRow(d).batch \in 0..BatchSize /\ LastRow(d).logical \in 0..ModelRequestCap
          /\ LastRow(d).hash = RequestHash[r, LastRow(d).logical, LastRow(d).batch]
      BY <3>2, RowNumbers DEF RowFits
    <3> DEFINE a == <<r, LastRow(d).logical, LastRow(d).batch>>
    <3>4. a \in DOMAIN RequestHash /\ a[1] = r /\ RequestHash[a] = Row(r).hash
      BY <1>1, <3>3, Phase4Constants
    <3>5. \A y \in Hashes : y # Row(r).hash => cache'[y] = cache[y]
      BY <2>2, <3>2 DEF CacheFits
    <3> HIDE DEF a
    <3>6. QED
      BY <3>4, <3>5 DEF OwnHashes
  <2>3. UNCHANGED cache \/ (Store(r) /\ cache' = [cache EXCEPT ![Row(r).hash] = p.answer])
    BY DEF Provider, Record, Settle, Store
  <2>4. QED
    BY <2>1, <2>2, <2>3
<1>7. AskFits(r, db'[r], files'[r], proc'[r], cache')
  BY <1>4, AsksNothing DEF Asking
<1>8. QED
  BY <1>1, <1>3, <1>5, <1>6, <1>7, NoneAheadHeld

(* The charged evaluation of a baseline. *)
LEMMA InitializeHeld ==
  ASSUME Phase4Inv, RoomInv, HeldInv, reservation \in Seq(ReservationRow), NEW r \in Runs,
         OthersRest(r), NEW stop \in BOOLEAN, Initialize(r, stop)
  PROVE  HeldInv'
<1>1. /\ proc[r] \in Process /\ proc \in [Runs -> Process] /\ db \in [Runs -> Database]
      /\ db[r] \in Database
  BY AtWork
<1>2. UNCHANGED <<reservation, cache>> /\ db[r].evaluations < InitialCandidates
  BY DEF Initialize, ledgerVars
<1>3. Ahead(r, db[r], reservation) = {}
  BY <1>1, <1>2, NoneAhead DEF Database
<1>4. db'[r].requests = db[r].requests /\ proc'[r].pc \notin InHand
  <2>1. \E b, n, s : db' = [db EXCEPT ![r].evaluations = n, ![r].budget = b, ![r].status = s]
    BY DEF Initialize
  <2>2. QED
    BY <1>1, <2>1, NothingInHand DEF Database
<1>5. proc'[r].pc \in {"none", "initialize"}
  BY <1>1 DEF Initialize, Evaluated, Become, Process, NoProcess
<1>6. AskFits(r, db'[r], files'[r], proc'[r], cache')
  BY <1>5, AsksNothing DEF Asking
<1>7. /\ OwnRows(r, reservation, reservation') /\ OwnHashes(r, cache, cache')
      /\ reservation' \in Seq(ReservationRow) /\ Len(reservation') = Len(reservation)
  BY <1>2, NothingShared
<1>8. Size(db'[r]) = Size(db[r])
  BY <1>4 DEF Size
<1>9. QED
  BY <1>3, <1>4, <1>6, <1>7, <1>8, NoneAheadHeld

(* A new content of the last row. *)
LEMMA RewriteHeld ==
  ASSUME Phase4Inv, RoomInv, HeldInv, reservation \in Seq(ReservationRow), NEW r \in Runs,
         OthersRest(r), UNCHANGED <<reservation, cache>>, NEW row,
         Rewritten(db[r], db'[r], row),
         LastIn(db[r], {"pending", "dispatched", "responded"}),
         AskFits(r, db'[r], files'[r], proc'[r], cache)
  PROVE  HeldInv'
<1> DEFINE d == db[r]
           e == db'[r]
<1>1. /\ Size(d) \in 1..Len(d.requests) /\ Size(e) = Size(d) /\ e.requests[Size(d)] = row
      /\ \A i \in 1..Size(d) : i # Size(d) => e.requests[i] = d.requests[i]
      /\ row.hash = d.requests[Size(d)].hash /\ row.cache_hit = d.requests[Size(d)].cache_hit
  BY DEF Rewritten, Size, LastRow
<1>2. \A i \in 1..Size(d) : /\ e.requests[i].hash = d.requests[i].hash
                            /\ e.requests[i].cache_hit = d.requests[i].cache_hit
  BY <1>1
<1>3. Ahead(r, d, reservation) = {}
  BY WaitingNone
<1>4. /\ OwnRows(r, reservation, reservation') /\ OwnHashes(r, cache, cache')
      /\ reservation' \in Seq(ReservationRow) /\ Len(reservation') = Len(reservation)
      /\ cache' = cache
  BY NothingShared
<1>5. AskFits(r, e, files'[r], proc'[r], cache')
  BY <1>4
<1>6. QED
  BY <1>1, <1>2, <1>3, <1>4, <1>5, NoneAheadHeld

(* mark_dispatched(), the items and complete_request(). *)
LEMMA RowHeld ==
  ASSUME Phase4Inv, RoomInv, HeldInv, reservation \in Seq(ReservationRow), NEW r \in Runs,
         OthersRest(r), Send(r) \/ Complete(r) \/ \E stop \in BOOLEAN : Item(r, stop)
  PROVE  HeldInv'
<1> DEFINE d == db[r]
           old == LastRow(d)
<1>1. /\ d \in Database /\ d.requests \in Seq(RequestRow) /\ proc[r].pc \in {"send", "items"}
      /\ UNCHANGED <<reservation, cache>>
  BY AtWork DEF Database, Send, Complete, Item, At, ledgerVars
<1>2. LastIn(d, {"pending", "dispatched", "responded"})
  BY <1>1, AtWork DEF PlaceFits, LastIn
<1>3. old \in RequestRow /\ Size(d) > 0
  BY <1>2, AtWork DEF LastIn
<1>4. \E row : /\ db'[r].requests = [d.requests EXCEPT ![Size(d)] = row]
               /\ row.hash = old.hash /\ row.cache_hit = old.cache_hit
  <2>1. /\ \A s : [old EXCEPT !.state = s].hash = old.hash
        /\ \A s : [old EXCEPT !.state = s].cache_hit = old.cache_hit
        /\ \A n : [old EXCEPT !.next_item = n].hash = old.hash
        /\ \A n : [old EXCEPT !.next_item = n].cache_hit = old.cache_hit
    BY <1>3 DEF RequestRow
  <2>2. \/ \E s : db'[r].requests = [d.requests EXCEPT ![Size(d)] = [old EXCEPT !.state = s]]
        \/ \E n : db'[r].requests = [d.requests EXCEPT ![Size(d)] = [old EXCEPT !.next_item = n]]
    <3>1. CASE Send(r)
      BY <3>1, SendShape
    <3>2. CASE Complete(r)
      BY <3>2, CompleteShape
    <3>3. ASSUME NEW stop \in BOOLEAN, Item(r, stop)
          PROVE  db'[r].requests =
                   [d.requests EXCEPT ![Size(d)] = [old EXCEPT !.next_item = old.next_item + 1]]
      BY <3>3, ItemShape
    <3>4. QED
      BY <3>1, <3>2, <3>3
  <2>3. ASSUME NEW s,
               db'[r].requests = [d.requests EXCEPT ![Size(d)] = [old EXCEPT !.state = s]]
        PROVE  \E row : /\ db'[r].requests = [d.requests EXCEPT ![Size(d)] = row]
                        /\ row.hash = old.hash /\ row.cache_hit = old.cache_hit
    <3> WITNESS [old EXCEPT !.state = s]
    <3> HIDE DEF old, d
    <3>1. QED
      BY <2>1, <2>3
  <2>4. ASSUME NEW n,
               db'[r].requests = [d.requests EXCEPT ![Size(d)] = [old EXCEPT !.next_item = n]]
        PROVE  \E row : /\ db'[r].requests = [d.requests EXCEPT ![Size(d)] = row]
                        /\ row.hash = old.hash /\ row.cache_hit = old.cache_hit
    <3> WITNESS [old EXCEPT !.next_item = n]
    <3> HIDE DEF old, d
    <3>1. QED
      BY <2>1, <2>4
  <2>5. QED
    BY <2>2, <2>3, <2>4
<1>5. PICK row : /\ db'[r].requests = [d.requests EXCEPT ![Size(d)] = row]
                 /\ row.hash = old.hash /\ row.cache_hit = old.cache_hit
  BY <1>4
<1>6. Rewritten(d, db'[r], row)
  BY <1>1, <1>3, <1>5 DEF Rewritten
<1>7. proc'[r].pc \in {"wire", "gate", "loop", "none", "items"}
  BY SendShape, CompleteShape, ItemShape
<1>8. AskFits(r, db'[r], files'[r], proc'[r], cache)
  BY <1>7, AsksNothing DEF Asking
<1>9. QED
  BY <1>1, <1>2, <1>6, <1>8, RewriteHeld

(* finalize_request(): a failure is retried or given up as a resume would. *)
LEMMA CommitHeld ==
  ASSUME Phase4Inv, RoomInv, HeldInv, reservation \in Seq(ReservationRow), NEW r \in Runs,
         OthersRest(r), Commit(r)
  PROVE  HeldInv'
<1> DEFINE d == db[r]
           e == db'[r]
           p == proc[r]
           a == p.answer
           old == LastRow(d)
           row == Answered(r)
<1>1. /\ e.requests = [d.requests EXCEPT ![Size(d)] = row] /\ e.budget = p.budget
      /\ e.evaluations = d.evaluations /\ p.pc = "commit" /\ files'[r] = files[r]
      /\ proc'[r].pc \in {"items", "stop", "attempt", "give-up"} /\ UNCHANGED reservation
  BY CommitShape DEF OnlyRows
<1>2. /\ AnsweringFits(d, files[r], p) /\ d.requests \in Seq(RequestRow)
      /\ p \in Process /\ proc \in [Runs -> Process] /\ Row(r) = old /\ UNCHANGED cache
      /\ d.evaluations >= InitialCandidates
  BY <1>1, AtWork, AtWorkRoom DEF PlaceFits, Answering, Database, Commit, Begun
<1>3. /\ Size(d) > 0 /\ LastIn(d, {"pending", "dispatched", "responded"}) /\ a \in Answers
      /\ p.logical = old.logical /\ p.batch = old.batch /\ files[r].answers[Size(d)] = a
  BY <1>1, <1>2 DEF AnsweringFits, Waiting, LastIn, Process
<1>4. old \in RequestRow
  BY <1>3, AtWork
<1>5. /\ row.state = FinalState(a) /\ row.hash = old.hash /\ row.cache_hit = old.cache_hit
      /\ row.batch = old.batch /\ row.logical = old.logical /\ row.retry = old.retry
  <2> DEFINE x == [old EXCEPT !.state = FinalState(a), !.usage = a.usage,
                     !.actual = Actual(r, a), !.released = Released(r, a),
                     !.uncertain = Uncertain(r, a), !.item_count = Len(a.items)]
  <2>1. row = x
    BY DEF Answered
  <2> HIDE DEF old, a
  <2>2. /\ x.state = FinalState(a) /\ x.hash = old.hash /\ x.cache_hit = old.cache_hit
        /\ x.batch = old.batch /\ x.logical = old.logical /\ x.retry = old.retry
    BY <1>4 DEF RequestRow
  <2> HIDE DEF x
  <2>3. QED
    BY <2>1, <2>2
<1>6. proc'[r] = CASE a.kind = "response" -> [p EXCEPT !.pc = "items"]
                   [] a.kind = "uncertain" -> [p EXCEPT !.pc = "stop"]
                   [] OTHER -> AfterFailure(p, a.kind, old.retry)
  BY <1>2, Zenon DEF Commit, Become
<1> HIDE DEF row, e, old, a
<1>7. Rewritten(d, e, row)
  BY <1>1, <1>2, <1>3, <1>5 DEF Rewritten, old
<1>8. /\ Size(e) = Size(d) /\ LastRow(e) = row
      /\ \A states : LastIn(e, states) <=> row.state \in states
  <2>1. Size(d) \in 1..Len(d.requests) /\ Size(e) = Size(d) /\ e.requests[Size(d)] = row
    BY <1>7 DEF Rewritten, Size
  <2>2. QED
    BY <1>3, <2>1 DEF LastRow, LastIn
<1>9. AskFits(r, e, files[r], proc'[r], cache)
  <2>1. CASE a.kind \in {"response", "uncertain"}
    <3>1. proc'[r].pc \in {"items", "stop"}
      BY <1>2, <1>6, <2>1 DEF Process
    <3>2. QED
      BY <3>1, AsksNothing DEF Asking
  <2>2. CASE a.kind \notin {"response", "uncertain"}
    <3>1. proc'[r] = AfterFailure(p, a.kind, old.retry)
      BY <1>6, <2>2
    <3>2. FinalState(a) \in {"schema-failure", "failed"}
      BY <1>3, <2>2, AnswerShape DEF FinalState, a
    <3>3. LastIn(e, {"schema-failure", "failed"})
      BY <1>5, <1>8, <3>2
    <3>4. proc'[r] = AfterFailure(p, files[r].answers[Size(e)].kind, LastRow(e).retry)
      BY <1>3, <1>5, <1>8, <3>1 DEF a
    <3>5. p.budget = e.budget /\ p.logical = LastRow(e).logical /\ p.batch = LastRow(e).batch
      BY <1>1, <1>3, <1>5, <1>8 DEF e, old
    <3>6. e.evaluations >= InitialCandidates
      BY <1>1, <1>2 DEF e
    <3>7. QED
      BY <1>2, <3>3, <3>4, <3>5, <3>6, FailureDecides
  <2>3. QED
    BY <2>1, <2>2
<1>10. AskFits(r, db'[r], files'[r], proc'[r], cache)
  BY <1>1, <1>9 DEF e
<1>11. QED
  BY <1>1, <1>2, <1>3, <1>7, <1>10, RewriteHeld DEF e

(* reserve(): the reservation is the one of the next request. *)
LEMMA ReserveCostHeld ==
  ASSUME Phase4Inv, RoomInv, HeldInv, reservation \in Seq(ReservationRow),
         reservation' \in Seq(ReservationRow), NEW r \in Runs, OthersRest(r), ReserveCost(r)
  PROVE  HeldInv'
<1> DEFINE d == db[r]
           p == proc[r]
           f == files[r]
           hash == HashAfter(r, d)
           id == <<r, Size(d) + 1, hash>>
           q == ReservationRequest(r)
           n == Len(reservation)
<1>1. /\ proc \in [Runs -> Process] /\ p \in Process /\ Size(d) \in Nat /\ p.pc = "reserve"
      /\ db' = db /\ files' = files /\ UNCHANGED cache /\ n \in Nat /\ CountersFit(d)
  BY AtWork DEF ReserveCost, At
<1>2. /\ q.reservation_id = id /\ q.run_id = r
      /\ Wants(r, d, f) /\ Between(d) /\ p.hit = Nothing /\ d.status = "running"
      /\ Unshared => cache[hash] = Nothing
  BY <1>1, AskedRequest DEF ReservationId
<1>3. hash \in Hashes /\ Size(d) + 1 \in 1..ModelRequestCap
  <2>1. ~ Waiting(d) /\ Preflight(d.budget)
    BY <1>2 DEF Between, Waiting, LastIn, Closed, Wants
  <2>2. Size(d) < ModelRequestCap /\ ModelRequestCap \in Nat
    BY <1>1, <2>1, Phase4Constants DEF CountersFit, Preflight
  <2>3. HashAfter(r, db[r]) \in Hashes
    BY NextRequestKnown
  <2>4. Size(d) + 1 \in 1..ModelRequestCap
    <3> HIDE DEF d
    <3>1. QED
      BY <1>1, <2>2
  <2>5. QED
    BY <2>3, <2>4
<1>4. /\ IdsFit(reservation) /\ AskFits(r, d, f, p, cache)
      /\ AheadFits(r, d, f, p, cache, reservation) /\ RowsHeld(r, d, reservation)
  BY HeldOf
<1>5. /\ proc'[r].pc = "prepare" /\ proc'[r].logical = p.logical /\ proc'[r].batch = p.batch
      /\ proc'[r].hit = p.hit
  BY <1>1 DEF ReserveCost, Goto, Become, Process
<1>6. AskFits(r, d, f, proc'[r], cache)
  BY <1>1, <1>4, <1>5 DEF AskFits, Asking
<1>7. CASE UNCHANGED reservation
  <2>1. SameRows(r) /\ files'[r].answers = files[r].answers
    BY <1>1 DEF SameRows
  <2>2. db'[r].status \notin Terminal /\ proc'[r].pc \notin Ending /\ proc'[r].hit = Nothing
    BY <1>1, <1>2, <1>5 DEF Terminal, Ending
  <2>3. QED
    BY <1>1, <1>6, <1>7, <2>1, <2>2, QuietHeld
<1>8. CASE RowOf(id) = {} /\ reservation' = Append(reservation, NewRow(q))
  <2> DEFINE S == reservation'
  <2>1. /\ Len(S) = n + 1 /\ S[n + 1].reservation_id = id /\ S[n + 1].run_id = r
        /\ \A k \in 1..n : S[k] = reservation[k]
    BY <1>1, <1>2, <1>8 DEF NewRow
  <2>2. \A k \in 1..n : reservation[k].reservation_id # id
    BY <1>8 DEF RowOf, Rowids
  <2> HIDE DEF S, id, n
  <2>3. \A k \in 1..Len(S) : k \in 1..n \/ k = n + 1
    BY <1>1, <2>1
  <2>4. IdsFit(S)
    <3>1. ASSUME NEW k \in 1..Len(S)
          PROVE  \E i \in 1..ModelRequestCap, h \in Hashes :
                   S[k].reservation_id = <<S[k].run_id, i, h>>
      <4>1. CASE k \in 1..n
        BY <1>4, <2>1, <4>1 DEF IdsFit, n
      <4>2. CASE k = n + 1
        BY <1>3, <2>1, <4>2 DEF id
      <4>3. QED
        BY <2>3, <4>1, <4>2
    <3>2. ASSUME NEW j \in 1..Len(S), NEW k \in 1..Len(S),
                 S[j].reservation_id = S[k].reservation_id
          PROVE  j = k
      <4>1. CASE j \in 1..n /\ k \in 1..n
        BY <1>4, <2>1, <3>2, <4>1 DEF IdsFit, n
      <4>2. CASE ~ (j \in 1..n /\ k \in 1..n)
        BY <2>1, <2>2, <2>3, <3>2, <4>2
      <4>3. QED
        BY <4>1, <4>2
    <3>3. QED
      BY <3>1, <3>2 DEF IdsFit
  <2>5. \A k \in Ahead(r, d, S) : S[k].reservation_id = id
    <3> SUFFICES ASSUME NEW k \in Ahead(r, d, S) PROVE S[k].reservation_id = id
      OBVIOUS
    <3>1. k \in 1..Len(S) /\ \E i \in 1..ModelRequestCap, h \in Hashes :
                               S[k].reservation_id = <<r, i, h>> /\ i > Size(d)
      BY DEF Ahead
    <3>2. CASE k = n + 1
      BY <2>1, <3>2
    <3>3. CASE k \in 1..n
      <4>1. k \in Ahead(r, d, reservation)
        BY <2>1, <3>1, <3>3 DEF Ahead, n
      <4>2. QED
        BY <1>4, <2>1, <3>3, <4>1 DEF AheadFits, id
    <3>4. QED
      BY <2>3, <3>1, <3>2, <3>3
  <2>6. AheadFits(r, d, f, proc'[r], cache, S)
    BY <1>2, <1>5, <2>5 DEF AheadFits, Terminal, Ending, id
  <2>7. RowsHeld(r, d, S)
    <3> SUFFICES ASSUME NEW k \in 1..Len(S), NEW i \in 1..Size(d), NEW h \in Hashes,
                        S[k].reservation_id = <<r, i, h>>
                 PROVE  h = d.requests[i].hash /\ (Unshared => ~ d.requests[i].cache_hit)
      BY DEF RowsHeld
    <3>1. k # n + 1
      <4> SUFFICES ASSUME k = n + 1 PROVE FALSE
        OBVIOUS
      <4>1. id = <<r, i, h>>
        BY <2>1
      <4>2. i = Size(d) + 1
        BY <4>1 DEF id
      <4>3. QED
        BY <1>1, <4>2
    <3>2. k \in 1..n
      BY <2>3, <3>1
    <3>3. QED
      BY <1>4, <2>1, <3>2 DEF RowsHeld, n
  <2>8. HeldFits(r, d, f, proc'[r], cache, S)
    BY <1>6, <2>6, <2>7 DEF HeldFits
  <2>9. OwnRows(r, reservation, S)
    <3>1. n = Len(reservation) /\ n <= Len(S)
      BY <1>1, <2>1 DEF n
    <3>2. \A k \in 1..Len(S) : k > n => \E i, x : S[k].reservation_id = <<r, i, x>>
      BY <1>1, <2>1, <2>3 DEF id
    <3>3. QED
      BY <2>1, <3>1, <3>2 DEF OwnRows
  <2>10. OwnHashes(r, cache, cache')
    BY <1>1 DEF OwnHashes
  <2>11. QED
    BY <1>1, <2>4, <2>8, <2>9, <2>10, HeldStep DEF S
<1>9. QED
  BY <1>2, <1>7, <1>8 DEF ReserveCost, Reserve

(* prepare_request(): the new row is that of the reservation ahead. *)
LEMMA PrepareHeldStep ==
  ASSUME Phase4Inv, RoomInv, HeldInv, reservation \in Seq(ReservationRow), NEW r \in Runs,
         OthersRest(r), Prepare(r)
  PROVE  HeldInv'
<1> DEFINE d == db[r]
           e == db'[r]
           p == proc[r]
           f == files[r]
           hash == HashAfter(r, d)
           row == NewRequest(r)
           n == Size(d)
<1>1. /\ e.requests = Append(d.requests, row) /\ p.pc = "prepare" /\ OnlyRows(r)
      /\ proc'[r].pc \in {"send", "record"} /\ UNCHANGED <<reservation, cache>>
  BY PrepareShape DEF OnlyRows, Prepare, NextHash
<1>2. d.requests \in Seq(RequestRow) /\ n \in Nat /\ n = Len(d.requests)
  BY AtWork DEF Database, Size
<1>3. /\ p.logical = LogicalAfter(d) /\ p.batch = BatchAfter(d)
      /\ AheadFits(r, d, f, p, cache, reservation) /\ RowsHeld(r, d, reservation)
      /\ IdsFit(reservation)
  BY <1>1, HeldOf DEF AskFits, Asking
<1>4. row.hash = hash /\ row.cache_hit = (p.hit # Nothing)
  BY <1>3 DEF NewRequest, HashAfter
<1> HIDE DEF row
<1>5. /\ Size(e) = n + 1 /\ e.requests[n + 1] = row
      /\ \A i \in 1..n : e.requests[i] = d.requests[i]
  BY <1>1, <1>2 DEF Size
<1> HIDE DEF e, n, hash
<1>6. \A k \in Ahead(r, d, reservation) :
        /\ reservation[k].reservation_id = <<r, n + 1, hash>>
        /\ Unshared => p.hit = Nothing
  BY <1>1, <1>3 DEF AheadFits, n, hash
<1>7. Ahead(r, e, reservation) = {}
  <2> SUFFICES ASSUME NEW k \in Ahead(r, e, reservation) PROVE FALSE
    OBVIOUS
  <2>1. PICK i \in 1..ModelRequestCap, h \in Hashes :
          reservation[k].reservation_id = <<r, i, h>> /\ i > n + 1
    BY <1>5 DEF Ahead
  <2>2. k \in Ahead(r, d, reservation)
    <3>1. i > n
      BY <1>2, <2>1
    <3>2. QED
      BY <2>1, <3>1 DEF Ahead, n
  <2>3. <<r, i, h>> = <<r, n + 1, hash>>
    BY <1>6, <2>1, <2>2
  <2>4. i = n + 1
    BY <2>3
  <2>5. QED
    BY <1>2, <2>1, <2>4
<1>8. RowsHeld(r, e, reservation)
  <2> SUFFICES ASSUME NEW k \in 1..Len(reservation), NEW i \in 1..(n + 1), NEW h \in Hashes,
                      reservation[k].reservation_id = <<r, i, h>>
               PROVE  h = e.requests[i].hash /\ (Unshared => ~ e.requests[i].cache_hit)
    BY <1>5 DEF RowsHeld
  <2>1. CASE i \in 1..n
    BY <1>3, <1>5, <2>1 DEF RowsHeld, n
  <2>2. CASE i = n + 1
    <3>1. \E j \in 1..ModelRequestCap, g \in Hashes :
            reservation[k].reservation_id = <<reservation[k].run_id, j, g>>
      BY <1>3 DEF IdsFit
    <3>2. PICK j \in 1..ModelRequestCap, g \in Hashes :
            <<r, i, h>> = <<reservation[k].run_id, j, g>>
      BY <3>1
    <3>3. i = j
      BY <3>2
    <3>4. k \in Ahead(r, d, reservation)
      BY <1>2, <2>2, <3>3 DEF Ahead, n
    <3>5. <<r, i, h>> = <<r, n + 1, hash>> /\ (Unshared => p.hit = Nothing)
      BY <1>6, <3>4
    <3>6. h = hash
      BY <3>5
    <3>7. QED
      BY <1>4, <1>5, <2>2, <3>5, <3>6 DEF hash
  <2>3. QED
    BY <1>2, <2>1, <2>2
<1>9. AheadFits(r, e, files'[r], proc'[r], cache, reservation)
  BY <1>7 DEF AheadFits
<1>10. AskFits(r, e, files'[r], proc'[r], cache)
  BY <1>1, AsksNothing DEF Asking
<1>11. HeldFits(r, e, files'[r], proc'[r], cache, reservation)
  BY <1>8, <1>9, <1>10 DEF HeldFits
<1>12. OwnRows(r, reservation, reservation') /\ OwnHashes(r, cache, cache')
  BY <1>1, NothingShared
<1>13. reservation' = reservation /\ cache' = cache
  BY <1>1
<1>14. HeldFits(r, e, files'[r], proc'[r], cache', reservation') /\ IdsFit(reservation')
  BY <1>3, <1>11, <1>13
<1>15. QED
  BY <1>12, <1>13, <1>14, HeldStep DEF e
-----------------------------------------------------------------------------
(* Every step. *)

(* At the start nothing is reserved and nobody asks. *)
LEMMA HeldInit == Init => HeldInv
<1> SUFFICES ASSUME Init PROVE HeldInv
  OBVIOUS
<1>1. reservation = <<>> /\ Len(reservation) = 0
  BY DEF Init, LedgerInit
<1>2. IdsFit(reservation)
  BY <1>1 DEF IdsFit
<1>3. ASSUME NEW r \in Runs
      PROVE  HeldFits(r, db[r], files[r], proc[r], cache, reservation)
  <2>1. proc[r].pc = "none"
    BY DEF Init, NoProcess
  <2>2. AskFits(r, db[r], files[r], proc[r], cache)
    BY <2>1, AsksNothing DEF Asking
  <2>3. Ahead(r, db[r], reservation) = {}
    BY <1>1 DEF Ahead
  <2>4. AheadFits(r, db[r], files[r], proc[r], cache, reservation)
    BY <2>3 DEF AheadFits
  <2>5. RowsHeld(r, db[r], reservation)
    BY <1>1 DEF RowsHeld
  <2>6. QED
    BY <2>2, <2>4, <2>5 DEF HeldFits
<1>4. QED
  BY <1>2, <1>3 DEF HeldInv

(* No step, and no death of a process, forsakes a reservation. *)
LEMMA HeldNext ==
  ASSUME Phase4Inv, RoomInv, MoneyInv, LedgerTypeOK, LedgerTypeOK', HeldInv, [Next]_vars
  PROVE  HeldInv'
<1>1. reservation \in Seq(ReservationRow) /\ reservation' \in Seq(ReservationRow)
  BY DEF LedgerTypeOK
<1>2. CASE UNCHANGED vars
  BY <1>2 DEF vars, HeldInv
<1>3. ASSUME NEW r \in Runs, Step(r)
      PROVE  HeldInv'
  <2>1. OthersRest(r)
    BY <1>3, OneRunMoves
  <2>2. CASE Open(r) \/ Initialized(r) \/ Gate(r)
    BY <1>1, <2>1, <2>2, GoOnHeld
  <2>3. CASE Interrupt(r) \/ Close(r)
    BY <1>1, <2>1, <2>3, ComeAndGoHeld
  <2>4. CASE WriteReport(r) \/ WriteAccessLedger(r) \/ WriteResults(r)
    BY <1>1, <2>1, <2>4, FinalizeHeld
  <2>5. CASE Stop(r) \/ GiveUp(r)
    BY <1>1, <2>1, <2>5, StopHeld
  <2>6. CASE NextCall(r)
    BY <1>1, <2>1, <2>6, NextCallHeld
  <2>7. CASE Attempt(r)
    BY <1>1, <2>1, <2>7, AttemptHeld
  <2>8. CASE ReserveCost(r)
    BY <1>1, <2>1, <2>8, ReserveCostHeld
  <2>9. CASE RefuseCost(r)
    BY <1>1, <2>1, <2>9, RefuseCostHeld
  <2>10. CASE Prepare(r)
    BY <1>1, <2>1, <2>10, PrepareHeldStep
  <2>11. CASE Recover(r)
    BY <1>1, <2>1, <2>11, RecoverHeld
  <2>12. CASE \/ (\E answer \in Answer(proc[r].batch) :
                    \E charge \in Charges(answer) : Provider(r, answer, charge))
              \/ Record(r) \/ Settle(r) \/ Store(r)
    BY <1>1, <2>1, <2>12, AnswerHeld
  <2>13. ASSUME NEW stop \in BOOLEAN, Initialize(r, stop)
         PROVE  HeldInv'
    BY <1>1, <2>1, <2>13, InitializeHeld
  <2>14. CASE Send(r) \/ Complete(r) \/ \E stop \in BOOLEAN : Item(r, stop)
    BY <1>1, <2>1, <2>14, RowHeld
  <2>15. CASE Commit(r)
    BY <1>1, <2>1, <2>15, CommitHeld
  <2>16. QED
    BY <1>3, <2>2, <2>3, <2>4, <2>5, <2>6, <2>7, <2>8, <2>9, <2>10, <2>11, <2>12, <2>13,
       <2>14, <2>15 DEF Step
<1>4. ASSUME NEW r \in Runs,
             Start(r) \/ Crash(r) \/ Raise(r) \/ \E online \in BOOLEAN : Resume(r, online)
      PROVE  HeldInv'
  <2>1. OthersRest(r)
    BY <1>4, OneRunMoves
  <2>2. QED
    BY <1>1, <1>4, <2>1, ComeAndGoHeld
<1>5. QED
  BY <1>2, <1>3, <1>4 DEF Next

(* HeldInv holds in every reachable state. *)
LEMMA HeldHolds == Spec => []HeldInv
<1>1. EngineInv => Phase4Inv /\ RoomInv /\ MoneyInv /\ LedgerTypeOK
  BY DEF EngineInv, LedgerInv
<1>2. Phase4Inv /\ RoomInv /\ MoneyInv /\ LedgerTypeOK /\ LedgerTypeOK' /\ HeldInv /\ [Next]_vars
        => HeldInv'
  BY HeldNext
<1>3. QED
  BY <1>1, <1>2, HeldInit, EngineStaysSound, PTL DEF Spec

(* The rows of a run that has ended are all finalized. *)
LEMMA EndedRowsFinal ==
  ASSUME Phase4Inv, NEW r \in Runs, Ended(db[r]), NEW i \in 1..Size(db[r])
  PROVE  db[r].requests[i].state \in Finalized
<1> DEFINE d == db[r]
<1>1. Size(d) \in Nat /\ RowsFit(r, d, cache)
  BY AtWork
<1>2. CASE i = Size(d)
  BY <1>1, <1>2 DEF Ended, LastRow, Finalized, Closed
<1>3. CASE i # Size(d)
  <2>1. i + 1 \in 2..Size(d) /\ (i + 1) - 1 = i
    BY <1>1, <1>3
  <2>2. Follows(d.requests[(i + 1) - 1], d.requests[i + 1])
    BY <1>1, <2>1 DEF RowsFit
  <2>3. Follows(d.requests[i], d.requests[i + 1])
    BY <2>1, <2>2
  <2>4. QED
    BY <2>3 DEF Follows, Finalized
<1>4. QED
  BY <1>2, <1>3

(* A run whose requests are its own and that has finished holds no money:    *)
(* each of its reservations belongs to a paid row and was settled, whatever  *)
(* died between the reservation, the row, the answer and the settlement.     *)
THEOREM FinishedHoldsNothing == Spec => [](Unshared => NothingLeftHeld)
<1>1. EngineInv /\ HeldInv => (Unshared => NothingLeftHeld)
  <2> SUFFICES ASSUME EngineInv, HeldInv, Unshared, NEW r \in Runs, Finished(r),
                      NEW k \in Rowids, reservation[k].run_id = r
               PROVE  reservation[k].state # "active"
    BY DEF NothingLeftHeld
  <2> DEFINE d == db[r]
  <2>1. Phase4Inv /\ MoneyInv
    BY DEF EngineInv
  <2>2. d.status \in Terminal /\ Ended(d) /\ Size(d) \in Nat /\ k \in 1..Len(reservation)
    BY <2>1, AtWork DEF Finished, CountersFit, Rowids
  <2>3. Ahead(r, d, reservation) = {}
    BY <2>2, NoneAhead
  <2>4. PICK i \in 1..ModelRequestCap, h \in Hashes : reservation[k].reservation_id = <<r, i, h>>
    BY <2>2, HeldOf DEF IdsFit
  <2>5. i \in 1..Size(d)
    <3>1. ~ (i > Size(d))
      BY <2>2, <2>3, <2>4 DEF Ahead
    <3>2. i \in Nat /\ i >= 1
      BY <2>4, Phase4Constants
    <3>3. QED
      BY <2>2, <3>1, <3>2
  <2>6. h = d.requests[i].hash /\ ~ d.requests[i].cache_hit
    BY <2>2, <2>4, <2>5, HeldOf DEF RowsHeld
  <2>7. RowsPaid(r, d, reservation)
    BY <2>1 DEF MoneyInv, MoneyFits
  <2>8. PICK j \in RowsWith(reservation, <<r, i, h>>) : Agrees(reservation[j], d.requests[i])
    BY <2>5, <2>6, <2>7 DEF RowsPaid
  <2>9. j = k
    BY <2>2, <2>4, <2>8, HeldOf DEF RowsWith, IdsFit
  <2>10. d.requests[i].state \in Finalized
    BY <2>1, <2>2, <2>5, EndedRowsFinal
  <2>11. QED
    BY <2>8, <2>9, <2>10 DEF Agrees
<1>2. QED
  BY <1>1, EngineStaysSound, HeldHolds, PTL
-----------------------------------------------------------------------------
(* The decision to end stands. *)

Stand(r, status) == Stands(r, db[r], files[r], status)

(* The same ledger and the same cache refuse the same request. *)
LEMMA SameRefusal ==
  ASSUME UNCHANGED <<ledgerVars, cache>>, NEW r, NEW i, NEW h
  PROVE  Refused(r, i, h) = Refused(r, i, h)'
<1>1. /\ reservation' = reservation /\ cash_checkpoint' = cash_checkpoint /\ observed' = observed
      /\ cache' = cache
  BY DEF ledgerVars
<1>2. QED
  BY <1>1 DEF Refused, ReserveRefused, RowOf, Rowids, CoverageValid, FinishedThrough, LatestCovered,
     FitsCaps, Committed, ProjectCommitted, Total, ExposureColumn, Exposure, CashUpperBound,
     LatestBilled, UncoveredColumn

(* A step that changes nothing the decision was made from. *)
LEMMA StandsQuiet ==
  ASSUME NEW r \in Runs, NEW status, Stand(r, status), SameRows(r),
         files'[r].answers = files[r].answers, UNCHANGED <<ledgerVars, cache>>,
         db[r].status \in Terminal => db'[r].status \in Terminal
  PROVE  Stand(r, status)'
<1> DEFINE d == db[r]
           e == db'[r]
           f == files[r]
           g == files'[r]
<1>1. CASE d.status \in Terminal
  BY <1>1 DEF Stand, Stands
<1>2. CASE d.status \notin Terminal
  <2>1. /\ Size(e) = Size(d) /\ HashAfter(r, e) = HashAfter(r, d) /\ (Ended(e) <=> Ended(d))
        /\ (Wants(r, e, g) <=> Wants(r, d, f)) /\ e.evaluations = d.evaluations
    BY SameDecision DEF SameRows
  <2>2. /\ Ended(d) /\ d.evaluations >= InitialCandidates
        /\ IF status = "cost-cap-exhausted" THEN RefusedAgain(r, d) ELSE ~ Wants(r, d, f)
    BY <1>2 DEF Stand, Stands
  <2>3. RefusedAgain(r, d) => RefusedAgain(r, db[r])'
    BY <2>1, SameRefusal DEF RefusedAgain
  <2>4. QED
    BY <2>1, <2>2, <2>3 DEF Stand, Stands
<1>3. QED
  BY <1>1, <1>2

(* A terminal status and all that was stored with it stay. *)
LEMMA TerminalKept ==
  ASSUME Phase4Inv, NEW r \in Runs, db[r].status \in Terminal,
         Step(r) \/ Start(r) \/ Crash(r) \/ Raise(r) \/ \E online \in BOOLEAN : Resume(r, online)
  PROVE  db'[r] = db[r]
<1>1. db \in [Runs -> Database] /\ db[r] \in Database
  BY AtWork
<1>2. db[r].status # Nothing /\ db[r].status \notin {"running", "interrupted"}
  BY Phase4Values DEF Terminal
<1>3. proc[r].pc \notin Begun
  BY <1>2, AtWork DEF StatusFits
<1>4. proc[r].pc = "close" => proc[r].status = db[r].status
  BY <1>2, AtWork DEF StatusFits, Ending
<1>5. CASE Open(r)
  BY <1>5 DEF Open
<1>6. CASE Close(r)
  BY <1>1, <1>4, <1>6 DEF Close, SetStatus, Database, At
<1>7. CASE WriteReport(r) \/ WriteAccessLedger(r) \/ WriteResults(r)
  BY <1>7 DEF WriteReport, WriteAccessLedger, WriteResults
<1>8. CASE Start(r) \/ Crash(r) \/ Raise(r) \/ \E online \in BOOLEAN : Resume(r, online)
  BY <1>1, <1>2, <1>8 DEF Start, Crash, Raise, Resume, SetStatus
<1>9. QED
  BY <1>3, <1>5, <1>6, <1>7, <1>8
  DEF Step, Begun, At, Initialize, Item, Initialized, Recover, Interrupt, Stop, GiveUp,
      Gate, NextCall, Attempt, ReserveCost, RefuseCost, Prepare, NextHash, Send, Provider, Record,
      Settle, Store, Commit, Complete

(* An ended run has no row that waits for an answer or for its items. *)
LEMMA EndedWaitsNot ==
  ASSUME Phase4Inv, NEW r \in Runs, Ended(db[r])
  PROVE  ~ \/ \E stop \in BOOLEAN : Item(r, stop)
           \/ Send(r) \/ Record(r) \/ Settle(r) \/ Store(r) \/ Commit(r) \/ Complete(r)
           \/ \E answer \in Answer(proc[r].batch) :
                \E charge \in Charges(answer) : Provider(r, answer, charge)
<1>1. ~ LastIn(db[r], {"pending", "dispatched", "responded"})
  BY DEF Ended, LastIn, Closed
<1>2. proc[r].pc \notin {"send", "wire", "items"} \cup Answering
  BY <1>1, AtWork DEF PlaceFits, AnsweringFits, Waiting, LastIn
<1>3. QED
  BY <1>2 DEF Item, Send, Record, Settle, Store, Commit, Complete, Provider, At, Answering

(* What the ledger refuses again has no row, and the cache does not answer it. *)
LEMMA RefusedRow ==
  ASSUME NEW r \in Runs, RefusedAgain(r, db[r])
  PROVE  /\ RowOf(<<r, Size(db[r]) + 1, HashAfter(r, db[r])>>) = {}
         /\ cache[HashAfter(r, db[r])] = Nothing
<1>1. MaxCost \in Nat /\ RequestCap \in Nat /\ MaxCost <= RequestCap
  BY Phase4Constants, LedgerConstants
<1>2. QED
  BY <1>1 DEF RefusedAgain, Refused, ReserveRefused, ReservationId

(* No process reserves, or prepares a row, for a run that is to end. *)
LEMMA EndedAsksNot ==
  ASSUME Phase4Inv, MoneyInv, HeldInv, NEW r \in Runs, NEW status, Stand(r, status),
         db[r].status \notin Terminal
  PROVE  ~ ReserveCost(r) /\ ~ Prepare(r)
<1> DEFINE d == db[r]
           p == proc[r]
           f == files[r]
<1>1. IF status = "cost-cap-exhausted" THEN RefusedAgain(r, d) ELSE ~ Wants(r, d, f)
  BY DEF Stand, Stands
<1>2. ASSUME ReserveCost(r)
      PROVE  FALSE
  <2>1. p.pc = "reserve"
    BY <1>2 DEF ReserveCost, At
  <2>2. Wants(r, d, f)
    BY <2>1, AskedRequest
  <2>3. RefusedAgain(r, d)
    BY <1>1, <2>2
  <2> DEFINE q == [reservation_id |-> ReservationId(r, Size(d) + 1, HashAfter(r, d)),
                   run_id |-> r, stage |-> RunStage[r], request_hash |-> HashAfter(r, d),
                   amount |-> MaxCost]
  <2>4. ReserveRefused(q, PhaseCap, StageCap[RunStage[r]])
    BY <2>3 DEF RefusedAgain, Refused
  <2>5. q = ReservationRequest(r)
    BY <2>1, AskedRequest
  <2>6. Reserve(q, PhaseCap, StageCap[RunStage[r]])
    BY <1>2, <2>5 DEF ReserveCost
  <2>7. RowOf(q.reservation_id) = {}
    BY <2>3, RefusedRow DEF ReservationId
  <2>8. q.amount \in Nat /\ RequestCap \in Nat /\ q.amount <= RequestCap
    BY Phase4Constants, LedgerConstants
  <2> HIDE DEF q
  <2>9. QED
    BY <2>4, <2>6, <2>7, <2>8 DEF Reserve, ReserveRefused
<1>3. ASSUME Prepare(r)
      PROVE  FALSE
  <2>1. p.pc = "prepare"
    BY <1>3 DEF Prepare, NextHash, At
  <2>2. /\ AskingFits(r, d, p, cache) /\ AskFits(r, d, f, p, cache)
        /\ PrepareHeld(r, d, p, reservation)
    BY <2>1, AtWork, HeldOf, MoneyOf DEF PlaceFits, Asking
  <2>3. Wants(r, d, f) /\ RequestHash[r, p.logical, p.batch] = HashAfter(r, d)
    BY <2>1, <2>2 DEF AskingFits, AskFits, Asking, Wants, HashAfter
  <2>4. RefusedAgain(r, d)
    BY <1>1, <2>3
  <2>5. p.hit = Nothing
    BY <2>1, <2>2, <2>3, <2>4, RefusedRow DEF AskingFits
  <2>6. \E k \in RowsWith(reservation, <<r, Size(d) + 1, HashAfter(r, d)>>) : TRUE
    BY <2>1, <2>2, <2>3, <2>5 DEF PrepareHeld
  <2>7. QED
    BY <2>4, <2>6, RefusedRow DEF RowsWith, RowOf, Rowids
<1>4. QED
  BY <1>2, <1>3

(* Whatever is executed for the run, the decision stands. *)
LEMMA StandsMoving ==
  ASSUME EngineInv, HeldInv, NEW r \in Runs, NEW status, Stand(r, status),
         Step(r) \/ Start(r) \/ Crash(r) \/ Raise(r) \/ \E online \in BOOLEAN : Resume(r, online)
  PROVE  SameRows(r) /\ Stand(r, status)'
<1>1. Phase4Inv /\ MoneyInv /\ RoomInv
  BY DEF EngineInv
<1>2. CASE db[r].status \in Terminal
  <2>1. db'[r] = db[r]
    BY <1>1, <1>2, TerminalKept
  <2>2. QED
    BY <1>2, <2>1 DEF SameRows, Stand, Stands
<1>3. CASE db[r].status \notin Terminal
  <2>1. Ended(db[r]) /\ db[r].evaluations >= InitialCandidates
    BY <1>3 DEF Stand, Stands
  <2>2. ~ \E stop \in BOOLEAN : Initialize(r, stop)
    <3>1. db[r].evaluations \in Nat /\ InitialCandidates \in Nat
      BY <1>1, AtWork, Phase4Constants DEF Database
    <3>2. QED
      BY <2>1, <3>1 DEF Initialize
  <2>3. \/ Start(r) \/ Crash(r) \/ Raise(r) \/ \E online \in BOOLEAN : Resume(r, online)
        \/ Open(r) \/ Initialized(r) \/ Recover(r) \/ Interrupt(r) \/ Stop(r) \/ GiveUp(r)
        \/ Gate(r) \/ NextCall(r) \/ Attempt(r) \/ RefuseCost(r)
        \/ WriteReport(r) \/ WriteAccessLedger(r) \/ WriteResults(r) \/ Close(r)
    BY <1>1, <1>3, <2>1, <2>2, EndedWaitsNot, EndedAsksNot DEF Step
  <2>4. SameRows(r) /\ files'[r].answers = files[r].answers /\ UNCHANGED cache
    BY <1>1, <2>3, KeepsRows, KeepsAnswers
  <2>5. UNCHANGED ledgerVars
    BY <2>3 DEF Start, Crash, Raise, Resume, Open, Initialized, Recover, Interrupt, Stop, GiveUp, Gate,
       NextCall, Attempt, NextHash, RefuseCost, WriteReport, WriteAccessLedger, WriteResults, Close
  <2>6. QED
    BY <1>3, <2>4, <2>5, StandsQuiet
<1>4. QED
  BY <1>2, <1>3

(* So it does whatever is executed for another run. *)
LEMMA StandsElsewhere ==
  ASSUME NEW r \in Runs, NEW t \in Runs, t # r, OthersRest(r), NEW status, Sure(status),
         Stand(t, status)
  PROVE  SameRows(t) /\ Stand(t, status)'
<1>1. db'[t] = db[t] /\ files'[t] = files[t]
  BY DEF OthersRest
<1>2. status # "cost-cap-exhausted"
  BY DEF Sure, Alone
<1>3. QED
  BY <1>1, <1>2 DEF Stand, Stands, SameRows, Wants, GoesOn

-----------------------------------------------------------------------------
(* Who comes to the end. *)

(* A single run shares its requests with nobody. *)
LEMMA AloneIsUnshared == Alone => Unshared
<1>1. \A a \in DOMAIN RequestHash : a[1] \in Runs
  BY Phase4Constants
<1>2. QED
  BY <1>1 DEF Alone, Unshared

(* The actions that lead into _finalize or go on there. *)
LEMMA WaysToEnd ==
  ASSUME Phase4Inv, RoomInv, HeldInv, NEW r \in Runs, proc'[r].pc \in Ending,
         Step(r) \/ Start(r) \/ Crash(r) \/ Raise(r) \/ \E online \in BOOLEAN : Resume(r, online)
  PROVE  \/ Open(r) \/ Stop(r) \/ GiveUp(r) \/ NextCall(r) \/ RefuseCost(r)
         \/ WriteReport(r) \/ WriteAccessLedger(r) \/ WriteResults(r)
<1>1. proc \in [Runs -> Process] /\ proc[r] \in Process
  BY AtWork
<1>2. ~ \/ Start(r) \/ Crash(r) \/ Raise(r) \/ Interrupt(r) \/ Close(r)
        \/ \E online \in BOOLEAN : Resume(r, online)
  BY ComesOrGoes DEF Ending
<1>3. ~ \E stop \in BOOLEAN : Initialize(r, stop)
  <2> SUFFICES ASSUME NEW stop \in BOOLEAN, Initialize(r, stop) PROVE FALSE
    OBVIOUS
  <2>1. proc'[r].pc \in {"none", "initialize"}
    BY <1>1 DEF Initialize, Evaluated, Become, Process, NoProcess
  <2>2. QED
    BY <2>1 DEF Ending
<1>4. ~ \E stop \in BOOLEAN : Item(r, stop)
  BY ItemShape DEF Ending
<1>5. ~ Initialized(r) /\ ~ Gate(r) /\ ~ ReserveCost(r)
  BY <1>1 DEF Initialized, Gate, ReserveCost, Goto, Become, Process, Ending
<1>6. ~ Recover(r) /\ ~ Attempt(r)
  BY RecoverDecides, AttemptDecides DEF Ending
<1>7. ~ Prepare(r) /\ ~ Send(r) /\ ~ Commit(r) /\ ~ Complete(r)
  BY PrepareShape, SendShape, CommitShape, CompleteShape DEF Ending
<1>8. ~ \/ \E answer \in Answer(proc[r].batch) :
             \E charge \in Charges(answer) : Provider(r, answer, charge)
        \/ Record(r) \/ Settle(r) \/ Store(r)
  BY AnswerGoes DEF Ending
<1>9. QED
  BY <1>2, <1>3, <1>4, <1>5, <1>6, <1>7, <1>8 DEF Step

(* Who comes to the end, or goes on there, holds the stored counters and a   *)
(* status that stands.                                                       *)
LEMMA EndsDecided ==
  ASSUME EngineInv, HeldInv, EndInv, NEW r \in Runs, proc'[r].pc \in Ending,
         Step(r) \/ Start(r) \/ Crash(r) \/ Raise(r) \/ (\E online \in BOOLEAN : Resume(r, online)),
         NEW status, status = proc'[r].status
  PROVE  /\ SameRows(r) /\ proc'[r].budget = db[r].budget
         /\ Sure(status) => Stand(r, status)
<1> DEFINE d == db[r]
           p == proc[r]
           f == files[r]
<1>1. Phase4Inv /\ RoomInv
  BY DEF EngineInv
<1>2. p \in Process /\ proc \in [Runs -> Process]
  BY <1>1, AtWork
<1>3. /\ \/ Open(r) \/ Stop(r) \/ GiveUp(r) \/ NextCall(r) \/ RefuseCost(r)
         \/ WriteReport(r) \/ WriteAccessLedger(r) \/ WriteResults(r)
      /\ SameRows(r)
  BY <1>1, WaysToEnd, KeepsRows
<1>4. CASE Open(r)
  <2>1. d.status \in Terminal
    <3> SUFFICES ASSUME d.status \notin Terminal PROVE FALSE
      OBVIOUS
    <3>1. proc'[r] = [p EXCEPT !.pc = "initialize", !.budget = d.budget]
      BY <1>2, <1>4 DEF Open, Become
    <3>2. proc'[r].pc = "initialize"
      BY <1>2, <3>1 DEF Process
    <3>3. QED
      BY <3>2 DEF Ending
  <2>2. proc'[r] = [p EXCEPT !.pc = "report", !.budget = d.budget, !.status = d.status]
    BY <1>2, <1>4, <2>1 DEF Open, Become
  <2>3. proc'[r].budget = d.budget
    BY <1>2, <2>2 DEF Process
  <2>4. QED
    BY <1>3, <2>1, <2>3 DEF Stand, Stands
<1>5. CASE Stop(r)
  <2>1. p.pc = "stop"
    BY <1>5 DEF Stop, At
  <2>2. /\ LastIn(d, {"usage-uncertain"}) /\ p.budget = d.budget
        /\ d.evaluations >= InitialCandidates
    BY <1>1, <2>1, AtWork, AtWorkRoom DEF PlaceFits, MemoryFits, InMemory, Begun
  <2>3. Ended(d) /\ ~ Wants(r, d, f)
    BY <2>2 DEF LastIn, Ended, Wants, GoesOn, Between, Closed
  <2>4. proc'[r] = [p EXCEPT !.pc = "report", !.status = "usage-uncertain"]
    BY <1>2, <1>5 DEF Stop, Finish, Become
  <2>5. proc'[r].budget = p.budget /\ status = "usage-uncertain"
    BY <1>2, <2>4 DEF Process
  <2>6. QED
    BY <1>3, <2>2, <2>3, <2>5 DEF Stand, Stands
<1>6. CASE GiveUp(r)
  <2>1. p.pc = "give-up"
    BY <1>6 DEF GiveUp, At
  <2>2. /\ Between(d) /\ p.budget = d.budget /\ ~ Wants(r, d, f)
        /\ d.evaluations >= InitialCandidates
    BY <1>1, <2>1, AtWork, AtWorkRoom, HeldOf DEF PlaceFits, AskFits, Begun
  <2>3. Ended(d)
    BY <2>2 DEF Between, Ended
  <2>4. proc'[r] = [p EXCEPT !.pc = "report", !.status = "completed"]
    BY <1>2, <1>6 DEF GiveUp, Finish, Become
  <2>5. proc'[r].budget = p.budget /\ status = "completed"
    BY <1>2, <2>4 DEF Process
  <2>6. QED
    BY <1>3, <2>2, <2>3, <2>5 DEF Stand, Stands
<1>7. CASE NextCall(r)
  <2>1. /\ Between(d) /\ d.evaluations >= InitialCandidates /\ ~ Wants(r, d, f)
        /\ status = "completed" /\ proc'[r].budget = d.budget
    BY <1>1, <1>7, NextCallDecides DEF Ending
  <2>2. Ended(d)
    BY <2>1 DEF Between, Ended
  <2>3. QED
    BY <1>3, <2>1, <2>2 DEF Stand, Stands
<1>8. CASE RefuseCost(r)
  <2>1. p.pc = "reserve" /\ ReserveRefused(ReservationRequest(r), PhaseCap, StageCap[RunStage[r]])
    BY <1>8 DEF RefuseCost, At
  <2>2. proc'[r] = [p EXCEPT !.pc = "report", !.status = "cost-cap-exhausted",
                             !.budget = d.budget]
    BY <1>2, <1>8 DEF RefuseCost, Become
  <2>3. proc'[r].budget = d.budget /\ status = "cost-cap-exhausted"
    BY <1>2, <2>2 DEF Process
  <2>4. Between(d) /\ d.evaluations >= InitialCandidates
    BY <1>1, <2>1, AskedRequest DEF Wants, GoesOn
  <2>5. ASSUME Alone
        PROVE  RefusedAgain(r, d)
    <3>1. cache[HashAfter(r, d)] = Nothing
      BY <1>1, <2>1, <2>5, AskedRequest, AloneIsUnshared
    <3>2. QED
      BY <1>1, <2>1, <3>1, AskedRequest DEF RefusedAgain, Refused
  <2>6. Ended(d)
    BY <2>4 DEF Between, Ended
  <2>7. QED
    BY <1>3, <2>3, <2>4, <2>5, <2>6 DEF Stand, Stands, Sure
<1>9. CASE WriteReport(r) \/ WriteAccessLedger(r) \/ WriteResults(r)
  <2>1. p.pc \in Ending
    BY <1>9 DEF WriteReport, WriteAccessLedger, WriteResults, At, Ending
  <2>2. p.budget = d.budget /\ (Sure(p.status) => Stands(r, d, f, p.status))
    BY <2>1 DEF EndInv, EndFits
  <2>3. \E pc : proc'[r] = [p EXCEPT !.pc = pc]
    <3>1. proc'[r] # NoProcess
      BY DEF NoProcess, Ending
    <3>2. QED
      BY <1>2, <1>9, <3>1 DEF WriteReport, WriteAccessLedger, WriteResults, Goto, End, Become
  <2>4. proc'[r].budget = p.budget /\ status = p.status
    BY <1>2, <2>3 DEF Process
  <2>5. QED
    BY <1>3, <2>2, <2>4 DEF Stand
<1>10. QED
  BY <1>3, <1>4, <1>5, <1>6, <1>7, <1>8, <1>9

(* results.json is written once, by WriteResults. *)
LEMMA ResultsKept ==
  ASSUME Phase4Inv, NEW r \in Runs,
         Step(r) \/ Start(r) \/ Crash(r) \/ Raise(r) \/ \E online \in BOOLEAN : Resume(r, online)
  PROVE  \/ files'[r].results = files[r].results
         \/ WriteResults(r) /\ files'[r].results = ResultsOf(r)
<1>1. files \in [Runs -> Directory] /\ files[r] \in Directory
  BY AtWork
<1>2. CASE WriteResults(r)
  <2>1. CASE files' = [files EXCEPT ![r].results = ResultsOf(r)]
    <3>1. files'[r] = [files[r] EXCEPT !.results = ResultsOf(r)]
      BY <1>1, <2>1
    <3>2. files'[r].results = ResultsOf(r)
      BY <1>1, <3>1 DEF Directory
    <3>3. QED
      BY <1>2, <3>2
  <2>2. CASE UNCHANGED files
    BY <2>2
  <2>3. QED
    BY <1>2, <2>1, <2>2 DEF WriteResults
<1>3. CASE Record(r) \/ WriteReport(r) \/ WriteAccessLedger(r)
  <2>1. \/ \E x : files'[r] = [files[r] EXCEPT !.answers = x]
        \/ \E x : files'[r] = [files[r] EXCEPT !.report = x]
        \/ \E x : files'[r] = [files[r] EXCEPT !.access = x]
        \/ files'[r] = files[r]
    BY <1>1, <1>3 DEF Record, WriteReport, WriteAccessLedger
  <2>2. QED
    BY <1>1, <2>1 DEF Directory
<1>4. CASE UNCHANGED files
  BY <1>4
<1>5. QED
  BY <1>2, <1>3, <1>4
  DEF Step, Initialize, Item, Initialized, Recover, Interrupt, Stop, GiveUp, Open,
      Gate, NextCall, Attempt, ReserveCost, RefuseCost, Prepare, NextHash, Send, Provider,
      Settle, Store, Commit, Complete, Close, Start, Crash, Raise, Resume

(* What results.json says stands, and is what the database says. *)
LEMMA ResultsDecided ==
  ASSUME EngineInv, HeldInv, EndInv, NEW r \in Runs,
         Step(r) \/ Start(r) \/ Crash(r) \/ Raise(r) \/ (\E online \in BOOLEAN : Resume(r, online)),
         NEW results, results = files'[r].results, results # Nothing, Sure(results.status)
  PROVE  /\ results.report = [requests |-> db[r].requests, budget |-> db[r].budget]
         /\ Stand(r, results.status)
<1>1. CASE results = files[r].results
  BY <1>1 DEF EndInv, EndFits, Stand
<1>2. CASE WriteResults(r) /\ results = ResultsOf(r)
  <2>1. proc[r].pc \in Ending
    BY <1>2 DEF WriteResults, At, Ending
  <2>2. /\ results.status = proc[r].status
        /\ results.report = [requests |-> db[r].requests, budget |-> proc[r].budget]
    BY <1>2 DEF ResultsOf, ReportOf, Requests
  <2>3. QED
    BY <2>1, <2>2 DEF EndInv, EndFits, Stand
<1>3. Phase4Inv
  BY DEF EngineInv
<1>4. QED
  BY <1>1, <1>2, <1>3, ResultsKept

-----------------------------------------------------------------------------
(* Every step, and what it says of the results. *)

(* At the start no process and no results are there. *)
LEMMA EndInit == Init => EndInv
<1> SUFFICES ASSUME Init, NEW r \in Runs PROVE EndFits(r, db[r], files[r], proc[r])
  BY DEF EndInv
<1>1. proc[r].pc = "none" /\ files[r].results = Nothing
  BY DEF Init, NoProcess
<1>2. QED
  BY <1>1 DEF EndFits, Ending

(* The run that moves. *)
LEMMA EndMoving ==
  ASSUME EngineInv, HeldInv, EndInv, NEW r \in Runs,
         Step(r) \/ Start(r) \/ Crash(r) \/ Raise(r) \/ \E online \in BOOLEAN : Resume(r, online)
  PROVE  EndFits(r, db[r], files[r], proc[r])'
<1> DEFINE p == proc'[r]
           results == files'[r].results
<1>1. ASSUME p.pc \in Ending
      PROVE  /\ p.budget = db'[r].budget
             /\ Sure(p.status) => Stands(r, db[r], files[r], proc[r].status)'
  <2>1. PICK status : status = p.status
    OBVIOUS
  <2>2. /\ SameRows(r) /\ p.budget = db[r].budget
        /\ Sure(status) => Stand(r, status)
    BY <1>1, <2>1, EndsDecided
  <2>3. Sure(status) => Stand(r, status)'
    BY <2>2, StandsMoving
  <2>4. QED
    BY <2>1, <2>2, <2>3 DEF Stand, SameRows
<1>2. ASSUME results # Nothing, Sure(results.status)
      PROVE  /\ results.report = [requests |-> db'[r].requests, budget |-> db'[r].budget]
             /\ Stands(r, db[r], files[r], files[r].results.status)'
  <2>1. PICK x, status : x = results /\ status = x.status
    OBVIOUS
  <2>2. /\ x.report = [requests |-> db[r].requests, budget |-> db[r].budget]
        /\ Stand(r, status)
    BY <1>2, <2>1, ResultsDecided
  <2>3. SameRows(r) /\ Stand(r, status)'
    BY <2>2, StandsMoving
  <2>4. QED
    BY <2>1, <2>2, <2>3 DEF Stand, SameRows
<1>3. QED
  BY <1>1, <1>2 DEF EndFits

(* Another run. *)
LEMMA EndElsewhere ==
  ASSUME EndInv, NEW r \in Runs, NEW t \in Runs, t # r, OthersRest(r)
  PROVE  EndFits(t, db[t], files[t], proc[t])'
<1>1. db'[t] = db[t] /\ files'[t] = files[t] /\ proc'[t] = proc[t]
  BY DEF OthersRest
<1>2. EndFits(t, db[t], files[t], proc[t])
  BY DEF EndInv
<1>3. ASSUME NEW status, Sure(status), Stands(t, db[t], files[t], status)
      PROVE  Stands(t, db[t], files[t], status)'
  BY <1>3, StandsElsewhere DEF Stand
<1>4. proc[t].pc \in Ending /\ Sure(proc[t].status) => Stands(t, db[t], files[t], proc[t].status)'
  <2>1. PICK status : status = proc[t].status
    OBVIOUS
  <2>2. QED
    BY <1>1, <1>2, <1>3, <2>1 DEF EndFits
<1>5. files[t].results # Nothing /\ Sure(files[t].results.status) =>
        Stands(t, db[t], files[t], files[t].results.status)'
  <2>1. PICK status : status = files[t].results.status
    OBVIOUS
  <2>2. QED
    BY <1>1, <1>2, <1>3, <2>1 DEF EndFits
<1>6. QED
  BY <1>1, <1>2, <1>4, <1>5 DEF EndFits

(* No step takes a decision back. *)
LEMMA EndNext ==
  ASSUME EngineInv, HeldInv, EndInv, [Next]_vars
  PROVE  EndInv'
<1>1. CASE UNCHANGED vars
  <2>1. /\ db' = db /\ files' = files /\ proc' = proc /\ cache' = cache
        /\ UNCHANGED ledgerVars
    BY <1>1 DEF vars, ledgerVars
  <2>2. ASSUME NEW r \in Runs
        PROVE  EndFits(r, db[r], files[r], proc[r])'
    <3>1. EndFits(r, db[r], files[r], proc[r])
      BY DEF EndInv
    <3>2. ASSUME NEW status, Stands(r, db[r], files[r], status)
          PROVE  Stands(r, db[r], files[r], status)'
      BY <2>1, <3>2, StandsQuiet DEF Stand, SameRows
    <3>3. proc[r].pc \in Ending /\ Sure(proc[r].status) =>
            Stands(r, db[r], files[r], proc[r].status)'
      <4>1. PICK status : status = proc[r].status
        OBVIOUS
      <4>2. QED
        BY <2>1, <3>1, <3>2, <4>1 DEF EndFits
    <3>4. files[r].results # Nothing /\ Sure(files[r].results.status) =>
            Stands(r, db[r], files[r], files[r].results.status)'
      <4>1. PICK status : status = files[r].results.status
        OBVIOUS
      <4>2. QED
        BY <2>1, <3>1, <3>2, <4>1 DEF EndFits
    <3>5. QED
      BY <2>1, <3>1, <3>3, <3>4 DEF EndFits
  <2>3. QED
    BY <2>2 DEF EndInv
<1>2. ASSUME NEW r \in Runs,
             Step(r) \/ Start(r) \/ Crash(r) \/ Raise(r) \/ \E online \in BOOLEAN : Resume(r, online)
      PROVE  EndInv'
  <2>1. OthersRest(r)
    BY <1>2, OneRunMoves DEF EngineInv
  <2>2. ASSUME NEW t \in Runs
        PROVE  EndFits(t, db[t], files[t], proc[t])'
    <3>1. CASE t = r
      BY <1>2, <3>1, EndMoving
    <3>2. CASE t # r
      BY <2>1, <3>2, EndElsewhere
    <3>3. QED
      BY <3>1, <3>2
  <2>3. QED
    BY <2>2 DEF EndInv
<1>3. QED
  BY <1>1, <1>2 DEF Next

(* EndInv holds in every reachable state. *)
LEMMA EndHolds == Spec => []EndInv
<1>1. EngineInv /\ HeldInv /\ EndInv /\ [Next]_vars => EndInv'
  BY EndNext
<1>2. QED
  BY <1>1, EndInit, EngineStaysSound, HeldHolds, PTL DEF Spec

(* results.json describes the run as its database has it, in every state and *)
(* however many processes wrote the files, when the run has the ledger and   *)
(* the cache for itself.                                                     *)
THEOREM ResultsTellTheRun == Spec => [](Alone => ResultsDescribeRun)
<1>1. EndInv => (Alone => ResultsDescribeRun)
  BY DEF EndInv, EndFits, Sure, ResultsDescribeRun, Requests
<1>2. QED
  BY <1>1, EndHolds, PTL

(* Among other runs the same holds of every run that was not refused by the  *)
(* ledger: only such a refusal may be lifted by what another run settles.    *)
UnrefusedResultsDescribeRun ==
  \A r \in Runs :
    files[r].results # Nothing /\ files[r].results.status # "cost-cap-exhausted" =>
      files[r].results.report = [requests |-> Requests(r), budget |-> db[r].budget]

(* Whatever the others do to the ledger and to the cache, the results of a   *)
(* run that the ledger did not refuse say what its database says.            *)
THEOREM UnrefusedResultsTellTheRun == Spec => []UnrefusedResultsDescribeRun
<1>1. EndInv => UnrefusedResultsDescribeRun
  BY DEF EndInv, EndFits, Sure, UnrefusedResultsDescribeRun, Requests
<1>2. QED
  BY <1>1, EndHolds, PTL

=============================================================================
