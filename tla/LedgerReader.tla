----------------------------- MODULE LedgerReader -----------------------------
(***************************************************************************)
(* A process that asks the ledger for its cash balance (cash_balance() and *)
(* status() of model/ledger.py) beside runs that reserve and settle.  The  *)
(* methods that write hold the database for a whole transaction; this one  *)
(* sends five queries, and each sees the table as it is at that moment.    *)
(***************************************************************************)
EXTENDS Ledger

VARIABLES
  pc,       \* the query that comes next; "idle" outside a call, "raised" after a refusal
  seen,     \* the values read so far
  before    \* history: the table when the call began

readerVars == <<pc, seen, before>>
vars == <<reservation, cash_checkpoint, observed, pc, seen, before>>

Unread == [covered |-> 0, billed |-> 0, actual |-> 0, uncertain |-> 0, active |-> 0]

Sum(state, amount(_)) ==
  Total([k \in Rowids |-> IF k > seen.covered /\ reservation[k].state = state
                          THEN amount(reservation[k]) ELSE 0])

(* _latest_checkpoint.                                                       *)
ReadCheckpoint ==
  /\ Dual /\ pc = "idle"
  /\ seen' = [Unread EXCEPT !.covered = LatestCovered, !.billed = LatestBilled]
  /\ before' = reservation
  /\ pc' = "validity"
  /\ UNCHANGED ledgerVars

(* The count of covered reservations that are not reconciled.                *)
ReadValidity ==
  /\ pc = "validity"
  /\ pc' = IF FinishedThrough(seen.covered) THEN "actual" ELSE "raised"
  /\ UNCHANGED <<ledgerVars, seen, before>>

ReadActual ==
  /\ pc = "actual"
  /\ seen' = [seen EXCEPT !.actual = Sum("reconciled", LAMBDA row : row.actual)]
  /\ pc' = "uncertain"
  /\ UNCHANGED <<ledgerVars, before>>

ReadUncertain ==
  /\ pc = "uncertain"
  /\ seen' = [seen EXCEPT !.uncertain = Sum("uncertain", LAMBDA row : row.uncertain)]
  /\ pc' = "active"
  /\ UNCHANGED <<ledgerVars, before>>

(* Mutant: the newest reservation is left out. *)
ReadActiveOfFirst ==
  /\ pc = "active"
  /\ seen' = [seen EXCEPT !.active =
       Total([k \in Rowids |-> IF k > seen.covered /\ k < Len(before) /\ reservation[k].state = "active"
                               THEN reservation[k].reserved ELSE 0])]
  /\ pc' = "told"
  /\ UNCHANGED <<ledgerVars, before>>

ReadActive ==
  /\ pc = "active"
  /\ seen' = [seen EXCEPT !.active = Sum("active", LAMBDA row : row.reserved)]
  /\ pc' = "told"
  /\ UNCHANGED <<ledgerVars, before>>

(* The answer has been given; the next call reads everything again.          *)
Return ==
  /\ pc = "told" /\ pc' = "idle"
  /\ seen' = Unread /\ before' = <<>>
  /\ UNCHANGED ledgerVars

(* A transaction of some run or operator, before, between and after queries. *)
Write ==
  /\ LedgerNext
  /\ UNCHANGED <<pc, seen, before>>

Init ==
  /\ LedgerInit
  /\ pc = "idle" /\ seen = Unread /\ before = <<>>

Next ==
  \/ ReadCheckpoint \/ ReadValidity \/ ReadActual \/ ReadUncertain \/ ReadActive
  \/ Return \/ Write

Spec == Init /\ [][Next]_vars

-----------------------------------------------------------------------------
Told == seen.billed + seen.actual + seen.uncertain + seen.active + SafetyBuffer

ReaderTypeOK ==
  /\ LedgerTypeOK
  /\ pc \in {"idle", "validity", "actual", "uncertain", "active", "told", "raised"}
  /\ seen \in [covered : Nat, billed : Nat, actual : Nat, uncertain : Nat, active : Nat]
  /\ before \in Seq(ReservationRow)

(* A reader is never refused: the checkpoint it holds may have been replaced *)
(* when it looks at the covered rows, and they are still all reconciled.     *)
ReaderIsNotRefused == pc # "raised"

(* What an answer can miss are reservations that were open when the call     *)
(* began and ended during it, and nothing else: a row that was finished      *)
(* before, or that is still open, is in it.                                  *)
OnlyEndedAreMissed ==
  pc = "told" =>
    LET counted(k) ==
          CASE before[k].state = "reconciled" -> before[k].actual
            [] before[k].state = "uncertain" -> before[k].uncertain
            [] before[k].state = "active" ->
                 IF reservation[k].state = "active" THEN before[k].reserved ELSE 0
        column == [k \in Rowids |-> IF k \in DOMAIN before /\ k > seen.covered THEN counted(k) ELSE 0]
    IN Told >= seen.billed + Total(column) + SafetyBuffer

(* No reservation is in two of the sums, nor in one of them and in the bill, *)
(* however it was settled or covered between the queries.                    *)
NothingCountedTwice ==
  pc = "told" =>
    Told <= seen.billed + SafetyBuffer
            + Total([k \in Rowids |-> IF k > seen.covered THEN reservation[k].reserved ELSE 0])

(* A balance read query by query beside the runs is never refused, counts    *)
(* nothing twice, and misses nothing but what ended while it was read.       *)
BalanceMissesOnlyEnded ==
  ReaderTypeOK /\ ReaderIsNotRefused /\ OnlyEndedAreMissed /\ NothingCountedTwice
===============================================================================
