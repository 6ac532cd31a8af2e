-------------------------- MODULE StatisticsHistory --------------------------
(***************************************************************************)
(* The rows of an experiment are collected, some of them twice, and        *)
(* analysed; the analysis refuses rows that are not paired.                *)
(***************************************************************************)
EXTENDS Statistics

CONSTANT MaxRepeats   \* bound: rows that come twice

VARIABLES
  indexed,    \* the value of every key seen so far
  rows,       \* how many rows there were
  generator,  \* the bootstrap's seed
  report      \* the analysis, a sequence that is empty before it

vars == <<indexed, rows, generator, report>>

Keys == {<<cell[1], cell[2], c>> : cell \in Cells, c \in Conditions}

Init == indexed = <<>> /\ rows = 0 /\ generator \in DOMAIN Draws /\ report = <<>>

(* indexed[key] = value: the last row of a key stays. *)
AddRow(key, value) ==
  /\ report = <<>>
  /\ rows < Cardinality(DOMAIN indexed) + MaxRepeats + (IF key \in DOMAIN indexed THEN 0 ELSE 1)
  /\ indexed' = [k \in DOMAIN indexed \cup {key} |-> IF k = key THEN value ELSE indexed[k]]
  /\ rows' = rows + 1
  /\ UNCHANGED <<generator, report>>

Analyse ==
  /\ report = <<>>
  /\ rows > 0
  /\ Complete(indexed, rows)
  /\ report' = <<PairedAnalysis(indexed, generator)>>
  /\ UNCHANGED <<indexed, rows, generator>>

Next == (\E key \in Keys, value \in Values : AddRow(key, value)) \/ Analyse
Spec == Init /\ [][Next]_vars

-----------------------------------------------------------------------------
Analysed == report # <<>>
Accepted == rows > 0 /\ Complete(indexed, rows)
Names == {"H1", "H2"}

(* Types; in particular no p-value is above one. *)
StatisticsTypeOK ==
  /\ DOMAIN indexed \subseteq Keys
  /\ \A key \in DOMAIN indexed : indexed[key] \in Values
  /\ rows >= Cardinality(DOMAIN indexed)
  /\ Analysed => \A name \in Names :
       /\ report[1][name].adjusted \in 1..Replicates + 1
       /\ report[1][name].superior \in BOOLEAN

(* Rows are analysed only if every task and seed among them has all three     *)
(* conditions; a row that came twice does not stand in for a missing one.     *)
AnalysedRowsArePaired ==
  Accepted => \A key \in DOMAIN indexed : \A c \in Conditions :
                <<key[1], key[2], c>> \in DOMAIN indexed

(* A bootstrap interval is one: its ends are in order and no further out than *)
(* the pairs themselves, for whole tasks as for single pairs.                 *)
IntervalsWithinData ==
  Analysed =>
    \A name \in Names :
      LET values == FlattenSeq(Contrast(indexed, name))
          n == Len(values)
          least == n * Min(ToSet(values))
          greatest == n * Max(ToSet(values))
          Within(interval) == /\ least <= interval[1]
                              /\ interval[1] <= interval[2]
                              /\ interval[2] <= greatest
      IN  Within(report[1][name].interval) /\ Within(report[1][name].sensitivity)

(* Rejection and adjusted p-value tell the same: a hypothesis is rejected     *)
(* exactly if its adjusted p-value is at most 0.05, although the code derives *)
(* the two in loops of their own.                                             *)
RejectionsMatchAdjusted ==
  Analysed => \A name \in Names :
    report[1][name].reject <=> 20 * report[1][name].adjusted <= Replicates + 1

(* The test does not know which condition is which: with the values of B      *)
(* exchanged for those of A the effect changes its sign and the p-value       *)
(* stays; and no effect is never evidence.                                    *)
TestIsTwoSided ==
  Analysed =>
    LET there == Differences(indexed, "B", "A")
        back == Differences(indexed, "A", "B")
    IN  /\ PValue(there, generator) = PValue(back, generator)
        /\ Point(there) = 0 => PValue(there, generator) = Replicates + 1

(* Pairs that all differ by the same leave no doubt whatever the draws: the   *)
(* interval is that difference and the p-value is the smallest there is.      *)
UniformEffectIsFound ==
  Analysed =>
    LET there == Differences(indexed, "B", "A")
        point == report[1]["H1"].point
    IN  Cardinality(ToSet(FlattenSeq(there))) = 1 /\ point # 0
          => /\ report[1]["H1"].interval = <<point, point>>
             /\ PValue(there, generator) = 1
=============================================================================
