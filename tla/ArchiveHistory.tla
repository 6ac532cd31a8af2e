---------------------------- MODULE ArchiveHistory ----------------------------
(***************************************************************************)
(* What the two mechanisms of Archive hold after any history of insertions.*)
(***************************************************************************)
EXTENDS Archive

(* Both mechanisms fed with the same candidates, in any order.  A candidate  *)
(* may be evaluated again; its identifier fixes its program and lineage.     *)

CONSTANTS
  Pool,            \* the candidates that may be evaluated
  MaxInsertions    \* bound

PoolConstants ==
  /\ Pool \subseteq Members
  /\ \A m, n \in Pool : m.id = n.id => m = n
  /\ MaxInsertions \in Nat

VARIABLES
  cells,      \* MapElitesArchive._cells
  incumbent,  \* SingleIncumbent.member
  evaluated,  \* the members inserted so far, in order
  decisions   \* archive_transition: the decisions on them

archiveVars == <<cells, incumbent, evaluated, decisions>>

ArchiveInit ==
  /\ cells = EmptyArchive
  /\ incumbent = None
  /\ evaluated = <<>>
  /\ decisions = <<>>

InsertBoth(member) ==
  /\ Len(evaluated) < MaxInsertions
  /\ cells' = Insert(cells, member).archive
  /\ incumbent' = InsertIncumbent(incumbent, member).held
  /\ evaluated' = Append(evaluated, member)
  /\ decisions' = Append(decisions, Insert(cells, member).decision)

ArchiveNext == \E member \in Pool : InsertBoth(member)
ArchiveSpec == ArchiveInit /\ [][ArchiveNext]_archiveVars

-----------------------------------------------------------------------------
(* Properties. *)

ArchiveTypeOK ==
  /\ \A c \in Cells : /\ cells[c].elite \in Members \cup {None}
                      /\ cells[c].reserve \in Seq(Members)
                      /\ Len(cells[c].reserve) <= ReserveSize
                      /\ cells[c].elite = None => cells[c].reserve = <<>>
  /\ incumbent \in Members \cup {None}
  /\ evaluated \in Seq(Members)

(* Whatever was inserted and in whichever order, the elite of a cell is one  *)
(* of the candidates that belong there and none of them ranks above it, and  *)
(* the incumbent is the best of the elites (insert of both mechanisms).      *)
EliteIsBest ==
  /\ \A m \in SeqRange(evaluated) :
       /\ cells[CellOf[m.program]].elite # None
       /\ RankOf[cells[CellOf[m.program]].elite.program] >= RankOf[m.program]
       /\ RankOf[incumbent.program] >= RankOf[m.program]
  /\ \A c \in Occupied(cells) : /\ cells[c].elite \in SeqRange(evaluated)
                                /\ CellOf[cells[c].elite.program] = c

(* A cell never holds a program twice, its reserve holds no two candidates   *)
(* of one lineage, and every one of them ranks at most like the elite.       *)
CellsAreDiverse ==
  \A c \in Occupied(cells) :
    LET cell == cells[c] IN
    /\ \A m, n \in MembersOf(cell) : m.program = n.program => m = n
    /\ \A i, j \in DOMAIN cell.reserve :
         cell.reserve[i].lineage = cell.reserve[j].lineage => i = j
    /\ \A m \in SeqRange(cell.reserve) : Better(cell.elite, m)
    /\ cell.elite \notin SeqRange(cell.reserve)

(* The candidates in a cell follow from the recorded decisions alone: one    *)
(* that was inserted is there until a decision names it as evicted, or, as a *)
(* replaced elite, until it is found in no reserve.  Nothing leaves a cell   *)
(* unrecorded (_decision, _evicted).                                         *)
DecisionsExplainCells ==
  \A i \in DOMAIN decisions :
    LET d == decisions[i]
        Leaves(j) == decisions[j].evicted = d.inserted \/ decisions[j].replaced = d.inserted
        Held == \E c \in Cells : \E m \in MembersOf(cells[c]) \ {None} : m.id = d.inserted
    IN  d.inserted # None => Held \/ \E j \in i + 1 .. Len(decisions) : Leaves(j)

(* Updates are monotone: no insertion empties a cell or gives it an elite    *)
(* that comes after the old one.                                             *)
ElitesNeverGetWorse ==
  [][\A c \in Occupied(cells) :
       /\ c \in Occupied(cells')
       /\ LET old == cells[c].elite  new == cells'[c].elite IN
          new # old =>
            /\ RankOf[new.program] >= RankOf[old.program]
            /\ RankOf[new.program] = RankOf[old.program] =>
                 IdOrder[new.id] < IdOrder[old.id]]_archiveVars
=============================================================================
