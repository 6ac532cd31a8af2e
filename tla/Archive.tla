------------------------------- MODULE Archive -------------------------------
(***************************************************************************)
(* The two search mechanisms of a Phase 3 run (search/archive.py): the     *)
(* MAP-Elites archive, which keeps in each cell the best candidate and a   *)
(* small reserve of other lineages, and the single incumbent it is         *)
(* compared with.  A member is a candidate with its program and lineage;   *)
(* the rank of its oracle result and the cell of its descriptor are        *)
(* functions of the program.                                               *)
(***************************************************************************)
EXTENDS Integers, Sequences, FiniteSets

CONSTANTS
  Programs,      \* canonical programs
  Cells,         \* archive coordinates, the layer among them
  CellOf,        \* descriptor of a program with its result
  RankOf,        \* rank_result, as a number: larger is better
  ReserveSize,
  Ids,           \* candidate identifiers
  IdOrder,       \* their lexical order, as numbers
  Lineages,      \* lineage signatures: ordered parents and operator
  None

ArchiveConstants ==
  /\ CellOf \in [Programs -> Cells]
  /\ RankOf \in [Programs -> Int]
  /\ ReserveSize \in Nat
  /\ IdOrder \in [Ids -> Int]
  /\ \A i, j \in Ids : IdOrder[i] = IdOrder[j] => i = j
  /\ None \notin [id : Ids, program : Programs, lineage : Lineages]

Members == [id : Ids, program : Programs, lineage : Lineages]

Better(left, right) ==
  \/ RankOf[left.program] > RankOf[right.program]
  \/ /\ RankOf[left.program] = RankOf[right.program]
     /\ IdOrder[left.id] < IdOrder[right.id]

VacantCell == [elite |-> None, reserve |-> <<>>]
EmptyArchive == [c \in Cells |-> VacantCell]

Occupied(archive) == {c \in Cells : archive[c].elite # None}

SeqRange(s) == {s[i] : i \in DOMAIN s}

(* The elite and the reserve of an occupied cell.                            *)
MembersOf(cell) == {cell.elite} \cup SeqRange(cell.reserve)

(* sorted: the best first.  No two members of a reserve rank the same.       *)
InOrder(s) == \A i, j \in DOMAIN s : i < j => Better(s[i], s[j])
Sorted(reserve) ==
  CHOOSE s \in [DOMAIN reserve -> SeqRange(reserve)] :
    SeqRange(s) = SeqRange(reserve) /\ InOrder(s)

(* ordered[: reserve_size] of the sorted reserve.                            *)
Ordered(reserve) ==
  SubSeq(Sorted(reserve), 1, IF Len(reserve) < ReserveSize THEN Len(reserve) ELSE ReserveSize)

AdmitReserve(reserve, member) ==
  IF ReserveSize = 0 \/ \E m \in SeqRange(reserve) : m.lineage = member.lineage
    THEN reserve
    ELSE Ordered(Append(reserve, member))

(* The member that made room in the reserve for the one added.               *)
Evicted(old, new, added) ==
  IF added \notin SeqRange(new) \/ SeqRange(old) \subseteq SeqRange(new)
    THEN None
    ELSE (CHOOSE m \in SeqRange(old) : m \notin SeqRange(new)).id

Decision(member, outcome, replaced, evicted, role) ==
  [coordinate |-> CellOf[member.program], outcome |-> outcome, candidate |-> member.id,
   inserted |-> IF outcome \in {"inserted", "replaced", "reserved"} THEN member.id ELSE None,
   replaced |-> replaced, evicted |-> evicted, role |-> role,
   rank |-> RankOf[member.program]]

(* The same canonical program is already in the cell.                        *)
HasTwin(cell, member) == \E m \in MembersOf(cell) : m.program = member.program

(* Mutant: an occupied cell only takes reserves. *)
InsertFirst(archive, member) ==
  LET c == CellOf[member.program]  cell == archive[c]
      Into(new, decision) == [archive |-> [archive EXCEPT ![c] = new], decision |-> decision]
      reserve == AdmitReserve(cell.reserve, member)
  IN
  IF cell.elite = None
    THEN Into([elite |-> member, reserve |-> <<>>],
              Decision(member, "inserted", None, None, "elite"))
  ELSE IF HasTwin(cell, member)
    THEN Into(cell, Decision(member, "duplicate", None, None, None))
  ELSE Into([elite |-> cell.elite, reserve |-> reserve],
            Decision(member, "reserved", None, Evicted(cell.reserve, reserve, member), "reserve"))

(* MapElitesArchive.insert: the archive afterwards and the decision.         *)
Insert(archive, member) ==
  LET c == CellOf[member.program]
      cell == archive[c]
      Into(new, decision) == [archive |-> [archive EXCEPT ![c] = new], decision |-> decision]
      demoted == AdmitReserve(cell.reserve, cell.elite)
      reserve == AdmitReserve(cell.reserve, member)
  IN
  IF cell.elite = None
    THEN Into([elite |-> member, reserve |-> <<>>],
              Decision(member, "inserted", None, None, "elite"))
  ELSE IF HasTwin(cell, member)
    THEN Into(cell, Decision(member, "duplicate", None, None, None))
  ELSE IF Better(member, cell.elite)
    THEN Into([elite |-> member, reserve |-> demoted],
              Decision(member, "replaced", cell.elite.id,
                       Evicted(cell.reserve, demoted, cell.elite), "elite"))
  ELSE IF reserve = cell.reserve
    THEN Into(cell, Decision(member, "rejected", None, None, None))
  ELSE Into([elite |-> cell.elite, reserve |-> reserve],
            Decision(member, "reserved", None, Evicted(cell.reserve, reserve, member), "reserve"))

(* SingleIncumbent.insert: the candidate held afterwards and the decision.   *)
InsertIncumbent(held, member) ==
  LET To(new, decision) == [held |-> new, decision |-> decision] IN
  IF held = None
    THEN To(member, Decision(member, "inserted", None, None, "incumbent"))
  ELSE IF held.program = member.program
    THEN To(held, Decision(member, "duplicate", None, None, None))
  ELSE IF Better(member, held)
    THEN To(member, Decision(member, "replaced", held.id, None, "incumbent"))
  ELSE To(held, Decision(member, "rejected", None, None, None))
=============================================================================
