------------------------------ MODULE MCSearches ------------------------------
(***************************************************************************)
(* The searches on small instances: the language of their programs with    *)
(* the two ways to make new ones, the three search loops and the archive.  *)
(* They share no state, so that one behaviour is about one of them:        *)
(* scenario says which, and the variables of the others are Unused or stay *)
(* as they were.                                                           *)
(***************************************************************************)
EXTENDS Integers, Sequences, FiniteSets, TLC

CONSTANTS Procs, None, Unused

VARIABLES scenario, db, files, proc, faults, damage, draws,
          cells, incumbent, evaluated, decisions,
          parent, source, canonical, attempts, hidden,
          cap, kind, cost, pool, seen, examined, stopped

searchVars == <<db, files, proc, faults>>
archiveVars == <<cells, incumbent, evaluated, decisions>>
mutationVars == <<parent, source, canonical, attempts, hidden>>
enumerationVars == <<cap, kind, cost, pool, seen, examined, stopped>>
programVars == <<mutationVars, enumerationVars>>
loopVars == <<searchVars, damage, draws, archiveVars>>
allVars == <<scenario, loopVars, programVars>>

(* Mutation of four programs, which together have every class.               *)
Left == <<"At", -1>>
Here == <<"At", 0>>
Right == <<"At", 1>>
All == <<"Count", {-1, 0, 1}>>
Choice ==
  <<"If", <<"Eq", <<"AddConst", <<"AddConst", All, 3>>, 2>>, <<"IntConst", 2>>>>, <<"Not", Left>>, Here>>
Threshold ==
  <<"If", <<"Between", All, <<"IntConst", 1>>, <<"AddConst", <<"IntConst", 3>>, 1>>>>, <<"Const", 1>>,
    <<"Parity", {-1, 1}>>>>
Folded == <<"Xor", <<"Const", 1>>, <<"Or", <<"Majority", {0}>>, <<"And", Here, Right>>>>>>
Table == <<0, 1, 1, 1, 0, 1, 1, 0>>
Operators == INSTANCE Mutation WITH
  Seeds <- {Choice, Threshold, Folded, <<"TruthTable", Table>>}, Partners <- {Folded},
  MaxDepth <- 4, MaxNodes <- 9, DrawnInts <- {3}, DrawnMasks <- {{-1, 0, 1}}, DrawnDepth <- 1,
  MaxAttempts <- 2, Rules <- {Table}, Lattice <- <<0, 1, 1, 0>>

(* Enumeration with the bounds that DD-013 and the test of the enumerator    *)
(* record, and with smaller caps, which are reached.                         *)
Enumerator == INSTANCE Enumeration WITH
  MaxBits <- 36, MaxDepth <- 8, MaxNodes <- 15, Caps <- {40, 700, 5000, 29529, 50000}

(* Phase 0 and Phase 2: three steps, two processes, two of which may be      *)
(* killed or interrupted, torn files, and one value that decays.             *)
Phase0 == INSTANCE SearchLoop WITH Phase <- 0, MaxSteps <- 3, FirstExact <- 2, Limits <- {0, 2},
            MaxFaults <- 2, MaxDamage <- 1, AtomicFiles <- FALSE
Phase2 == INSTANCE SearchLoop WITH Phase <- 2, MaxSteps <- 3, FirstExact <- 1, Limits <- {0, 2},
            MaxFaults <- 2, MaxDamage <- 1, AtomicFiles <- FALSE

(* Phase 3: three programs in two cells, two of them of one semantics.       *)
(* Those rank the same for the archive, where the identifier decides; for    *)
(* the incumbent one of them is the best there is.  Identifiers do not sort  *)
(* by their age.  In the diverse search a second process resumes beside the  *)
(* first one; in the incumbent search one of the two may be killed as well.  *)
Attempts == 0..3
Age == [i \in Attempts |-> (2 * i + 2) % 7]
CellOfThree == [x |-> "a", y |-> "b", z |-> "a"]
SemanticOfThree == [x |-> "s", y |-> "t", z |-> "s"]

Diverse == INSTANCE Phase3Run WITH
  Programs <- {"x", "y", "z"}, Cells <- {"a", "b"}, CellOf <- CellOfThree,
  RankOf <- [x |-> 1, y |-> 2, z |-> 1], SemanticOf <- SemanticOfThree,
  CellOrder <- <<"a", "b">>, ReserveSize <- 1, Ids <- Attempts, IdOrder <- Age,
  Lineages <- {}, Condition <- "diverse", InitialPrograms <- <<"y", "x">>,
  AttemptCap <- 4, OracleCap <- 3, Locked <- FALSE, Limits <- {0}, MaxFaults <- 0
Incumbent == INSTANCE Phase3Run WITH
  Programs <- {"x", "y", "z"}, Cells <- {"a", "b"}, CellOf <- CellOfThree,
  RankOf <- [x |-> 1, y |-> 2, z |-> 3], SemanticOf <- SemanticOfThree,
  CellOrder <- <<"a", "b">>, ReserveSize <- 1, Ids <- Attempts, IdOrder <- Age,
  Lineages <- {}, Condition <- "incumbent", InitialPrograms <- <<"y", "x">>,
  AttemptCap <- 4, OracleCap <- 4, Locked <- FALSE, Limits <- {0}, MaxFaults <- 1

(* The archive: six programs in two cells, two and two of them of one rank,  *)
(* one twice with different parents; identifiers sort against the order of   *)
(* their numbers.                                                            *)
Pool ==
  {[id |-> i, program |-> <<1, 2, 3, 4, 5, 6, 2, 1>>[i],
    lineage |-> <<"x", "x", "y", "x", "z", "y", "z", "z">>[i]] : i \in 1..8}
Insertions == INSTANCE ArchiveHistory WITH
  Programs <- 1..6, Cells <- {"a", "b"},
  CellOf <- <<"a", "a", "a", "a", "a", "b">>, RankOf <- <<1, 2, 2, 3, 3, 2>>,
  ReserveSize <- 2, Ids <- 1..8, IdOrder <- [i \in 1..8 |-> 9 - i],
  Lineages <- {"x", "y", "z"}, MaxInsertions <- 5

ASSUME /\ Operators!MutationConstants /\ Enumerator!EnumerationConstants
       /\ Phase0!SearchConstants /\ Phase2!SearchConstants
       /\ Diverse!Phase3Constants /\ Incumbent!Phase3Constants
       /\ Insertions!ArchiveConstants /\ Insertions!PoolConstants

-----------------------------------------------------------------------------
NoSearch == db = Unused /\ files = Unused /\ proc = Unused /\ faults = Unused
NoArchive == Insertions!ArchiveInit
NoLoop == NoSearch /\ damage = Unused /\ draws = Unused /\ NoArchive
NoMutation ==
  parent = Unused /\ source = Unused /\ canonical = Unused /\ attempts = Unused /\ hidden = Unused
NoEnumeration ==
  /\ cap = Unused /\ kind = Unused /\ cost = Unused /\ pool = Unused /\ seen = Unused
  /\ examined = Unused /\ stopped = Unused

Init ==
  \/ scenario = "mutation" /\ Operators!Init /\ NoEnumeration /\ NoLoop
  \/ scenario = "enumeration" /\ Enumerator!Init /\ NoMutation /\ NoLoop
  \/ /\ \/ scenario = "phase0" /\ Phase0!Init /\ draws = Unused /\ NoArchive
        \/ scenario = "phase2" /\ Phase2!Init /\ draws = Unused /\ NoArchive
        \/ scenario = "diverse" /\ Diverse!Init /\ damage = Unused /\ NoArchive
        \/ scenario = "incumbent" /\ Incumbent!Init /\ damage = Unused /\ NoArchive
        \/ scenario = "archive" /\ Insertions!ArchiveInit /\ NoSearch
                                /\ damage = Unused /\ draws = Unused
     /\ NoMutation /\ NoEnumeration

Next ==
  /\ \/ scenario = "mutation" /\ Operators!Next /\ UNCHANGED <<enumerationVars, loopVars>>
     \/ scenario = "enumeration" /\ Enumerator!Next /\ UNCHANGED <<mutationVars, loopVars>>
     \/ /\ \/ scenario = "phase0" /\ Phase0!Next /\ UNCHANGED <<draws, archiveVars>>
           \/ scenario = "phase2" /\ Phase2!Next /\ UNCHANGED <<draws, archiveVars>>
           \/ scenario = "diverse" /\ Diverse!Next /\ UNCHANGED <<damage, archiveVars>>
           \/ scenario = "incumbent" /\ Incumbent!Next /\ UNCHANGED <<damage, archiveVars>>
           \/ scenario = "archive" /\ Insertions!ArchiveNext /\ UNCHANGED <<searchVars, damage, draws>>
        /\ UNCHANGED programVars
  /\ UNCHANGED scenario

Spec == Init /\ [][Next]_allVars

(* The processes are interchangeable.                                        *)
ProcsInterchangeable == Permutations(Procs)

-----------------------------------------------------------------------------
(* A program is judged and stored by its canonical form.  Whatever operators *)
(* are applied in whatever order, that form means what they made, is never   *)
(* dearer or larger, is the same for expressions that differ in the order of *)
(* commuted operands, is only rejected for its size, and its code is the     *)
(* code of nothing else; a program without local errors passes the locked    *)
(* rollout (canonical.py, codec.py, operators.py, exact.py).                 *)
MeaningIsKept ==
  scenario = "mutation" => /\ Operators!MutationTypeOK
                           /\ Operators!MeaningIsKept
                           /\ Operators!CanonNeverGrows
                           /\ Operators!IdentityIgnoresOrder
                           /\ Operators!RejectedForSizeOnly
                           /\ Operators!CodeIsDecodable
                           /\ Operators!RolloutFollows

(* The enumerator keeps the cheapest program of every meaning it can reach,  *)
(* one program for a meaning, and says truly whether its cap cut anything    *)
(* off.  Its counts are those that DD-013 and the tests record: the work     *)
(* ends at 29,529 candidates, all 256 meanings are found, the lengths range  *)
(* from 4 to 33 bits and 64 of them are below the 19 bits of a truth table   *)
(* (enumerative.py).                                                         *)
NothingCheaperIsMissed ==
  scenario = "enumeration" =>
    /\ Enumerator!EnumerationTypeOK
    /\ Enumerator!NothingCheaperIsMissed
    /\ Enumerator!KeptAreRepresentatives
    /\ Enumerator!ExhaustionIsTold
    /\ cap = 50000 /\ cost > 36 =>
         LET lengths == {<<e, Enumerator!Length(e)>> : e \in Enumerator!programs}
         IN /\ ~ stopped /\ examined = 29529 /\ Cardinality(lengths) = 256
            /\ {l[2] : l \in lengths} \subseteq 4..33
            /\ Cardinality({l \in lengths : l[2] < 19}) = 64

(* Phases 0 and 2.  Two processes that resume the same run at once read the  *)
(* same next_step and evaluate the same candidates.  Whatever they do and    *)
(* wherever they die, the ledger of events has no gap and no repetition, the *)
(* proposal of every event was durable before it, and results.json is        *)
(* written over the whole run (loop.py).                                     *)
EventsAreBacked ==
  /\ scenario = "phase0" => /\ Phase0!SearchTypeOK
                            /\ Phase0!LedgerIsSequential
                            /\ Phase0!EvidencePrecedesEvents
                            /\ Phase0!ResultsDescribeAllSteps
  /\ scenario = "phase2" => /\ Phase2!SearchTypeOK
                            /\ Phase2!LedgerIsSequential
                            /\ Phase2!EvidencePrecedesEvents
                            /\ Phase2!ResultsDescribeAllSteps

(* A completed run of Phase 2 or 3 can be replayed, whatever happened to the *)
(* processes that executed it, and a replay of Phase 0 or 2 fails when a     *)
(* stored value it vouches for has changed, and only then (replay.py).       *)
ReplayIsExact ==
  /\ scenario = "phase0" => Phase0!ReplayDetectsDamage
  /\ scenario = "phase2" => Phase2!CompletedReplays /\ Phase2!ReplayDetectsDamage
  /\ scenario = "diverse" => Diverse!CompletedReplays
  /\ scenario = "incumbent" => Incumbent!CompletedReplays

(* Phase 3.  The mechanism a resume rebuilds from the committed evaluations  *)
(* is the one the interrupted process had, the charged budget is what the    *)
(* rows add up to, and the results are what the rows say, whichever process  *)
(* wrote them (restore_mechanism, execute).                                  *)
MemoryAgreesWithRows ==
  /\ scenario = "diverse" => /\ Diverse!Phase3TypeOK
                             /\ Diverse!MemoryAgreesWithRows
                             /\ Diverse!BudgetMatchesRows
                             /\ Diverse!ResultsMatchRows
  /\ scenario = "incumbent" => /\ Incumbent!Phase3TypeOK
                               /\ Incumbent!MemoryAgreesWithRows
                               /\ Incumbent!BudgetMatchesRows
                               /\ Incumbent!ResultsMatchRows

(* Phase 3.  The parents of every attempt were in the mechanism when it was  *)
(* made, and a duplicate is flagged exactly if its program or its semantics  *)
(* was evaluated before, although two processes may make the same attempt.   *)
AttemptsFollowOneAnother ==
  /\ scenario = "diverse" => Diverse!ParentsWereHeld /\ Diverse!DuplicatesAreFlagged
  /\ scenario = "incumbent" => Incumbent!ParentsWereHeld /\ Incumbent!DuplicatesAreFlagged

(* The archive and the incumbent hold the best of what was inserted, in      *)
(* whichever order it came; a cell repeats no program and its reserve no     *)
(* lineage; nothing leaves a cell without a decision that says so, and no    *)
(* insertion makes an elite worse (archive.py).                              *)
BestIsKept ==
  /\ [](/\ Insertions!ArchiveTypeOK
        /\ Insertions!EliteIsBest
        /\ Insertions!CellsAreDiverse
        /\ Insertions!DecisionsExplainCells)
  /\ Insertions!ElitesNeverGetWorse
=============================================================================
