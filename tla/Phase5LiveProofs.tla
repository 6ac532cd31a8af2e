--------------------------- MODULE Phase5LiveProofs ---------------------------
(***************************************************************************)
(* One process after another executes the paid Phase 5 experiments, and    *)
(* any of them may die at any point.  For every plan, every answer of the  *)
(* provider and every value of the caps, no request is sent twice and no   *)
(* charge escapes the ledger.                                              *)
(*                                                                         *)
(* The argument is the request file.  It is written before a request is    *)
(* sent, it is never removed, and the head of the request loop sends       *)
(* nothing whose file is there; between that look and the dispatch nobody  *)
(* else sends, because there is one process.  With two it fails.           *)
(***************************************************************************)
EXTENDS Phase5Live, LedgerProofs

(* Processes follow one another.                                              *)
OneProcess == \A p, q \in Procs : p = q

-----------------------------------------------------------------------------
(* What a process holds. *)

Fields == {"pc", "e", "k", "i", "version", "results", "kids", "cached", "answer",
           "spent", "path", "content", "opened", "next"}
IsMemory(m) == m = [f \in Fields |-> m[f]]

(* The child, the request of it and the reservation that m is at.             *)
ChildOf(m) == ChildOrder(m.e)[m.k]
RequestOf(m) == <<ChildOf(m), m.i, m.version>>

(* Where m is, a file that is being written counted as the place after it.    *)
Place(m) == IF m.pc = "write" THEN m.next ELSE m.pc

ChildPlaces == {"child", "analysis", "summary", "done"}
CallPlaces == {"cache", "reserve", "dispatch", "respond", "settle", "uncertain", "release",
               "evaluate"}
BeforeCall == {"cache", "reserve", "dispatch"}

MemoryOK(m) ==
  /\ IsMemory(m)
  /\ m.e \in Experiments /\ m.k \in Nat /\ m.i \in Nat \ {0} /\ m.version \in Versions
  /\ m.pc \in ChildPlaces \cup CallPlaces \cup {"request", "write"}
  /\ Place(m) \in ChildPlaces \cup CallPlaces \cup {"request"}
  /\ Place(m) \in CallPlaces \cup {"request"} => m.k \in DOMAIN ChildOrder(m.e)
  /\ Place(m) \in CallPlaces => m.i \in Indices(m.e)
  /\ m.pc = "write" /\ m.next \in {"dispatch", "respond"} =>
       m.path = <<"request", ChildOf(m), m.i>>

(* No request for the place where m is has been sent, under any version.      *)
Unsent(m) ==
  \A j \in DOMAIN calls : ~ (calls[j].request[1] = ChildOf(m) /\ calls[j].request[2] = m.i)

(* The request of m has been sent and charged with c.                         *)
Sent(m, c) == \E j \in DOMAIN calls : calls[j].request = RequestOf(m) /\ calls[j].charge = c

(* What the process knows of the request it is at.                            *)
Knows(m) ==
  /\ Place(m) \in BeforeCall => Unsent(m)
  /\ Place(m) = "dispatch" =>
       \E k \in RowOf(RequestOf(m)) : reservation[k].state = "active"
  /\ m.pc = "dispatch" => files[<<"request", ChildOf(m), m.i>>] # Absent
  /\ Place(m) = "settle" \/ (m.pc = "respond" /\ ~ m.cached) =>
       m.answer \in Answers /\ Sent(m, m.answer.cost)
  /\ m.pc = "write" /\ m.next = "respond" => m.cached
  /\ m.cached \in BOOLEAN
  /\ Place(m) = "release" => Sent(m, 0)
  /\ Place(m) = "uncertain" => \E j \in DOMAIN calls : calls[j].request = RequestOf(m)

-----------------------------------------------------------------------------
(* What the files, the ledger and the provider know of each other. *)

FilesOK ==
  /\ files = [path \in Paths |-> files[path]]
  /\ \A path \in Paths : files[path].state \in {"absent", "torn", "whole"}

Call == [request : Requests, charge : 0..CostBound]

CallsOK ==
  /\ calls \in Seq(Call)
  /\ \A j \in DOMAIN calls :
       files[<<"request", calls[j].request[1], calls[j].request[2]>>] # Absent

(* Every row is a reservation of one request at the bound, and one that was   *)
(* settled was sent.                                                          *)
ReservationsOK ==
  /\ \A k \in Rowids :
       /\ reservation[k].reserved = CostBound /\ CostBound <= RequestCap
       /\ reservation[k].state # "active" =>
            \E j \in DOMAIN calls : calls[j].request = reservation[k].reservation_id
  /\ \A k, l \in Rowids :
       reservation[k].reservation_id = reservation[l].reservation_id => k = l

(* Behind every call is a row that still counts its charge.                   *)
CallsCovered ==
  \A j \in DOMAIN calls :
    \E k \in Rowids : /\ reservation[k].reservation_id = calls[j].request
                      /\ calls[j].charge <= Exposure(reservation[k])

TreeOK == tree \in [version : Versions, frozen : BOOLEAN] /\ crashes \in 0..MaxCrashes

(* The inductive invariant.  PaidOnce is part of it: that the row of a call   *)
(* covers it after a settlement needs that no other call has the same row.    *)
Phase5Inv ==
  /\ LedgerTypeOK /\ RowsOK /\ FilesOK /\ TreeOK
  /\ proc = [p \in Procs |-> proc[p]]
  /\ \A p \in Procs : proc[p] = Gone \/ (MemoryOK(proc[p]) /\ Knows(proc[p]))
  /\ CallsOK /\ PaidOnce /\ ReservationsOK /\ CallsCovered

-----------------------------------------------------------------------------
(* Constants and types. *)

(* What is assumed of the experiments, in the form the proofs use it.         *)
LEMMA Bounds ==
  ASSUME Phase5Constants
  PROVE  /\ CostBound \in Nat /\ CostBound \in Amounts
         /\ \A a \in Answers : a.cost \in Nat /\ a.cost <= CostBound
         /\ \A e \in Experiments : Plan[e].requests \in Nat
         /\ MaxCrashes \in Nat /\ MaxEdits \in Nat
<1>1. CostBound \in Nat /\ CostBound \in Amounts
  BY LedgerConstants DEF Phase5Constants
<1>2. \A a \in Answers : a.cost \in Nat /\ a.cost <= CostBound
  BY <1>1 DEF Phase5Constants
<1>3. \A e \in Experiments : Plan[e].requests \in Nat
  BY DEF Phase5Constants, AcceptedPlan, AcceptedCaps
<1>4. MaxCrashes \in Nat /\ MaxEdits \in Nat
  <2>1. {RequestMax, InputBound, OutputBound, MaxCrashes, MaxEdits} \subseteq Nat
    BY DEF Phase5Constants
  <2>2. QED
    BY <2>1
<1>5. QED
  BY <1>1, <1>2, <1>3, <1>4

(* The place of a request is one of the plan, and so are its names in the     *)
(* ledger and on disk.                                                        *)
LEMMA PlacesExist ==
  ASSUME Phase5Constants, NEW e \in Experiments, NEW k \in DOMAIN ChildOrder(e),
         NEW i \in Indices(e), NEW v \in Versions
  PROVE  /\ <<ChildOrder(e)[k], i, v>> \in Requests
         /\ <<ChildOrder(e)[k], i, v>> \in Ids /\ <<ChildOrder(e)[k], i, v>> \in Hashes
         /\ <<ChildOrder(e)[k], i, v>> \in Records
         /\ \A a \in Answers : << <<ChildOrder(e)[k], i, v>>, a >> \in Records
         /\ <<"request", ChildOrder(e)[k], i>> \in Paths
         /\ ChildOrder(e)[k] \in Runs /\ LedgerStage(e) \in Stages
         /\ StageExposure(e) \in Overrides /\ Policy.total \in Overrides
<1> DEFINE c == ChildOrder(e)[k]
           r == <<c, i, v>>
<1>1. c \in ToSet(ChildOrder(e))
  BY DEF ToSet
<1> HIDE DEF c
<1>2. r \in ToSet(ChildOrder(e)) \X Indices(e) \X Versions
  BY <1>1
<1>3. r \in Requests
  BY <1>2 DEF Requests
<1>4. <<"request", c, i>> \in RequestFiles \X ToSet(ChildOrder(e)) \X Indices(e)
  BY <1>1 DEF RequestFiles
<1>5. <<"request", c, i>> \in Paths
  BY <1>4 DEF Paths
<1>6. c \in Runs
  BY <1>1 DEF Phase5Constants
<1> HIDE DEF r
<1>7. r \in Ids /\ r \in Hashes /\ r \in Records /\ \A a \in Answers : <<r, a>> \in Records
  BY <1>3 DEF Phase5Constants
<1>8. /\ LedgerStage(e) \in Stages /\ StageExposure(e) \in Overrides
      /\ Policy.total \in Overrides
  BY DEF Phase5Constants
<1>9. QED
  BY <1>3, <1>5, <1>6, <1>7, <1>8 DEF c, r

(* Every request has a file of its child and index.                           *)
LEMMA RequestHasPath ==
  ASSUME NEW r \in Requests
  PROVE  <<"request", r[1], r[2]>> \in Paths
<1>1. PICK e \in Experiments : r \in ToSet(ChildOrder(e)) \X Indices(e) \X Versions
  BY DEF Requests
<1>2. r[1] \in ToSet(ChildOrder(e)) /\ r[2] \in Indices(e)
  BY <1>1
<1>3. <<"request", r[1], r[2]>> \in RequestFiles \X ToSet(ChildOrder(e)) \X Indices(e)
  BY <1>2 DEF RequestFiles
<1>4. QED
  BY <1>3 DEF Paths

(* A file that has come into being differs from one that is absent.           *)
LEMMA FileStates ==
  /\ Torn # Absent /\ \A c : Whole(c) # Absent
  /\ \A f, c : Holds(f, c) => f # Absent
  /\ Torn.state = "torn" /\ \A c : Whole(c).state = "whole"
<1>1. Absent.state = "absent" /\ Torn.state = "torn" /\ \A c : Whole(c).state = "whole"
  BY DEF Absent, Torn, Whole
<1>2. \A f, c : Holds(f, c) => f.state = "whole"
  BY DEF Holds, IsWhole
<1>3. QED
  BY <1>1, <1>2

(* A file that is written stays, and so do all others.                        *)
LEMMA FilesStep ==
  ASSUME FilesOK, NEW path, NEW f, f = Torn \/ \E c : f = Whole(c),
         files' = [files EXCEPT ![path] = f]
  PROVE  /\ FilesOK'
         /\ \A q \in Paths : files[q] # Absent => files'[q] # Absent
         /\ path \in Paths => files'[path] # Absent
<1>1. f # Absent /\ f.state \in {"torn", "whole"}
  BY FileStates
<1>2. DOMAIN files = Paths
  BY DEF FilesOK
<1>3. \A q \in Paths : files'[q] = IF q = path THEN f ELSE files[q]
  BY <1>2
<1>4. files' = [q \in Paths |-> files'[q]]
  BY <1>2
<1>5. \A q \in Paths : files'[q].state \in {"absent", "torn", "whole"}
  BY <1>1, <1>3 DEF FilesOK
<1>6. QED
  BY <1>1, <1>3, <1>4, <1>5 DEF FilesOK

(* Calls keep their files as long as files only come into being.              *)
LEMMA CallsKeepFiles ==
  ASSUME CallsOK, calls' = calls,
         \A q \in Paths : files[q] # Absent => files'[q] # Absent
  PROVE  CallsOK'
<1>1. ASSUME NEW j \in DOMAIN calls
      PROVE  files'[<<"request", calls[j].request[1], calls[j].request[2]>>] # Absent
  <2>1. calls[j].request \in Requests
    <3>1. calls \in Seq(Call)
      BY DEF CallsOK
    <3>2. DOMAIN calls = 1..Len(calls)
      BY <3>1
    <3>3. calls[j] \in Call
      BY <3>1, <3>2
    <3>4. QED
      BY <3>3 DEF Call
  <2>2. <<"request", calls[j].request[1], calls[j].request[2]>> \in Paths
    BY <2>1, RequestHasPath
  <2>3. QED
    BY <2>2 DEF CallsOK
<1>2. QED
  BY <1>1 DEF CallsOK

-----------------------------------------------------------------------------
(* Steps of the memory alone. *)

(* A process that goes from place to place keeps the invariant when its new   *)
(* memory is as described.                                                    *)
LEMMA MemoryStep ==
  ASSUME Phase5Inv, OneProcess, NEW p \in Procs, NEW m,
         proc' = [proc EXCEPT ![p] = m], m = Gone \/ (MemoryOK(m) /\ Knows(m)),
         UNCHANGED <<ledgerVars, files, calls>>, TreeOK'
  PROVE  Phase5Inv'
<1>1. UNCHANGED <<reservation, cash_checkpoint, observed, files, calls>>
  BY DEF ledgerVars
<1>2. /\ LedgerTypeOK' /\ RowsOK' /\ FilesOK' /\ CallsOK' /\ PaidOnce' /\ ReservationsOK'
      /\ CallsCovered'
  <2>1. LedgerTypeOK' /\ RowsOK'
    BY <1>1 DEF Phase5Inv, LedgerTypeOK, RowsOK, Rowids
  <2>2. FilesOK' /\ CallsOK' /\ PaidOnce'
    BY <1>1 DEF Phase5Inv, FilesOK, CallsOK, PaidOnce
  <2>3. ReservationsOK' /\ CallsCovered'
    BY <1>1 DEF Phase5Inv, ReservationsOK, CallsCovered, Rowids
  <2>4. QED
    BY <2>1, <2>2, <2>3
<1>3. DOMAIN proc = Procs
  BY DEF Phase5Inv
<1>4. proc' = [q \in Procs |-> proc'[q]] /\ proc'[p] = m
  BY <1>3
<1>5. Knows(m) => Knows(m)'
  BY <1>1 DEF Knows, Unsent, Sent, RowOf, Rowids
<1>6. MemoryOK(m) => MemoryOK(m)'
  BY DEF MemoryOK
<1>7. \A q \in Procs : proc'[q] = Gone \/ (MemoryOK(m)' /\ Knows(m)' /\ proc'[q] = m)
  BY <1>4, <1>5, <1>6 DEF OneProcess
<1>8. \A q \in Procs : proc'[q] = Gone \/ (MemoryOK(proc[q])' /\ Knows(proc[q])')
  BY <1>7
<1>9. QED
  BY <1>2, <1>4, <1>8 DEF Phase5Inv

(* A process that has ended, or one that goes from place to place outside the *)
(* requests, knows what the invariant asks of it.                             *)
LEMMA KnowsNothing ==
  ASSUME NEW m, Place(m) \in ChildPlaces \cup {"request"}, m.pc # "respond",
         m.pc = "write" => m.next # "respond", m.cached \in BOOLEAN
  PROVE  Knows(m)
<1>1. Place(m) \notin CallPlaces /\ m.pc \notin {"dispatch"}
  BY DEF ChildPlaces, CallPlaces, Place
<1>2. QED
  BY <1>1 DEF Knows, BeforeCall, CallPlaces, Place

(* What is known of a process that has not ended.                             *)
LEMMA Remembers ==
  ASSUME Phase5Inv, NEW p \in Procs, NEW pc, At(p, pc), pc # "gone"
  PROVE  MemoryOK(proc[p]) /\ Knows(proc[p])
BY DEF Phase5Inv, At, Gone

(* _run_child takes over a finished child or begins one.                      *)
LEMMA BeginChildStep ==
  ASSUME Phase5Constants, Phase5Inv, OneProcess, NEW p \in Procs, BeginChild(p)
  PROVE  Phase5Inv'
<1> DEFINE m == proc[p]
<1>1. MemoryOK(m) /\ Knows(m) /\ m.pc = "child" /\ m.k \in DOMAIN ChildOrder(m.e)
  <2>1. At(p, "child")
    BY DEF BeginChild
  <2>2. QED
    BY <2>1, Remembers DEF At, BeginChild
<1>2. UNCHANGED <<ledgerVars, files, calls>> /\ TreeOK' /\ tree.version \in Versions
  BY DEF BeginChild, OnlyProc, Phase5Inv, TreeOK
<1>3. m.cached \in BOOLEAN /\ IsMemory(m)
  BY <1>1 DEF Knows, MemoryOK
<1>4. ASSUME NEW c,
             proc' = [proc EXCEPT ![p] =
               [[m EXCEPT !.k = @ + 1, !.kids = Append(@, c)] EXCEPT !.pc = "child"]]
      PROVE  Phase5Inv'
  <2> DEFINE mm == [[m EXCEPT !.k = @ + 1, !.kids = Append(@, c)] EXCEPT !.pc = "child"]
  <2>1. /\ IsMemory(mm) /\ mm.pc = "child" /\ mm.k = m.k + 1 /\ mm.e = m.e /\ mm.i = m.i
        /\ mm.version = m.version /\ mm.cached = m.cached
    BY <1>3 DEF IsMemory, Fields
  <2> HIDE DEF mm
  <2>2. MemoryOK(mm)
    BY <1>1, <2>1 DEF MemoryOK, Place, ChildPlaces, CallPlaces
  <2>3. Knows(mm)
    BY <1>3, <2>1, KnowsNothing DEF Place, ChildPlaces
  <2>4. QED
    BY <1>2, <1>4, <2>2, <2>3, MemoryStep DEF mm
<1>5. ASSUME proc' = [proc EXCEPT ![p] = Gone] PROVE Phase5Inv'
  BY <1>2, <1>5, MemoryStep
<1>6. ASSUME NEW path, NEW c,
             proc' = [proc EXCEPT ![p] =
               [[m EXCEPT !.i = 1, !.results = <<>>, !.version = tree.version]
                 EXCEPT !.pc = "write", !.path = path, !.content = c, !.next = "request"]]
      PROVE  Phase5Inv'
  <2> DEFINE mm == [[m EXCEPT !.i = 1, !.results = <<>>, !.version = tree.version]
                     EXCEPT !.pc = "write", !.path = path, !.content = c, !.next = "request"]
  <2>1. /\ IsMemory(mm) /\ mm.pc = "write" /\ mm.next = "request" /\ mm.k = m.k /\ mm.e = m.e
        /\ mm.i = 1 /\ mm.version = tree.version /\ mm.cached = m.cached
    BY <1>3 DEF IsMemory, Fields
  <2> HIDE DEF mm
  <2>2. MemoryOK(mm)
    BY <1>1, <1>2, <2>1 DEF MemoryOK, Place, ChildPlaces, CallPlaces
  <2>3. Knows(mm)
    BY <1>3, <2>1, KnowsNothing DEF Place, ChildPlaces
  <2>4. QED
    BY <1>2, <1>6, <2>2, <2>3, MemoryStep DEF mm
<1>7. QED
  BY <1>4, <1>5, <1>6 DEF BeginChild, Go, Raise, WriteThen

(* The memory of a process outside the requests.                              *)
LEMMA OutsideCalls ==
  ASSUME NEW m, IsMemory(m), m.e \in Experiments, m.k \in Nat, m.i \in Nat \ {0},
         m.version \in Versions, m.cached \in BOOLEAN,
         NEW place \in ChildPlaces \cup {"request"},
         m.pc = place \/ (m.pc = "write" /\ m.next = place),
         place = "request" => m.k \in DOMAIN ChildOrder(m.e)
  PROVE  MemoryOK(m) /\ Knows(m)
<1>1. Place(m) = place
  BY DEF Place, ChildPlaces
<1>2. place \notin CallPlaces /\ place \notin {"respond", "dispatch", "write"}
  BY DEF ChildPlaces, CallPlaces
<1>3. MemoryOK(m)
  BY <1>1, <1>2 DEF MemoryOK
<1>4. Knows(m)
  BY <1>1, <1>2, KnowsNothing
<1>5. QED
  BY <1>3, <1>4

(* The head of the request loop: what it looks up was not sent.               *)
LEMMA ExamineStep ==
  ASSUME Phase5Constants, Phase5Inv, OneProcess, NEW p \in Procs, Examine(p)
  PROVE  Phase5Inv'
<1> DEFINE m == proc[p]
<1>1. MemoryOK(m) /\ Knows(m) /\ m.pc = "request" /\ m.i <= Plan[m.e].requests
  <2>1. At(p, "request") /\ m.i <= Plan[m.e].requests
    BY DEF Examine
  <2>2. QED
    BY <2>1, Remembers DEF At
<1>2. UNCHANGED <<ledgerVars, files, calls>> /\ TreeOK'
  BY DEF Examine, OnlyProc, Phase5Inv, TreeOK
<1>3. /\ m.cached \in BOOLEAN /\ IsMemory(m) /\ m.e \in Experiments /\ m.k \in Nat
      /\ m.i \in Nat \ {0} /\ m.version \in Versions
  BY <1>1 DEF Knows, MemoryOK
<1>4. m.k \in DOMAIN ChildOrder(m.e)
  BY <1>1 DEF MemoryOK, Place
<1>5. m.i \in Indices(m.e)
  BY <1>1, <1>3, Bounds DEF Indices
<1>6. ASSUME NEW c,
             proc' = [proc EXCEPT ![p] =
               [[m EXCEPT !.i = @ + 1, !.results = Append(@, c)] EXCEPT !.pc = "request"]]
      PROVE  Phase5Inv'
  <2> DEFINE mm == [[m EXCEPT !.i = @ + 1, !.results = Append(@, c)] EXCEPT !.pc = "request"]
  <2>1. /\ IsMemory(mm) /\ mm.pc = "request" /\ mm.k = m.k /\ mm.e = m.e /\ mm.i = m.i + 1
        /\ mm.version = m.version /\ mm.cached = m.cached
    BY <1>3 DEF IsMemory, Fields
  <2> HIDE DEF mm
  <2>2. MemoryOK(mm) /\ Knows(mm)
    BY <1>3, <1>4, <2>1, OutsideCalls
  <2>3. QED
    BY <1>2, <1>6, <2>2, MemoryStep DEF mm
<1>7. ASSUME proc' = [proc EXCEPT ![p] = Gone] PROVE Phase5Inv'
  BY <1>2, <1>7, MemoryStep
<1>8. ASSUME files[RequestPath(p, "request")] = Absent,
             proc' = [proc EXCEPT ![p] = [m EXCEPT !.pc = "cache"]]
      PROVE  Phase5Inv'
  <2> DEFINE mm == [m EXCEPT !.pc = "cache"]
  <2>1. /\ IsMemory(mm) /\ mm.pc = "cache" /\ mm.k = m.k /\ mm.e = m.e /\ mm.i = m.i
        /\ mm.version = m.version /\ mm.cached = m.cached
    BY <1>3 DEF IsMemory, Fields
  <2> HIDE DEF mm
  <2>2. MemoryOK(mm)
    BY <1>3, <1>4, <1>5, <2>1 DEF MemoryOK, Place, CallPlaces, ChildPlaces
  <2>3. RequestPath(p, "request") = <<"request", ChildOf(mm), mm.i>>
    BY <2>1 DEF RequestPath, Child, ChildOf, Exp
  <2>4. Unsent(mm)
    <3>1. ASSUME NEW j \in DOMAIN calls,
                 calls[j].request[1] = ChildOf(mm), calls[j].request[2] = mm.i
          PROVE  FALSE
      <4>1. files[<<"request", calls[j].request[1], calls[j].request[2]>>] # Absent
        BY DEF Phase5Inv, CallsOK
      <4>2. QED
        BY <1>8, <2>3, <3>1, <4>1
    <3>2. QED
      BY <3>1 DEF Unsent
  <2>5. Knows(mm)
    BY <1>3, <2>1, <2>4 DEF Knows, Place
  <2>6. QED
    BY <1>2, <1>8, <2>2, <2>5, MemoryStep DEF mm
<1>9. QED
  BY <1>6, <1>7, <1>8 DEF Examine, Go, Raise

(* cache.get.                                                                 *)
LEMMA LookUpStep ==
  ASSUME Phase5Constants, Phase5Inv, OneProcess, NEW p \in Procs, LookUp(p)
  PROVE  Phase5Inv'
<1> DEFINE m == proc[p]
<1>1. MemoryOK(m) /\ Knows(m) /\ m.pc = "cache"
  <2>1. At(p, "cache")
    BY DEF LookUp
  <2>2. QED
    BY <2>1, Remembers DEF At
<1>2. UNCHANGED <<ledgerVars, files, calls>> /\ TreeOK'
  BY DEF LookUp, OnlyProc, Phase5Inv, TreeOK
<1>3. /\ IsMemory(m) /\ m.e \in Experiments /\ m.k \in DOMAIN ChildOrder(m.e) /\ m.k \in Nat
      /\ m.i \in Nat \ {0} /\ m.i \in Indices(m.e) /\ m.version \in Versions
  BY <1>1 DEF MemoryOK, Place, CallPlaces
<1>4. Unsent(m)
  BY <1>1 DEF Knows, Place, BeforeCall
<1>5. ASSUME NEW a,
             proc' = [proc EXCEPT ![p] =
               [[m EXCEPT !.cached = TRUE, !.answer = a]
                 EXCEPT !.pc = "write", !.path = RequestPath(p, "request"),
                        !.content = Req(p), !.next = "respond"]]
      PROVE  Phase5Inv'
  <2> DEFINE mm == [[m EXCEPT !.cached = TRUE, !.answer = a]
                     EXCEPT !.pc = "write", !.path = RequestPath(p, "request"),
                            !.content = Req(p), !.next = "respond"]
  <2>1. /\ IsMemory(mm) /\ mm.pc = "write" /\ mm.next = "respond" /\ mm.k = m.k /\ mm.e = m.e
        /\ mm.i = m.i /\ mm.version = m.version /\ mm.cached = TRUE
        /\ mm.path = RequestPath(p, "request")
    BY <1>3 DEF IsMemory, Fields
  <2> HIDE DEF mm
  <2>2. mm.path = <<"request", ChildOf(mm), mm.i>>
    BY <2>1 DEF RequestPath, Child, ChildOf, Exp
  <2>3. MemoryOK(mm)
    BY <1>3, <2>1, <2>2 DEF MemoryOK, Place, CallPlaces, ChildPlaces
  <2>4. Knows(mm)
    BY <2>1 DEF Knows, Place, BeforeCall
  <2>5. QED
    BY <1>2, <1>5, <2>3, <2>4, MemoryStep DEF mm
<1>6. ASSUME proc' = [proc EXCEPT ![p] = Gone] PROVE Phase5Inv'
  BY <1>2, <1>6, MemoryStep
<1>7. ASSUME proc' = [proc EXCEPT ![p] = [[m EXCEPT !.cached = FALSE] EXCEPT !.pc = "reserve"]]
      PROVE  Phase5Inv'
  <2> DEFINE mm == [[m EXCEPT !.cached = FALSE] EXCEPT !.pc = "reserve"]
  <2>1. /\ IsMemory(mm) /\ mm.pc = "reserve" /\ mm.k = m.k /\ mm.e = m.e /\ mm.i = m.i
        /\ mm.version = m.version /\ mm.cached = FALSE
    BY <1>3 DEF IsMemory, Fields
  <2> HIDE DEF mm
  <2>2. MemoryOK(mm)
    BY <1>3, <2>1 DEF MemoryOK, Place, CallPlaces, ChildPlaces
  <2>3. Unsent(mm)
    BY <1>4, <2>1 DEF Unsent, ChildOf
  <2>4. Knows(mm)
    BY <2>1, <2>3 DEF Knows, Place
  <2>5. QED
    BY <1>2, <1>7, <2>2, <2>4, MemoryStep DEF mm
<1>8. QED
  BY <1>5, <1>6, <1>7 DEF LookUp, Go, Raise, WriteThen

(* The response file of an answer.                                            *)
LEMMA RespondStep ==
  ASSUME Phase5Constants, Phase5Inv, OneProcess, NEW p \in Procs, Respond(p)
  PROVE  Phase5Inv'
<1> DEFINE m == proc[p]
           c == [request |-> Req(p), answer |-> m.answer]
           next == IF m.cached THEN "evaluate" ELSE "settle"
           mm == [m EXCEPT !.pc = "write", !.path = RequestPath(p, "response"),
                           !.content = c, !.next = next]
<1>1. MemoryOK(m) /\ Knows(m) /\ m.pc = "respond"
  <2>1. At(p, "respond")
    BY DEF Respond
  <2>2. QED
    BY <2>1, Remembers DEF At
<1>2. UNCHANGED <<ledgerVars, files, calls>> /\ TreeOK'
  BY DEF Respond, OnlyProc, Phase5Inv, TreeOK
<1>3. /\ IsMemory(m) /\ m.e \in Experiments /\ m.k \in DOMAIN ChildOrder(m.e) /\ m.k \in Nat
      /\ m.i \in Nat \ {0} /\ m.i \in Indices(m.e) /\ m.version \in Versions
      /\ m.cached \in BOOLEAN
  BY <1>1 DEF MemoryOK, Knows, Place, CallPlaces
<1>4. /\ IsMemory(mm) /\ mm.pc = "write" /\ mm.next = next /\ mm.k = m.k /\ mm.e = m.e
      /\ mm.i = m.i /\ mm.version = m.version /\ mm.cached = m.cached /\ mm.answer = m.answer
  BY <1>3 DEF IsMemory, Fields
<1>5. proc' = [proc EXCEPT ![p] = mm]
  BY DEF Respond, WriteThen
<1> HIDE DEF mm
<1>6. MemoryOK(mm)
  BY <1>3, <1>4 DEF MemoryOK, Place, CallPlaces, ChildPlaces
<1>7. next = "settle" => m.answer \in Answers /\ Sent(m, m.answer.cost)
  BY <1>1, <1>3 DEF Knows
<1>8. next = "settle" => mm.answer \in Answers /\ Sent(mm, mm.answer.cost)
  BY <1>4, <1>7 DEF Sent, RequestOf, ChildOf
<1>9. Knows(mm)
  BY <1>3, <1>4, <1>8 DEF Knows, Place, BeforeCall
<1>10. QED
  BY <1>2, <1>5, <1>6, <1>9, MemoryStep

(* The result file of a request.                                              *)
LEMMA EvaluateStep ==
  ASSUME Phase5Constants, Phase5Inv, OneProcess, NEW p \in Procs, EvaluateAnswer(p)
  PROVE  Phase5Inv'
<1> DEFINE m == proc[p]
           c == [request |-> Req(p), answer |-> m.answer, physical |-> IF m.cached THEN 0 ELSE 1,
                 charge |-> IF m.cached THEN 0 ELSE m.answer.cost]
           mm == [[m EXCEPT !.i = @ + 1, !.results = Append(@, c)]
                   EXCEPT !.pc = "write", !.path = RequestPath(p, "result"),
                          !.content = c, !.next = "request"]
<1>1. MemoryOK(m) /\ Knows(m) /\ m.pc = "evaluate"
  <2>1. At(p, "evaluate")
    BY DEF EvaluateAnswer
  <2>2. QED
    BY <2>1, Remembers DEF At
<1>2. UNCHANGED <<ledgerVars, files, calls>> /\ TreeOK'
  BY DEF EvaluateAnswer, OnlyProc, Phase5Inv, TreeOK
<1>3. /\ IsMemory(m) /\ m.e \in Experiments /\ m.k \in DOMAIN ChildOrder(m.e) /\ m.k \in Nat
      /\ m.i \in Nat \ {0} /\ m.version \in Versions /\ m.cached \in BOOLEAN
  BY <1>1 DEF MemoryOK, Knows, Place, CallPlaces
<1>4. proc' = [proc EXCEPT ![p] = mm]
  BY DEF EvaluateAnswer, WriteThen
<1> HIDE DEF c
<1>5. /\ IsMemory(mm) /\ mm.pc = "write" /\ mm.next = "request" /\ mm.k = m.k /\ mm.e = m.e
      /\ mm.i = m.i + 1 /\ mm.version = m.version /\ mm.cached = m.cached
  BY <1>3 DEF IsMemory, Fields
<1> HIDE DEF mm
<1>6. MemoryOK(mm) /\ Knows(mm)
  BY <1>3, <1>5, OutsideCalls
<1>7. QED
  BY <1>2, <1>4, <1>6, MemoryStep
(* A process outside the requests begins to write a file.                     *)
LEMMA WriteBegins ==
  ASSUME Phase5Inv, OneProcess, NEW p \in Procs, NEW m, IsMemory(m),
         m.e \in Experiments, m.k \in Nat, m.i \in Nat \ {0}, m.version \in Versions,
         m.cached \in BOOLEAN, NEW path, NEW c, NEW place \in ChildPlaces,
         WriteThen(p, m, path, c, place), OnlyProc
  PROVE  Phase5Inv'
<1> DEFINE mm == [m EXCEPT !.pc = "write", !.path = path, !.content = c, !.next = place]
<1>1. UNCHANGED <<ledgerVars, files, calls>> /\ TreeOK'
  BY DEF OnlyProc, Phase5Inv, TreeOK
<1>2. /\ IsMemory(mm) /\ mm.pc = "write" /\ mm.next = place /\ mm.k = m.k /\ mm.e = m.e
      /\ mm.i = m.i /\ mm.version = m.version /\ mm.cached = m.cached
  BY DEF IsMemory, Fields
<1>3. proc' = [proc EXCEPT ![p] = mm]
  BY DEF WriteThen
<1> HIDE DEF mm
<1>4. place # "request"
  BY DEF ChildPlaces
<1>5. MemoryOK(mm) /\ Knows(mm)
  BY <1>2, <1>4, OutsideCalls
<1>6. QED
  BY <1>1, <1>3, <1>5, MemoryStep

(* The end of _run_child.                                                     *)
LEMMA EndChildStep ==
  ASSUME Phase5Constants, Phase5Inv, OneProcess, NEW p \in Procs, EndChild(p)
  PROVE  Phase5Inv'
<1> DEFINE m == proc[p]
           mm == [m EXCEPT !.k = @ + 1, !.kids = Append(@, ChildSummary(p))]
<1>1. MemoryOK(m) /\ Knows(m)
  BY Remembers DEF EndChild, At
<1>2. /\ IsMemory(m) /\ m.e \in Experiments /\ m.k \in Nat /\ m.i \in Nat \ {0}
      /\ m.version \in Versions /\ m.cached \in BOOLEAN
  BY <1>1 DEF MemoryOK, Knows
<1>3. /\ IsMemory(mm) /\ mm.k = m.k + 1 /\ mm.e = m.e /\ mm.i = m.i
      /\ mm.version = m.version /\ mm.cached = m.cached
  BY <1>2 DEF IsMemory, Fields
<1>4. /\ WriteThen(p, mm, <<"child", Child(p)>>, ChildSummary(p), "child") /\ OnlyProc
  BY DEF EndChild
<1> HIDE DEF mm
<1>5. "child" \in ChildPlaces
  BY DEF ChildPlaces
<1>6. QED
  BY <1>2, <1>3, <1>4, <1>5, WriteBegins

(* The files of the experiment.                                               *)
LEMMA ExperimentFileStep ==
  ASSUME Phase5Constants, Phase5Inv, OneProcess, NEW p \in Procs,
         EndExperiment(p) \/ WriteAnalysis(p) \/ WriteSummary(p)
  PROVE  Phase5Inv'
<1> DEFINE m == proc[p]
<1>1. MemoryOK(m) /\ Knows(m)
  <2>1. At(p, "child") \/ At(p, "analysis") \/ At(p, "summary")
    BY DEF EndExperiment, WriteAnalysis, WriteSummary
  <2>2. QED
    BY <2>1, Remembers
<1>2. /\ IsMemory(m) /\ m.e \in Experiments /\ m.k \in Nat /\ m.i \in Nat \ {0}
      /\ m.version \in Versions /\ m.cached \in BOOLEAN
  BY <1>1 DEF MemoryOK, Knows
<1>3. {"analysis", "summary", "done"} \subseteq ChildPlaces
  BY DEF ChildPlaces
<1>4. CASE EndExperiment(p)
  <2> DEFINE mm == [m EXCEPT !.spent = Committed(PhaseScope)]
  <2>1. /\ IsMemory(mm) /\ mm.k = m.k /\ mm.e = m.e /\ mm.i = m.i
        /\ mm.version = m.version /\ mm.cached = m.cached
    BY <1>2 DEF IsMemory, Fields
  <2>2. \E place \in ChildPlaces : WriteThen(p, mm, <<"children", m.e>>, m.kids, place)
    BY <1>3, <1>4 DEF EndExperiment
  <2>3. OnlyProc
    BY <1>4 DEF EndExperiment
  <2> HIDE DEF mm
  <2>4. QED
    BY <1>2, <2>1, <2>2, <2>3, WriteBegins
<1>5. CASE WriteAnalysis(p)
  BY <1>2, <1>3, <1>5, WriteBegins DEF WriteAnalysis
<1>6. CASE WriteSummary(p)
  BY <1>2, <1>3, <1>6, WriteBegins DEF WriteSummary
<1>7. QED
  BY <1>4, <1>5, <1>6

(* A process that returns or dies leaves everything else as it is.            *)
LEMMA EndStep ==
  ASSUME Phase5Constants, Phase5Inv, OneProcess, NEW p \in Procs, Return(p) \/ Crash(p)
  PROVE  Phase5Inv'
<1>1. proc' = [proc EXCEPT ![p] = Gone] /\ UNCHANGED <<ledgerVars, files, calls>>
  BY DEF Return, Crash, Raise, OnlyProc
<1>2. TreeOK'
  BY Bounds DEF Return, Crash, OnlyProc, Phase5Inv, TreeOK
<1>3. QED
  BY <1>1, <1>2, MemoryStep

(* Starting an experiment, or starting it again.                              *)
LEMMA StartStep ==
  ASSUME Phase5Constants, Phase5Inv, OneProcess, NEW p \in Procs, NEW e \in Experiments,
         Start(p, e)
  PROVE  Phase5Inv'
<1> DEFINE mm == Memory(e)
<1>1. UNCHANGED <<ledgerVars, files, calls>> /\ TreeOK'
  BY DEF Start, Phase5Inv, TreeOK
<1>2. /\ IsMemory(mm) /\ mm.pc = "child" /\ mm.k = 1 /\ mm.e = e /\ mm.i = 1
      /\ mm.version = 0 /\ mm.cached = FALSE
  BY DEF IsMemory, Fields, Memory
<1>3. proc' = [proc EXCEPT ![p] = mm]
  BY DEF Start
<1>4. 0 \in Versions
  BY Bounds DEF Versions
<1> HIDE DEF mm
<1>5. "child" \in ChildPlaces
  BY DEF ChildPlaces
<1>6. /\ IsMemory(mm) /\ mm.e \in Experiments /\ mm.k \in Nat /\ mm.i \in Nat \ {0}
      /\ mm.version \in Versions /\ mm.cached \in BOOLEAN
  <2>1. mm.k \in Nat /\ mm.i \in Nat \ {0}
    BY <1>2
  <2>2. mm.version \in Versions
    BY <1>2, <1>4
  <2>3. mm.cached \in BOOLEAN
    BY <1>2
  <2>4. QED
    BY <1>2, <2>1, <2>2, <2>3
<1>7. MemoryOK(mm) /\ Knows(mm)
  BY <1>2, <1>5, <1>6, OutsideCalls
<1>8. QED
  BY <1>1, <1>3, <1>7, MemoryStep

(* Everything but the files, the ledger and the process.                      *)
LEMMA OutsideStep ==
  ASSUME Phase5Constants, Phase5Inv, Edit \/ UNCHANGED vars
  PROVE  Phase5Inv'
<1>1. UNCHANGED <<reservation, cash_checkpoint, observed, files, proc, calls>>
  BY DEF Edit, vars, ledgerVars
<1>2. TreeOK'
  <2>1. tree \in [version : Versions, frozen : BOOLEAN] /\ crashes \in 0..MaxCrashes
    BY DEF Phase5Inv, TreeOK
  <2>2. CASE Edit
    <3>1. tree.version + 1 \in Versions
      BY <2>1, <2>2, Bounds DEF Edit, Versions
    <3>2. crashes' = crashes
      BY <2>2 DEF Edit
    <3>3. tree' = [tree EXCEPT !.version = @ + 1]
          \/ tree' = [version |-> tree.version + 1, frozen |-> FALSE]
      BY <2>2 DEF Edit
    <3>4. tree' \in [version : Versions, frozen : BOOLEAN]
      <4> DEFINE v == tree.version + 1
      <4>1. /\ tree = [version |-> tree.version, frozen |-> tree.frozen]
            /\ tree.frozen \in BOOLEAN
        BY <2>1
      <4>2. tree' = [version |-> v, frozen |-> tree.frozen]
            \/ tree' = [version |-> v, frozen |-> FALSE]
        BY <3>3, <4>1
      <4>3. v \in Versions
        BY <3>1
      <4> HIDE DEF v
      <4>4. \A f \in BOOLEAN :
              [version |-> v, frozen |-> f] \in [version : Versions, frozen : BOOLEAN]
        BY <4>3
      <4>5. FALSE \in BOOLEAN
        OBVIOUS
      <4>6. QED
        BY <4>1, <4>2, <4>4, <4>5, Zenon
    <3>5. QED
      BY <2>1, <3>2, <3>4 DEF TreeOK
  <2>3. CASE UNCHANGED vars
    BY <2>1, <2>3 DEF vars, TreeOK
  <2>4. QED
    BY <2>2, <2>3
<1>3. LedgerTypeOK' /\ RowsOK' /\ FilesOK' /\ CallsOK' /\ PaidOnce'
  BY <1>1 DEF Phase5Inv, LedgerTypeOK, RowsOK, Rowids, FilesOK, CallsOK, PaidOnce
<1>4. ReservationsOK' /\ CallsCovered'
  BY <1>1 DEF Phase5Inv, ReservationsOK, CallsCovered, Rowids
<1>5. \A p \in Procs : proc'[p] = Gone \/ (MemoryOK(proc[p])' /\ Knows(proc[p])')
  BY <1>1 DEF Phase5Inv, MemoryOK, Knows, Unsent, Sent, RowOf, Rowids
<1>6. QED
  BY <1>1, <1>2, <1>3, <1>4, <1>5 DEF Phase5Inv
-----------------------------------------------------------------------------
(* Steps that change files, calls or the ledger. *)

(* The parts of the invariant after a step of p, put together.                *)
LEMMA StepOf ==
  ASSUME OneProcess, NEW p \in Procs, NEW m, proc = [q \in Procs |-> proc[q]],
         proc' = [proc EXCEPT ![p] = m], m = Gone \/ (MemoryOK(m) /\ Knows(m)'),
         LedgerTypeOK', RowsOK', FilesOK', TreeOK', CallsOK', PaidOnce', ReservationsOK',
         CallsCovered'
  PROVE  Phase5Inv'
<1>1. proc' = [q \in Procs |-> proc'[q]] /\ proc'[p] = m
  BY Zenon
<1>2. MemoryOK(m) => MemoryOK(m)'
  BY DEF MemoryOK
<1>3. \A q \in Procs : proc'[q] = Gone \/ (MemoryOK(m)' /\ Knows(m)' /\ proc'[q] = m)
  BY <1>1, <1>2 DEF OneProcess
<1>4. \A q \in Procs : proc'[q] = Gone \/ (MemoryOK(proc[q])' /\ Knows(proc[q])')
  BY <1>3
<1>5. QED
  BY <1>1, <1>4 DEF Phase5Inv

(* What is known of a process that has written its file and goes on.          *)
LEMMA WriteDone ==
  ASSUME NEW m, MemoryOK(m), Knows(m), m.pc = "write", NEW mm, IsMemory(mm),
         mm.pc = m.next, mm.e = m.e, mm.k = m.k, mm.i = m.i, mm.version = m.version,
         mm.cached = m.cached, mm.answer = m.answer, UNCHANGED <<reservation, calls>>,
         m.next = "dispatch" => files'[<<"request", ChildOf(m), m.i>>] # Absent
  PROVE  MemoryOK(mm) /\ Knows(mm)'
<1>1. Place(m) = m.next /\ m.next # "write"
  BY DEF MemoryOK, Place, ChildPlaces, CallPlaces
<1>2. Place(mm) = m.next /\ mm.pc # "write"
  BY <1>1 DEF Place
<1>3. MemoryOK(mm)
  BY <1>1, <1>2 DEF MemoryOK, ChildPlaces, CallPlaces
<1>4. ChildOf(mm) = ChildOf(m) /\ RequestOf(mm) = RequestOf(m)
  BY DEF ChildOf, RequestOf
<1>5. (Unsent(m) => Unsent(mm)') /\ \A c : Sent(m, c) => Sent(mm, c)'
  BY <1>4 DEF Unsent, Sent
<1>6. Place(mm) = m.next
  BY <1>2
<1>7. Knows(mm)'
  <2>1. m.next \in BeforeCall => Unsent(mm)'
    BY <1>1, <1>5 DEF Knows
  <2>2. m.next = "dispatch" => \E k \in RowOf(RequestOf(mm))' : reservation'[k].state = "active"
    BY <1>1, <1>4 DEF Knows, RowOf, Rowids
  <2>3. m.next = "dispatch" => files'[<<"request", ChildOf(mm), mm.i>>] # Absent
    BY <1>4
  <2>4. m.next = "settle" \/ (m.next = "respond" /\ ~ mm.cached) =>
          mm.answer \in Answers /\ Sent(mm, mm.answer.cost)'
    BY <1>1, <1>5 DEF Knows
  <2>5. mm.cached \in BOOLEAN
    BY DEF Knows
  <2>6. m.next = "release" => Sent(mm, 0)'
    BY <1>1, <1>5 DEF Knows
  <2>7. m.next = "uncertain" => \E j \in DOMAIN calls' : calls'[j].request = RequestOf(mm)
    BY <1>1, <1>4 DEF Knows
  <2>8. QED
    BY <1>2, <2>1, <2>2, <2>3, <2>4, <2>5, <2>6, <2>7 DEF Knows, Place, ChildOf, RequestOf
<1>8. QED
  BY <1>3, <1>7

(* What a step leaves that changes files and memory only.                     *)
LEMMA FilesOnly ==
  ASSUME Phase5Inv, UNCHANGED <<ledgerVars, tree, calls, crashes>>,
         FilesOK', \A q \in Paths : files[q] # Absent => files'[q] # Absent
  PROVE  /\ LedgerTypeOK' /\ RowsOK' /\ TreeOK' /\ CallsOK' /\ PaidOnce' /\ ReservationsOK'
         /\ CallsCovered'
<1>1. UNCHANGED <<reservation, cash_checkpoint, observed, tree, calls, crashes>>
  BY DEF ledgerVars
<1>2. LedgerTypeOK' /\ RowsOK' /\ TreeOK' /\ PaidOnce'
  BY <1>1 DEF Phase5Inv, LedgerTypeOK, RowsOK, Rowids, TreeOK, PaidOnce
<1>3. CallsOK'
  BY <1>1, CallsKeepFiles DEF Phase5Inv
<1>4. ReservationsOK' /\ CallsCovered'
  BY <1>1 DEF Phase5Inv, ReservationsOK, CallsCovered, Rowids
<1>5. QED
  BY <1>2, <1>3, <1>4

(* write_content_artifact.                                                    *)
LEMMA WriteStep ==
  ASSUME Phase5Constants, Phase5Inv, OneProcess, NEW p \in Procs, Write(p)
  PROVE  Phase5Inv'
<1>1. PICK m : m = proc[p]
  OBVIOUS
<1>2. MemoryOK(m) /\ Knows(m) /\ m.pc = "write"
  <2>1. At(p, "write")
    BY DEF Write
  <2>2. QED
    BY <1>1, <2>1, Remembers DEF At
<1>3. IsMemory(m)
  BY <1>2 DEF MemoryOK
<1>4. UNCHANGED <<ledgerVars, tree, calls, crashes>> /\ UNCHANGED <<reservation, calls>>
  BY DEF Write, ledgerVars
<1>5. proc = [q \in Procs |-> proc[q]] /\ FilesOK
  BY DEF Phase5Inv
<1>6. m.next = "dispatch" =>
        m.path = <<"request", ChildOf(m), m.i>> /\ m.path \in Paths
  <2>1. SUFFICES ASSUME m.next = "dispatch"
                 PROVE  m.path = <<"request", ChildOf(m), m.i>> /\ m.path \in Paths
    OBVIOUS
  <2>2. m.path = <<"request", ChildOf(m), m.i>>
    BY <1>2, <2>1 DEF MemoryOK
  <2>3. m.e \in Experiments /\ m.k \in DOMAIN ChildOrder(m.e) /\ m.i \in Indices(m.e)
    BY <1>2, <2>1 DEF MemoryOK, Place, CallPlaces
  <2>4. m.version \in Versions
    BY <1>2 DEF MemoryOK
  <2>5. QED
    BY <2>2, <2>3, <2>4, PlacesExist DEF ChildOf
<1>7. ASSUME files' = [files EXCEPT ![m.path] = Torn],
             proc' = [proc EXCEPT ![p] = [m EXCEPT !.opened = TRUE]]
      PROVE  Phase5Inv'
  <2>1. PICK mm : mm = [m EXCEPT !.opened = TRUE]
    OBVIOUS
  <2>2. /\ IsMemory(mm) /\ mm.pc = "write" /\ mm.next = m.next /\ mm.e = m.e /\ mm.k = m.k
        /\ mm.i = m.i /\ mm.version = m.version /\ mm.cached = m.cached
        /\ mm.answer = m.answer /\ mm.path = m.path
    BY <1>2, <1>3, <2>1 DEF IsMemory, Fields
  <2>3. MemoryOK(mm)
    BY <1>2, <2>2 DEF MemoryOK, Place, ChildOf
  <2>4. Knows(mm)'
    BY <1>2, <1>4, <2>2
    DEF Knows, Place, Unsent, Sent, ChildOf, RequestOf, RowOf, Rowids
  <2>5. FilesOK' /\ \A q \in Paths : files[q] # Absent => files'[q] # Absent
    BY <1>5, <1>7, FilesStep
  <2>6. /\ LedgerTypeOK' /\ RowsOK' /\ TreeOK' /\ CallsOK' /\ PaidOnce' /\ ReservationsOK'
        /\ CallsCovered'
    BY <1>4, <2>5, FilesOnly
  <2>7. QED
    BY <1>5, <1>7, <2>1, <2>3, <2>4, <2>5, <2>6, StepOf
<1>8. ASSUME NEW mm, proc' = [proc EXCEPT ![p] = mm],
             IsMemory(mm), mm.pc = m.next, mm.e = m.e, mm.k = m.k, mm.i = m.i,
             mm.version = m.version, mm.cached = m.cached, mm.answer = m.answer,
             \/ files' = [files EXCEPT ![m.path] = Whole(m.content)]
             \/ Holds(files[m.path], m.content) /\ UNCHANGED files
      PROVE  Phase5Inv'
  <2>1. /\ FilesOK' /\ \A q \in Paths : files[q] # Absent => files'[q] # Absent
        /\ m.path \in Paths => files'[m.path] # Absent
    <3>1. CASE files' = [files EXCEPT ![m.path] = Whole(m.content)]
      BY <1>5, <3>1, FilesStep
    <3>2. CASE Holds(files[m.path], m.content) /\ UNCHANGED files
      BY <1>5, <3>2, FileStates DEF FilesOK
    <3>3. QED
      BY <1>8, <3>1, <3>2
  <2>2. m.next = "dispatch" => files'[<<"request", ChildOf(m), m.i>>] # Absent
    BY <1>6, <2>1
  <2>3. MemoryOK(mm) /\ Knows(mm)'
    BY <1>2, <1>4, <1>8, <2>2, WriteDone
  <2>4. /\ LedgerTypeOK' /\ RowsOK' /\ TreeOK' /\ CallsOK' /\ PaidOnce' /\ ReservationsOK'
        /\ CallsCovered'
    BY <1>4, <2>1, FilesOnly
  <2>5. QED
    BY <1>5, <1>8, <2>1, <2>3, <2>4, StepOf
<1>9. ASSUME proc' = [proc EXCEPT ![p] = Gone], UNCHANGED files
      PROVE  Phase5Inv'
  <2>1. UNCHANGED <<ledgerVars, files, calls>> /\ TreeOK'
    BY <1>4, <1>9 DEF Phase5Inv, TreeOK
  <2>2. QED
    BY <1>9, <2>1, MemoryStep
<1>10. ASSUME files' = [files EXCEPT ![m.path] = Whole(m.content)],
              proc' = [proc EXCEPT ![p] = [[m EXCEPT !.opened = FALSE] EXCEPT !.pc = m.next]]
       PROVE  Phase5Inv'
  <2>1. PICK mm : mm = [[m EXCEPT !.opened = FALSE] EXCEPT !.pc = m.next]
    OBVIOUS
  <2>2. /\ IsMemory(mm) /\ mm.pc = m.next /\ mm.e = m.e /\ mm.k = m.k
        /\ mm.i = m.i /\ mm.version = m.version /\ mm.cached = m.cached
        /\ mm.answer = m.answer
    BY <1>3, <2>1 DEF IsMemory, Fields
  <2>3. QED
    BY <1>8, <1>10, <2>1, <2>2
<1>11. ASSUME ~ m.opened, Holds(files[m.path], m.content), UNCHANGED files,
              proc' = [proc EXCEPT ![p] = [m EXCEPT !.pc = m.next]]
       PROVE  Phase5Inv'
  <2>1. PICK mm : mm = [m EXCEPT !.pc = m.next]
    OBVIOUS
  <2>2. /\ IsMemory(mm) /\ mm.pc = m.next /\ mm.e = m.e /\ mm.k = m.k
        /\ mm.i = m.i /\ mm.version = m.version /\ mm.cached = m.cached
        /\ mm.answer = m.answer
    BY <1>3, <2>1 DEF IsMemory, Fields
  <2>3. QED
    BY <1>8, <1>11, <2>1, <2>2
<1>12. QED
  BY <1>1, <1>7, <1>9, <1>10, <1>11 DEF Write, Go, Raise
-----------------------------------------------------------------------------
(* reserve. *)

(* A request that is reserved has an active row of its own: a row of it that  *)
(* is there was never settled, because the request was never sent.            *)
LEMMA ReserveStep ==
  ASSUME Phase5Constants, Phase5Inv, OneProcess, NEW p \in Procs, ReserveRequest(p)
  PROVE  Phase5Inv'
<1>1. PICK m : m = proc[p]
  OBVIOUS
<1>2. MemoryOK(m) /\ Knows(m) /\ m.pc = "reserve"
  <2>1. At(p, "reserve")
    BY DEF ReserveRequest
  <2>2. QED
    BY <1>1, <2>1, Remembers DEF At
<1>3. /\ IsMemory(m) /\ m.e \in Experiments /\ m.k \in DOMAIN ChildOrder(m.e) /\ m.k \in Nat
      /\ m.i \in Nat \ {0} /\ m.i \in Indices(m.e) /\ m.version \in Versions
      /\ m.cached \in BOOLEAN
  BY <1>2 DEF MemoryOK, Knows, Place, CallPlaces
<1>4. Unsent(m)
  BY <1>2 DEF Knows, Place, BeforeCall
<1>5. PICK r : r = RequestOf(m)
  OBVIOUS
<1>6. /\ r \in Ids /\ r \in Hashes /\ ChildOf(m) \in Runs /\ LedgerStage(m.e) \in Stages
      /\ StageExposure(m.e) \in Overrides /\ Policy.total \in Overrides
  BY <1>3, <1>5, PlacesExist DEF RequestOf, ChildOf
<1>7. PICK q : q = [reservation_id |-> r, run_id |-> ChildOf(m), stage |-> LedgerStage(m.e),
                    request_hash |-> r, amount |-> CostBound]
  OBVIOUS
<1>8. q \in Request
  BY <1>6, <1>7, Bounds DEF Request
<1>9. UNCHANGED <<files, tree, calls, crashes>> /\ FilesOK' /\ TreeOK' /\ PaidOnce'
  BY DEF ReserveRequest, Phase5Inv, FilesOK, TreeOK, PaidOnce
<1>10. CallsOK'
  BY <1>9 DEF Phase5Inv, CallsOK
<1>11. proc = [x \in Procs |-> proc[x]] /\ LedgerTypeOK /\ RowsOK /\ ReservationsOK /\ CallsCovered
  BY DEF Phase5Inv
<1>12. ReservationOf(p) = q /\ Exp(p) = m.e /\ Req(p) = r
  BY <1>1, <1>5, <1>7 DEF ReservationOf, Req, Child, Exp, RequestOf, ChildOf
<1>13. CASE UNCHANGED ledgerVars /\ Raise(p)
  BY <1>9, <1>13, MemoryStep DEF Raise
<1>14. CASE /\ Reserve(q, Policy.total, StageExposure(m.e))
            /\ WriteThen(p, proc[p], RequestPath(p, "request"), r, "dispatch")
  <2>1. LedgerTypeOK' /\ RowsOK'
    <3>1. LedgerNext
      BY <1>6, <1>8, <1>14 DEF LedgerNext
    <3>2. QED
      BY <1>11, <3>1, TypeStep, RowsStep
  <2>2. CostBound <= RequestCap
    BY <1>7, <1>14 DEF Reserve
  <2>3. ReservationsOK' /\ CallsCovered' /\
        \E k \in 1..Len(reservation') :
          reservation'[k].reservation_id = r /\ reservation'[k].state = "active"
    <3>1. CASE /\ RowOf(r) = {} /\ CoverageValid
               /\ FitsCaps(q, Policy.total, StageExposure(m.e))
               /\ reservation' = Append(reservation, NewRow(q))
      <4>1. Insertion(q)
        BY <1>6, <1>14, <3>1 DEF Insertion, Reserve
      <4>2. /\ Len(reservation) \in Nat /\ Len(reservation') = Len(reservation) + 1
            /\ \A k \in Rowids : reservation'[k] = reservation[k]
            /\ reservation'[Len(reservation) + 1] = NewRow(q)
        BY <1>8, <1>11, <4>1, TableAfterStep
      <4>3. /\ NewRow(q).reservation_id = r /\ NewRow(q).state = "active"
            /\ NewRow(q).reserved = CostBound
        BY <1>7 DEF NewRow
      <4>4. \A k \in Rowids' : k \in Rowids \/ k = Len(reservation) + 1
        BY <4>2 DEF Rowids
      <4>5. \A k \in Rowids : k \in Rowids'
        BY <4>2 DEF Rowids
      <4>6. \A k \in Rowids : reservation[k].reservation_id # r
        BY <3>1 DEF RowOf
      <4>7. ReservationsOK'
        <5>1. ASSUME NEW k \in Rowids'
              PROVE  /\ reservation'[k].reserved = CostBound /\ CostBound <= RequestCap
                     /\ reservation'[k].state # "active" =>
                          \E j \in DOMAIN calls' :
                            calls'[j].request = reservation'[k].reservation_id
          BY <1>9, <1>11, <2>2, <4>2, <4>3, <4>4 DEF ReservationsOK
        <5>2. ASSUME NEW k \in Rowids', NEW l \in Rowids',
                     reservation'[k].reservation_id = reservation'[l].reservation_id
              PROVE  k = l
          BY <1>11, <4>2, <4>3, <4>4, <4>6, <5>2 DEF ReservationsOK
        <5>3. QED
          BY <5>1, <5>2 DEF ReservationsOK
      <4>8. CallsCovered'
        <5>1. ASSUME NEW j \in DOMAIN calls
              PROVE  \E k \in Rowids' : /\ reservation'[k].reservation_id = calls[j].request
                                        /\ calls[j].charge <= Exposure(reservation'[k])
          BY <1>11, <4>2, <4>5 DEF CallsCovered
        <5>2. QED
          BY <1>9, <5>1 DEF CallsCovered, Exposure
      <4>9. Len(reservation) + 1 \in 1..Len(reservation')
        BY <4>2
      <4>10. QED
        BY <4>2, <4>3, <4>7, <4>8, <4>9
    <3>2. CASE /\ \E k \in RowOf(r) : SameIdentity(reservation[k], q)
               /\ UNCHANGED reservation
      <4>1. PICK k \in Rowids : reservation[k].reservation_id = r
        BY <3>2 DEF RowOf
      <4>2. reservation[k].state = "active"
        <5>1. ASSUME NEW j \in DOMAIN calls, calls[j].request = r PROVE FALSE
          BY <1>4, <1>5, <5>1 DEF Unsent, RequestOf
        <5>2. QED
          BY <1>11, <4>1, <5>1 DEF ReservationsOK
      <4>3. ReservationsOK' /\ CallsCovered'
        BY <1>9, <1>11, <3>2 DEF ReservationsOK, CallsCovered, Rowids
      <4>4. QED
        BY <3>2, <4>1, <4>2, <4>3 DEF Rowids
    <3>3. QED
      BY <1>7, <1>14, <3>1, <3>2 DEF Reserve
  <2>4. PICK mm : mm = [m EXCEPT !.pc = "write", !.path = RequestPath(p, "request"),
                                 !.content = r, !.next = "dispatch"]
    OBVIOUS
  <2>5. proc' = [proc EXCEPT ![p] = mm]
    BY <1>1, <1>14, <2>4 DEF WriteThen
  <2>6. /\ IsMemory(mm) /\ mm.pc = "write" /\ mm.next = "dispatch" /\ mm.e = m.e
        /\ mm.k = m.k /\ mm.i = m.i /\ mm.version = m.version /\ mm.cached = m.cached
        /\ mm.path = RequestPath(p, "request")
    BY <1>3, <2>4 DEF IsMemory, Fields
  <2>7. ChildOf(mm) = ChildOf(m) /\ RequestOf(mm) = r
    BY <1>5, <2>6 DEF ChildOf, RequestOf
  <2>8. mm.path = <<"request", ChildOf(mm), mm.i>>
    BY <1>1, <2>6, <2>7 DEF RequestPath, Child, ChildOf, Exp
  <2>9. MemoryOK(mm)
    BY <1>3, <2>6, <2>8 DEF MemoryOK, Place, CallPlaces, ChildPlaces
  <2>10. Unsent(mm)'
    BY <1>4, <1>9, <2>6, <2>7 DEF Unsent, ChildOf
  <2>11. \E k \in RowOf(r)' : reservation'[k].state = "active"
    BY <2>3 DEF RowOf, Rowids
  <2>12. Knows(mm)'
    BY <1>3, <2>6, <2>7, <2>10, <2>11 DEF Knows, Place, BeforeCall, RequestOf, ChildOf
  <2>13. QED
    BY <1>9, <1>10, <1>11, <2>1, <2>3, <2>5, <2>9, <2>12, StepOf
<1>15. QED
  BY <1>1, <1>12, <1>13, <1>14 DEF ReserveRequest
-----------------------------------------------------------------------------
(* dispatch. *)

(* A request that reaches the provider is the first one for its place, it has *)
(* its file, and an active row at least as large as what is charged for it.   *)
LEMMA CallStep ==
  ASSUME Phase5Constants, Phase5Inv, NEW m, MemoryOK(m), Knows(m), m.pc = "dispatch",
         NEW c \in 0..CostBound,
         calls' = Append(calls, [request |-> RequestOf(m), charge |-> c]),
         UNCHANGED <<ledgerVars, files, tree, crashes>>
  PROVE  /\ LedgerTypeOK' /\ RowsOK' /\ FilesOK' /\ TreeOK' /\ CallsOK' /\ PaidOnce'
         /\ ReservationsOK' /\ CallsCovered' /\ Sent(m, c)'
<1>1. PICK r : r = RequestOf(m)
  OBVIOUS
<1>2. r[1] = ChildOf(m) /\ r[2] = m.i
  BY <1>1 DEF RequestOf
<1>3. r \in Requests
  <2>1. m.e \in Experiments /\ m.k \in DOMAIN ChildOrder(m.e) /\ m.i \in Indices(m.e)
        /\ m.version \in Versions
    BY DEF MemoryOK, Place, CallPlaces
  <2>2. QED
    BY <1>1, <2>1, PlacesExist DEF RequestOf, ChildOf
<1>4. PICK call : call = [request |-> r, charge |-> c]
  OBVIOUS
<1>5. call \in Call /\ call.request = r /\ call.charge = c
  BY <1>3, <1>4 DEF Call
<1>6. /\ calls \in Seq(Call) /\ calls' = Append(calls, call)
      /\ Len(calls) \in Nat /\ DOMAIN calls = 1..Len(calls)
  BY <1>1, <1>4 DEF Phase5Inv, CallsOK
<1>7. /\ calls' \in Seq(Call) /\ Len(calls') = Len(calls) + 1
      /\ \A j \in DOMAIN calls : calls'[j] = calls[j]
      /\ calls'[Len(calls) + 1] = call
  BY <1>5, <1>6
<1>8. DOMAIN calls' = 1..(Len(calls) + 1)
  BY <1>7
<1>9. \A j \in DOMAIN calls' : j \in DOMAIN calls \/ j = Len(calls) + 1
  BY <1>6, <1>8
<1>10. UNCHANGED <<reservation, cash_checkpoint, observed, files, tree, crashes>>
  BY DEF ledgerVars
<1>11. LedgerTypeOK' /\ RowsOK' /\ FilesOK' /\ TreeOK'
  BY <1>10 DEF Phase5Inv, LedgerTypeOK, RowsOK, Rowids, FilesOK, TreeOK
<1>12. CallsOK'
  <2>1. ASSUME NEW j \in DOMAIN calls'
        PROVE  files[<<"request", calls'[j].request[1], calls'[j].request[2]>>] # Absent
    <3>1. CASE j \in DOMAIN calls
      BY <1>7, <3>1 DEF Phase5Inv, CallsOK
    <3>2. CASE j = Len(calls) + 1
      <4>1. files[<<"request", ChildOf(m), m.i>>] # Absent
        BY DEF Knows
      <4>2. QED
        BY <1>2, <1>5, <1>7, <3>2, <4>1
    <3>3. QED
      BY <1>9, <3>1, <3>2
  <2>2. QED
    BY <1>7, <1>10, <2>1 DEF CallsOK
<1>13. PaidOnce'
  <2>1. \A j \in DOMAIN calls : ~ (calls[j].request[1] = r[1] /\ calls[j].request[2] = r[2])
    BY <1>2 DEF Knows, Place, BeforeCall, Unsent
  <2>2. ASSUME NEW j \in DOMAIN calls', NEW l \in DOMAIN calls',
               calls'[j].request[1] = calls'[l].request[1],
               calls'[j].request[2] = calls'[l].request[2]
        PROVE  j = l
    <3>1. CASE j \in DOMAIN calls /\ l \in DOMAIN calls
      BY <1>7, <2>2, <3>1 DEF Phase5Inv, PaidOnce
    <3>2. CASE j \in DOMAIN calls /\ l = Len(calls) + 1
      BY <1>5, <1>7, <2>1, <2>2, <3>2
    <3>3. CASE j = Len(calls) + 1 /\ l \in DOMAIN calls
      BY <1>5, <1>7, <2>1, <2>2, <3>3
    <3>4. QED
      BY <1>9, <3>1, <3>2, <3>3
  <2>3. QED
    BY <2>2 DEF PaidOnce
<1>14. ReservationsOK'
  <2>1. ASSUME NEW k \in Rowids, reservation[k].state # "active"
        PROVE  \E j \in DOMAIN calls' : calls'[j].request = reservation[k].reservation_id
    <3>1. PICK j \in DOMAIN calls : calls[j].request = reservation[k].reservation_id
      BY <2>1 DEF Phase5Inv, ReservationsOK
    <3>2. j \in DOMAIN calls'
      BY <1>6, <1>8
    <3>3. QED
      BY <1>7, <3>1, <3>2
  <2>2. QED
    BY <1>10, <2>1 DEF Phase5Inv, ReservationsOK, Rowids
<1>15. CallsCovered'
  <2>1. PICK k \in Rowids : reservation[k].reservation_id = r /\ reservation[k].state = "active"
    BY <1>1 DEF Knows, Place, RowOf
  <2>2. c <= Exposure(reservation[k])
    <3>1. reservation[k].reserved = CostBound
      BY DEF Phase5Inv, ReservationsOK
    <3>2. reservation[k].actual = 0 /\ reservation[k].uncertain = 0
      BY <2>1 DEF Phase5Inv, RowsOK, RowOK
    <3>3. CostBound \in Nat
      BY Bounds
    <3>4. QED
      BY <2>1, <3>1, <3>2, <3>3 DEF Exposure
  <2>3. ASSUME NEW j \in DOMAIN calls'
        PROVE  \E x \in Rowids : /\ reservation[x].reservation_id = calls'[j].request
                                 /\ calls'[j].charge <= Exposure(reservation[x])
    <3>1. CASE j \in DOMAIN calls
      BY <1>7, <3>1 DEF Phase5Inv, CallsCovered
    <3>2. CASE j = Len(calls) + 1
      BY <1>5, <1>7, <2>1, <2>2, <3>2
    <3>3. QED
      BY <1>9, <3>1, <3>2
  <2>4. QED
    BY <1>10, <2>3 DEF CallsCovered, Rowids
<1>16. Sent(m, c)'
  <2>1. Len(calls) + 1 \in DOMAIN calls'
    BY <1>6, <1>8
  <2>2. QED
    BY <1>1, <1>5, <1>7, <2>1 DEF Sent
<1>17. QED
  BY <1>11, <1>12, <1>13, <1>14, <1>15, <1>16

(* backend.dispatch.                                                          *)
LEMMA DispatchStep ==
  ASSUME Phase5Constants, Phase5Inv, OneProcess, NEW p \in Procs, Dispatch(p)
  PROVE  Phase5Inv'
<1>1. PICK m : m = proc[p]
  OBVIOUS
<1>2. MemoryOK(m) /\ Knows(m) /\ m.pc = "dispatch"
  <2>1. At(p, "dispatch")
    BY DEF Dispatch
  <2>2. QED
    BY <1>1, <2>1, Remembers DEF At
<1>3. /\ IsMemory(m) /\ m.e \in Experiments /\ m.k \in DOMAIN ChildOrder(m.e) /\ m.k \in Nat
      /\ m.i \in Nat \ {0} /\ m.i \in Indices(m.e) /\ m.version \in Versions
      /\ m.cached \in BOOLEAN
  BY <1>2 DEF MemoryOK, Knows, Place, CallPlaces
<1>4. UNCHANGED <<ledgerVars, files, tree, crashes>> /\ Req(p) = RequestOf(m)
  BY <1>1 DEF Dispatch, Req, RequestOf, Child, ChildOf, Exp
<1>5. proc = [x \in Procs |-> proc[x]] /\ CostBound \in Nat /\ 0 \in 0..CostBound
      /\ CostBound \in 0..CostBound
  BY Bounds DEF Phase5Inv
<1>6. ASSUME NEW c \in 0..CostBound, NEW mm,
             calls' = Append(calls, [request |-> RequestOf(m), charge |-> c]),
             proc' = [proc EXCEPT ![p] = mm],
             IsMemory(mm), mm.e = m.e, mm.k = m.k, mm.i = m.i, mm.version = m.version,
             mm.cached = m.cached,
             \/ /\ mm.pc = "respond" /\ mm.answer \in Answers /\ mm.answer.cost = c
             \/ /\ mm.pc = "write" /\ mm.next = "uncertain"
             \/ /\ mm.pc = "write" /\ mm.next = "release" /\ c = 0
      PROVE  Phase5Inv'
  <2>1. /\ LedgerTypeOK' /\ RowsOK' /\ FilesOK' /\ TreeOK' /\ CallsOK' /\ PaidOnce'
        /\ ReservationsOK' /\ CallsCovered' /\ Sent(m, c)'
    BY <1>2, <1>4, <1>6, CallStep
  <2>2. ChildOf(mm) = ChildOf(m) /\ RequestOf(mm) = RequestOf(m)
    BY <1>6 DEF ChildOf, RequestOf
  <2>3. MemoryOK(mm)
    BY <1>3, <1>6 DEF MemoryOK, Place, CallPlaces, ChildPlaces
  <2>4. Sent(mm, c)'
    BY <2>1, <2>2 DEF Sent
  <2>5. \E j \in DOMAIN calls' : calls'[j].request = RequestOf(mm)
    BY <2>4 DEF Sent, RequestOf, ChildOf
  <2>6. Knows(mm)'
    BY <1>3, <1>6, <2>4, <2>5 DEF Knows, Place, BeforeCall, RequestOf, ChildOf
  <2>7. QED
    BY <1>5, <1>6, <2>1, <2>3, <2>6, StepOf
<1>7. ASSUME NEW a \in Answers,
             calls' = Append(calls, [request |-> RequestOf(m), charge |-> a.cost]),
             proc' = [proc EXCEPT ![p] = [[m EXCEPT !.answer = a] EXCEPT !.pc = "respond"]]
      PROVE  Phase5Inv'
  <2>1. PICK mm : mm = [[m EXCEPT !.answer = a] EXCEPT !.pc = "respond"]
    OBVIOUS
  <2>2. /\ IsMemory(mm) /\ mm.e = m.e /\ mm.k = m.k /\ mm.i = m.i /\ mm.version = m.version
        /\ mm.cached = m.cached /\ mm.pc = "respond" /\ mm.answer = a
    BY <1>3, <2>1 DEF IsMemory, Fields
  <2>3. a.cost \in 0..CostBound
    BY <1>5, Bounds
  <2>4. QED
    BY <1>6, <1>7, <2>1, <2>2, <2>3
<1>8. ASSUME NEW c \in {0, CostBound}, NEW content, NEW next, NEW path,
             next = "uncertain" \/ (next = "release" /\ c = 0),
             calls' = Append(calls, [request |-> RequestOf(m), charge |-> c]),
             proc' = [proc EXCEPT ![p] =
               [m EXCEPT !.pc = "write", !.path = path, !.content = content, !.next = next]]
      PROVE  Phase5Inv'
  <2>1. PICK mm : mm = [m EXCEPT !.pc = "write", !.path = path, !.content = content,
                                 !.next = next]
    OBVIOUS
  <2>2. /\ IsMemory(mm) /\ mm.e = m.e /\ mm.k = m.k /\ mm.i = m.i /\ mm.version = m.version
        /\ mm.cached = m.cached /\ mm.pc = "write" /\ mm.next = next
    BY <1>3, <2>1 DEF IsMemory, Fields
  <2>3. QED
    BY <1>5, <1>6, <1>8, <2>1, <2>2
<1>9. QED
  <2>1. CASE \E a \in Answers :
               /\ calls' = Append(calls, [request |-> Req(p), charge |-> a.cost])
               /\ Go(p, [proc[p] EXCEPT !.answer = a], "respond")
    BY <1>1, <1>4, <1>7, <2>1 DEF Go
  <2>2. CASE \E c \in {0, CostBound} :
               /\ calls' = Append(calls, [request |-> Req(p), charge |-> c])
               /\ WriteThen(p, proc[p], RequestPath(p, "failure"), "uncertain", "uncertain")
    BY <1>1, <1>4, <1>8, <2>2 DEF WriteThen
  <2>3. CASE /\ calls' = Append(calls, [request |-> Req(p), charge |-> 0])
             /\ WriteThen(p, proc[p], RequestPath(p, "failure"), "certain", "release")
    BY <1>1, <1>4, <1>8, <2>3 DEF WriteThen
  <2>4. QED
    BY <2>1, <2>2, <2>3 DEF Dispatch
-----------------------------------------------------------------------------
(* reconcile and mark_uncertain. *)

(* reconcile settles an active row of its reservation at the actual cost.     *)
LEMMA ReconcileShape ==
  ASSUME LedgerTypeOK, NEW id, NEW a \in Nat, NEW rec \in Records, Reconcile(id, a, rec)
  PROVE  \/ UNCHANGED reservation
         \/ \E k \in RowOf(id), row \in ReservationRow :
              /\ Settlement(k, row) /\ row.reservation_id = id
              /\ row.state = "reconciled" /\ row.actual = a
<1>1. PICK k \in RowOf(id) :
        \/ /\ reservation[k].state = "active"
           /\ a <= reservation[k].reserved
           /\ reservation' = [reservation EXCEPT ![k] =
                [@ EXCEPT !.state = "reconciled", !.actual = a,
                          !.released = reservation[k].reserved - a, !.record = rec]]
        \/ UNCHANGED reservation
  BY DEF Reconcile
<1>2. UNCHANGED <<cash_checkpoint, observed>>
  BY DEF Reconcile
<1>3. CASE UNCHANGED reservation
  BY <1>3
<1>4. CASE ~ UNCHANGED reservation
  <2> DEFINE old == reservation[k]
             row == [old EXCEPT !.state = "reconciled", !.actual = a,
                                !.released = old.reserved - a, !.record = rec]
  <2>1. k \in Rowids /\ old \in ReservationRow /\ old.reservation_id = id
    BY TableAfterStep DEF RowOf
  <2>2. /\ old.state = "active" /\ a <= old.reserved
        /\ reservation' = [reservation EXCEPT ![k] = row]
    BY <1>1, <1>4
  <2>3. row \in ReservationRow
    <3>1. old.reserved - a \in Nat
      BY <2>1, <2>2 DEF ReservationRow
    <3>2. QED
      BY <2>1, <3>1 DEF ReservationRow
  <2>4. /\ Settles(old, row) /\ row.reservation_id = id /\ row.state = "reconciled"
        /\ row.actual = a
    BY <2>1, <2>2 DEF Settles, ReservationRow
  <2>5. Settlement(k, row)
    BY <1>2, <2>2, <2>4 DEF Settlement
  <2>6. QED
    BY <2>3, <2>4, <2>5
<1>5. QED
  BY <1>3, <1>4

(* mark_uncertain keeps the whole of an active row of its reservation.        *)
LEMMA UncertainShape ==
  ASSUME LedgerTypeOK, NEW id, NEW rec \in Records, MarkUncertain(id, rec)
  PROVE  \/ UNCHANGED reservation
         \/ \E k \in RowOf(id), row \in ReservationRow :
              /\ Settlement(k, row) /\ row.reservation_id = id
              /\ row.state = "uncertain" /\ row.uncertain = row.reserved
<1>1. PICK k \in RowOf(id) :
        \/ /\ reservation[k].state = "active"
           /\ reservation' = [reservation EXCEPT ![k] =
                [@ EXCEPT !.state = "uncertain",
                          !.uncertain = reservation[k].reserved, !.record = rec]]
        \/ UNCHANGED reservation
  BY DEF MarkUncertain
<1>2. UNCHANGED <<cash_checkpoint, observed>>
  BY DEF MarkUncertain
<1>3. CASE UNCHANGED reservation
  BY <1>3
<1>4. CASE ~ UNCHANGED reservation
  <2> DEFINE old == reservation[k]
             row == [old EXCEPT !.state = "uncertain", !.uncertain = old.reserved,
                                !.record = rec]
  <2>1. k \in Rowids /\ old \in ReservationRow /\ old.reservation_id = id
    BY TableAfterStep DEF RowOf
  <2>2. old.state = "active" /\ reservation' = [reservation EXCEPT ![k] = row]
    BY <1>1, <1>4
  <2>3. row \in ReservationRow
    BY <2>1, <2>2 DEF ReservationRow
  <2>4. /\ Settles(old, row) /\ row.reservation_id = id /\ row.state = "uncertain"
        /\ row.uncertain = row.reserved
    BY <2>1, <2>2 DEF Settles, ReservationRow
  <2>5. Settlement(k, row)
    BY <1>2, <2>2, <2>4 DEF Settlement
  <2>6. QED
    BY <2>3, <2>4, <2>5
<1>5. QED
  BY <1>3, <1>4

(* A settlement leaves every call covered: the row that is settled is that of *)
(* one call, and its exposure stays at least the charge of that call.         *)
LEMMA SettlementStep ==
  ASSUME Phase5Constants, Phase5Inv, LedgerTypeOK', RowsOK',
         UNCHANGED <<files, tree, calls, crashes>>, NEW r, NEW j \in DOMAIN calls,
         calls[j].request = r,
         \/ UNCHANGED reservation
         \/ \E k \in RowOf(r), row \in ReservationRow :
              /\ Settlement(k, row) /\ row.reservation_id = r
              /\ \/ row.state = "reconciled" /\ row.actual = calls[j].charge
                 \/ row.state = "uncertain" /\ row.uncertain = row.reserved
  PROVE  /\ FilesOK' /\ TreeOK' /\ CallsOK' /\ PaidOnce' /\ ReservationsOK' /\ CallsCovered'
<1>1. FilesOK' /\ TreeOK' /\ CallsOK' /\ PaidOnce'
  BY DEF Phase5Inv, FilesOK, TreeOK, CallsOK, PaidOnce
<1>2. LedgerTypeOK /\ RowsOK /\ ReservationsOK /\ CallsCovered /\ PaidOnce /\ CallsOK
  BY DEF Phase5Inv
<1>3. CASE UNCHANGED reservation
  BY <1>1, <1>2, <1>3 DEF ReservationsOK, CallsCovered, Rowids
<1>4. ASSUME NEW k \in RowOf(r), NEW row \in ReservationRow,
             Settlement(k, row), row.reservation_id = r,
             \/ row.state = "reconciled" /\ row.actual = calls[j].charge
             \/ row.state = "uncertain" /\ row.uncertain = row.reserved
      PROVE  ReservationsOK' /\ CallsCovered'
  <2>1. k \in Rowids /\ reservation[k].reservation_id = r
    BY DEF RowOf
  <2>2. /\ Len(reservation') = Len(reservation)
        /\ \A l \in Rowids : l # k => reservation'[l] = reservation[l]
        /\ reservation'[k] = row
    BY <1>2, <1>4, <2>1, TableAfterStep
  <2>3. Rowids' = Rowids
    BY <2>2 DEF Rowids
  <2>4. row.reserved = CostBound /\ CostBound <= RequestCap
    BY <1>2, <1>4, <2>1 DEF Settlement, Settles, ReservationsOK
  <2>5. ReservationsOK'
    <3>1. ASSUME NEW l \in Rowids
          PROVE  /\ reservation'[l].reserved = CostBound /\ CostBound <= RequestCap
                 /\ reservation'[l].reservation_id = reservation[l].reservation_id
                 /\ reservation'[l].state # "active" =>
                      \E x \in DOMAIN calls : calls[x].request = reservation'[l].reservation_id
      BY <1>2, <1>4, <2>1, <2>2, <2>4 DEF ReservationsOK
    <3>2. QED
      BY <1>2, <2>3, <3>1 DEF ReservationsOK
  <2>6. calls[j].charge <= Exposure(row)
    <3>1. calls[j].charge \in 0..CostBound /\ CostBound \in Nat
      <4>1. calls \in Seq(Call) /\ DOMAIN calls = 1..Len(calls)
        BY <1>2 DEF CallsOK
      <4>2. calls[j] \in Call
        BY <4>1
      <4>3. QED
        BY <4>2, Bounds DEF Call
    <3>2. row.actual \in Nat /\ row.uncertain \in Nat
      BY DEF ReservationRow
    <3>3. CASE row.state = "reconciled" /\ row.actual = calls[j].charge
      BY <3>1, <3>2, <3>3 DEF Exposure
    <3>4. CASE row.state = "uncertain" /\ row.uncertain = row.reserved
      BY <2>4, <3>1, <3>2, <3>4 DEF Exposure
    <3>5. QED
      BY <1>4, <3>3, <3>4
  <2>7. CallsCovered'
    <3>1. ASSUME NEW l \in DOMAIN calls
          PROVE  \E x \in Rowids : /\ reservation'[x].reservation_id = calls[l].request
                                   /\ calls[l].charge <= Exposure(reservation'[x])
      <4>1. CASE calls[l].request = r
        <5>1. l = j
          BY <1>2, <4>1 DEF PaidOnce
        <5>2. QED
          BY <1>4, <2>1, <2>2, <2>6, <5>1
      <4>2. CASE calls[l].request # r
        <5>1. PICK x \in Rowids : /\ reservation[x].reservation_id = calls[l].request
                                  /\ calls[l].charge <= Exposure(reservation[x])
          BY <1>2 DEF CallsCovered
        <5>2. x # k
          BY <2>1, <4>2, <5>1
        <5>3. QED
          BY <2>2, <5>1, <5>2
      <4>3. QED
        BY <4>1, <4>2
    <3>2. QED
      BY <2>3, <3>1 DEF CallsCovered, Exposure
  <2>8. QED
    BY <2>5, <2>7
<1>5. QED
  BY <1>1, <1>3, <1>4

(* A failed request settles its reservation.                                  *)
LEMMA SettleFailureStep ==
  ASSUME Phase5Constants, Phase5Inv, OneProcess, NEW p \in Procs, SettleFailure(p)
  PROVE  Phase5Inv'
<1>1. PICK m : m = proc[p]
  OBVIOUS
<1>2. MemoryOK(m) /\ Knows(m) /\ m.pc \in {"uncertain", "release"}
  <2>1. At(p, "uncertain") \/ At(p, "release")
    BY DEF SettleFailure
  <2>2. QED
    BY <1>1, <2>1, Remembers DEF At
<1>3. PICK r : r = RequestOf(m)
  OBVIOUS
<1>4. Req(p) = r
  BY <1>1, <1>3 DEF Req, RequestOf, Child, ChildOf, Exp
<1>5. r \in Ids /\ r \in Records
  <2>1. m.e \in Experiments /\ m.k \in DOMAIN ChildOrder(m.e) /\ m.i \in Indices(m.e)
        /\ m.version \in Versions
    BY <1>2 DEF MemoryOK, Place, CallPlaces
  <2>2. QED
    BY <1>3, <2>1, PlacesExist DEF RequestOf, ChildOf
<1>6. /\ UNCHANGED <<files, tree, calls, crashes>> /\ proc' = [proc EXCEPT ![p] = Gone]
      /\ proc = [q \in Procs |-> proc[q]] /\ LedgerTypeOK /\ RowsOK
  BY DEF SettleFailure, Raise, Phase5Inv
<1>7. ASSUME LedgerNext, NEW j \in DOMAIN calls, calls[j].request = r,
             \/ UNCHANGED reservation
             \/ \E k \in RowOf(r), row \in ReservationRow :
                  /\ Settlement(k, row) /\ row.reservation_id = r
                  /\ \/ row.state = "reconciled" /\ row.actual = calls[j].charge
                     \/ row.state = "uncertain" /\ row.uncertain = row.reserved
      PROVE  Phase5Inv'
  <2>1. LedgerTypeOK' /\ RowsOK'
    BY <1>6, <1>7, TypeStep, RowsStep
  <2>2. /\ FilesOK' /\ TreeOK' /\ CallsOK' /\ PaidOnce' /\ ReservationsOK' /\ CallsCovered'
    BY <1>6, <1>7, <2>1, SettlementStep
  <2>3. QED
    BY <1>6, <2>1, <2>2, StepOf
<1>8. CASE m.pc = "uncertain" /\ MarkUncertain(r, r)
  <2>1. PICK j \in DOMAIN calls : calls[j].request = r
    BY <1>2, <1>3, <1>8 DEF Knows, Place
  <2>2. LedgerNext
    BY <1>5, <1>8 DEF LedgerNext
  <2>3. \/ UNCHANGED reservation
        \/ \E k \in RowOf(r), row \in ReservationRow :
             /\ Settlement(k, row) /\ row.reservation_id = r
             /\ row.state = "uncertain" /\ row.uncertain = row.reserved
    BY <1>5, <1>6, <1>8, UncertainShape
  <2>4. QED
    BY <1>7, <2>1, <2>2, <2>3
<1>9. CASE m.pc = "release" /\ Reconcile(r, 0, r)
  <2>1. PICK j \in DOMAIN calls : calls[j].request = r /\ calls[j].charge = 0
    BY <1>2, <1>3, <1>9 DEF Knows, Place, Sent
  <2>2. LedgerNext
    <3>1. 0 \in 0..RequestCap
      BY LedgerConstants
    <3>2. QED
      BY <1>5, <1>9, <3>1 DEF LedgerNext
  <2>3. \/ UNCHANGED reservation
        \/ \E k \in RowOf(r), row \in ReservationRow :
             /\ Settlement(k, row) /\ row.reservation_id = r
             /\ row.state = "reconciled" /\ row.actual = 0
    <3>1. PICK c \in Nat : c = 0
      OBVIOUS
    <3>2. LedgerTypeOK /\ r \in Records /\ Reconcile(r, c, r)
      BY <1>5, <1>6, <1>9, <3>1
    <3>3. QED
      BY <3>1, <3>2, ReconcileShape
  <2>4. QED
    BY <1>7, <2>1, <2>2, <2>3
<1>10. QED
  BY <1>1, <1>4, <1>8, <1>9 DEF SettleFailure, At

(* An answered request is settled at its cost.                                *)
LEMMA SettleStep ==
  ASSUME Phase5Constants, Phase5Inv, OneProcess, NEW p \in Procs, Settle(p)
  PROVE  Phase5Inv'
<1>1. PICK m : m = proc[p]
  OBVIOUS
<1>2. MemoryOK(m) /\ Knows(m) /\ m.pc = "settle"
  <2>1. At(p, "settle")
    BY DEF Settle
  <2>2. QED
    BY <1>1, <2>1, Remembers DEF At
<1>3. /\ IsMemory(m) /\ m.e \in Experiments /\ m.k \in DOMAIN ChildOrder(m.e) /\ m.k \in Nat
      /\ m.i \in Nat \ {0} /\ m.i \in Indices(m.e) /\ m.version \in Versions
      /\ m.cached \in BOOLEAN
  BY <1>2 DEF MemoryOK, Knows, Place, CallPlaces
<1>4. PICK r : r = RequestOf(m)
  OBVIOUS
<1>5. PICK a : a = m.answer
  OBVIOUS
<1>6. a \in Answers /\ \E j \in DOMAIN calls : calls[j].request = r /\ calls[j].charge = a.cost
  BY <1>2, <1>4, <1>5 DEF Knows, Place, Sent
<1>7. Req(p) = r /\ proc[p].answer = a
  BY <1>1, <1>4, <1>5 DEF Req, RequestOf, Child, ChildOf, Exp
<1>8. r \in Ids /\ <<r, a>> \in Records
  BY <1>3, <1>4, <1>6, PlacesExist DEF RequestOf, ChildOf
<1>9. /\ UNCHANGED <<files, tree, calls, crashes>>
      /\ proc = [q \in Procs |-> proc[q]] /\ LedgerTypeOK /\ RowsOK
  BY DEF Settle, Phase5Inv
<1>10. CASE Raise(p) /\ UNCHANGED ledgerVars
  <2>1. TreeOK'
    BY <1>9 DEF Phase5Inv, TreeOK
  <2>2. QED
    BY <1>9, <1>10, <2>1, MemoryStep DEF Raise
<1>11. CASE /\ Reconcile(r, a.cost, <<r, a>>)
            /\ WriteThen(p, proc[p], <<"cache", r>>, Remembered(a), "evaluate")
  <2>1. PICK j \in DOMAIN calls : calls[j].request = r /\ calls[j].charge = a.cost
    BY <1>6
  <2>2. a.cost \in Nat /\ a.cost <= CostBound /\ CostBound \in Nat
    BY <1>6, Bounds
  <2>3. a.cost \in 0..RequestCap
    <3>1. PICK k \in Rowids : reservation[k].reservation_id = r
      BY <1>11 DEF Reconcile, RowOf
    <3>2. CostBound <= RequestCap
      BY <3>1 DEF Phase5Inv, ReservationsOK
    <3>3. QED
      BY <2>2, <3>2, LedgerConstants
  <2>4. LedgerNext
    BY <1>8, <1>11, <2>3 DEF LedgerNext
  <2>5. \/ UNCHANGED reservation
        \/ \E k \in RowOf(r), row \in ReservationRow :
             /\ Settlement(k, row) /\ row.reservation_id = r
             /\ row.state = "reconciled" /\ row.actual = a.cost
    <3>1. PICK c \in Nat, rec \in Records : c = a.cost /\ rec = <<r, a>>
      BY <1>8, <2>2
    <3>2. LedgerTypeOK /\ Reconcile(r, c, rec)
      BY <1>9, <1>11, <3>1
    <3>3. QED
      BY <3>1, <3>2, ReconcileShape
  <2>6. LedgerTypeOK' /\ RowsOK'
    BY <1>9, <2>4, TypeStep, RowsStep
  <2>7. /\ FilesOK' /\ TreeOK' /\ CallsOK' /\ PaidOnce' /\ ReservationsOK' /\ CallsCovered'
    BY <1>9, <2>1, <2>5, <2>6, SettlementStep
  <2>8. PICK mm : mm = [m EXCEPT !.pc = "write", !.path = <<"cache", r>>,
                                 !.content = Remembered(a), !.next = "evaluate"]
    OBVIOUS
  <2>9. proc' = [proc EXCEPT ![p] = mm]
    BY <1>1, <1>11, <2>8 DEF WriteThen
  <2>10. /\ IsMemory(mm) /\ mm.e = m.e /\ mm.k = m.k /\ mm.i = m.i /\ mm.version = m.version
         /\ mm.cached = m.cached /\ mm.pc = "write" /\ mm.next = "evaluate"
    BY <1>3, <2>8 DEF IsMemory, Fields
  <2>11. MemoryOK(mm)
    BY <1>3, <2>10 DEF MemoryOK, Place, CallPlaces, ChildPlaces
  <2>12. Knows(mm)'
    BY <1>3, <2>10 DEF Knows, Place, BeforeCall
  <2>13. QED
    BY <1>9, <2>6, <2>7, <2>9, <2>11, <2>12, StepOf
<1>12. QED
  BY <1>7, <1>10, <1>11 DEF Settle
-----------------------------------------------------------------------------
(* The theorems. *)

(* Every step of a process, its death and its start keep the invariant.       *)
LEMMA Phase5Step ==
  ASSUME Phase5Constants, OneProcess, Phase5Inv, [Next]_vars
  PROVE  Phase5Inv'
<1>1. CASE Edit \/ UNCHANGED vars
  BY <1>1, OutsideStep
<1>2. ASSUME NEW p \in Procs, Step(p)
      PROVE  Phase5Inv'
  BY <1>2, WriteStep, BeginChildStep, ExamineStep, LookUpStep, ReserveStep, DispatchStep,
     SettleFailureStep, RespondStep, SettleStep, EvaluateStep, EndChildStep,
     ExperimentFileStep, EndStep DEF Step
<1>3. ASSUME NEW p \in Procs, Crash(p)
      PROVE  Phase5Inv'
  BY <1>3, EndStep
<1>4. ASSUME NEW p \in Procs, NEW e \in Experiments, Start(p, e)
      PROVE  Phase5Inv'
  BY <1>4, StartStep
<1>5. QED
  BY <1>1, <1>2, <1>3, <1>4 DEF Next

(* An experiment that nobody started has sent nothing.                        *)
LEMMA Phase5Start ==
  ASSUME Phase5Constants, Init
  PROVE  Phase5Inv
<1>1. reservation = <<>> /\ cash_checkpoint = <<>> /\ observed = OpeningBilled /\ calls = <<>>
  BY DEF Init, LedgerInit
<1>2. Rowids = {} /\ DOMAIN calls = {}
  BY <1>1 DEF Rowids
<1>3. LedgerTypeOK /\ RowsOK
  BY <1>1, <1>2, LedgerConstants DEF LedgerTypeOK, RowsOK
<1>4. FilesOK
  <2>1. files = [path \in Paths |-> Absent]
    BY DEF Init
  <2>2. QED
    BY <2>1 DEF FilesOK, Absent
<1>5. TreeOK
  <2>1. tree = [version |-> 0, frozen |-> TRUE] /\ crashes = 0
    BY DEF Init
  <2>2. 0 \in Versions /\ 0 \in 0..MaxCrashes
    BY Bounds DEF Versions
  <2>3. QED
    BY <2>1, <2>2 DEF TreeOK
<1>6. CallsOK /\ PaidOnce /\ ReservationsOK /\ CallsCovered
  <2>1. calls \in Seq(Call)
    BY <1>1
  <2>2. QED
    BY <1>2, <2>1 DEF CallsOK, PaidOnce, ReservationsOK, CallsCovered
<1>7. proc = [p \in Procs |-> proc[p]] /\ \A p \in Procs : proc[p] = Gone
  BY DEF Init
<1>8. QED
  BY <1>3, <1>4, <1>5, <1>6, <1>7 DEF Phase5Inv

(* What every state of one process's experiments satisfies.                   *)
LEMMA Phase5Always ==
  ASSUME Phase5Constants, OneProcess
  PROVE  Spec => []Phase5Inv
<1>1. Init => Phase5Inv
  BY Phase5Start
<1>2. Phase5Inv /\ [Next]_vars => Phase5Inv'
  BY Phase5Step
<1>3. QED
  BY <1>1, <1>2, PTL DEF Spec

(* The invariant contains the types.                                          *)
LEMMA Phase5Types ==
  ASSUME Phase5Inv
  PROVE  Phase5TypeOK
<1>1. \A j \in DOMAIN calls : calls[j].request \in Requests
  <2>1. calls \in Seq(Call)
    BY DEF Phase5Inv, CallsOK
  <2>2. DOMAIN calls = 1..Len(calls)
    BY <2>1
  <2>3. \A j \in DOMAIN calls : calls[j] \in Call
    BY <2>1, <2>2
  <2>4. QED
    BY <2>3 DEF Call
<1>2. LedgerTypeOK /\ \A path \in Paths : files[path].state \in {"absent", "torn", "whole"}
  BY DEF Phase5Inv, FilesOK
<1>3. tree \in [version : Versions, frozen : BOOLEAN] /\ crashes \in 0..MaxCrashes
  BY DEF Phase5Inv, TreeOK
<1>4. QED
  BY <1>1, <1>2, <1>3 DEF Phase5TypeOK

(* The tables, the files and the calls of the paid experiments are well       *)
(* formed at all times.                                                       *)
THEOREM Phase5TypeCorrect ==
  ASSUME Phase5Constants, OneProcess
  PROVE  Spec => []Phase5TypeOK
BY Phase5Types, Phase5Always, PTL

(* "may already be paid; do not duplicate": however often the process dies,   *)
(* at whatever point, and however often the experiments are started again     *)
(* from an edited tree, a request of a child is sent to the provider once.    *)
THEOREM OneProcessPaysOnce ==
  ASSUME Phase5Constants, OneProcess
  PROVE  Spec => []PaidOnce
<1>1. Phase5Inv => PaidOnce
  BY DEF Phase5Inv
<1>2. QED
  BY <1>1, Phase5Always, PTL

(* Each call has a row of its own that covers it.                             *)
LEMMA CoveredSum ==
  ASSUME Phase5Constants, Phase5Inv
  PROVE  SpendCovered
<1> DEFINE n == Len(reservation)
           m == Len(calls)
           v == [j \in DOMAIN calls |-> calls[j].charge]
           w == ExposureColumn(PhaseScope)
           RowFor(j) == CHOOSE k \in Rowids : /\ reservation[k].reservation_id = calls[j].request
                                              /\ calls[j].charge <= Exposure(reservation[k])
           f == [j \in 1..m |-> RowFor(j)]
<1>1. /\ calls \in Seq(Call) /\ m \in Nat /\ DOMAIN calls = 1..m
      /\ \A j \in 1..m : calls[j] \in Call
  <2>1. calls \in Seq(Call)
    BY DEF Phase5Inv, CallsOK
  <2>2. QED
    BY <2>1
<1>2. n \in Nat /\ Rowids = 1..n /\ \A k \in 1..n : reservation[k] \in ReservationRow
  BY TableAfterStep DEF Phase5Inv, Rowids
<1>3. v \in [1..m -> Nat]
  <2>1. \A j \in 1..m : calls[j].charge \in Nat
    BY <1>1, Bounds DEF Call
  <2>2. QED
    BY <1>1, <2>1
<1>4. \A k \in 1..n : w[k] = Exposure(reservation[k]) /\ Exposure(reservation[k]) \in Nat
  <2>1. ASSUME NEW k \in 1..n
        PROVE  w[k] = Exposure(reservation[k]) /\ Exposure(reservation[k]) \in Nat
    <3>1. /\ reservation[k].run_id \in Runs /\ reservation[k].stage \in Stages
          /\ Exposure(reservation[k]) \in Nat
      BY <1>2 DEF ReservationRow, Exposure
    <3>2. QED
      BY <1>2, <3>1 DEF ExposureColumn, PhaseScope
  <2>2. QED
    BY <2>1
<1>5. w \in [1..n -> Nat]
  <2>1. w = [k \in 1..n |-> w[k]]
    BY <1>2 DEF ExposureColumn
  <2> HIDE DEF w
  <2>2. QED
    BY <1>4, <2>1
<1>6. \A j \in 1..m : /\ RowFor(j) \in 1..n
                      /\ reservation[RowFor(j)].reservation_id = calls[j].request
                      /\ calls[j].charge <= Exposure(reservation[RowFor(j)])
  BY <1>1, <1>2 DEF Phase5Inv, CallsCovered
<1> HIDE DEF RowFor
<1>7. f \in [1..m -> 1..n]
  BY <1>6
<1>8. ASSUME NEW a \in 1..m, NEW b \in 1..m, f[a] = f[b]
      PROVE  a = b
  <2>1. calls[a].request = calls[b].request
    BY <1>6, <1>8
  <2>2. QED
    BY <1>1, <2>1 DEF Phase5Inv, PaidOnce
<1>9. \A a \in 1..m : v[a] <= w[f[a]]
  <2>1. ASSUME NEW a \in 1..m PROVE v[a] <= w[f[a]]
    <3>1. f[a] = RowFor(a) /\ v[a] = calls[a].charge
      BY <1>1
    <3>2. w[RowFor(a)] = Exposure(reservation[RowFor(a)])
      BY <1>4, <1>6
    <3>3. QED
      BY <1>6, <3>1, <3>2
  <2>2. QED
    BY <2>1
<1>10. Charged = RunningSum(v)[m] /\ Committed(PhaseScope) = RunningSum(w)[n]
  BY DEF Charged, Committed, Total
<1> HIDE DEF v, w, f
<1>11. RunningSum(v)[m] <= RunningSum(w)[n]
  BY <1>1, <1>2, <1>3, <1>5, <1>7, <1>8, <1>9, SumInjection
<1>12. QED
  BY <1>10, <1>11 DEF SpendCovered

(* What the provider bills is at all times within what the ledger counts as   *)
(* spent, reserved or uncertain: no charge is lost with a process that dies.  *)
THEOREM NoChargeEscapes ==
  ASSUME Phase5Constants, OneProcess
  PROVE  Spec => []SpendCovered
<1>1. Phase5Inv => SpendCovered
  BY CoveredSum
<1>2. QED
  BY <1>1, Phase5Always, PTL

(* The property of the run, for every plan, policy and provider.              *)
THEOREM PaidOnceAndCoveredHolds ==
  ASSUME Phase5Constants, OneProcess
  PROVE  Spec => []PaidOnceAndCovered
BY Phase5TypeCorrect, OneProcessPaysOnce, NoChargeEscapes, PTL DEF PaidOnceAndCovered

=============================================================================
