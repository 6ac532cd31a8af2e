--------------------------- MODULE SearchLoopProofs ---------------------------
(***************************************************************************)
(* The Phase 0 and Phase 2 runs (search/loop.py) and their replay, proved  *)
(* for any number of processes, steps, kills, signals and decayed values.  *)
(***************************************************************************)
EXTENDS SearchLoop, TLAPS

Stepping == {"propose", "proposal-text", "append"}
Ending ==
  {"finish", "figures-text", "analysis", "analysis-text", "results", "results-text", "complete"}
Places ==
  {"idle", "manifest", "manifest-text", "schema", "insert", "open", "running", "interrupt"}
    \cup Stepping \cup Ending

Processes == [pc : Places, step : 0..MaxSteps, limit : Limits \cup {0}]
Databases ==
  [schema : BOOLEAN, status : {"none", "running", "interrupted", "completed"},
   next : 0..MaxSteps, task : {"none", "stored", "changed"}, rows : Seq(Rows), events : Seq(Events)]
ResultContents ==
  IF Phase = 0 THEN [hashes : Seq(Contents), first : Contents]
               ELSE [hashes : Seq(Contents), first : Contents, analysis : Contents]
FileSystems ==
  [directory : BOOLEAN, manifest : Files({0}), proposals : [Steps -> Files(Contents)],
   figures : Files({Damaged, 0}), analysis : Files({Damaged, 0}), results : Files(ResultContents)]

Shape ==
  /\ db \in Databases
  /\ files \in FileSystems
  /\ proc \in [Procs -> Processes]
  /\ faults \in 0..MaxFaults
  /\ damage \in 0..MaxDamage

(* A run that anyone works on, or that has a state, has its directory.       *)
HasDirectory ==
  /\ db.status # "none" => files.directory
  /\ \A p \in Procs : proc[p].pc # "idle" => files.directory

(* What results.json of a whole run says.                                    *)
Hashes == [i \in 1..MaxSteps |-> i - 1]
First == IF FirstExact < MaxSteps THEN FirstExact + 1 ELSE 0
Content == IF Phase = 0 THEN [hashes |-> Hashes, first |-> First]
                        ELSE [hashes |-> Hashes, first |-> First, analysis |-> 0]

LedgerStored ==
  /\ Len(db.events) = db.next /\ Len(db.rows) = db.next
  /\ \A i \in 1..db.next : db.events[i] = EventOf(i - 1) /\ db.rows[i] = RowOf(i - 1)

ProposalsStored ==
  \A s \in Steps :
    /\ s < db.next => files.proposals[s] = Whole(s)
    /\ s = db.next => files.proposals[s] \in {Absent, Torn, Whole(s)}
    /\ s > db.next => files.proposals[s] = Absent

EndStored ==
  /\ files.analysis \in {Absent, Torn, Whole(0)}
  /\ files.results \in {Absent, Torn} \/ (db.next = MaxSteps /\ files.results = Whole(Content))
  /\ db.status = "completed" =>
       /\ db.next = MaxSteps
       /\ Phase = 2 => files.analysis = Whole(0) /\ files.results = Whole(Content)

(* What a process relies on at the place where it is, whatever the others    *)
(* have done since it read the state.                                        *)
Knows(m) ==
  /\ m.step <= db.next
  /\ m.pc \in Stepping => m.step < MaxSteps
  /\ m.pc = "append" => files.proposals[m.step] = Whole(m.step)
  /\ m.pc \in Ending => db.next = MaxSteps
  /\ Phase = 2 /\ m.pc \in {"results", "results-text", "complete"} => files.analysis = Whole(0)
  /\ m.pc = "complete" => files.results = Whole(Content)

Sound == LedgerStored /\ ProposalsStored /\ EndStored /\ \A p \in Procs : Knows(proc[p])

(* Each stored value is the one the run wrote or a damaged one.              *)
RowStates(i) ==
  [candidate : {i - 1, Damaged}, source : {i - 1, Damaged}, result : {i - 1, Damaged}]
EventStates(i) ==
  [sequence : {i - 1, Damaged}, type : {0, Damaged}, cost : {i, Damaged},
   payload : {i - 1, Damaged}, hash : {i - 1, Damaged}]
Recognisable ==
  /\ \A s \in Steps : files.proposals[s] \in {Whole(s), Whole(Damaged)}
  /\ Len(db.events) = MaxSteps /\ Len(db.rows) = MaxSteps
  /\ \A i \in 1..MaxSteps : db.events[i] \in EventStates(i) /\ db.rows[i] \in RowStates(i)
  /\ Phase = 2 => files.analysis \in {Whole(0), Whole(Damaged)}
  /\ \/ files.results \in {Absent, Torn}
     \/ /\ Len(files.results.content.hashes) = MaxSteps
        /\ files.results.content.first \in {First, Garbled}
        /\ Phase = 2 => files.results.content.analysis \in {0, Garbled}

(* Nothing decays but in a completed run that nobody works on, and to resume *)
(* a completed run changes nothing.                                          *)
Decayed ==
  /\ db.status = "completed"
  /\ \A p \in Procs : proc[p].pc \in {"idle", "open"}
  /\ Recognisable

SearchInv ==
  /\ Shape
  /\ HasDirectory
  /\ damage = 0 => Sound
  /\ damage # 0 => Decayed

-----------------------------------------------------------------------------
(* Files. *)

(* The three states of a file differ, and so do files of other contents.     *)
LEMMA FilesDiffer ==
  /\ Absent # Torn
  /\ \A c : Absent # Whole(c) /\ Torn # Whole(c)
  /\ \A c, d : Whole(c) = Whole(d) => c = d
  /\ ~ IsWhole(Absent) /\ ~ IsWhole(Torn)
  /\ \A c : IsWhole(Whole(c)) /\ Whole(c).content = c
BY DEF Absent, Torn, Whole, IsWhole

(* A file is absent, torn, or whole with its content.                        *)
LEMMA FileStates ==
  ASSUME NEW C, NEW f \in Files(C)
  PROVE  f = Absent \/ f = Torn \/ (IsWhole(f) /\ f.content \in C /\ f = Whole(f.content))
<1>1. f = Absent \/ f = Torn \/ \E c \in C : f = Whole(c)
  BY DEF Files
<1>2. CASE \E c \in C : f = Whole(c)
  BY <1>2, FilesDiffer
<1> QED BY <1>1, <1>2

(* write_content_artifact finds its content exactly in the file it wrote.    *)
LEMMA HoldsIsWhole ==
  ASSUME NEW C, NEW f \in Files(C), NEW c
  PROVE  Holds(f, c) <=> f = Whole(c)
BY FileStates, FilesDiffer DEF Holds

(* What may be in a file of a type.                                          *)
LEMMA FilesHave ==
  ASSUME NEW C
  PROVE  Absent \in Files(C) /\ Torn \in Files(C) /\ \A c \in C : Whole(c) \in Files(C)
BY DEF Files

(* What a step writes has its type.                                          *)
LEMMA StepsAreContents ==
  ASSUME SearchConstants, NEW s \in Steps
  PROVE  /\ s \in Contents /\ s + 1 \in Contents /\ 0 \in Contents
         /\ RowOf(s) \in Rows /\ EventOf(s) \in Events
<1>1. s \in Contents /\ s + 1 \in Contents /\ 0 \in Contents
  BY DEF SearchConstants, Steps, Contents
<1> QED BY <1>1 DEF RowOf, EventOf, Rows, Events

-----------------------------------------------------------------------------
(* The process that takes a step and what the others keep knowing.           *)

Moves(p, m) == proc' = [proc EXCEPT ![p] = m]

(* Nothing a process relies on is taken back.                                *)
Grows ==
  /\ db.next <= db'.next
  /\ \A s \in Steps : files.proposals[s] = Whole(s) => files'.proposals[s] = Whole(s)
  /\ files.analysis = Whole(0) => files'.analysis = Whole(0)
  /\ files.results = Whole(Content) => files'.results = Whole(Content)

(* A place is moved to without losing the step.                              *)
LEMMA GotoMoves ==
  ASSUME Shape, NEW p \in Procs, NEW pc \in Places, Goto(p, pc)
  PROVE  \E m \in Processes : Moves(p, m) /\ m.pc = pc /\ m.step = proc[p].step
<1> DEFINE m == [proc[p] EXCEPT !.pc = pc]
<1>1. proc[p] \in Processes
  BY DEF Shape
<1>2. m \in Processes /\ m.pc = pc /\ m.step = proc[p].step
  BY <1>1 DEF Processes
<1>3. Moves(p, m)
  BY DEF Goto, Moves
<1> QED BY <1>2, <1>3

(* A process that returns or raises is idle.                                 *)
LEMMA EndsMoves ==
  ASSUME SearchConstants, NEW p \in Procs, Ends(p)
  PROVE  Idle \in Processes /\ Moves(p, Idle) /\ Idle.pc = "idle" /\ Idle.step = 0
BY DEF Ends, Moves, Idle, Processes, Places, SearchConstants

(* What a process knows stays true while the run grows.                      *)
LEMMA KnowledgeKeeps ==
  ASSUME SearchConstants, Shape, db' \in Databases, Grows, NEW m \in Processes, Knows(m)
  PROVE  Knows(m)'
<1>1. db.next \in 0..MaxSteps /\ db'.next \in 0..MaxSteps /\ m.step \in 0..MaxSteps
  BY DEF Shape, Databases, Processes
<1>2. MaxSteps \in Nat
  BY DEF SearchConstants
<1>3. m.step <= db'.next
  BY <1>1, <1>2 DEF Knows, Grows
<1>4. m.pc = "append" => files'.proposals[m.step] = Whole(m.step)
  <2> HAVE m.pc = "append"
  <2>1. m.step \in Steps
    BY <1>1, <1>2 DEF Knows, Stepping, Steps
  <2> QED BY <2>1 DEF Knows, Grows
<1>5. m.pc \in Ending => db'.next = MaxSteps
  BY <1>1, <1>2 DEF Knows, Grows
<1>6. (Phase = 2 /\ m.pc \in {"results", "results-text", "complete"}) => files'.analysis = Whole(0)
  BY DEF Knows, Grows
<1>7. m.pc = "complete" => files'.results = Whole(Content)
  BY DEF Knows, Grows
<1>8. m.pc \in Stepping => m.step < MaxSteps
  BY DEF Knows
<1> QED BY <1>3, <1>4, <1>5, <1>6, <1>7, <1>8 DEF Knows

(* An idle process knows nothing, one about to open the run neither.         *)
LEMMA NothingKnown ==
  ASSUME SearchConstants, Shape, NEW m \in Processes, m.step = 0,
         m.pc \notin Stepping, m.pc \notin Ending
  PROVE  Knows(m)
<1>1. db.next \in 0..MaxSteps /\ MaxSteps \in Nat
  BY DEF Shape, Databases, SearchConstants
<1>2. m.step <= db.next
  BY <1>1
<1> QED BY <1>2 DEF Knows, Stepping, Ending

(* A step of one process of an undecayed run keeps the invariant if what it  *)
(* stores is sound, takes nothing back, and is what the process then knows.  *)
LEMMA StepIsSound ==
  ASSUME SearchConstants, SearchInv, damage = 0, damage' = damage, faults' \in 0..MaxFaults,
         NEW p \in Procs, NEW m \in Processes, Moves(p, m), Knows(m)',
         db' \in Databases, files' \in FileSystems, Grows,
         files.directory => files'.directory,
         m.pc # "idle" => files'.directory,
         db'.status # "none" => files'.directory,
         LedgerStored', ProposalsStored', EndStored'
  PROVE  SearchInv'
<1>1. Shape /\ HasDirectory /\ Sound
  BY DEF SearchInv
<1>2. Shape'
  BY <1>1 DEF Shape, Moves
<1>3. HasDirectory'
  <2>1. \A q \in Procs : proc'[q].pc # "idle" => files'.directory
    <3> TAKE q \in Procs
    <3>1. CASE q = p
      BY <3>1, <1>1 DEF Moves, Shape
    <3>2. CASE q # p
      BY <3>2, <1>1 DEF Moves, Shape, HasDirectory
    <3> QED BY <3>1, <3>2
  <2> QED BY <2>1 DEF HasDirectory
<1>4. \A q \in Procs : Knows(proc[q])'
  <2> TAKE q \in Procs
  <2>1. CASE q = p
    <3>1. proc'[q] = m
      BY <2>1, <1>1 DEF Moves, Shape
    <3> QED BY <3>1 DEF Knows
  <2>2. CASE q # p
    <3>1. PICK k \in Processes : k = proc[q]
      BY <1>1 DEF Shape
    <3>2. Knows(k)
      BY <3>1, <1>1 DEF Sound
    <3>3. Knows(k)'
      BY <3>2, <1>1, KnowledgeKeeps
    <3>4. proc'[q] = k
      BY <2>2, <3>1, <1>1 DEF Moves, Shape
    <3> QED BY <3>3, <3>4 DEF Knows
  <2> QED BY <2>1, <2>2
<1>5. Sound'
  BY <1>4 DEF Sound
<1> QED BY <1>2, <1>3, <1>5 DEF SearchInv

(* A step that stores nothing keeps the invariant if the process knows what  *)
(* it needs at its next place.                                               *)
LEMMA MoveIsSound ==
  ASSUME SearchConstants, SearchInv, damage = 0, damage' = damage, faults' \in 0..MaxFaults,
         NEW p \in Procs, NEW m \in Processes, Moves(p, m), Knows(m), UNCHANGED <<db, files>>,
         m.pc # "idle" => files.directory
  PROVE  SearchInv'
<1>1. Shape /\ HasDirectory /\ Sound
  BY DEF SearchInv
<1>2. db' \in Databases /\ files' \in FileSystems
  BY <1>1 DEF Shape
<1>3. db.next \in 0..MaxSteps /\ MaxSteps \in Nat
  BY <1>1 DEF Shape, Databases, SearchConstants
<1>4. Grows
  BY <1>3 DEF Grows
<1>5. LedgerStored' /\ ProposalsStored' /\ EndStored'
  BY <1>1 DEF Sound, LedgerStored, ProposalsStored, EndStored
<1>6. Knows(m)'
  BY DEF Knows
<1>7. db'.status # "none" => files'.directory
  BY <1>1 DEF HasDirectory
<1> QED BY <1>2, <1>4, <1>5, <1>6, <1>7, StepIsSound

-----------------------------------------------------------------------------
(* The steps of a run in which nothing has decayed. *)

(* A process that ends keeps the invariant.                                  *)
LEMMA EndIsSound ==
  ASSUME SearchConstants, SearchInv, damage = 0, damage' = damage, faults' \in 0..MaxFaults,
         NEW p \in Procs, Ends(p), UNCHANGED <<db, files>>
  PROVE  SearchInv'
<1>1. Shape
  BY DEF SearchInv
<1>2. Idle \in Processes /\ Moves(p, Idle) /\ Idle.pc = "idle" /\ Idle.step = 0
  BY EndsMoves
<1>3. Knows(Idle)
  BY <1>1, <1>2, NothingKnown DEF Stepping, Ending
<1> QED BY <1>2, <1>3, MoveIsSound

(* What an undecayed state is, for the steps below.                          *)
LEMMA SoundState ==
  ASSUME SearchConstants, SearchInv, damage = 0, NEW p \in Procs
  PROVE  /\ Shape /\ HasDirectory /\ Sound
         /\ faults \in 0..MaxFaults
         /\ proc[p] \in Processes /\ Knows(proc[p])
         /\ db \in Databases /\ files \in FileSystems
         /\ db.next \in 0..MaxSteps /\ MaxSteps \in Nat /\ MaxSteps > 0
         /\ LedgerStored /\ ProposalsStored /\ EndStored
<1>1. Shape /\ HasDirectory /\ Sound
  BY DEF SearchInv
<1>2. db.next \in 0..MaxSteps
  BY <1>1 DEF Shape, Databases
<1>3. MaxSteps \in Nat /\ MaxSteps > 0
  BY DEF SearchConstants
<1>4. faults \in 0..MaxFaults /\ proc[p] \in Processes /\ db \in Databases /\ files \in FileSystems
  BY <1>1 DEF Shape
<1>5. Knows(proc[p]) /\ LedgerStored /\ ProposalsStored /\ EndStored
  BY <1>1 DEF Sound
<1> QED BY <1>1, <1>2, <1>3, <1>4, <1>5

(* Files other than the proposals and the results keep what is stored.       *)
LEMMA StartIsSound ==
  ASSUME SearchConstants, SearchInv, damage = 0, NEW p \in Procs,
         Start(p) \/ WriteManifest(p)
  PROVE  SearchInv'
<1>1. /\ Shape /\ HasDirectory /\ Sound
      /\ faults \in 0..MaxFaults /\ proc[p] \in Processes /\ Knows(proc[p])
      /\ db \in Databases /\ files \in FileSystems
      /\ db.next \in 0..MaxSteps /\ MaxSteps \in Nat
      /\ LedgerStored /\ ProposalsStored /\ EndStored
  BY SoundState
<1>2. /\ db' = db /\ damage' = damage /\ faults' = faults
      /\ files'.directory
      /\ files' \in FileSystems
      /\ files'.proposals = files.proposals /\ files'.analysis = files.analysis
      /\ files'.results = files.results
  <2>1. CASE Start(p)
    BY <2>1, <1>1 DEF Start, NoDecay, FileSystems
  <2>2. CASE WriteManifest(p)
    <3>1. files.directory
      BY <2>2, <1>1 DEF WriteManifest, At, HasDirectory
    <3>2. Torn \in Files({0}) /\ Whole(0) \in Files({0})
      BY FilesHave
    <3> QED BY <2>2, <3>1, <3>2, <1>1 DEF WriteManifest, NoDecay, FileSystems
  <2> QED BY <2>1, <2>2
<1>3. PICK m \in Processes : Moves(p, m) /\ m.pc \notin Stepping /\ m.pc \notin Ending
                             /\ m.step \in {0, proc[p].step}
  <2>1. CASE Start(p)
    <3>1. PICK limit \in Limits :
            proc' = [proc EXCEPT ![p] = [pc |-> "manifest", step |-> 0, limit |-> limit]]
      BY <2>1 DEF Start
    <3>2. [pc |-> "manifest", step |-> 0, limit |-> limit] \in Processes
      BY <1>1 DEF Processes, Places
    <3> QED BY <3>1, <3>2 DEF Moves, Stepping, Ending
  <2>2. CASE WriteManifest(p)
    <3>1. PICK pc \in {"manifest-text", "schema"} : Goto(p, pc)
      BY <2>2 DEF WriteManifest
    <3>2. pc \in Places
      BY DEF Places
    <3> QED BY <3>1, <3>2, <1>1, GotoMoves DEF Stepping, Ending
  <2> QED BY <2>1, <2>2
<1>4. Grows
  BY <1>1, <1>2 DEF Grows
<1>5. LedgerStored' /\ ProposalsStored' /\ EndStored'
  BY <1>1, <1>2 DEF LedgerStored, ProposalsStored, EndStored
<1>6. m.step <= db'.next
  BY <1>1, <1>2, <1>3 DEF Knows
<1>7. Knows(m)'
  BY <1>3, <1>6 DEF Knows, Stepping, Ending
<1> QED BY <1>1, <1>2, <1>3, <1>4, <1>5, <1>7, StepIsSound

(* The first rows of the database.                                           *)
LEMMA InitializeIsSound ==
  ASSUME SearchConstants, SearchInv, damage = 0, NEW p \in Procs, Initialize(p)
  PROVE  SearchInv'
<1>1. /\ Shape /\ HasDirectory /\ Sound
      /\ faults \in 0..MaxFaults /\ proc[p] \in Processes /\ Knows(proc[p])
      /\ db \in Databases /\ files \in FileSystems
      /\ db.next \in 0..MaxSteps /\ MaxSteps \in Nat
      /\ LedgerStored /\ ProposalsStored /\ EndStored
  BY SoundState
<1>2. /\ files' = files /\ damage' = damage /\ faults' = faults
      /\ files.directory
      /\ db' \in Databases /\ db'.next = db.next /\ db'.rows = db.rows /\ db'.events = db.events
      /\ db'.status \in {db.status, "running"}
  BY <1>1 DEF Initialize, NoDecay, At, HasDirectory, Databases
<1>3. PICK pc \in {"insert", "open"} : Goto(p, pc)
  BY DEF Initialize
<1>4. pc \in Places
  BY DEF Places
<1>5. PICK m \in Processes : Moves(p, m) /\ m.pc = pc /\ m.step = proc[p].step
  BY <1>1, <1>3, <1>4, GotoMoves
<1>6. Grows
  BY <1>1, <1>2 DEF Grows
<1>7. LedgerStored' /\ ProposalsStored' /\ EndStored'
  BY <1>1, <1>2 DEF LedgerStored, ProposalsStored, EndStored
<1>8. m.step <= db'.next
  BY <1>1, <1>2, <1>5 DEF Knows
<1>9. Knows(m)'
  BY <1>5, <1>8 DEF Knows, Stepping, Ending
<1> QED BY <1>1, <1>2, <1>5, <1>6, <1>7, <1>9, StepIsSound

(* A resume reads the state, and a later process may change it before it     *)
(* acts.                                                                     *)
LEMMA ResumeIsSound ==
  ASSUME SearchConstants, SearchInv, damage = 0, NEW p \in Procs, Resume(p)
  PROVE  SearchInv'
<1>1. Shape /\ HasDirectory /\ faults \in 0..MaxFaults
  BY SoundState
<1>2. PICK limit \in Limits :
        proc' = [proc EXCEPT ![p] = [pc |-> "open", step |-> 0, limit |-> limit]]
  BY DEF Resume
<1> DEFINE m == [pc |-> "open", step |-> 0, limit |-> limit]
<1>3. m \in Processes /\ m.pc = "open" /\ m.step = 0
  BY DEF Processes, Places, SearchConstants
<1>4. Moves(p, m)
  BY <1>2 DEF Moves
<1>5. Knows(m)
  BY <1>1, <1>3, NothingKnown DEF Stepping, Ending
<1>6. files.directory /\ UNCHANGED <<db, files>> /\ damage' = damage /\ faults' = faults
  BY <1>1 DEF Resume, HasDirectory, NoDecay
<1> HIDE DEF m
<1> QED BY <1>1, <1>3, <1>4, <1>5, <1>6, MoveIsSound

(* Opening the run: a completed one is left alone.                           *)
LEMMA OpenIsSound ==
  ASSUME SearchConstants, SearchInv, damage = 0, NEW p \in Procs, Open(p)
  PROVE  SearchInv'
<1>1. /\ Shape /\ HasDirectory /\ faults \in 0..MaxFaults
      /\ proc[p] \in Processes /\ db.next \in 0..MaxSteps /\ MaxSteps \in Nat
  BY SoundState
<1>2. UNCHANGED <<db, files>> /\ damage' = damage /\ faults' = faults
  BY DEF Open, NoDecay
<1>3. CASE Ends(p)
  BY <1>1, <1>2, <1>3, EndIsSound
<1>4. CASE proc' = [proc EXCEPT ![p].pc = "running", ![p].step = db.next]
  <2> DEFINE m == [proc[p] EXCEPT !.pc = "running", !.step = db.next]
  <2>1. m \in Processes /\ m.pc = "running" /\ m.step = db.next
    BY <1>1 DEF Processes, Places
  <2>2. Moves(p, m)
    BY <1>4 DEF Moves
  <2>3. Knows(m)
    BY <1>1, <2>1 DEF Knows, Stepping, Ending
  <2>4. files.directory
    BY <1>1 DEF Open, At, HasDirectory
  <2> HIDE DEF m
  <2> QED BY <1>1, <1>2, <2>1, <2>2, <2>3, <2>4, MoveIsSound
<1> QED BY <1>3, <1>4 DEF Open

(* A status that does not say completed keeps what is stored.                *)
LEMMA StatusIsSound ==
  ASSUME SearchConstants, SearchInv, damage = 0, NEW p \in Procs,
         SetRunning(p) \/ Interrupt(p)
  PROVE  SearchInv'
<1>1. /\ Shape /\ HasDirectory /\ Sound
      /\ faults \in 0..MaxFaults /\ proc[p] \in Processes /\ Knows(proc[p])
      /\ db \in Databases /\ files \in FileSystems
      /\ db.next \in 0..MaxSteps /\ MaxSteps \in Nat
      /\ LedgerStored /\ ProposalsStored /\ EndStored
  BY SoundState
<1>2. /\ files' = files /\ damage' = damage /\ faults' = faults
      /\ files.directory
      /\ db' \in Databases /\ db'.next = db.next /\ db'.rows = db.rows /\ db'.events = db.events
      /\ db'.status \in {"running", "interrupted"}
  BY <1>1 DEF SetRunning, Interrupt, NoDecay, At, HasDirectory, Databases
<1>3. PICK m \in Processes : Moves(p, m) /\ Knows(m)
  <2>1. CASE SetRunning(p)
    <3>1. proc[p].step \in 0..MaxSteps /\ proc[p].step <= db.next
      BY <1>1 DEF Processes, Knows
    <3>2. AfterStep(proc[p].step) \in Places
      BY DEF AfterStep, Places, Stepping, Ending
    <3>3. PICK m \in Processes : Moves(p, m) /\ m.pc = AfterStep(proc[p].step) /\ m.step = proc[p].step
      BY <2>1, <3>2, <1>1, GotoMoves DEF SetRunning
    <3>4. CASE proc[p].step < MaxSteps
      <4>1. m.pc = "propose"
        BY <3>3, <3>4 DEF AfterStep
      <4>2. Knows(m)
        BY <4>1, <3>1, <3>3, <3>4 DEF Knows, Stepping, Ending
      <4> QED BY <4>2, <3>3
    <3>5. CASE ~ proc[p].step < MaxSteps
      <4>1. m.pc = "finish"
        BY <3>3, <3>5 DEF AfterStep
      <4>2. db.next = MaxSteps
        BY <3>1, <3>5, <1>1
      <4>3. Knows(m)
        BY <4>1, <4>2, <3>1, <3>3 DEF Knows, Stepping, Ending
      <4> QED BY <4>3, <3>3
    <3> QED BY <3>4, <3>5
  <2>2. CASE Interrupt(p)
    <3>1. Idle \in Processes /\ Moves(p, Idle) /\ Idle.pc = "idle" /\ Idle.step = 0
      BY <2>2, EndsMoves DEF Interrupt
    <3>2. Knows(Idle)
      BY <1>1, <3>1, NothingKnown DEF Stepping, Ending
    <3> QED BY <3>1, <3>2
  <2> QED BY <2>1, <2>2
<1>4. Grows
  BY <1>1, <1>2 DEF Grows
<1>5. LedgerStored' /\ ProposalsStored' /\ EndStored'
  BY <1>1, <1>2 DEF LedgerStored, ProposalsStored, EndStored
<1>6. Knows(m)'
  BY <1>1, <1>2, <1>3, <1>4, KnowledgeKeeps
<1> QED BY <1>1, <1>2, <1>3, <1>4, <1>5, <1>6, StepIsSound

(* The proposal of a step: what is there is kept, what is not is created.    *)
LEMMA ProposeIsSound ==
  ASSUME SearchConstants, SearchInv, damage = 0, NEW p \in Procs, Propose(p)
  PROVE  SearchInv'
<1>1. /\ Shape /\ HasDirectory /\ Sound
      /\ faults \in 0..MaxFaults /\ proc[p] \in Processes /\ Knows(proc[p])
      /\ db \in Databases /\ files \in FileSystems
      /\ db.next \in 0..MaxSteps /\ MaxSteps \in Nat
      /\ LedgerStored /\ ProposalsStored /\ EndStored
  BY SoundState
<1> DEFINE step == proc[p].step
<1>2. /\ proc[p].pc = "propose" /\ files.directory
      /\ db' = db /\ damage' = damage /\ faults' = faults
  BY <1>1 DEF Propose, At, HasDirectory, NoDecay
<1>3. step \in Steps /\ step <= db.next /\ step < MaxSteps
  BY <1>1, <1>2 DEF Processes, Knows, Stepping, Steps
<1>4. files.proposals \in [Steps -> Files(Contents)] /\ files.proposals[step] \in Files(Contents)
  BY <1>1, <1>3 DEF FileSystems
<1> HIDE DEF step
<1>5. CASE Holds(files.proposals[step], step) /\ Goto(p, "append") /\ UNCHANGED files
  <2>1. files.proposals[step] = Whole(step)
    BY <1>4, <1>5, HoldsIsWhole
  <2>2. PICK m \in Processes : Moves(p, m) /\ m.pc = "append" /\ m.step = step
    <3>1. "append" \in Places
      BY DEF Places, Stepping
    <3> QED BY <3>1, <1>1, <1>5, GotoMoves DEF step
  <2>3. Knows(m)
    BY <2>1, <2>2, <1>3 DEF Knows, Stepping, Ending
  <2> QED BY <1>1, <1>2, <1>5, <2>2, <2>3, MoveIsSound
<1>6. CASE Ends(p) /\ UNCHANGED files
  BY <1>1, <1>2, <1>6, EndIsSound
<1>7. CASE /\ files.proposals[step] = Absent
           /\ files' = [files EXCEPT !.proposals[step] = Torn]
           /\ Goto(p, "proposal-text")
  <2>1. PICK m \in Processes : Moves(p, m) /\ m.pc = "proposal-text" /\ m.step = step
    <3>1. "proposal-text" \in Places
      BY DEF Places, Stepping
    <3> QED BY <3>1, <1>1, <1>7, GotoMoves DEF step
  <2>2. Torn \in Files(Contents)
    BY FilesHave
  <2>3. /\ files' \in FileSystems /\ files'.directory
        /\ files'.proposals = [files.proposals EXCEPT ![step] = Torn]
        /\ files'.analysis = files.analysis /\ files'.results = files.results
    BY <1>1, <1>2, <1>3, <1>7, <2>2 DEF FileSystems
  <2>4. Absent # Whole(step)
    BY FilesDiffer
  <2>5. Grows
    BY <1>1, <1>2, <1>4, <1>7, <2>3, <2>4 DEF Grows
  <2>6. ProposalsStored'
    <3> SUFFICES ASSUME NEW s \in Steps
                 PROVE  /\ s < db.next => files'.proposals[s] = Whole(s)
                        /\ s = db.next => files'.proposals[s] \in {Absent, Torn, Whole(s)}
                        /\ s > db.next => files'.proposals[s] = Absent
      BY <1>2 DEF ProposalsStored
    <3>1. CASE s = step
      <4>1. ~ s < db.next
        BY <3>1, <1>1, <1>7, <2>4 DEF ProposalsStored
      <4>2. files'.proposals[s] = Torn
        BY <3>1, <2>3, <1>4, <1>3
      <4>3. ~ s > db.next
        BY <3>1, <1>3, <1>1 DEF Steps
      <4> QED BY <4>1, <4>2, <4>3
    <3>2. CASE s # step
      BY <3>2, <1>1, <1>4, <2>3 DEF ProposalsStored
    <3> QED BY <3>1, <3>2
  <2>7. LedgerStored' /\ EndStored'
    BY <1>1, <1>2, <2>3 DEF LedgerStored, EndStored
  <2>8. Knows(m)'
    BY <2>1, <1>2, <1>3 DEF Knows, Stepping, Ending
  <2>9. db'.status # "none" => files'.directory
    BY <2>3
  <2> QED BY <1>1, <1>2, <2>1, <2>3, <2>5, <2>6, <2>7, <2>8, <2>9, StepIsSound
<1> QED BY <1>5, <1>6, <1>7 DEF Propose, step

(* The text of a proposal is the same whoever writes it.                     *)
LEMMA ProposalTextIsSound ==
  ASSUME SearchConstants, SearchInv, damage = 0, NEW p \in Procs, ProposalText(p)
  PROVE  SearchInv'
<1>1. /\ Shape /\ HasDirectory /\ Sound
      /\ faults \in 0..MaxFaults /\ proc[p] \in Processes /\ Knows(proc[p])
      /\ db \in Databases /\ files \in FileSystems
      /\ db.next \in 0..MaxSteps /\ MaxSteps \in Nat
      /\ LedgerStored /\ ProposalsStored /\ EndStored
  BY SoundState
<1> DEFINE step == proc[p].step
<1>2. /\ proc[p].pc = "proposal-text" /\ files.directory
      /\ db' = db /\ damage' = damage /\ faults' = faults
      /\ files' = [files EXCEPT !.proposals[step] = Whole(step)]
  BY <1>1 DEF ProposalText, At, HasDirectory, NoDecay
<1>3. step \in Steps /\ step <= db.next /\ step < MaxSteps
  BY <1>1, <1>2 DEF Processes, Knows, Stepping, Steps
<1>4. files.proposals \in [Steps -> Files(Contents)]
  BY <1>1 DEF FileSystems
<1>5. PICK m \in Processes : Moves(p, m) /\ m.pc = "append" /\ m.step = step
  <2>1. "append" \in Places
    BY DEF Places, Stepping
  <2> QED BY <2>1, <1>1, GotoMoves DEF ProposalText
<1> HIDE DEF step
<1>6. Whole(step) \in Files(Contents)
  BY <1>3, StepsAreContents, FilesHave
<1>7. /\ files' \in FileSystems /\ files'.directory
      /\ files'.proposals = [files.proposals EXCEPT ![step] = Whole(step)]
      /\ files'.analysis = files.analysis /\ files'.results = files.results
  BY <1>1, <1>2, <1>3, <1>6 DEF FileSystems
<1>8. files'.proposals[step] = Whole(step)
  BY <1>3, <1>4, <1>7
<1>9. Grows
  BY <1>1, <1>2, <1>4, <1>7 DEF Grows
<1>10. ProposalsStored'
  <2> SUFFICES ASSUME NEW s \in Steps
               PROVE  /\ s < db.next => files'.proposals[s] = Whole(s)
                      /\ s = db.next => files'.proposals[s] \in {Absent, Torn, Whole(s)}
                      /\ s > db.next => files'.proposals[s] = Absent
    BY <1>2 DEF ProposalsStored
  <2>1. CASE s = step
    <3>1. ~ s > db.next
      BY <2>1, <1>3, <1>1 DEF Steps
    <3> QED BY <2>1, <3>1, <1>8
  <2>2. CASE s # step
    BY <2>2, <1>1, <1>4, <1>7 DEF ProposalsStored
  <2> QED BY <2>1, <2>2
<1>11. LedgerStored' /\ EndStored'
  BY <1>1, <1>2, <1>7 DEF LedgerStored, EndStored
<1>12. Knows(m)'
  BY <1>2, <1>3, <1>5, <1>8 DEF Knows, Stepping, Ending
<1> QED BY <1>1, <1>2, <1>5, <1>7, <1>9, <1>10, <1>11, <1>12, StepIsSound

(* The unique columns let only the next step in.                             *)
LEMMA OnlyNextIsNew ==
  ASSUME SearchConstants, Shape, LedgerStored, NEW step \in Steps, step <= db.next, ~ Recorded(step)
  PROVE  step = db.next
<1>1. db.next \in 0..MaxSteps /\ MaxSteps \in Nat
  BY DEF Shape, Databases, SearchConstants
<1>2. SUFFICES ASSUME step < db.next PROVE FALSE
  BY <1>1 DEF Steps
<1>3. step + 1 \in 1..db.next
  BY <1>1, <1>2 DEF Steps
<1>4. db.events \in Seq(Events)
  BY DEF Shape, Databases
<1>5. DOMAIN db.events = 1..db.next
  BY <1>4 DEF LedgerStored
<1>6. db.events[step + 1] = EventOf((step + 1) - 1)
  BY <1>3 DEF LedgerStored
<1>7. (step + 1) - 1 = step
  BY DEF Steps
<1>8. db.events[step + 1].sequence = step
  BY <1>6, <1>7 DEF EventOf
<1> QED BY <1>3, <1>5, <1>8 DEF Recorded

(* One transaction appends the row and the event of the next step.           *)
LEMMA AppendIsSound ==
  ASSUME SearchConstants, SearchInv, damage = 0, NEW p \in Procs, AppendEvaluation(p)
  PROVE  SearchInv'
<1>1. /\ Shape /\ HasDirectory /\ Sound
      /\ faults \in 0..MaxFaults /\ proc[p] \in Processes /\ Knows(proc[p])
      /\ db \in Databases /\ files \in FileSystems
      /\ db.next \in 0..MaxSteps /\ MaxSteps \in Nat
      /\ LedgerStored /\ ProposalsStored /\ EndStored
  BY SoundState
<1> DEFINE step == proc[p].step
<1>2. /\ proc[p].pc = "append" /\ files.directory
      /\ files' = files /\ damage' = damage /\ faults' = faults
  BY <1>1 DEF AppendEvaluation, At, HasDirectory, NoDecay
<1>3. step \in Steps /\ step <= db.next /\ step < MaxSteps /\ files.proposals[step] = Whole(step)
  BY <1>1, <1>2 DEF Processes, Knows, Stepping, Steps
<1>4. CASE Recorded(step)
  <2>1. Ends(p) /\ UNCHANGED db
    BY <1>4 DEF AppendEvaluation
  <2> QED BY <2>1, <1>1, <1>2, EndIsSound
<1>5. CASE ~ Recorded(step)
  <2> DEFINE where == IF proc[p].limit # 0 /\ step + 1 >= proc[p].limit
                        THEN "interrupt" ELSE AfterStep(step + 1)
  <2>1. /\ db' = [db EXCEPT !.rows = Append(@, RowOf(step)),
                            !.events = Append(@, EventOf(step)), !.next = step + 1]
        /\ proc' = [proc EXCEPT ![p].step = step + 1, ![p].pc = where]
    BY <1>5 DEF AppendEvaluation
  <2>2. where \in {"interrupt", "propose", "finish"}
        /\ (where = "propose" => step + 1 < MaxSteps)
        /\ (where = "finish" => ~ step + 1 < MaxSteps)
    BY DEF AfterStep
  <2> HIDE DEF where
  <2>3. step + 1 \in 0..MaxSteps
    BY <1>1, <1>3 DEF Steps
  <2>4. PICK m \in Processes : m = [proc[p] EXCEPT !.step = step + 1, !.pc = where]
    BY <1>1, <2>2, <2>3 DEF Processes, Places, Stepping, Ending
  <2>5. Moves(p, m) /\ m.step = step + 1 /\ m.pc = where
    BY <2>1, <2>4, <1>1 DEF Moves, Processes
  <2>6. step = db.next
    BY <1>1, <1>3, <1>5, OnlyNextIsNew
  <2>7. /\ db.rows \in Seq(Rows)
        /\ db.events \in Seq(Events)
    BY <1>1 DEF Databases
  <2>8. RowOf(step) \in Rows /\ EventOf(step) \in Events
    BY <1>3, StepsAreContents
  <2>9. /\ db'.rows = Append(db.rows, RowOf(step)) /\ db'.events = Append(db.events, EventOf(step))
        /\ db'.next = step + 1 /\ db'.status = db.status
    BY <1>1, <2>1 DEF Databases
  <2>10. db' \in Databases
    <3>1. /\ Append(db.rows, RowOf(step)) \in Seq(Rows)
          /\ Append(db.events, EventOf(step))
               \in Seq(Events)
      BY <2>7, <2>8
    <3> QED BY <3>1, <1>1, <2>1, <2>3 DEF Databases
  <2>11. LedgerStored'
    <3> HIDE DEF step
    <3>1. Len(db.rows) = step /\ Len(db.events) = step
      BY <1>1, <2>6 DEF LedgerStored
    <3>2. Len(db'.rows) = db'.next /\ Len(db'.events) = db'.next
      BY <2>7, <2>9, <3>1
    <3>3. ASSUME NEW i \in 1..(step + 1)
          PROVE  db'.events[i] = EventOf(i - 1) /\ db'.rows[i] = RowOf(i - 1)
      <4>1. CASE i = step + 1
        <5>1. i - 1 = step
          BY <4>1, <1>3 DEF Steps
        <5>2. db'.events[i] = EventOf(step) /\ db'.rows[i] = RowOf(step)
          BY <4>1, <2>7, <2>9, <3>1
        <5> QED BY <5>1, <5>2
      <4>2. CASE i # step + 1
        <5>1. i \in 1..step
          BY <4>2, <1>3 DEF Steps
        <5>2. db'.events[i] = db.events[i] /\ db'.rows[i] = db.rows[i]
          BY <5>1, <2>7, <2>9, <3>1
        <5> QED BY <5>1, <5>2, <1>1, <2>6 DEF LedgerStored
      <4> QED BY <4>1, <4>2
    <3> QED BY <3>2, <3>3, <2>9 DEF LedgerStored
  <2>12. ProposalsStored'
    <3> HIDE DEF step
    <3> SUFFICES ASSUME NEW s \in Steps
                 PROVE  /\ s < step + 1 => files.proposals[s] = Whole(s)
                        /\ s = step + 1 => files.proposals[s] \in {Absent, Torn, Whole(s)}
                        /\ s > step + 1 => files.proposals[s] = Absent
      BY <1>2, <2>9 DEF ProposalsStored
    <3>1. s < step + 1 => s = step \/ s < step
      BY <1>3 DEF Steps
    <3>2. s >= step + 1 => s > step
      BY <1>3 DEF Steps
    <3>3. s = step + 1 => s >= step + 1
      BY <1>3 DEF Steps
    <3>4. s > step + 1 => s >= step + 1
      BY <1>3 DEF Steps
    <3> QED BY <3>1, <3>2, <3>3, <3>4, <1>1, <1>3, <2>6 DEF ProposalsStored
  <2>13. EndStored'
    <3>1. db.next # MaxSteps
      BY <1>3, <2>6, <1>1
    <3> QED BY <3>1, <1>1, <1>2, <2>9 DEF EndStored
  <2>14. Grows
    <3>1. db.next <= db'.next
      BY <2>6, <2>9, <1>1
    <3> QED BY <3>1, <1>2 DEF Grows
  <2>15. Knows(m)'
    <3>1. m.step <= db'.next
      BY <2>3, <2>5, <2>9
    <3>2. m.pc \in Stepping => m.step < MaxSteps
      BY <2>2, <2>5 DEF Stepping
    <3>3. m.pc \in Ending => db'.next = MaxSteps
      BY <2>2, <2>3, <2>5, <2>9, <1>1 DEF Ending
    <3>4. m.pc \notin {"append", "results", "results-text", "complete"}
      BY <2>2, <2>5
    <3> QED BY <3>1, <3>2, <3>3, <3>4 DEF Knows
  <2>16. db'.status # "none" => files'.directory
    BY <1>2
  <2> QED BY <1>1, <1>2, <2>4, <2>5, <2>10, <2>11, <2>12, <2>13, <2>14, <2>15, <2>16, StepIsSound
<1> QED BY <1>4, <1>5

(* What results.json is written with at the end of a run.                    *)
LEMMA ResultsOfWholeRun ==
  ASSUME SearchConstants, Shape, LedgerStored, db.next = MaxSteps
  PROVE  /\ ResultsOf(db.events) = [hashes |-> Hashes, first |-> First]
         /\ Phase2ResultsOf(db.events, 0) = [hashes |-> Hashes, first |-> First, analysis |-> 0]
<1>1. db.events \in Seq(Events)
  BY DEF Shape, Databases
<1>2. DOMAIN db.events = 1..MaxSteps
  BY <1>1 DEF LedgerStored
<1>3. ASSUME NEW i \in 1..MaxSteps
      PROVE  db.events[i].hash = i - 1 /\ db.events[i].cost = (i - 1) + 1
  <2>1. db.events[i] = EventOf(i - 1)
    BY DEF LedgerStored
  <2> QED BY <2>1 DEF EventOf
<1>4. [i \in DOMAIN db.events |-> db.events[i].hash] = Hashes
  BY <1>2, <1>3 DEF Hashes
<1>5. (IF FirstExact + 1 \in DOMAIN db.events THEN db.events[FirstExact + 1].cost ELSE 0) = First
  <2>1. FirstExact \in 0..MaxSteps /\ MaxSteps \in Nat
    BY DEF SearchConstants
  <2>2. CASE FirstExact < MaxSteps
    <3>1. FirstExact + 1 \in 1..MaxSteps /\ ((FirstExact + 1) - 1) + 1 = FirstExact + 1
      BY <2>1, <2>2
    <3> QED BY <1>2, <1>3, <2>2, <3>1 DEF First
  <2>3. CASE FirstExact = MaxSteps
    <3>1. FirstExact + 1 \notin 1..MaxSteps
      BY <2>1, <2>3
    <3> QED BY <1>2, <2>1, <2>3, <3>1 DEF First
  <2> QED BY <2>1, <2>2, <2>3
<1>6. ResultsOf(db.events) = [hashes |-> Hashes, first |-> First]
  BY <1>4, <1>5 DEF ResultsOf
<1> QED BY <1>6 DEF Phase2ResultsOf

(* The results of a whole run are a sequence of hashes and a cost.           *)
LEMMA ContentIsTyped ==
  ASSUME SearchConstants
  PROVE  Content \in ResultContents /\ Hashes \in Seq(Contents) /\ Len(Hashes) = MaxSteps
<1>1. MaxSteps \in Nat /\ Phase \in {0, 2} /\ FirstExact \in 0..MaxSteps
  BY DEF SearchConstants
<1>2. (\A i \in 1..MaxSteps : i - 1 \in Contents) /\ First \in Contents /\ 0 \in Contents
  BY <1>1 DEF Contents, First
<1>3. Hashes \in [1..MaxSteps -> Contents]
  BY <1>2 DEF Hashes
<1>4. Hashes \in Seq(Contents)
  BY <1>1, <1>3
<1>5. DOMAIN Hashes = 1..MaxSteps
  BY DEF Hashes
<1>6. Len(Hashes) = MaxSteps
  BY <1>1, <1>4, <1>5
<1> QED BY <1>1, <1>2, <1>4, <1>6 DEF Content, ResultContents

(* A file that the run ends with, created or written with its content.       *)
LEMMA EndFileIsSound ==
  ASSUME SearchConstants, SearchInv, damage = 0, damage' = damage, faults' = faults,
         NEW p \in Procs, NEW m \in Processes, Moves(p, m), db' = db, db.next = MaxSteps,
         files.directory, files' \in FileSystems, files'.directory,
         files'.proposals = files.proposals, Grows,
         files'.analysis \in {files.analysis, Torn, Whole(0)},
         files'.results \in {files.results, Torn, Whole(Content)},
         Knows(m)'
  PROVE  SearchInv'
<1>1. /\ Shape /\ HasDirectory /\ Sound
      /\ faults \in 0..MaxFaults
      /\ db \in Databases
      /\ LedgerStored /\ ProposalsStored /\ EndStored
  BY SoundState
<1>2. LedgerStored' /\ ProposalsStored'
  BY <1>1 DEF LedgerStored, ProposalsStored
<1>3. EndStored'
  BY <1>1 DEF EndStored, Grows
<1> QED BY <1>1, <1>2, <1>3, StepIsSound

(* A run says that it is completed after its last step, and in Phase 2 when  *)
(* its files are written.                                                    *)
LEMMA CompleteIsSound ==
  ASSUME SearchConstants, SearchInv, damage = 0, NEW p \in Procs, Complete(p),
         NEW m \in Processes, Moves(p, m), Knows(m), db.next = MaxSteps, files.directory,
         Phase = 2 => files.analysis = Whole(0) /\ files.results = Whole(Content)
  PROVE  SearchInv'
<1>1. /\ Shape /\ HasDirectory /\ Sound
      /\ faults \in 0..MaxFaults
      /\ db \in Databases /\ files \in FileSystems
      /\ db.next \in 0..MaxSteps /\ MaxSteps \in Nat
      /\ LedgerStored /\ ProposalsStored /\ EndStored
  BY SoundState
<1>2. /\ files' = files /\ damage' = damage /\ faults' = faults
      /\ db' \in Databases /\ db'.next = db.next /\ db'.rows = db.rows /\ db'.events = db.events
  BY <1>1 DEF Complete, NoDecay, Databases
<1>3. Grows
  BY <1>1, <1>2 DEF Grows
<1>4. LedgerStored' /\ ProposalsStored'
  BY <1>1, <1>2 DEF LedgerStored, ProposalsStored
<1>5. EndStored'
  BY <1>1, <1>2 DEF EndStored
<1>6. Knows(m)'
  BY <1>1, <1>2, <1>3, KnowledgeKeeps
<1> QED BY <1>1, <1>2, <1>3, <1>4, <1>5, <1>6, StepIsSound

(* Phase 0 writes its results after it has completed the run.                *)
LEMMA Phase0FinishIsSound ==
  ASSUME SearchConstants, SearchInv, damage = 0, NEW p \in Procs, Phase = 0, Phase0Finish(p)
  PROVE  SearchInv'
<1>1. /\ Shape /\ HasDirectory /\ Sound
      /\ faults \in 0..MaxFaults /\ proc[p] \in Processes /\ Knows(proc[p])
      /\ db \in Databases /\ files \in FileSystems
      /\ db.next \in 0..MaxSteps /\ MaxSteps \in Nat
      /\ LedgerStored /\ ProposalsStored /\ EndStored
  BY SoundState
<1>2. db.next = MaxSteps /\ files.directory
  BY <1>1 DEF Phase0Finish, At, HasDirectory, Knows, Ending
<1>3. \A pc \in {"results", "results-text"} : pc \in Places /\ pc # "append" /\ pc # "complete"
                                              /\ pc \notin Stepping
  BY DEF Places, Ending, Stepping
<1>4. proc[p].step <= db.next
  BY <1>1 DEF Knows
<1>5. CASE /\ Complete(p) /\ Goto(p, "results")
  <2>1. PICK m \in Processes : Moves(p, m) /\ m.pc = "results" /\ m.step = proc[p].step
    BY <1>1, <1>3, <1>5, GotoMoves
  <2>2. Knows(m)
    BY <1>2, <1>4, <2>1 DEF Knows, Stepping
  <2> QED BY <1>2, <1>5, <2>1, <2>2, CompleteIsSound
<1>6. CASE /\ files.results = Absent /\ files' = [files EXCEPT !.results = Torn]
           /\ Goto(p, "results-text") /\ UNCHANGED db /\ NoDecay
  <2>1. PICK m \in Processes : Moves(p, m) /\ m.pc = "results-text" /\ m.step = proc[p].step
    BY <1>1, <1>3, <1>6, GotoMoves
  <2>2. Torn \in Files(ResultContents)
    BY FilesHave
  <2>3. /\ files' \in FileSystems /\ files'.directory = files.directory
        /\ files'.proposals = files.proposals
        /\ files'.analysis = files.analysis /\ files'.results = Torn
    BY <1>1, <1>6, <2>2 DEF FileSystems
  <2>4. Grows
    BY <1>1, <1>6, <2>3, FilesDiffer DEF Grows
  <2>5. Knows(m)'
    BY <1>2, <1>4, <1>6, <2>1 DEF Knows, Stepping
  <2> QED BY <1>2, <1>6, <2>1, <2>3, <2>4, <2>5, EndFileIsSound DEF NoDecay
<1>7. CASE Ends(p) /\ UNCHANGED files /\ UNCHANGED db /\ NoDecay
  BY <1>1, <1>7, EndIsSound DEF NoDecay
<1>8. CASE /\ files' = [files EXCEPT !.results = Whole(ResultsOf(db.events))]
           /\ Ends(p) /\ UNCHANGED db /\ NoDecay
  <2>1. Idle \in Processes /\ Moves(p, Idle) /\ Idle.pc = "idle" /\ Idle.step = 0
    BY <1>8, EndsMoves
  <2>2. ResultsOf(db.events) = Content
    BY <1>1, <1>2, ResultsOfWholeRun DEF Content
  <2>3. Whole(Content) \in Files(ResultContents)
    BY ContentIsTyped, FilesHave
  <2>4. /\ files' \in FileSystems /\ files'.directory = files.directory
        /\ files'.proposals = files.proposals
        /\ files'.analysis = files.analysis /\ files'.results = Whole(Content)
    BY <1>1, <1>8, <2>2, <2>3 DEF FileSystems
  <2>5. Grows
    BY <1>1, <1>8, <2>4 DEF Grows
  <2>6. Knows(Idle)
    BY <1>1, <2>1, NothingKnown DEF Stepping, Ending
  <2>7. Knows(Idle)'
    BY <1>1, <1>8, <2>1, <2>5, <2>6, KnowledgeKeeps
  <2> QED BY <1>2, <1>8, <2>1, <2>4, <2>5, <2>7, EndFileIsSound DEF NoDecay
<1> QED BY <1>5, <1>6, <1>7, <1>8 DEF Phase0Finish, Complete, NoDecay

(* The tables and figures of Phase 2 are there or are written.               *)
LEMMA FiguresAreSound ==
  ASSUME SearchConstants, SearchInv, damage = 0, NEW p \in Procs, WriteFigures(p)
  PROVE  SearchInv'
<1>1. /\ Shape /\ HasDirectory /\ Sound
      /\ faults \in 0..MaxFaults /\ proc[p] \in Processes /\ Knows(proc[p])
      /\ db \in Databases /\ files \in FileSystems
      /\ db.next \in 0..MaxSteps /\ MaxSteps \in Nat
      /\ LedgerStored /\ ProposalsStored /\ EndStored
  BY SoundState
<1>2. db.next = MaxSteps /\ files.directory /\ db' = db /\ damage' = damage /\ faults' = faults
  BY <1>1 DEF WriteFigures, WriteChecked, At, HasDirectory, Knows, Ending, NoDecay
<1>3. \A pc \in {"figures-text", "analysis"} : pc \in Places /\ pc # "append" /\ pc # "complete"
                                               /\ pc \notin Stepping
  BY DEF Places, Ending, Stepping
<1>4. proc[p].step <= db.next /\ files.figures \in Files({Damaged, 0})
  BY <1>1 DEF Knows, FileSystems
<1>5. CASE Holds(files.figures, 0) /\ Goto(p, "analysis") /\ UNCHANGED files
  <2>1. PICK m \in Processes : Moves(p, m) /\ m.pc = "analysis" /\ m.step = proc[p].step
    BY <1>1, <1>3, <1>5, GotoMoves
  <2>3. Knows(m)
    BY <1>2, <1>4, <2>1 DEF Knows, Stepping
  <2> QED BY <1>1, <1>2, <1>5, <2>1, <2>3, MoveIsSound
<1>6. CASE Ends(p) /\ UNCHANGED files
  BY <1>1, <1>2, <1>6, EndIsSound
<1>7. CASE files.figures = Absent /\ files' = [files EXCEPT !.figures = Torn] /\ Goto(p, "figures-text")
  <2>1. PICK m \in Processes : Moves(p, m) /\ m.pc = "figures-text" /\ m.step = proc[p].step
    BY <1>1, <1>3, <1>7, GotoMoves
  <2>2. Torn \in Files({Damaged, 0})
    BY FilesHave
  <2>3. /\ files' \in FileSystems /\ files'.directory = files.directory
        /\ files'.proposals = files.proposals
        /\ files'.analysis = files.analysis /\ files'.results = files.results
    BY <1>1, <1>7, <2>2 DEF FileSystems
  <2>4. Grows
    BY <1>1, <1>2, <1>7, <2>3, FilesDiffer DEF Grows
  <2>5. Knows(m)'
    BY <1>2, <1>4, <2>1 DEF Knows, Stepping
  <2> QED BY <1>2, <2>1, <2>3, <2>4, <2>5, EndFileIsSound
<1>8. CASE files' = [files EXCEPT !.figures = Whole(0)] /\ Goto(p, "analysis")
  <2>1. PICK m \in Processes : Moves(p, m) /\ m.pc = "analysis" /\ m.step = proc[p].step
    BY <1>1, <1>3, <1>8, GotoMoves
  <2>2. Whole(0) \in Files({Damaged, 0})
    BY FilesHave
  <2>3. /\ files' \in FileSystems /\ files'.directory = files.directory
        /\ files'.proposals = files.proposals
        /\ files'.analysis = files.analysis /\ files'.results = files.results
    BY <1>1, <1>8, <2>2 DEF FileSystems
  <2>4. Grows
    BY <1>1, <1>2, <2>3 DEF Grows
  <2>5. Knows(m)'
    BY <1>2, <1>4, <2>1, <2>3 DEF Knows, Stepping
  <2> QED BY <1>2, <2>1, <2>3, <2>4, <2>5, EndFileIsSound
<1> QED BY <1>5, <1>6, <1>7, <1>8 DEF WriteFigures, WriteChecked

(* The analysis and the results of Phase 2 are there or are written, and the *)
(* process that finds or writes one knows it.                                *)
LEMMA AnalysisIsSound ==
  ASSUME SearchConstants, SearchInv, damage = 0, NEW p \in Procs, WriteAnalysis(p)
  PROVE  SearchInv'
<1>1. /\ Shape /\ HasDirectory /\ Sound
      /\ faults \in 0..MaxFaults /\ proc[p] \in Processes /\ Knows(proc[p])
      /\ db \in Databases /\ files \in FileSystems
      /\ db.next \in 0..MaxSteps /\ MaxSteps \in Nat
      /\ LedgerStored /\ ProposalsStored /\ EndStored
  BY SoundState
<1>2. db.next = MaxSteps /\ files.directory /\ db' = db /\ damage' = damage /\ faults' = faults
  BY <1>1 DEF WriteAnalysis, WriteChecked, At, HasDirectory, Knows, Ending, NoDecay
<1>3. \A pc \in {"analysis-text", "results"} : pc \in Places /\ pc # "append" /\ pc # "complete"
                                               /\ pc \notin Stepping
  BY DEF Places, Ending, Stepping
<1>4. proc[p].step <= db.next /\ files.analysis \in Files({Damaged, 0})
  BY <1>1 DEF Knows, FileSystems
<1>5. CASE Holds(files.analysis, 0) /\ Goto(p, "results") /\ UNCHANGED files
  <2>1. PICK m \in Processes : Moves(p, m) /\ m.pc = "results" /\ m.step = proc[p].step
    BY <1>1, <1>3, <1>5, GotoMoves
  <2>2. files.analysis = Whole(0)
    BY <1>4, <1>5, HoldsIsWhole
  <2>3. Knows(m)
    BY <1>2, <1>4, <2>1, <2>2 DEF Knows, Stepping
  <2> QED BY <1>1, <1>2, <1>5, <2>1, <2>3, MoveIsSound
<1>6. CASE Ends(p) /\ UNCHANGED files
  BY <1>1, <1>2, <1>6, EndIsSound
<1>7. CASE files.analysis = Absent /\ files' = [files EXCEPT !.analysis = Torn] /\ Goto(p, "analysis-text")
  <2>1. PICK m \in Processes : Moves(p, m) /\ m.pc = "analysis-text" /\ m.step = proc[p].step
    BY <1>1, <1>3, <1>7, GotoMoves
  <2>2. Torn \in Files({Damaged, 0})
    BY FilesHave
  <2>3. /\ files' \in FileSystems /\ files'.directory = files.directory
        /\ files'.proposals = files.proposals
        /\ files'.analysis = Torn /\ files'.results = files.results
    BY <1>1, <1>7, <2>2 DEF FileSystems
  <2>4. Grows
    BY <1>1, <1>2, <1>7, <2>3, FilesDiffer DEF Grows
  <2>5. Knows(m)'
    BY <1>2, <1>4, <2>1 DEF Knows, Stepping
  <2> QED BY <1>2, <2>1, <2>3, <2>4, <2>5, EndFileIsSound
<1>8. CASE files' = [files EXCEPT !.analysis = Whole(0)] /\ Goto(p, "results")
  <2>1. PICK m \in Processes : Moves(p, m) /\ m.pc = "results" /\ m.step = proc[p].step
    BY <1>1, <1>3, <1>8, GotoMoves
  <2>2. Whole(0) \in Files({Damaged, 0})
    BY FilesHave
  <2>3. /\ files' \in FileSystems /\ files'.directory = files.directory
        /\ files'.proposals = files.proposals
        /\ files'.analysis = Whole(0) /\ files'.results = files.results
    BY <1>1, <1>8, <2>2 DEF FileSystems
  <2>4. Grows
    BY <1>1, <1>2, <2>3 DEF Grows
  <2>5. Knows(m)'
    BY <1>2, <1>4, <2>1, <2>3 DEF Knows, Stepping
  <2> QED BY <1>2, <2>1, <2>3, <2>4, <2>5, EndFileIsSound
<1> QED BY <1>5, <1>6, <1>7, <1>8 DEF WriteAnalysis, WriteChecked

(* The results of Phase 2, written over the whole run.                       *)
LEMMA Phase2ResultsAreSound ==
  ASSUME SearchConstants, SearchInv, damage = 0, NEW p \in Procs, Phase = 2,
         WriteChecked(p, "results", Phase2ResultsOf(db.events, files.analysis.content),
                      "results", "results-text", "complete")
  PROVE  SearchInv'
<1>1. /\ Shape /\ HasDirectory /\ Sound
      /\ faults \in 0..MaxFaults /\ proc[p] \in Processes /\ Knows(proc[p])
      /\ db \in Databases /\ files \in FileSystems
      /\ db.next \in 0..MaxSteps /\ MaxSteps \in Nat
      /\ LedgerStored /\ ProposalsStored /\ EndStored
  BY SoundState
<1>2. /\ db.next = MaxSteps /\ files.directory /\ files.analysis = Whole(0)
      /\ db' = db /\ damage' = damage /\ faults' = faults
  BY <1>1 DEF WriteChecked, At, HasDirectory, Knows, Ending, NoDecay
<1>3. Phase2ResultsOf(db.events, files.analysis.content) = Content
  <2>1. files.analysis.content = 0
    BY <1>2, FilesDiffer
  <2> QED BY <2>1, <1>1, <1>2, ResultsOfWholeRun DEF Content
<1>4. WriteChecked(p, "results", Content, "results", "results-text", "complete")
  BY <1>3
<1>5. \A pc \in {"results-text", "complete"} : pc \in Places /\ pc # "append" /\ pc \notin Stepping
  BY DEF Places, Ending, Stepping
<1>6. proc[p].step <= db.next /\ files.results \in Files(ResultContents)
  BY <1>1 DEF Knows, FileSystems
<1>7. CASE Holds(files.results, Content) /\ Goto(p, "complete") /\ UNCHANGED files
  <2>1. PICK m \in Processes : Moves(p, m) /\ m.pc = "complete" /\ m.step = proc[p].step
    BY <1>1, <1>5, <1>7, GotoMoves
  <2>2. files.results = Whole(Content)
    BY <1>6, <1>7, HoldsIsWhole
  <2>3. Knows(m)
    BY <1>2, <1>6, <2>1, <2>2 DEF Knows, Stepping
  <2> QED BY <1>1, <1>2, <1>7, <2>1, <2>3, MoveIsSound
<1>8. CASE Ends(p) /\ UNCHANGED files
  BY <1>1, <1>2, <1>8, EndIsSound
<1>9. CASE files.results = Absent /\ files' = [files EXCEPT !.results = Torn] /\ Goto(p, "results-text")
  <2>1. PICK m \in Processes : Moves(p, m) /\ m.pc = "results-text" /\ m.step = proc[p].step
    BY <1>1, <1>5, <1>9, GotoMoves
  <2>2. Torn \in Files(ResultContents)
    BY FilesHave
  <2>3. /\ files' \in FileSystems /\ files'.directory = files.directory
        /\ files'.proposals = files.proposals
        /\ files'.analysis = files.analysis /\ files'.results = Torn
    BY <1>1, <1>9, <2>2 DEF FileSystems
  <2>4. Grows
    BY <1>1, <1>2, <1>9, <2>3, FilesDiffer DEF Grows
  <2>5. Knows(m)'
    BY <1>2, <1>6, <2>1, <2>3 DEF Knows, Stepping
  <2> QED BY <1>2, <2>1, <2>3, <2>4, <2>5, EndFileIsSound
<1>10. CASE files' = [files EXCEPT !.results = Whole(Content)] /\ Goto(p, "complete")
  <2>1. PICK m \in Processes : Moves(p, m) /\ m.pc = "complete" /\ m.step = proc[p].step
    BY <1>1, <1>5, <1>10, GotoMoves
  <2>2. Whole(Content) \in Files(ResultContents)
    BY ContentIsTyped, FilesHave
  <2>3. /\ files' \in FileSystems /\ files'.directory = files.directory
        /\ files'.proposals = files.proposals
        /\ files'.analysis = files.analysis /\ files'.results = Whole(Content)
    BY <1>1, <1>10, <2>2 DEF FileSystems
  <2>4. Grows
    BY <1>1, <1>2, <2>3 DEF Grows
  <2>5. Knows(m)'
    BY <1>2, <1>6, <2>1, <2>3 DEF Knows, Stepping
  <2> QED BY <1>2, <2>1, <2>3, <2>4, <2>5, EndFileIsSound
<1> QED BY <1>4, <1>7, <1>8, <1>9, <1>10 DEF WriteChecked

(* Phase 2 completes its run last.                                           *)
LEMMA Phase2FinishIsSound ==
  ASSUME SearchConstants, SearchInv, damage = 0, NEW p \in Procs, Phase = 2, Phase2Finish(p)
  PROVE  SearchInv'
<1>1. CASE At(p, "complete") /\ Complete(p) /\ Ends(p)
  <2>1. Shape /\ HasDirectory /\ Knows(proc[p])
    BY SoundState
  <2>2. db.next = MaxSteps /\ files.directory /\ files.analysis = Whole(0)
        /\ files.results = Whole(Content)
    BY <1>1, <2>1 DEF At, HasDirectory, Knows, Ending
  <2>3. Idle \in Processes /\ Moves(p, Idle) /\ Idle.pc = "idle" /\ Idle.step = 0
    BY <1>1, EndsMoves
  <2>4. Knows(Idle)
    BY <2>1, <2>3, NothingKnown DEF Stepping, Ending
  <2> QED BY <1>1, <2>2, <2>3, <2>4, CompleteIsSound
<1> QED BY <1>1, FiguresAreSound, AnalysisIsSound, Phase2ResultsAreSound DEF Phase2Finish

(* A kill or a signal.                                                       *)
LEMMA StopIsSound ==
  ASSUME SearchConstants, SearchInv, damage = 0, NEW p \in Procs, Crash(p) \/ Signal(p)
  PROVE  SearchInv'
<1>1. /\ Shape /\ HasDirectory
      /\ faults \in 0..MaxFaults /\ proc[p] \in Processes /\ Knows(proc[p])
  BY SoundState
<1>2. UNCHANGED <<db, files>> /\ damage' = damage /\ faults' \in 0..MaxFaults
  <2>1. MaxFaults \in Nat
    BY DEF SearchConstants
  <2> QED BY <2>1, <1>1 DEF Crash, Signal, MayStop
<1>3. CASE Crash(p)
  BY <1>2, <1>3, EndIsSound DEF Crash
<1>4. CASE Signal(p)
  <2>1. "interrupt" \in Places
    BY DEF Places
  <2>2. PICK m \in Processes : Moves(p, m) /\ m.pc = "interrupt" /\ m.step = proc[p].step
    BY <2>1, <1>1, <1>4, GotoMoves DEF Signal
  <2>3. Knows(m)
    BY <1>1, <2>2 DEF Knows, Stepping, Ending
  <2>4. files.directory
    BY <1>1, <1>4 DEF Signal, HasDirectory
  <2> QED BY <1>2, <2>2, <2>3, <2>4, MoveIsSound
<1> QED BY <1>3, <1>4

-----------------------------------------------------------------------------
(* Decay, and the steps of a run in which something has decayed. *)

(* One element of a sequence changes.                                        *)
LEMMA ChangeOne ==
  ASSUME NEW S, NEW s \in Seq(S), NEW i \in DOMAIN s, NEW x \in S
  PROVE  /\ [s EXCEPT ![i] = x] \in Seq(S)
         /\ Len([s EXCEPT ![i] = x]) = Len(s)
         /\ [s EXCEPT ![i] = x][i] = x
         /\ \A j \in DOMAIN s : j # i => [s EXCEPT ![i] = x][j] = s[j]
<1>1. s \in [1..Len(s) -> S] /\ Len(s) \in Nat /\ DOMAIN s = 1..Len(s)
  OBVIOUS
<1>2. [s EXCEPT ![i] = x] \in [1..Len(s) -> S]
  BY <1>1
<1>3. [s EXCEPT ![i] = x] \in Seq(S)
  BY <1>1, <1>2
<1>4. DOMAIN [s EXCEPT ![i] = x] = 1..Len(s)
  BY <1>1
<1>5. Len([s EXCEPT ![i] = x]) = Len(s)
  BY <1>1, <1>3, <1>4
<1> QED BY <1>1, <1>3, <1>5

(* A completed run in which nothing has decayed is recognisable.             *)
LEMMA CompletedIsRecognisable ==
  ASSUME SearchConstants, Shape, Sound, db.status = "completed"
  PROVE  Recognisable
<1>1. LedgerStored /\ ProposalsStored /\ EndStored /\ MaxSteps \in Nat /\ Phase \in {0, 2}
  BY DEF Sound, SearchConstants
<1>2. db.next = MaxSteps /\ (Phase = 2 => files.analysis = Whole(0) /\ files.results = Whole(Content))
  BY <1>1 DEF EndStored
<1>3. \A s \in Steps : files.proposals[s] = Whole(s)
  BY <1>1, <1>2 DEF ProposalsStored, Steps
<1>4. Len(db.events) = MaxSteps /\ Len(db.rows) = MaxSteps
  BY <1>1, <1>2 DEF LedgerStored
<1>5. ASSUME NEW i \in 1..MaxSteps
      PROVE  db.events[i] \in EventStates(i) /\ db.rows[i] \in RowStates(i)
  <2>1. db.events[i] = EventOf(i - 1) /\ db.rows[i] = RowOf(i - 1)
    BY <1>1, <1>2 DEF LedgerStored
  <2>2. (i - 1) + 1 = i
    BY <1>1
  <2> QED BY <2>1, <2>2 DEF EventOf, RowOf, EventStates, RowStates
<1>6. \/ files.results \in {Absent, Torn}
      \/ /\ Len(files.results.content.hashes) = MaxSteps
         /\ files.results.content.first \in {First, Garbled}
         /\ Phase = 2 => files.results.content.analysis \in {0, Garbled}
  <2>1. CASE files.results = Whole(Content)
    <3>1. files.results.content = Content
      BY <2>1, FilesDiffer
    <3>2. Content.hashes = Hashes /\ Content.first = First /\ (Phase = 2 => Content.analysis = 0)
      BY DEF Content
    <3> QED BY <3>1, <3>2, ContentIsTyped
  <2> QED BY <2>1, <1>1 DEF EndStored
<1> QED BY <1>2, <1>3, <1>4, <1>5, <1>6 DEF Recognisable

(* Decay keeps a recognisable run recognisable: a file.                      *)
LEMMA FileDecayIsRecognised ==
  ASSUME SearchConstants, Shape, Recognisable, db' = db, FileDecay
  PROVE  Recognisable' /\ files' \in FileSystems /\ files'.directory = files.directory
<1>1. files \in FileSystems /\ Damaged \in Contents
  BY DEF Shape, Contents
<1>2. Whole(Damaged) \in Files(Contents) /\ Whole(Damaged) \in Files({Damaged, 0})
  BY <1>1, FilesHave
<1>3. CASE \E s \in Steps : files' = [files EXCEPT !.proposals[s] = Whole(Damaged)]
  <2>1. PICK s \in Steps : files' = [files EXCEPT !.proposals[s] = Whole(Damaged)]
    BY <1>3
  <2>2. /\ files' \in FileSystems /\ files'.directory = files.directory
        /\ files'.proposals = [files.proposals EXCEPT ![s] = Whole(Damaged)]
        /\ files'.analysis = files.analysis /\ files'.results = files.results
    BY <1>1, <1>2, <2>1 DEF FileSystems
  <2>3. files.proposals \in [Steps -> Files(Contents)]
    BY <1>1 DEF FileSystems
  <2>4. \A r \in Steps : files'.proposals[r] \in {Whole(r), Whole(Damaged)}
    BY <2>2, <2>3 DEF Recognisable
  <2> QED BY <2>2, <2>4 DEF Recognisable
<1>4. CASE files' = [files EXCEPT !.figures = Whole(Damaged)]
  <2>1. /\ files' \in FileSystems /\ files'.directory = files.directory
        /\ files'.proposals = files.proposals
        /\ files'.analysis = files.analysis /\ files'.results = files.results
    BY <1>1, <1>2, <1>4 DEF FileSystems
  <2> QED BY <2>1 DEF Recognisable
<1>5. CASE files' = [files EXCEPT !.analysis = Whole(Damaged)]
  <2>1. /\ files' \in FileSystems /\ files'.directory = files.directory
        /\ files'.proposals = files.proposals
        /\ files'.analysis = Whole(Damaged) /\ files'.results = files.results
    BY <1>1, <1>2, <1>5 DEF FileSystems
  <2> QED BY <2>1 DEF Recognisable
<1> QED BY <1>3, <1>4, <1>5 DEF FileDecay

(* What the decayed results.json may be.                                     *)
LEMMA ContentDecays ==
  ASSUME SearchConstants, NEW c \in ResultContents, NEW d,
         \/ \E i \in DOMAIN c.hashes : d = [c EXCEPT !.hashes[i] = Garbled]
         \/ d = [c EXCEPT !.first = Garbled]
         \/ Phase = 2 /\ d = [c EXCEPT !.analysis = Garbled]
  PROVE  /\ d \in ResultContents
         /\ Len(d.hashes) = Len(c.hashes)
         /\ d.first \in {c.first, Garbled}
         /\ Phase = 2 => d.analysis \in {c.analysis, Garbled}
<1>1. Garbled \in Contents /\ Phase \in {0, 2}
  BY DEF Contents, SearchConstants
<1>2. c.hashes \in Seq(Contents)
  BY DEF ResultContents
<1>3. CASE \E i \in DOMAIN c.hashes : d = [c EXCEPT !.hashes[i] = Garbled]
  <2>1. PICK i \in DOMAIN c.hashes : d = [c EXCEPT !.hashes[i] = Garbled]
    BY <1>3
  <2> DEFINE h == [c.hashes EXCEPT ![i] = Garbled]
  <2>2. h \in Seq(Contents) /\ Len(h) = Len(c.hashes)
    BY <1>1, <1>2, ChangeOne
  <2>3. d = [c EXCEPT !.hashes = h]
    BY <2>1
  <2> HIDE DEF h
  <2>4. CASE Phase = 0
    <3>1. c \in [hashes : Seq(Contents), first : Contents]
      BY <2>4 DEF ResultContents
    <3>2. d.hashes = h /\ d.first = c.first /\ d \in [hashes : Seq(Contents), first : Contents]
      BY <2>2, <2>3, <3>1
    <3> QED BY <2>2, <2>4, <3>2 DEF ResultContents
  <2>5. CASE Phase = 2
    <3>1. c \in [hashes : Seq(Contents), first : Contents, analysis : Contents]
      BY <2>5 DEF ResultContents
    <3>2. /\ d.hashes = h /\ d.first = c.first /\ d.analysis = c.analysis
          /\ d \in [hashes : Seq(Contents), first : Contents, analysis : Contents]
      BY <2>2, <2>3, <3>1
    <3> QED BY <2>2, <2>5, <3>2 DEF ResultContents
  <2> QED BY <1>1, <2>4, <2>5
<1>4. CASE d = [c EXCEPT !.first = Garbled]
  <2>1. CASE Phase = 0
    BY <1>1, <1>4, <2>1 DEF ResultContents
  <2>2. CASE Phase = 2
    <3>1. c \in [hashes : Seq(Contents), first : Contents, analysis : Contents]
      BY <2>2 DEF ResultContents
    <3>2. /\ d.hashes = c.hashes /\ d.first = Garbled /\ d.analysis = c.analysis
          /\ d \in [hashes : Seq(Contents), first : Contents, analysis : Contents]
      BY <1>1, <1>4, <3>1
    <3> QED BY <2>2, <3>2 DEF ResultContents
  <2> QED BY <1>1, <2>1, <2>2
<1>5. CASE Phase = 2 /\ d = [c EXCEPT !.analysis = Garbled]
  BY <1>1, <1>5 DEF ResultContents
<1> QED BY <1>3, <1>4, <1>5

(* Decay keeps a recognisable run recognisable: results.json.                *)
LEMMA ResultsDecayIsRecognised ==
  ASSUME SearchConstants, Shape, Recognisable, db' = db, ResultsDecay
  PROVE  Recognisable' /\ files' \in FileSystems /\ files'.directory = files.directory
<1>1. files \in FileSystems /\ IsWhole(files.results)
  BY DEF Shape, ResultsDecay
<1>2. files.results \in Files(ResultContents)
  BY <1>1 DEF FileSystems
<1>3. PICK c \in ResultContents : files.results = Whole(c) /\ files.results.content = c
  BY <1>1, <1>2, FileStates, FilesDiffer
<1>4. PICK d : /\ files' = [files EXCEPT !.results.content = d]
               /\ \/ \E i \in DOMAIN c.hashes : d = [c EXCEPT !.hashes[i] = Garbled]
                  \/ d = [c EXCEPT !.first = Garbled]
                  \/ Phase = 2 /\ d = [c EXCEPT !.analysis = Garbled]
  BY <1>3 DEF ResultsDecay
<1>5. /\ d \in ResultContents /\ Len(d.hashes) = Len(c.hashes)
      /\ d.first \in {c.first, Garbled}
      /\ Phase = 2 => d.analysis \in {c.analysis, Garbled}
  BY <1>4, ContentDecays
<1>6. [files.results EXCEPT !.content = d] = Whole(d)
  BY <1>3 DEF Whole
<1>7. Whole(d) \in Files(ResultContents)
  BY <1>5, FilesHave
<1>8. /\ files' \in FileSystems /\ files'.directory = files.directory
      /\ files'.proposals = files.proposals
      /\ files'.analysis = files.analysis /\ files'.results = Whole(d)
  BY <1>1, <1>4, <1>6, <1>7 DEF FileSystems
<1>9. files'.results.content = d
  BY <1>8, FilesDiffer
<1>10. /\ Len(c.hashes) = MaxSteps /\ c.first \in {First, Garbled}
       /\ Phase = 2 => c.analysis \in {0, Garbled}
  BY <1>3, FilesDiffer DEF Recognisable
<1> QED BY <1>5, <1>8, <1>9, <1>10 DEF Recognisable

(* Decay keeps a recognisable run recognisable: a column of a row.           *)
LEMMA RowDecayIsRecognised ==
  ASSUME SearchConstants, Shape, Recognisable, files' = files,
         NEW i \in DOMAIN db.rows, NEW f \in RowColumns,
         db' = [db EXCEPT !.rows[i][f] = Damaged]
  PROVE  Recognisable' /\ db' \in Databases /\ db'.status = db.status
<1>1. db \in Databases /\ Damaged \in Contents /\ MaxSteps \in Nat
  BY DEF Shape, Contents, SearchConstants
<1>2. db.rows \in Seq(Rows)
  BY <1>1 DEF Databases
<1>3. DOMAIN db.rows = 1..MaxSteps
  BY <1>2 DEF Recognisable
<1> DEFINE x == [db.rows[i] EXCEPT ![f] = Damaged]
<1>4. db.rows[i] \in Rows /\ db.rows[i] \in RowStates(i)
  BY <1>2, <1>3 DEF Recognisable
<1>5. x \in Rows /\ x \in RowStates(i)
  <2>1. CASE f = "candidate"
    BY <2>1, <1>1, <1>4 DEF Rows, RowStates
  <2>2. CASE f = "source"
    BY <2>2, <1>1, <1>4 DEF Rows, RowStates
  <2>3. CASE f = "result"
    BY <2>3, <1>1, <1>4 DEF Rows, RowStates
  <2> QED BY <2>1, <2>2, <2>3 DEF RowColumns
<1>6. db'.rows = [db.rows EXCEPT ![i] = x] /\ db' = [db EXCEPT !.rows = [db.rows EXCEPT ![i] = x]]
  BY <1>1 DEF Databases
<1> HIDE DEF x
<1>7. /\ db'.rows \in Seq(Rows)
      /\ Len(db'.rows) = Len(db.rows)
      /\ db'.rows[i] = x
      /\ \A j \in 1..MaxSteps : j # i => db'.rows[j] = db.rows[j]
  <2>1. /\ [db.rows EXCEPT ![i] = x] \in Seq(Rows)
        /\ Len([db.rows EXCEPT ![i] = x]) = Len(db.rows)
        /\ [db.rows EXCEPT ![i] = x][i] = x
        /\ \A j \in DOMAIN db.rows : j # i => [db.rows EXCEPT ![i] = x][j] = db.rows[j]
    BY <1>2, <1>5, ChangeOne
  <2> QED BY <2>1, <1>3, <1>6
<1>8. db' \in Databases /\ db'.status = db.status /\ db'.events = db.events
  BY <1>1, <1>6, <1>7 DEF Databases
<1>9. \A j \in 1..MaxSteps : db'.rows[j] \in RowStates(j)
  BY <1>5, <1>7 DEF Recognisable
<1> QED BY <1>7, <1>8, <1>9 DEF Recognisable

(* Decay keeps a recognisable run recognisable: a column of an event.        *)
LEMMA EventDecayIsRecognised ==
  ASSUME SearchConstants, Shape, Recognisable, files' = files,
         NEW i \in DOMAIN db.events, NEW f \in EventColumns,
         db' = [db EXCEPT !.events[i][f] = Damaged]
  PROVE  Recognisable' /\ db' \in Databases /\ db'.status = db.status
<1>1. db \in Databases /\ Damaged \in Contents /\ MaxSteps \in Nat
  BY DEF Shape, Contents, SearchConstants
<1>2. db.events \in Seq(Events)
  BY <1>1 DEF Databases
<1>3. DOMAIN db.events = 1..MaxSteps
  BY <1>2 DEF Recognisable
<1> DEFINE x == [db.events[i] EXCEPT ![f] = Damaged]
<1>4. db.events[i] \in Events /\ db.events[i] \in EventStates(i)
  BY <1>2, <1>3 DEF Recognisable
<1>5. x \in Events /\ x \in EventStates(i)
  <2>1. CASE f = "sequence"
    BY <2>1, <1>1, <1>4 DEF Events, EventStates
  <2>2. CASE f = "type"
    BY <2>2, <1>1, <1>4 DEF Events, EventStates
  <2>3. CASE f = "cost"
    BY <2>3, <1>1, <1>4 DEF Events, EventStates
  <2>4. CASE f = "payload"
    BY <2>4, <1>1, <1>4 DEF Events, EventStates
  <2>5. CASE f = "hash"
    BY <2>5, <1>1, <1>4 DEF Events, EventStates
  <2> QED BY <2>1, <2>2, <2>3, <2>4, <2>5 DEF EventColumns
<1>6. /\ db'.events = [db.events EXCEPT ![i] = x]
      /\ db' = [db EXCEPT !.events = [db.events EXCEPT ![i] = x]]
  BY <1>1 DEF Databases
<1> HIDE DEF x
<1>7. /\ db'.events \in Seq(Events)
      /\ Len(db'.events) = Len(db.events)
      /\ db'.events[i] = x
      /\ \A j \in 1..MaxSteps : j # i => db'.events[j] = db.events[j]
  <2>1. /\ [db.events EXCEPT ![i] = x] \in Seq(Events)
        /\ Len([db.events EXCEPT ![i] = x]) = Len(db.events)
        /\ [db.events EXCEPT ![i] = x][i] = x
        /\ \A j \in DOMAIN db.events : j # i => [db.events EXCEPT ![i] = x][j] = db.events[j]
    BY <1>2, <1>5, ChangeOne
  <2> QED BY <2>1, <1>3, <1>6
<1>8. db' \in Databases /\ db'.status = db.status /\ db'.rows = db.rows
  BY <1>1, <1>6, <1>7 DEF Databases
<1>9. \A j \in 1..MaxSteps : db'.events[j] \in EventStates(j)
  BY <1>5, <1>7 DEF Recognisable
<1> QED BY <1>7, <1>8, <1>9 DEF Recognisable

(* A value decays in a completed run that nobody works on.                   *)
LEMMA DecayIsSound ==
  ASSUME SearchConstants, SearchInv, Decay
  PROVE  SearchInv'
<1>1. Shape /\ HasDirectory /\ Damaged \in Contents
  BY DEF SearchInv, Contents
<1>2. /\ damage' = damage + 1 /\ damage < MaxDamage /\ MaxDamage \in Nat
      /\ proc' = proc /\ faults' = faults
      /\ db.status = "completed" /\ \A p \in Procs : proc[p].pc = "idle"
  BY DEF Decay, At, SearchConstants
<1>3. Recognisable
  BY <1>1, <1>2, CompletedIsRecognisable DEF SearchInv, Decayed
<1>4. Recognisable' /\ db' \in Databases /\ files' \in FileSystems
      /\ db'.status = db.status /\ files'.directory = files.directory
  <2>1. db \in Databases /\ files \in FileSystems
    BY <1>1 DEF Shape
  <2>2. CASE (FileDecay \/ ResultsDecay) /\ db' = db
    BY <2>1, <2>2, <1>1, <1>3, FileDecayIsRecognised, ResultsDecayIsRecognised
  <2>3. CASE /\ \/ \E n \in 0..MaxSteps : db' = [db EXCEPT !.next = n]
                \/ db' = [db EXCEPT !.task = "changed"]
             /\ files' = files
    <3>1. /\ db' \in Databases /\ db'.status = db.status
          /\ db'.rows = db.rows /\ db'.events = db.events
      BY <2>1, <2>3 DEF Databases
    <3> QED BY <2>1, <2>3, <3>1, <1>3 DEF Recognisable
  <2>4. CASE /\ \E i \in DOMAIN db.rows, f \in RowColumns : db' = [db EXCEPT !.rows[i][f] = Damaged]
             /\ files' = files
    BY <2>1, <2>4, <1>1, <1>3, RowDecayIsRecognised
  <2>5. CASE /\ \E i \in DOMAIN db.events, f \in EventColumns : db' = [db EXCEPT !.events[i][f] = Damaged]
             /\ files' = files
    BY <2>1, <2>5, <1>1, <1>3, EventDecayIsRecognised
  <2> QED BY <2>2, <2>3, <2>4, <2>5 DEF Decay, DatabaseDecay
<1>5. damage' \in 0..MaxDamage /\ damage' # 0
  BY <1>1, <1>2 DEF Shape
<1>6. Shape'
  BY <1>1, <1>2, <1>4, <1>5 DEF Shape
<1>7. HasDirectory'
  BY <1>1, <1>2, <1>4 DEF HasDirectory
<1>8. Decayed'
  BY <1>2, <1>4 DEF Decayed
<1> QED BY <1>5, <1>6, <1>7, <1>8 DEF SearchInv

(* Whoever resumes a completed run changes nothing, decayed or not.          *)
LEMMA DecayedStaysUntouched ==
  ASSUME SearchConstants, SearchInv, damage # 0, NEW p \in Procs,
         Start(p) \/ Resume(p) \/ Step(p) \/ Crash(p) \/ Signal(p)
  PROVE  SearchInv'
<1>1. /\ Shape /\ HasDirectory /\ Decayed
      /\ proc[p] \in Processes /\ proc[p].pc \in {"idle", "open"}
      /\ files.directory /\ db.status = "completed" /\ faults \in 0..MaxFaults
  BY DEF SearchInv, Shape, Decayed, HasDirectory
<1>2. MaxFaults \in Nat
  BY DEF SearchConstants
<1>3. PICK m \in Processes : /\ Moves(p, m) /\ m.pc \in {"idle", "open"}
                             /\ UNCHANGED <<db, files>> /\ damage' = damage /\ faults' \in 0..MaxFaults
  <2>1. CASE Start(p)
    BY <2>1, <1>1 DEF Start
  <2>2. CASE Resume(p)
    <3>1. PICK limit \in Limits :
            proc' = [proc EXCEPT ![p] = [pc |-> "open", step |-> 0, limit |-> limit]]
      BY <2>2 DEF Resume
    <3>2. [pc |-> "open", step |-> 0, limit |-> limit] \in Processes
      BY DEF Processes, Places, SearchConstants
    <3>3. UNCHANGED <<db, files>> /\ damage' = damage /\ faults' = faults
      BY <2>2 DEF Resume, NoDecay
    <3> QED BY <3>1, <3>2, <3>3, <1>1 DEF Moves
  <2>3. CASE Step(p)
    <3>1. Open(p)
      BY <2>3, <1>1 DEF Step, WriteManifest, Initialize, Phase0Execute, Phase2Execute, Body, SetRunning,
                        Propose, ProposalText, AppendEvaluation, Interrupt, Phase0Finish,
                        Phase2Finish, WriteFigures, WriteAnalysis, WriteChecked, At
    <3>2. Ends(p) /\ UNCHANGED <<db, files>> /\ damage' = damage /\ faults' = faults
      BY <3>1, <1>1 DEF Open, NoDecay
    <3> QED BY <3>2, <1>1, EndsMoves
  <2>4. CASE Crash(p)
    <3>1. Ends(p) /\ UNCHANGED <<db, files>> /\ damage' = damage /\ faults' \in 0..MaxFaults
      BY <2>4, <1>1, <1>2 DEF Crash, MayStop
    <3> QED BY <3>1, EndsMoves
  <2>5. CASE Signal(p)
    BY <2>5, <1>1 DEF Signal
  <2> QED BY <2>1, <2>2, <2>3, <2>4, <2>5
<1>4. proc' \in [Procs -> Processes] /\ \A q \in Procs : proc'[q].pc \in {"idle", "open"}
  BY <1>1, <1>3 DEF Moves, Shape, Decayed
<1>5. Shape'
  BY <1>1, <1>3, <1>4 DEF Shape
<1>6. HasDirectory'
  BY <1>1, <1>3 DEF HasDirectory
<1>7. Decayed'
  <2>1. Recognisable'
    BY <1>1, <1>3 DEF Decayed, Recognisable
  <2> QED BY <2>1, <1>1, <1>3, <1>4 DEF Decayed
<1> QED BY <1>3, <1>5, <1>6, <1>7 DEF SearchInv

-----------------------------------------------------------------------------
(* The invariant. *)

(* The empty run is sound.                                                   *)
LEMMA SearchInvInit ==
  ASSUME SearchConstants, Init
  PROVE  SearchInv
<1>1. /\ MaxSteps \in Nat /\ MaxSteps > 0 /\ MaxFaults \in Nat /\ MaxDamage \in Nat
      /\ 0 \in 0..MaxSteps
  BY DEF SearchConstants
<1>2. \A C : Absent \in Files(C)
  BY FilesHave
<1>3. db \in Databases
  BY <1>1 DEF Init, Databases
<1>4. files \in FileSystems
  BY <1>2 DEF Init, FileSystems
<1>5. Idle \in Processes
  BY <1>1 DEF Idle, Processes, Places
<1>6. \A p \in Procs : proc[p] = Idle
  BY DEF Init
<1>7. Shape
  BY <1>1, <1>3, <1>4, <1>5 DEF Init, Shape
<1>8. HasDirectory
  BY <1>6 DEF Init, HasDirectory, Idle
<1>9. LedgerStored /\ EndStored
  BY DEF Init, LedgerStored, EndStored
<1>10. ProposalsStored
  BY <1>1 DEF Init, ProposalsStored, Steps
<1>11. Knows(Idle)
  BY <1>5, <1>7, NothingKnown DEF Idle, Stepping, Ending
<1>12. Sound
  BY <1>6, <1>9, <1>10, <1>11 DEF Sound
<1>13. damage = 0
  BY DEF Init
<1> QED BY <1>7, <1>8, <1>12, <1>13 DEF SearchInv

(* Every step keeps the invariant.                                           *)
LEMMA SearchInvStep ==
  ASSUME SearchConstants, SearchInv, [Next]_vars
  PROVE  SearchInv'
<1>1. CASE UNCHANGED vars
  BY <1>1 DEF vars, SearchInv, Shape, HasDirectory, Sound, Decayed, LedgerStored, ProposalsStored,
              EndStored, Knows, Recognisable
<1>2. CASE Decay
  BY <1>2, DecayIsSound
<1>3. ASSUME NEW p \in Procs, Start(p) \/ Resume(p) \/ Step(p) \/ Crash(p) \/ Signal(p)
      PROVE  SearchInv'
  <2>1. CASE damage # 0
    BY <2>1, <1>3, DecayedStaysUntouched
  <2>2. CASE damage = 0
    <3>1. ASSUME Body(p) PROVE SearchInv'
      BY <2>2, <3>1, OpenIsSound, StatusIsSound, ProposeIsSound, ProposalTextIsSound, AppendIsSound
      DEF Body
    <3>2. CASE Step(p)
      BY <2>2, <3>1, <3>2, StartIsSound, InitializeIsSound, Phase0FinishIsSound, Phase2FinishIsSound
      DEF Step, Phase0Execute, Phase2Execute
    <3> QED BY <1>3, <2>2, <3>2, StartIsSound, ResumeIsSound, StopIsSound
  <2> QED BY <2>1, <2>2
<1> QED BY <1>1, <1>2, <1>3 DEF Next

-----------------------------------------------------------------------------
(* What the invariant says. *)

(* The invariant says what the columns and files hold.                       *)
LEMMA InvIsTyped ==
  ASSUME SearchConstants, SearchInv
  PROVE  SearchTypeOK
<1>1. Shape
  BY DEF SearchInv
<1>2. /\ db.schema \in BOOLEAN
      /\ db.status \in {"none", "running", "interrupted", "completed"}
      /\ db.next \in 0..MaxSteps
      /\ db.task \in {"none", "stored", "changed"}
      /\ db.rows \in Seq(Rows)
      /\ db.events \in Seq(Events)
  BY <1>1 DEF Shape, Databases
<1>3. /\ files.directory \in BOOLEAN
      /\ files.manifest \in Files({0})
      /\ files.proposals \in [Steps -> Files(Contents)]
      /\ files.figures \in Files({Damaged, 0}) /\ files.analysis \in Files({Damaged, 0})
      /\ files.results \in Files(ResultContents)
  BY <1>1 DEF Shape, FileSystems
<1>4. \A c \in ResultContents : c.hashes \in Seq(Contents)
  BY DEF ResultContents
<1>5. files.results \in {Absent, Torn} \/ files.results.content.hashes \in Seq(Contents)
  BY <1>3, <1>4, FileStates
<1>6. \A p \in Procs : proc[p].step \in 0..MaxSteps /\ proc[p].limit \in Limits \cup {0}
  BY <1>1 DEF Shape, Processes
<1>7. faults \in 0..MaxFaults /\ damage \in 0..MaxDamage
  BY <1>1 DEF Shape
<1> QED BY <1>2, <1>3, <1>5, <1>6, <1>7 DEF SearchTypeOK

(* The invariant says what is stored of a run in which nothing has decayed.  *)
LEMMA InvIsStored ==
  ASSUME SearchConstants, SearchInv
  PROVE  LedgerIsSequential /\ EvidencePrecedesEvents /\ ResultsDescribeAllSteps
<1> SUFFICES ASSUME damage = 0
             PROVE  LedgerIsSequential /\ EvidencePrecedesEvents /\ ResultsDescribeAllSteps
  BY DEF LedgerIsSequential, EvidencePrecedesEvents, ResultsDescribeAllSteps
<1>1. Shape /\ LedgerStored /\ ProposalsStored /\ EndStored
  BY DEF SearchInv, Sound
<1>2. LedgerIsSequential
  BY <1>1 DEF LedgerStored, LedgerIsSequential
<1>3. EvidencePrecedesEvents
  BY <1>1, FilesDiffer DEF ProposalsStored, EvidencePrecedesEvents, Holds
<1>4. ASSUME IsWhole(files.results)
      PROVE  Len(db.events) = MaxSteps /\ files.results.content.hashes = ResultsOf(db.events).hashes
  <2>1. db.next = MaxSteps /\ files.results = Whole(Content)
    BY <1>1, <1>4, FilesDiffer DEF EndStored
  <2>2. files.results.content.hashes = Hashes
    BY <2>1, FilesDiffer DEF Content
  <2>3. ResultsOf(db.events).hashes = Hashes
    BY <1>1, <2>1, ResultsOfWholeRun
  <2> QED BY <1>1, <2>1, <2>2, <2>3 DEF LedgerStored
<1> QED BY <1>2, <1>3, <1>4 DEF ResultsDescribeAllSteps

(* What a completed Phase 2 run has stored replays.                          *)
LEMMA InvReplays ==
  ASSUME SearchConstants, SearchInv
  PROVE  CompletedReplays
<1> SUFFICES ASSUME Phase = 2, db.status = "completed", damage = 0
             PROVE  Replays
  BY DEF CompletedReplays
<1>1. Shape /\ LedgerStored /\ ProposalsStored /\ EndStored /\ MaxSteps \in Nat
  BY DEF SearchInv, Sound, SearchConstants
<1>2. db.next = MaxSteps /\ files.analysis = Whole(0) /\ files.results = Whole(Content)
  BY <1>1 DEF EndStored
<1>3. /\ db.rows \in Seq(Rows)
      /\ db.events \in Seq(Events)
  BY <1>1 DEF Shape, Databases
<1>4. DOMAIN db.events = 1..MaxSteps /\ DOMAIN db.rows = 1..MaxSteps
  BY <1>1, <1>2, <1>3 DEF LedgerStored
<1>5. ASSUME NEW i \in DOMAIN db.events
      PROVE  EventReplays(i) /\ db.rows[db.events[i].payload + 1].result = i - 1
  <2>1. i \in 1..MaxSteps /\ i - 1 \in Steps /\ (i - 1) + 1 = i
    BY <1>1, <1>4 DEF Steps
  <2>2. db.events[i] = EventOf(i - 1) /\ db.rows[i] = RowOf(i - 1)
    BY <1>1, <1>2, <2>1 DEF LedgerStored
  <2>3. /\ db.events[i].sequence = i - 1 /\ db.events[i].payload = i - 1
        /\ db.events[i].hash = i - 1 /\ db.events[i].type = 0
        /\ db.rows[i].candidate = i - 1 /\ db.rows[i].result = i - 1
    BY <2>2 DEF EventOf, RowOf
  <2>4. files.proposals[i - 1] = Whole(i - 1)
    BY <1>1, <1>2, <2>1 DEF ProposalsStored, Steps
  <2>5. Holds(Proposal(i - 1), i - 1) /\ Proposal(i - 1).content = i - 1
    BY <2>4, FilesDiffer DEF Proposal, Holds
  <2>6. i \in DOMAIN db.rows
    BY <1>4, <2>1
  <2> QED BY <2>1, <2>3, <2>5, <2>6 DEF EventReplays
<1>6. IsWhole(files.analysis) /\ files.analysis.content = 0
  BY <1>2, FilesDiffer
<1>7. Phase2ResultsOf(db.events, 0) = Content
  BY <1>1, <1>2, ResultsOfWholeRun DEF Content
<1>8. Holds(files.results, Phase2ResultsOf(db.events, files.analysis.content))
  BY <1>2, <1>6, <1>7, FilesDiffer DEF Holds
<1> QED BY <1>5, <1>6, <1>8 DEF Replays, Phase2Replays

(* An event replays exactly if it, its proposal and its candidate's row are  *)
(* what they were.                                                           *)
LEMMA EventVouches ==
  ASSUME SearchConstants, Shape, Recognisable, NEW i \in 1..MaxSteps
  PROVE  EventReplays(i) <=>
           /\ \A f \in {"sequence", "payload", "hash"} : db.events[i][f] = i - 1
           /\ Phase = 0 => db.events[i].type = 0
           /\ files.proposals[i - 1] = Whole(i - 1)
           /\ db.rows[i].candidate = i - 1
<1>1. MaxSteps \in Nat /\ i - 1 \in Steps /\ (i - 1) + 1 = i /\ Damaged \notin Steps /\ Damaged # i - 1
  BY DEF SearchConstants, Steps, Damaged
<1>2. db.events[i] \in EventStates(i) /\ i \in DOMAIN db.rows
  <2>1. db.rows \in Seq(Rows)
    BY DEF Shape, Databases
  <2> QED BY <2>1 DEF Recognisable
<1>3. ASSUME EventReplays(i)
      PROVE  /\ \A f \in {"sequence", "payload", "hash"} : db.events[i][f] = i - 1
             /\ Phase = 0 => db.events[i].type = 0
             /\ files.proposals[i - 1] = Whole(i - 1)
             /\ db.rows[i].candidate = i - 1
  <2>1. db.events[i].payload \in {i - 1, Damaged} /\ db.events[i].payload \in Steps
    BY <1>2, <1>3 DEF EventReplays, EventStates
  <2>2. db.events[i].payload = i - 1
    BY <1>1, <2>1
  <2>3. /\ db.events[i].hash = i - 1 /\ db.events[i].sequence = i - 1
        /\ Phase = 0 => db.events[i].type = 0
    BY <1>3, <2>2 DEF EventReplays
  <2>4. \E k \in DOMAIN db.rows : /\ k = (i - 1) + 1
                                  /\ Holds(Proposal(i - 1), db.rows[k].candidate)
                                  /\ Proposal(i - 1).content = i - 1
    BY <1>3, <2>2 DEF EventReplays
  <2>5. Holds(files.proposals[i - 1], db.rows[i].candidate) /\ files.proposals[i - 1].content = i - 1
    BY <1>1, <2>4 DEF Proposal
  <2>6. db.rows[i].candidate = i - 1
    BY <2>5 DEF Holds
  <2>7. files.proposals[i - 1] \in {Whole(i - 1), Whole(Damaged)}
    BY <1>1 DEF Recognisable
  <2>8. files.proposals[i - 1] = Whole(i - 1)
    BY <1>1, <2>5, <2>7, FilesDiffer
  <2> QED BY <2>2, <2>3, <2>6, <2>8
<1>4. ASSUME \A f \in {"sequence", "payload", "hash"} : db.events[i][f] = i - 1,
             Phase = 0 => db.events[i].type = 0,
             files.proposals[i - 1] = Whole(i - 1),
             db.rows[i].candidate = i - 1
      PROVE  EventReplays(i)
  <2>1. db.events[i].payload = i - 1 /\ db.events[i].hash = i - 1 /\ db.events[i].sequence = i - 1
    BY <1>4
  <2>2. Holds(Proposal(i - 1), db.rows[i].candidate) /\ Proposal(i - 1).content = i - 1
    BY <1>4, FilesDiffer DEF Proposal, Holds
  <2> QED BY <1>1, <1>2, <1>4, <2>1, <2>2 DEF EventReplays
<1> QED BY <1>3, <1>4

(* The first logical cost that a replay rebuilds is the one that was, if the *)
(* event's is, and else one that results.json does not say.                  *)
LEMMA FirstIsRebuilt ==
  ASSUME SearchConstants, Shape, Recognisable
  PROVE  LET first == ResultsOf(db.events).first
         IN  /\ first \in {First, Damaged}
             /\ first = First <=> \A i \in 1..MaxSteps : i = FirstExact + 1 => db.events[i].cost = i
             /\ Damaged # First /\ Damaged # Garbled
<1> DEFINE first == ResultsOf(db.events).first
<1>1. MaxSteps \in Nat /\ FirstExact \in 0..MaxSteps
  BY DEF SearchConstants
<1>2. db.events \in Seq(Events) /\ DOMAIN db.events = 1..MaxSteps
  <2>1. db.events \in Seq(Events)
    BY DEF Shape, Databases
  <2> QED BY <2>1 DEF Recognisable
<1>3. first = IF FirstExact + 1 \in 1..MaxSteps THEN db.events[FirstExact + 1].cost ELSE 0
  BY <1>2 DEF ResultsOf
<1>4. Damaged # First /\ Damaged # Garbled
  BY <1>1 DEF Damaged, Garbled, First
<1> HIDE DEF first
<1>5. CASE FirstExact < MaxSteps
  <2>1. FirstExact + 1 \in 1..MaxSteps /\ First = FirstExact + 1
    BY <1>1, <1>5 DEF First
  <2>2. db.events[FirstExact + 1] \in EventStates(FirstExact + 1)
    BY <2>1 DEF Recognisable
  <2>3. db.events[FirstExact + 1].cost \in {FirstExact + 1, Damaged}
    BY <2>2 DEF EventStates
  <2>4. first = db.events[FirstExact + 1].cost
    BY <1>3, <2>1
  <2>5. first = First <=> \A i \in 1..MaxSteps : i = FirstExact + 1 => db.events[i].cost = i
    BY <2>1, <2>4
  <2> QED BY <1>4, <2>1, <2>3, <2>4, <2>5 DEF first
<1>6. CASE FirstExact = MaxSteps
  <2>1. FirstExact + 1 \notin 1..MaxSteps /\ First = 0
    BY <1>1, <1>6 DEF First
  <2>2. first = First
    BY <1>3, <2>1
  <2> QED BY <1>4, <2>1, <2>2 DEF first
<1> QED BY <1>1, <1>5, <1>6

(* A replay succeeds exactly while nothing has changed that it vouches for.  *)
LEMMA InvDetects ==
  ASSUME SearchConstants, SearchInv
  PROVE  ReplayDetectsDamage
<1> SUFFICES ASSUME db.status = "completed"
             PROVE  Replays <=> Untouched
  BY DEF ReplayDetectsDamage, Replays, Phase0Replays, Phase2Replays
<1>1. MaxSteps \in Nat /\ Phase \in {0, 2}
  BY DEF SearchConstants
<1>2. Shape /\ Recognisable
  BY CompletedIsRecognisable DEF SearchInv, Decayed
<1>3. DOMAIN db.events = 1..MaxSteps
  <2>1. db.events \in Seq(Events)
    BY <1>2 DEF Shape, Databases
  <2> QED BY <2>1, <1>2 DEF Recognisable
<1> DEFINE results == ResultsOf(db.events)
<1>4. /\ results.first \in {First, Damaged} /\ Damaged # First /\ Damaged # Garbled
      /\ results.first = First <=> \A i \in 1..MaxSteps : i = FirstExact + 1 => db.events[i].cost = i
  BY <1>2, FirstIsRebuilt
<1>5. results = [hashes |-> [i \in 1..MaxSteps |-> db.events[i].hash], first |-> results.first]
  BY <1>3 DEF ResultsOf
<1> HIDE DEF results
<1>6. ASSUME Replays PROVE Untouched
  <2>1. \A i \in 1..MaxSteps : EventReplays(i)
    BY <1>3, <1>6 DEF Replays, Phase0Replays, Phase2Replays
  <2>2. \A i \in 1..MaxSteps : /\ \A f \in {"sequence", "payload", "hash"} : db.events[i][f] = i - 1
                               /\ Phase = 0 => db.events[i].type = 0
                               /\ files.proposals[i - 1] = Whole(i - 1)
                               /\ db.rows[i].candidate = i - 1
    BY <1>2, <2>1, EventVouches
  <2>3. ASSUME NEW s \in Steps PROVE files.proposals[s] = Whole(s)
    <3>1. s + 1 \in 1..MaxSteps /\ (s + 1) - 1 = s
      BY <1>1 DEF Steps
    <3> QED BY <3>1, <2>2
  <2>4. ASSUME NEW i \in 1..MaxSteps, Phase = 2 PROVE db.rows[i].result = i - 1
    <3>1. db.rows[db.events[i].payload + 1].result = i - 1
      BY <1>3, <1>6, <2>4 DEF Replays, Phase2Replays
    <3>2. db.events[i].payload = i - 1
      BY <2>2
    <3>3. db.events[i].payload + 1 = i
      BY <3>2
    <3> QED BY <3>1, <3>3
  <2>5. /\ IsWhole(files.results)
        /\ files.results.content.hashes = results.hashes
        /\ files.results.content.first = results.first
        /\ Phase = 2 => /\ IsWhole(files.analysis)
                        /\ files.results.content.analysis = files.analysis.content
    <3>1. CASE Phase = 0
      BY <1>6, <3>1 DEF Replays, Phase0Replays, Holds, results
    <3>2. CASE Phase = 2
      <4>1. /\ IsWhole(files.results) /\ IsWhole(files.analysis)
            /\ files.results.content = Phase2ResultsOf(db.events, files.analysis.content)
        BY <1>6, <3>2 DEF Replays, Phase2Replays, Holds
      <4> QED BY <4>1, <3>2 DEF Phase2ResultsOf, results
    <3> QED BY <1>1, <3>1, <3>2
  <2>6. files.results.content.first \in {First, Garbled}
        /\ (Phase = 2 => files.results.content.analysis \in {0, Garbled})
    BY <1>2, <2>5, FilesDiffer DEF Recognisable
  <2>7. files.results.content.first = First /\ results.first = First
    BY <1>4, <2>5, <2>6
  <2>8. ASSUME Phase = 2 PROVE files.analysis = Whole(0) /\ files.results.content.analysis = 0
    <3>1. files.analysis \in {Whole(0), Whole(Damaged)}
      BY <1>2, <2>8 DEF Recognisable
    <3>2. files.analysis.content \in {0, Damaged} /\ files.analysis = Whole(files.analysis.content)
      BY <3>1, FilesDiffer
    <3>3. Damaged # 0 /\ Garbled # 0 /\ Damaged # Garbled
      BY DEF Damaged, Garbled
    <3> QED BY <2>5, <2>6, <2>8, <3>2, <3>3
  <2>9. results.hashes = [i \in 1..MaxSteps |-> i - 1]
    <3>1. \A i \in 1..MaxSteps : db.events[i].hash = i - 1
      BY <2>2
    <3> QED BY <1>5, <3>1
  <2>10. ResultsUntouched
    BY <2>5, <2>7, <2>8, <2>9 DEF ResultsUntouched, First
  <2>11. \A i \in 1..MaxSteps : EventUntouched(i)
    BY <1>4, <2>2, <2>7 DEF EventUntouched
  <2> QED BY <2>2, <2>3, <2>4, <2>8, <2>10, <2>11 DEF Untouched
<1>7. ASSUME Untouched PROVE Replays
  <2>1. ASSUME NEW i \in 1..MaxSteps
        PROVE  /\ EventReplays(i)
               /\ db.events[i].payload + 1 = i /\ db.events[i].hash = i - 1
               /\ Phase = 2 => db.rows[i].result = i - 1
    <3>1. /\ \A f \in {"sequence", "payload", "hash"} : db.events[i][f] = i - 1
          /\ Phase = 0 => db.events[i].type = 0
          /\ db.rows[i].candidate = i - 1
          /\ Phase = 2 => db.rows[i].result = i - 1
      BY <1>7 DEF Untouched, EventUntouched
    <3>2. files.proposals[i - 1] = Whole(i - 1)
      <4>1. i - 1 \in Steps
        BY <1>1 DEF Steps
      <4> QED BY <1>7, <4>1 DEF Untouched
    <3>3. EventReplays(i)
      BY <1>2, <3>1, <3>2, EventVouches
    <3>4. db.events[i].payload = i - 1 /\ db.events[i].hash = i - 1
      BY <3>1
    <3>5. db.events[i].payload + 1 = i
      BY <3>4
    <3> QED BY <3>1, <3>3, <3>4, <3>5
  <2>2. results.first = First
    BY <1>4, <1>7 DEF Untouched, EventUntouched
  <2>3. results = [hashes |-> [i \in 1..MaxSteps |-> i - 1], first |-> First]
    <3>1. [i \in 1..MaxSteps |-> db.events[i].hash] = [i \in 1..MaxSteps |-> i - 1]
      BY <2>1
    <3> QED BY <1>5, <2>2, <3>1
  <2>4. PICK c \in ResultContents : files.results.content = c /\ IsWhole(files.results)
    <3>1. files.results \in Files(ResultContents) /\ IsWhole(files.results)
      BY <1>2, <1>7 DEF Shape, FileSystems, Untouched, ResultsUntouched
    <3> QED BY <3>1, FileStates, FilesDiffer
  <2>5. c.hashes = [i \in 1..MaxSteps |-> i - 1] /\ c.first = First /\ (Phase = 2 => c.analysis = 0)
    BY <1>7, <2>4 DEF Untouched, ResultsUntouched, First
  <2>6. CASE Phase = 0
    <3>1. c \in [hashes : Seq(Contents), first : Contents]
      BY <2>6 DEF ResultContents
    <3>2. c = results
      BY <2>3, <2>5, <3>1
    <3> QED BY <1>3, <2>1, <2>4, <2>6, <3>2 DEF Replays, Phase0Replays, Holds, results
  <2>7. CASE Phase = 2
    <3>1. c \in [hashes : Seq(Contents), first : Contents, analysis : Contents]
      BY <2>7 DEF ResultContents
    <3>2. IsWhole(files.analysis) /\ files.analysis.content = 0
      BY <1>7, <2>7, FilesDiffer DEF Untouched
    <3>3. Phase2ResultsOf(db.events, 0) =
            [hashes |-> [i \in 1..MaxSteps |-> i - 1], first |-> First, analysis |-> 0]
      BY <2>3 DEF Phase2ResultsOf, results
    <3>4. c = Phase2ResultsOf(db.events, files.analysis.content)
      BY <2>5, <2>7, <3>1, <3>2, <3>3
    <3>5. \A i \in 1..MaxSteps : db.rows[db.events[i].payload + 1].result = i - 1
      BY <2>1, <2>7
    <3> QED BY <1>3, <2>1, <2>4, <2>7, <3>2, <3>4, <3>5 DEF Replays, Phase2Replays, Holds
  <2> QED BY <1>1, <2>6, <2>7
<1> QED BY <1>6, <1>7

-----------------------------------------------------------------------------
(* The theorems. *)

(* The invariant holds, for any number of processes, steps and faults.       *)
LEMMA SearchInvHolds ==
  ASSUME SearchConstants
  PROVE  Spec => []SearchInv
<1>1. Init => SearchInv
  BY SearchInvInit
<1>2. SearchInv /\ [Next]_vars => SearchInv'
  BY SearchInvStep
<1> QED BY <1>1, <1>2, PTL DEF Spec

(* The columns and files of a run hold values of their types (loop.py).      *)
THEOREM SearchTypeCorrect ==
  ASSUME SearchConstants
  PROVE  Spec => []SearchTypeOK
<1>1. SearchInv => SearchTypeOK
  BY InvIsTyped
<1> QED BY <1>1, SearchInvHolds, PTL

(* However many processes execute a run at once and wherever they are killed *)
(* or interrupted, the ledger of events has no gap and no repetition and     *)
(* agrees with run_state, the proposal of every event was durable before it, *)
(* and results.json describes every step (append_evaluation, execute).       *)
THEOREM SearchEvidenceHolds ==
  ASSUME SearchConstants
  PROVE  Spec => [](LedgerIsSequential /\ EvidencePrecedesEvents /\ ResultsDescribeAllSteps)
<1>1. SearchInv => LedgerIsSequential /\ EvidencePrecedesEvents /\ ResultsDescribeAllSteps
  BY InvIsStored
<1> QED BY <1>1, SearchInvHolds, PTL

(* A completed Phase 2 run can be replayed, whatever happened to the         *)
(* processes that executed it (Phase2RunEngine.execute, _replay_phase2).     *)
THEOREM CompletedSearchReplays ==
  ASSUME SearchConstants
  PROVE  Spec => []CompletedReplays
<1>1. SearchInv => CompletedReplays
  BY InvReplays
<1> QED BY <1>1, SearchInvHolds, PTL

(* A replay of a completed run succeeds exactly while none of the values it  *)
(* compares has changed, whichever and however many of the stored values     *)
(* have, those among them that it never compares (replay_run, _replay_phase2).*)
THEOREM ReplayMissesNothing ==
  ASSUME SearchConstants
  PROVE  Spec => []ReplayDetectsDamage
<1>1. SearchInv => ReplayDetectsDamage
  BY InvDetects
<1> QED BY <1>1, SearchInvHolds, PTL

-----------------------------------------------------------------------------
(* Files that nobody finishes. *)

(* A proposal that is not yet written has a process that is about to.        *)
TornIsBeingWritten ==
  damage = 0 =>
    \A s \in Steps : files.proposals[s] = Torn =>
      \E p \in Procs : proc[p].pc = "proposal-text" /\ proc[p].step = s

(* Every step but the writing of the text leaves the processes that write    *)
(* alone, if no process stops between creating a file and writing it.        *)
LEMMA WritersStay ==
  ASSUME SearchConstants, SearchInv, AtomicFiles, NEW p \in Procs,
         Start(p) \/ Resume(p) \/ Step(p) \/ Crash(p) \/ Signal(p), ~ ProposalText(p)
  PROVE  /\ proc[p].pc # "proposal-text"
         /\ \A q \in Procs : q # p => proc'[q] = proc[q]
<1>1. proc \in [Procs -> Processes]
  BY DEF SearchInv, Shape
<1>2. proc[p].pc # "proposal-text"
  <2>1. CASE Step(p)
    BY <2>1 DEF Step, WriteManifest, Initialize, Phase0Execute, Phase2Execute, Body, Open, SetRunning,
                Propose, AppendEvaluation, Interrupt, Phase0Finish, Phase2Finish, WriteFigures,
                WriteAnalysis, WriteChecked, At
  <2>2. CASE Start(p) \/ Resume(p)
    BY <2>2 DEF Start, Resume, At
  <2>3. CASE Crash(p) \/ Signal(p)
    BY <2>3 DEF Crash, Signal, MayStop, Writing
  <2> QED BY <2>1, <2>2, <2>3
<1>3. \E m : proc' = [proc EXCEPT ![p] = m]
  <2>1. CASE Step(p)
    BY <2>1 DEF Step, WriteManifest, Initialize, Phase0Execute, Phase2Execute, Body, Open, SetRunning,
                Propose, ProposalText, AppendEvaluation, Interrupt, Phase0Finish, Phase2Finish,
                WriteFigures, WriteAnalysis, WriteChecked, Goto, Ends
  <2>2. CASE Start(p) \/ Resume(p)
    BY <2>2 DEF Start, Resume
  <2>3. CASE Crash(p) \/ Signal(p)
    BY <2>3 DEF Crash, Signal, Goto, Ends
  <2> QED BY <2>1, <2>2, <2>3
<1>4. \A q \in Procs : q # p => proc'[q] = proc[q]
  BY <1>1, <1>3
<1> QED BY <1>2, <1>4

(* A proposal comes into being only in the hands of its writer.              *)
LEMMA TornStep ==
  ASSUME SearchConstants, AtomicFiles, SearchInv, TornIsBeingWritten, [Next]_vars
  PROVE  TornIsBeingWritten'
<1>1. Shape /\ damage \in Nat
  BY DEF SearchInv, Shape, SearchConstants
<1>2. files \in FileSystems /\ files.proposals \in [Steps -> Files(Contents)]
      /\ proc \in [Procs -> Processes]
  BY <1>1 DEF Shape, FileSystems
<1>3. CASE UNCHANGED vars
  BY <1>3 DEF vars, TornIsBeingWritten
<1>4. CASE Decay
  <2>1. damage' # 0
    BY <1>1, <1>4 DEF Decay
  <2> QED BY <2>1 DEF TornIsBeingWritten
<1>5. ASSUME NEW p \in Procs, Start(p) \/ Resume(p) \/ Step(p) \/ Crash(p) \/ Signal(p)
      PROVE  TornIsBeingWritten'
  <2> SUFFICES ASSUME damage' = 0, NEW s \in Steps, files'.proposals[s] = Torn
               PROVE  \E q \in Procs : proc'[q].pc = "proposal-text" /\ proc'[q].step = s
    BY DEF TornIsBeingWritten
  <2>1. damage = 0
    BY <1>5 DEF Start, Resume, Step, Crash, Signal, MayStop, NoDecay, WriteManifest, Initialize,
                Phase0Execute, Phase2Execute, Body, Open, SetRunning, Propose, ProposalText,
                AppendEvaluation, Interrupt, Phase0Finish, Phase2Finish, WriteFigures,
                WriteAnalysis, WriteChecked, Complete
  <2>2. CASE ProposalText(p)
    <3>1. files'.proposals = [files.proposals EXCEPT ![proc[p].step] = Whole(proc[p].step)]
      BY <1>2, <2>2 DEF ProposalText, FileSystems
    <3>2. s # proc[p].step /\ files.proposals[s] = Torn
      BY <1>2, <3>1, FilesDiffer
    <3>3. PICK q \in Procs : proc[q].pc = "proposal-text" /\ proc[q].step = s
      BY <2>1, <3>2 DEF TornIsBeingWritten
    <3>4. proc'[q] = proc[q]
      BY <1>2, <2>2, <3>2, <3>3 DEF ProposalText, Goto
    <3> QED BY <3>3, <3>4
  <2>3. CASE ~ ProposalText(p) /\ files.proposals[s] = Torn
    <3>1. PICK q \in Procs : proc[q].pc = "proposal-text" /\ proc[q].step = s
      BY <2>1, <2>3 DEF TornIsBeingWritten
    <3>2. proc'[q] = proc[q]
      BY <1>5, <2>3, <3>1, WritersStay
    <3> QED BY <3>1, <3>2
  <2>4. CASE ~ ProposalText(p) /\ files.proposals[s] # Torn
    <3>1. files'.proposals # files.proposals
      BY <2>4
    <3>2. Propose(p)
      BY <1>2, <1>5, <2>4, <3>1 DEF Start, Resume, Step, Crash, Signal, MayStop, WriteManifest,
           Initialize, Phase0Execute, Phase2Execute, Body, Open, SetRunning, AppendEvaluation,
           Interrupt, Phase0Finish, Phase2Finish, WriteFigures, WriteAnalysis, WriteChecked,
           Complete, FileSystems
    <3>3. /\ files' = [files EXCEPT !.proposals[proc[p].step] = Torn]
          /\ Goto(p, "proposal-text")
      BY <3>1, <3>2 DEF Propose
    <3>4. s = proc[p].step
      BY <1>2, <2>4, <3>3 DEF FileSystems
    <3>5. proc'[p].pc = "proposal-text" /\ proc'[p].step = proc[p].step
      BY <1>2, <3>3 DEF Goto, Processes
    <3> QED BY <3>4, <3>5
  <2> QED BY <2>2, <2>3, <2>4
<1> QED BY <1>3, <1>4, <1>5 DEF Next

(* An interrupted step leaves only an idempotent orphan proposal, if no      *)
(* process dies between creating a proposal and writing it: whatever the     *)
(* others did, a later resume accepts each file that is there                *)
(* (write_content_artifact, execute).                                        *)
THEOREM OrphansStayIdempotent ==
  ASSUME SearchConstants, AtomicFiles
  PROVE  Spec => [](damage = 0 => OrphansAreIdempotent)
<1>1. Init => TornIsBeingWritten
  BY FilesDiffer DEF Init, TornIsBeingWritten
<1>2. SearchInv /\ TornIsBeingWritten /\ [Next]_vars => TornIsBeingWritten'
  BY TornStep
<1>3. SearchInv /\ TornIsBeingWritten => (damage = 0 => OrphansAreIdempotent)
  <2> SUFFICES ASSUME SearchInv, TornIsBeingWritten, damage = 0, \A p \in Procs : At(p, "idle"),
                      NEW s \in Steps
               PROVE  files.proposals[s] = Absent \/ Holds(files.proposals[s], s)
    BY DEF OrphansAreIdempotent
  <2>1. files.proposals[s] # Torn
    BY DEF TornIsBeingWritten, At
  <2>2. db.next \in 0..MaxSteps /\ MaxSteps \in Nat
    BY DEF SearchInv, Shape, Databases, SearchConstants
  <2>3. files.proposals[s] \in {Absent, Torn, Whole(s)}
    BY <2>2 DEF SearchInv, Sound, ProposalsStored, Steps
  <2> QED BY <2>1, <2>3, FilesDiffer DEF Holds
<1> QED BY <1>1, <1>2, <1>3, SearchInvHolds, PTL DEF Spec

=============================================================================
