------------------------------ MODULE SearchLoop ------------------------------
(***************************************************************************)
(* The Phase 0 and Phase 2 runs (search/loop.py): a deterministic sequence *)
(* of proposals is evaluated step by step into run.sqlite3 and immutable   *)
(* files; a run is started once, interrupted by a signal or by             *)
(* --interrupt-after, killed, resumed by any process, and replayed.        *)
(*                                                                         *)
(* The engines of the two phases differ in how a run ends: Phase 0 sets    *)
(* the status and then writes results.json; Phase 2 writes its analysis    *)
(* and results.json and then sets the status.  A proposal, its candidate,  *)
(* its evaluation and its event are deterministic functions of the step    *)
(* and are written as the step; Damaged is anything else, and Garbled      *)
(* anything else in results.json: no two decayed values agree by chance.   *)
(***************************************************************************)
EXTENDS Integers, Sequences, FiniteSets, Artifacts

CONSTANTS
  Phase,        \* 0 or 2: config.schema_version
  Procs,        \* operating-system processes that may execute the run
  MaxSteps,     \* config.run.max_steps
  FirstExact,   \* the first step whose candidate is exact; MaxSteps: none is
  Limits,       \* values of --interrupt-after; 0 is none
  MaxFaults,    \* bound: processes killed or interrupted by a signal
  MaxDamage,    \* bound: stored values that decay
  AtomicFiles   \* assume that no process dies between creating and writing

SearchConstants ==
  /\ Phase \in {0, 2}
  /\ MaxSteps \in Nat \ {0}
  /\ FirstExact \in 0..MaxSteps
  /\ Limits \subseteq Nat
  /\ {MaxFaults, MaxDamage} \subseteq Nat
  /\ AtomicFiles \in BOOLEAN

VARIABLES
  db,      \* run.sqlite3: run_state, task, candidate and evaluation, event
  files,   \* manifest.json, proposals/, analysis/, results.json
  proc,    \* what each process is doing
  faults, damage

vars == <<db, files, proc, faults, damage>>

Damaged == -1
Garbled == -2
Steps == 0..MaxSteps - 1

Idle == [pc |-> "idle", step |-> 0, limit |-> 0]

(* A committed step: the candidate with its payload_hash and its source      *)
(* (source_ast_json and candidate_schema_version, Phase 2), the evaluation's *)
(* result, and the event; type 0 is "candidate_evaluated".                   *)
RowOf(step) == [candidate |-> step, source |-> step, result |-> step]
EventOf(step) ==
  [sequence |-> step, type |-> 0, cost |-> step + 1, payload |-> step, hash |-> step]

(* deterministic_results: the hashes of the events and the logical_cost of   *)
(* the first exact one; Phase 2 adds the hash of the analysis manifest.      *)
ResultsOf(events) ==
  [hashes |-> [i \in DOMAIN events |-> events[i].hash],
   first |-> IF FirstExact + 1 \in DOMAIN events THEN events[FirstExact + 1].cost ELSE 0]
Phase2ResultsOf(events, analysis) ==
  [hashes |-> ResultsOf(events).hashes, first |-> ResultsOf(events).first, analysis |-> analysis]

Init ==
  /\ db = [schema |-> FALSE, status |-> "none", next |-> 0, task |-> "none",
           rows |-> <<>>, events |-> <<>>]
  /\ files = [directory |-> FALSE, manifest |-> Absent,
              proposals |-> [s \in Steps |-> Absent],
              figures |-> Absent, analysis |-> Absent, results |-> Absent]
  /\ proc = [p \in Procs |-> Idle]
  /\ faults = 0 /\ damage = 0

Goto(p, pc) == proc' = [proc EXCEPT ![p].pc = pc]
Ends(p) == proc' = [proc EXCEPT ![p] = Idle]   \* the process returns or raises
At(p, pc) == proc[p].pc = pc
NoDecay == UNCHANGED <<faults, damage>>

-----------------------------------------------------------------------------
(* start_run and resume_run. *)

Start(p) ==
  /\ At(p, "idle")
  /\ ~files.directory
  /\ files' = [files EXCEPT !.directory = TRUE]
  /\ \E limit \in Limits :
       proc' = [proc EXCEPT ![p] = [pc |-> "manifest", step |-> 0, limit |-> limit]]
  /\ UNCHANGED db /\ NoDecay

WriteManifest(p) ==
  \/ /\ At(p, "manifest")
     /\ files' = [files EXCEPT !.manifest = Torn]
     /\ Goto(p, "manifest-text")
     /\ UNCHANGED db /\ NoDecay
  \/ /\ At(p, "manifest-text")
     /\ files' = [files EXCEPT !.manifest = Whole(0)]
     /\ Goto(p, "schema")
     /\ UNCHANGED db /\ NoDecay

(* executescript commits the tables before run_state and task have theirs.   *)
Initialize(p) ==
  \/ /\ At(p, "schema")
     /\ db' = [db EXCEPT !.schema = TRUE]
     /\ Goto(p, "insert")
     /\ UNCHANGED files /\ NoDecay
  \/ /\ At(p, "insert")
     /\ db' = [db EXCEPT !.status = "running", !.task = "stored"]
     /\ Goto(p, "open")
     /\ UNCHANGED files /\ NoDecay

(* load_manifest raises without a manifest, state() without a run_state.     *)
ManifestLoads == IsWhole(files.manifest)

Resume(p) ==
  /\ At(p, "idle")
  /\ ManifestLoads
  /\ db.status # "none"
  /\ \E limit \in Limits :
       proc' = [proc EXCEPT ![p] = [pc |-> "open", step |-> 0, limit |-> limit]]
  /\ UNCHANGED <<db, files>> /\ NoDecay

-----------------------------------------------------------------------------
(* The body both engines share. *)

Open(p) ==
  /\ At(p, "open")
  /\ IF db.status = "completed"
       THEN Ends(p)
       ELSE proc' = [proc EXCEPT ![p].pc = "running", ![p].step = db.next]
  /\ UNCHANGED <<db, files>> /\ NoDecay

AfterStep(step) == IF step < MaxSteps THEN "propose" ELSE "finish"

SetRunning(p) ==
  /\ At(p, "running")
  /\ db' = [db EXCEPT !.status = "running"]
  /\ Goto(p, AfterStep(proc[p].step))
  /\ UNCHANGED files /\ NoDecay

(* Mutant: a proposal is written exclusively, like results.json. *)
ProposeExclusively(p) ==
  LET step == proc[p].step IN
  /\ At(p, "propose")
  /\ \/ files.proposals[step] # Absent /\ Ends(p) /\ UNCHANGED files
     \/ /\ files.proposals[step] = Absent
        /\ files' = [files EXCEPT !.proposals[step] = Torn]
        /\ Goto(p, "proposal-text")
  /\ UNCHANGED db /\ NoDecay

(* write_content_artifact of the proposal: found, created, or a collision.   *)
Propose(p) ==
  LET step == proc[p].step  file == files.proposals[step] IN
  /\ At(p, "propose")
  /\ \/ /\ Holds(file, step)
        /\ Goto(p, "append")
        /\ UNCHANGED files
     \/ /\ Collides(file, step)
        /\ Ends(p)
        /\ UNCHANGED files
     \/ /\ file = Absent
        /\ files' = [files EXCEPT !.proposals[step] = Torn]
        /\ Goto(p, "proposal-text")
  /\ UNCHANGED db /\ NoDecay

ProposalText(p) ==
  /\ At(p, "proposal-text")
  /\ files' = [files EXCEPT !.proposals[proc[p].step] = Whole(proc[p].step)]
  /\ Goto(p, "append")
  /\ UNCHANGED db /\ NoDecay

(* Mutant: the tables have no unique columns. *)
RecordedNever(step) == FALSE

(* candidate_id and sequence are unique: a second insertion raises.          *)
Recorded(step) == \E i \in DOMAIN db.events : db.events[i].sequence = step

(* append_evaluation, append_phase2_evaluation: one transaction.             *)
AppendEvaluation(p) ==
  LET step == proc[p].step IN
  /\ At(p, "append")
  /\ IF Recorded(step)
       THEN Ends(p) /\ UNCHANGED db
       ELSE /\ db' = [db EXCEPT !.rows = Append(@, RowOf(step)),
                                !.events = Append(@, EventOf(step)), !.next = step + 1]
            /\ proc' = [proc EXCEPT
                 ![p].step = step + 1,
                 ![p].pc = IF proc[p].limit # 0 /\ step + 1 >= proc[p].limit
                             THEN "interrupt" ELSE AfterStep(step + 1)]
  /\ UNCHANGED files /\ NoDecay

Interrupt(p) ==
  /\ At(p, "interrupt")
  /\ db' = [db EXCEPT !.status = "interrupted"]
  /\ Ends(p)
  /\ UNCHANGED files /\ NoDecay

-----------------------------------------------------------------------------
(* The end of a Phase 0 run: the status first, then the results. *)

Complete(p) ==
  /\ db' = [db EXCEPT !.status = "completed"]
  /\ UNCHANGED files /\ NoDecay

Phase0Finish(p) ==
  \/ /\ At(p, "finish")
     /\ Complete(p)
     /\ Goto(p, "results")
  \/ /\ At(p, "results")
     /\ IF files.results = Absent
          THEN /\ files' = [files EXCEPT !.results = Torn]
               /\ Goto(p, "results-text")
          ELSE Ends(p) /\ UNCHANGED files      \* write_json_exclusive raises
     /\ UNCHANGED db /\ NoDecay
  \/ /\ At(p, "results-text")
     /\ files' = [files EXCEPT !.results = Whole(ResultsOf(db.events))]
     /\ Ends(p)
     /\ UNCHANGED db /\ NoDecay

(* The end of a Phase 2 run: analysis, results, and then the status.         *)
WriteChecked(p, name, content, here, text, next) ==
  \/ /\ At(p, here)
     /\ \/ Holds(files[name], content) /\ Goto(p, next) /\ UNCHANGED files
        \/ Collides(files[name], content) /\ Ends(p) /\ UNCHANGED files
        \/ /\ files[name] = Absent
           /\ files' = [files EXCEPT ![name] = Torn]
           /\ Goto(p, text)
     /\ UNCHANGED db /\ NoDecay
  \/ /\ At(p, text)
     /\ files' = [files EXCEPT ![name] = Whole(content)]
     /\ Goto(p, next)
     /\ UNCHANGED db /\ NoDecay

(* The tables, figures and reports, and then the manifest of their hashes.   *)
WriteFigures(p) == WriteChecked(p, "figures", 0, "finish", "figures-text", "analysis")
WriteAnalysis(p) == WriteChecked(p, "analysis", 0, "analysis", "analysis-text", "results")

Phase2Finish(p) ==
  \/ WriteFigures(p)
  \/ WriteAnalysis(p)
  \/ WriteChecked(p, "results", Phase2ResultsOf(db.events, files.analysis.content),
                  "results", "results-text", "complete")
  \/ At(p, "complete") /\ Complete(p) /\ Ends(p)

(* RunEngine.execute and Phase2RunEngine.execute.                            *)
Body(p) == Open(p) \/ SetRunning(p) \/ Propose(p) \/ ProposalText(p) \/ AppendEvaluation(p) \/ Interrupt(p)
Phase0Execute(p) == Phase = 0 /\ (Body(p) \/ Phase0Finish(p))
Phase2Execute(p) == Phase = 2 /\ (Body(p) \/ Phase2Finish(p))

Step(p) == WriteManifest(p) \/ Initialize(p) \/ Phase0Execute(p) \/ Phase2Execute(p)

-----------------------------------------------------------------------------
(* Faults. *)

Writing == {"manifest-text", "proposal-text", "figures-text", "analysis-text", "results-text"}
MayStop(p) == /\ faults < MaxFaults
              /\ ~(AtomicFiles /\ proc[p].pc \in Writing)
              /\ faults' = faults + 1
              /\ UNCHANGED <<files, damage>>

(* The process is killed.                                                    *)
Crash(p) ==
  /\ ~At(p, "idle")
  /\ MayStop(p)
  /\ Ends(p)
  /\ UNCHANGED db

(* KeyboardInterrupt inside the try block of execute.                        *)
Signal(p) ==
  /\ proc[p].pc \in {"propose", "proposal-text", "append", "interrupt"}
  /\ MayStop(p)
  /\ Goto(p, "interrupt")
  /\ UNCHANGED db

(* One stored value of a completed run decays: any of them, except for       *)
(* manifest.json, from which a replay takes its configuration.               *)
FileDecay ==
  \/ \E s \in Steps : files' = [files EXCEPT !.proposals[s] = Whole(Damaged)]
  \/ IsWhole(files.figures) /\ files' = [files EXCEPT !.figures = Whole(Damaged)]
  \/ IsWhole(files.analysis) /\ files' = [files EXCEPT !.analysis = Whole(Damaged)]
ResultsDecay ==
  /\ IsWhole(files.results)
  /\ \/ \E i \in DOMAIN files.results.content.hashes :
            files' = [files EXCEPT !.results.content.hashes[i] = Garbled]
     \/ files' = [files EXCEPT !.results.content.first = Garbled]
     \/ Phase = 2 /\ files' = [files EXCEPT !.results.content.analysis = Garbled]

RowColumns == {"candidate", "source", "result"}
EventColumns == {"sequence", "type", "cost", "payload", "hash"}
DatabaseDecay ==
  \/ \E n \in 0..MaxSteps : db' = [db EXCEPT !.next = n]
  \/ db' = [db EXCEPT !.task = "changed"]
  \/ \E i \in DOMAIN db.rows, f \in RowColumns : db' = [db EXCEPT !.rows[i][f] = Damaged]
  \/ \E i \in DOMAIN db.events, f \in EventColumns : db' = [db EXCEPT !.events[i][f] = Damaged]

Decay ==
  /\ damage < MaxDamage
  /\ damage' = damage + 1
  /\ db.status = "completed"
  /\ \A p \in Procs : At(p, "idle")
  /\ \/ (FileDecay \/ ResultsDecay) /\ UNCHANGED db
     \/ DatabaseDecay /\ UNCHANGED files
  /\ UNCHANGED <<proc, faults>>

Next == \/ \E p \in Procs : Start(p) \/ Resume(p) \/ Step(p) \/ Crash(p) \/ Signal(p)
        \/ Decay

(* The operating system runs a live process, and somebody resumes in the end *)
(* a run that is not completed.                                              *)
Fairness == /\ \A p \in Procs : WF_vars(Step(p))
            /\ SF_vars(\E p \in Procs : Start(p) \/ (db.status # "completed" /\ Resume(p)))
Spec == Init /\ [][Next]_vars
LiveSpec == Spec /\ Fairness

-----------------------------------------------------------------------------
(* replay_run: every event is rebuilt from the recorded proposal.            *)

Proposal(step) == files.proposals[step]

(* Mutant: the proposal is not compared with its row. *)
EventReplaysUnread(i) ==
  LET e == db.events[i]  step == e.payload IN
  /\ e.sequence = i - 1
  /\ e.hash = e.payload
  /\ Phase = 0 => e.type = 0
  /\ step \in Steps
  /\ \E k \in DOMAIN db.rows : k = step + 1 /\ db.rows[k].candidate = step

(* The checks of one event, which the two phases share except for the one of *)
(* its type; the candidate is the one the event's payload names.             *)
EventReplays(i) ==
  LET e == db.events[i]  step == e.payload IN
  /\ e.sequence = i - 1
  /\ e.hash = e.payload
  /\ Phase = 0 => e.type = 0
  /\ step \in Steps
  /\ \E k \in DOMAIN db.rows :
       /\ k = step + 1
       /\ Holds(Proposal(step), db.rows[k].candidate)
       /\ Proposal(step).content = step

Phase0Replays ==
  /\ db.status = "completed"
  /\ \A i \in DOMAIN db.events : EventReplays(i)
  /\ Holds(files.results, ResultsOf(db.events))

Phase2Replays ==
  /\ db.status = "completed"
  /\ \A i \in DOMAIN db.events :
       EventReplays(i) /\ db.rows[db.events[i].payload + 1].result = i - 1
  /\ IsWhole(files.analysis)
  /\ Holds(files.results, Phase2ResultsOf(db.events, files.analysis.content))

Replays == IF Phase = 0 THEN Phase0Replays ELSE Phase2Replays

-----------------------------------------------------------------------------
(* Properties. *)

Contents == {Garbled, Damaged} \cup 0..MaxSteps
Rows == [candidate : Contents, source : Contents, result : Contents]
Events ==
  [sequence : Contents, type : Contents, cost : Contents, payload : Contents, hash : Contents]
Files(content) == {Absent, Torn} \cup {Whole(c) : c \in content}

(* The columns and files hold values of their types.                         *)
SearchTypeOK ==
  /\ db.schema \in BOOLEAN
  /\ db.status \in {"none", "running", "interrupted", "completed"}
  /\ db.next \in 0..MaxSteps
  /\ db.task \in {"none", "stored", "changed"}
  /\ db.rows \in Seq(Rows)
  /\ db.events \in Seq(Events)
  /\ files.directory \in BOOLEAN
  /\ files.manifest \in Files({0})
  /\ files.proposals \in [Steps -> Files(Contents)]
  /\ files.figures \in Files({Damaged, 0}) /\ files.analysis \in Files({Damaged, 0})
  /\ files.results \in {Absent, Torn} \/ files.results.content.hashes \in Seq(Contents)
  /\ \A p \in Procs : proc[p].step \in 0..MaxSteps /\ proc[p].limit \in Limits \cup {0}
  /\ faults \in 0..MaxFaults /\ damage \in 0..MaxDamage

(* Two processes that resume the same run at once read the same next_step    *)
(* and evaluate the same candidates.  Whatever they do, the ledger of events *)
(* has no gap and no repetition, each event has its candidate and evaluation,*)
(* and run_state agrees with it (append_evaluation, append_phase2_evaluation).*)
LedgerIsSequential ==
  damage = 0 =>
    /\ Len(db.events) = db.next /\ Len(db.rows) = db.next
    /\ \A i \in 1..db.next : db.events[i] = EventOf(i - 1) /\ db.rows[i] = RowOf(i - 1)

(* The proposal of every committed event is whole and its own, although an   *)
(* earlier process may have died while it wrote the file, and a crash leaves *)
(* at most the one proposal behind that comes next (execute).                *)
EvidencePrecedesEvents ==
  damage = 0 =>
    /\ \A s \in Steps : s < db.next => Holds(files.proposals[s], s)
    /\ \A s \in Steps : s > db.next => files.proposals[s] = Absent

(* results.json is written over the whole run, also when two processes reach *)
(* the end at different times or one of them died there.                     *)
ResultsDescribeAllSteps ==
  damage = 0 /\ IsWhole(files.results) =>
    Len(db.events) = MaxSteps /\ files.results.content.hashes = ResultsOf(db.events).hashes

(* A completed Phase 2 run can be replayed, whatever happened to the         *)
(* processes that executed it: analysis and results are durable before the   *)
(* status is (Phase2RunEngine.execute).                                      *)
CompletedReplays ==
  Phase = 2 /\ db.status = "completed" /\ damage = 0 => Replays

(* What a replay vouches for: every proposal, the sequence, payload and hash *)
(* of every event, in Phase 0 its type, the candidate's row, in Phase 2 its  *)
(* evaluation, the logical_cost of the first exact event, results.json, and  *)
(* in Phase 2 the analysis manifest.                                         *)
EventUntouched(i) ==
  /\ \A f \in {"sequence", "payload", "hash"} : db.events[i][f] = i - 1
  /\ Phase = 0 => db.events[i].type = 0
  /\ i = FirstExact + 1 => db.events[i].cost = i
ResultsUntouched ==
  /\ IsWhole(files.results)
  /\ files.results.content.hashes = [i \in 1..MaxSteps |-> i - 1]
  /\ files.results.content.first = IF FirstExact < MaxSteps THEN FirstExact + 1 ELSE 0
  /\ Phase = 2 => files.results.content.analysis = 0
Untouched ==
  /\ \A s \in Steps : files.proposals[s] = Whole(s)
  /\ \A i \in 1..MaxSteps :
       /\ EventUntouched(i)
       /\ db.rows[i].candidate = i - 1
       /\ Phase = 2 => db.rows[i].result = i - 1
  /\ ResultsUntouched
  /\ Phase = 2 => files.analysis = Whole(0)

(* A completed run replays exactly while nothing has changed that a replay   *)
(* vouches for.  It fails when anything of that has, and nothing else makes  *)
(* it fail: not Phase 0's evaluation rows, the other logical costs, Phase 2's*)
(* event types, the sources and schema versions of its candidates, next_step,*)
(* the task's row, or the files of the analysis beside their manifest, none  *)
(* of which is compared (replay_run, _replay_phase2).                        *)
ReplayDetectsDamage == Replays <=> db.status = "completed" /\ Untouched

(* A run whose database was initialized is completed in the end, however     *)
(* often its processes are killed or interrupted, as long as none dies       *)
(* between creating a file and writing it and somebody resumes the run.      *)
RunsComplete == db.status # "none" ~> db.status = "completed"

(* An interrupted step leaves only an idempotent orphan proposal: a file     *)
(* that is there when no process is left is one a resume accepts.            *)
OrphansAreIdempotent ==
  (\A p \in Procs : At(p, "idle")) =>
    \A s \in Steps : files.proposals[s] = Absent \/ Holds(files.proposals[s], s)
=============================================================================
