-------------------------- MODULE ExperienceLineage --------------------------
(***************************************************************************)
(* The contextual experience of one Phase 4 run (experience_v3): what the  *)
(* engine records of every parent-to-child step (search/phase4.py), the    *)
(* annotation of the records with what became of the child's descendants   *)
(* (memory/contextual.py), the files written at the end of the run         *)
(* (memory/contextual_artifacts.py), and the later import of the same run  *)
(* from its database alone (evaluation/phase5_contextual.py).              *)
(*                                                                         *)
(* A record is an immutable file that is written before the evaluation it  *)
(* describes is committed; a process may die anywhere and is resumed.  How *)
(* a request is paid for and answered is module Phase4Run: here a request  *)
(* is answered in one step, and its answer is durable.  Evaluations are    *)
(* numbered from 1.                                                        *)
(***************************************************************************)
EXTENDS Integers, Sequences, FiniteSets, FiniteSetsExt, SequencesExt

CONSTANTS
  Programs,            \* canonical candidate programs
  Errors,              \* local_errors of each program
  Cases,               \* local_cases
  InitialPrograms,     \* initialization_candidates()
  BatchSize,
  MaxEvaluations,      \* the oracle budget of the run
  MaxCalls,            \* its budget of logical calls
  Draws,               \* what the scheduler's hash of a call may select
  Prompt,              \* the prompt of a parent after so many evaluations
  Horizon,             \* short_horizon_steps
  MaxCrashes,          \* bound: processes that die
  None

LineageConstants ==
  /\ Errors \in [Programs -> 0..Cases]
  /\ InitialPrograms \in Seq(Programs) /\ InitialPrograms # <<>>
  /\ BatchSize \in Nat \ {0} /\ MaxEvaluations \in Nat /\ MaxCalls \in Nat /\ Horizon \in Nat \ {0}
  /\ Draws \subseteq Nat /\ MaxCrashes \in Nat
  /\ DOMAIN Prompt = 0..MaxEvaluations
  /\ None \notin Programs

VARIABLES
  draw,        \* the scheduler's draw at each logical call: a function of the seed
  evaluation,  \* the evaluation table: candidate, call and ordinal of each row
  request,     \* the last request row and its durable answer, or None
  context,     \* context/logical-*.json
  raw,         \* raw/evaluation-*.json
  annotated,   \* annotated/evaluation-*.json
  summary,     \* summary.json, or None
  access,      \* the purpose in access-ledger.json, or None
  results,     \* results.json, or None
  status,
  proc,        \* the process executing the run: its place and memory
  crashes

ending == <<access, results, status>>
vars == <<draw, evaluation, request, context, raw, annotated, summary, ending, proc, crashes>>

-----------------------------------------------------------------------------
(* Candidates and their lineage. *)

Calls == 0..MaxCalls
NoProcess == [pc |-> "none", seen |-> {}, next |-> 0, purpose |-> "none"]

Evaluated == Range(evaluation)
Candidates == {row.candidate : row \in Evaluated}

(* phase4_candidate: the identity hashes the program, the parent and the     *)
(* prompt that asked for it.                                                 *)
Candidate(program, parent, prompt) == [program |-> program, parent |-> parent, prompt |-> prompt]

Score(c) == Cases - Errors[c.program]
Exact(c) == Errors[c.program] = 0

(* evaluation_by_candidate: the first evaluation of a candidate.             *)
FirstEvaluation(c) == Min({i \in DOMAIN evaluation : evaluation[i].candidate = c})

Children(c) == {d \in Candidates : d.parent = c}

(* The descendants the annotator visits from the frontier, with their depth: *)
(* it stops at a candidate that was first evaluated no later than the record.*)
RECURSIVE Descendants(_, _, _)
Descendants(frontier, depth, index) ==
  LET later == {d \in UNION {Children(c) : c \in frontier} : FirstEvaluation(d) > index}
  IN IF later = {} THEN {}
     ELSE {<<d, depth>> : d \in later} \cup Descendants(later, depth + 1, index)

(* The largest of a set of numbers, or the default of Python's max.          *)
MaxOr(S, default) == IF S = {} THEN default ELSE Max(S)

(* DownstreamOutcomeAnnotator.annotate for one record.                       *)
Downstream(record) ==
  LET found  == Descendants({record.child}, 1, record.index)
      all    == {pair[1] : pair \in found}
      exact  == {c \in all : Exact(c)}
      short  == {c \in all : FirstEvaluation(c) <= record.index + Horizon}
      best   == MaxOr({Score(c) : c \in all}, record.score)
  IN [eventuallyExact |-> exact # {},
      until           |-> IF exact = {} THEN None
                          ELSE Min({FirstEvaluation(c) : c \in exact}) - record.index,
      best            |-> best,
      improvement     |-> best - record.score,
      survival        |-> MaxOr({pair[2] : pair \in found}, 0),
      shortGain       |-> MaxOr({Score(c) : c \in short}, record.score) - record.score,
      shortExact      |-> \E c \in short : Exact(c)]

(* Lineage depth and plateau of a parent: the ancestors that follow it with  *)
(* as many errors as it has, up to the first that differs.                   *)
RECURSIVE Ancestors(_)
Ancestors(c) == IF c.parent = None THEN <<>> ELSE <<c.parent>> \o Ancestors(c.parent)

Plateau(c) ==
  LET line == Ancestors(c)
  IN Max({n \in 0..Len(line) : \A i \in 1..n : Errors[line[i].program] = Errors[c.program]})

ContextOf(parent, stage) ==
  [parent |-> parent, stage |-> stage,
   depth |-> Len(Ancestors(parent)), plateau |-> Plateau(parent)]

-----------------------------------------------------------------------------
(* The records. *)

(* create_experience_record: the record of an evaluation.                    *)
Record(row, index, where, duplicate) ==
  [child |-> row.candidate, parent |-> row.candidate.parent, index |-> index,
   call |-> row.call, ordinal |-> row.ordinal, context |-> where,
   score |-> Score(row.candidate),
   delta |-> Errors[row.candidate.parent.program] - Errors[row.candidate.program],
   duplicate |-> duplicate]

Annotated(record) == [record |-> record, downstream |-> Downstream(record)]

(* The records finalize_experience_artifacts annotates: those whose child is *)
(* a candidate of the database.                                              *)
Committed == {i \in DOMAIN raw : raw[i].child \in Candidates}

(* The stage of a call, seen from the rows it left.                          *)
ImportedStage(call) == Min({i \in DOMAIN evaluation : evaluation[i].call = call}) - 1

(* extract_contextual_records_from_run: the records of a run, from its       *)
(* database alone.                                                           *)
Imported ==
  {Annotated(Record(evaluation[i], i,
                    ContextOf(evaluation[i].candidate.parent, ImportedStage(evaluation[i].call)),
                    evaluation[i].duplicate))
     : i \in {j \in DOMAIN evaluation : evaluation[j].candidate.parent # None}}

-----------------------------------------------------------------------------
Init ==
  /\ draw \in [Calls -> Draws]
  /\ evaluation = <<>> /\ request = None
  /\ context = <<>> /\ raw = <<>> /\ annotated = <<>> /\ summary = None
  /\ access = None /\ results = None /\ status = "created" /\ proc = NoProcess /\ crashes = 0

At(pc) == proc.pc = pc
Goto(pc) == proc' = [proc EXCEPT !.pc = pc]

(* write_content_artifact: the same content again is accepted, another one   *)
(* raises.                                                                   *)
Writable(files, key, content) == key \notin DOMAIN files \/ files[key] = content
With(files, key, content) == [k \in DOMAIN files \cup {key} |-> IF k = key THEN content ELSE files[k]]

(* Mutant: the duplicates of the earlier processes are forgotten. *)
RestoredNothing == {}

(* The programs a process knows of when it starts: _restore.                 *)
Restored == {c.program : c \in Candidates}

(* start_phase4_run or resume_phase4_run up to the loop of initializations.  *)
(* The two declare different purposes for opening the task.                  *)
Resume ==
  /\ At("none") /\ status # "completed"
  /\ proc' = [pc |-> "initialize", seen |-> Restored, next |-> 0,
              purpose |-> IF status = "created" THEN "run" ELSE "resume"]
  /\ status' = "running"
  /\ UNCHANGED <<draw, evaluation, request, context, raw, annotated, summary, access, results,
                 crashes>>

Crash ==
  /\ ~ At("none") /\ ~ At("refused") /\ crashes < MaxCrashes
  /\ crashes' = crashes + 1 /\ proc' = NoProcess
  /\ UNCHANGED <<draw, evaluation, request, context, raw, annotated, summary, ending>>

(* append_evaluation.                                                        *)
Commit(row) ==
  /\ evaluation' = Append(evaluation, row)
  /\ proc' = [proc EXCEPT !.seen = @ \cup {row.candidate.program},
                          !.pc = IF At("commit") THEN "items" ELSE @]

Initialize ==
  /\ At("initialize") /\ Len(evaluation) < Len(InitialPrograms)
  /\ Commit([candidate |-> Candidate(InitialPrograms[Len(evaluation) + 1], None, None),
             call |-> None, ordinal |-> 0, duplicate |-> FALSE])
  /\ UNCHANGED <<draw, request, context, raw, annotated, summary, ending, crashes>>

(* _incomplete_request: an answer whose items are not all processed comes    *)
(* before any new call.                                                      *)
Initialized ==
  /\ At("initialize") /\ Len(evaluation) >= Len(InitialPrograms)
  /\ Goto(IF request # None /\ request.next <= Len(request.items) THEN "items" ELSE "loop")
  /\ UNCHANGED <<draw, evaluation, request, context, raw, annotated, summary, ending, crashes>>

NextCall == IF request = None THEN 0 ELSE request.call + 1
Exhausted == Len(evaluation) >= MaxEvaluations \/ NextCall > MaxCalls

(* UniformScheduler and the first candidate of its branch: a function of the *)
(* seed, the call and the evaluated candidates.                              *)
Selected == evaluation[1 + (draw[NextCall] % Len(evaluation))].candidate

(* The parent's context goes to its file before the request is built.        *)
WriteContext ==
  LET content == ContextOf(Selected, Len(evaluation))
  IN /\ At("loop") /\ ~ Exhausted
     /\ IF Writable(context, NextCall, content)
        THEN context' = With(context, NextCall, content) /\ Goto("ask")
        ELSE UNCHANGED context /\ Goto("refused")
     /\ UNCHANGED <<draw, evaluation, request, raw, annotated, summary, ending, crashes>>

(* The model answers with a batch; an item that is not accepted is None.     *)
Answer(items) ==
  /\ At("ask")
  /\ Len(items) = Min({BatchSize, MaxEvaluations - Len(evaluation)})
  /\ request' = [call |-> NextCall, parent |-> Selected, items |-> items, next |-> 1]
  /\ Goto("items")
  /\ UNCHANGED <<draw, evaluation, context, raw, annotated, summary, ending, crashes>>

Item == request.items[request.next]
ItemRow ==
  [candidate |-> Candidate(Item, request.parent, Prompt[context[request.call].stage]),
   call |-> request.call, ordinal |-> request.next, duplicate |-> Item \in proc.seen]

(* append_rejected_item.                                                     *)
RejectItem ==
  /\ At("items") /\ request.next <= Len(request.items) /\ Item = None
  /\ request' = [request EXCEPT !.next = @ + 1]
  /\ UNCHANGED <<draw, evaluation, context, raw, annotated, summary, ending, proc, crashes>>

(* _record_experience: the context is the one the call left in its file.     *)
RecordedContext == context[request.call]

RecordExperience ==
  LET index   == Len(evaluation) + 1
      content == Record(ItemRow, index, RecordedContext, ItemRow.duplicate)
  IN /\ At("items") /\ request.next <= Len(request.items) /\ Item # None
     /\ IF Writable(raw, index, content)
        THEN raw' = With(raw, index, content) /\ Goto("commit")
        ELSE UNCHANGED raw /\ Goto("refused")
     /\ UNCHANGED <<draw, evaluation, request, context, annotated, summary, ending, crashes>>

(* append_evaluation commits the row and the item's ordinal together.        *)
CommitItem ==
  /\ At("commit")
  /\ Commit(ItemRow)
  /\ request' = [request EXCEPT !.next = @ + 1]
  /\ UNCHANGED <<draw, context, raw, annotated, summary, ending, crashes>>

ItemsDone ==
  /\ At("items") /\ request.next > Len(request.items)
  /\ Goto("loop")
  /\ UNCHANGED <<draw, evaluation, request, context, raw, annotated, summary, ending, crashes>>

-----------------------------------------------------------------------------
(* finalize_experience_artifacts. *)

Finalize ==
  /\ At("loop") /\ Exhausted
  /\ proc' = [proc EXCEPT !.pc = "annotate", !.next = 1]
  /\ UNCHANGED <<draw, evaluation, request, context, raw, annotated, summary, ending, crashes>>

(* One annotated file after the other, in the order of the raw files.        *)
WriteAnnotated ==
  LET i == proc.next
  IN /\ At("annotate") /\ i <= Len(evaluation) + 1
     /\ IF i \notin Committed
        THEN UNCHANGED annotated /\ proc' = [proc EXCEPT !.next = @ + 1]
        ELSE IF Writable(annotated, i, Annotated(raw[i]))
        THEN /\ annotated' = With(annotated, i, Annotated(raw[i]))
             /\ proc' = [proc EXCEPT !.next = @ + 1]
        ELSE UNCHANGED annotated /\ Goto("refused")
     /\ UNCHANGED <<draw, evaluation, request, context, raw, summary, ending, crashes>>

(* records.jsonl, records.csv, summary.json and summary.md.                  *)
Summary ==
  [records     |-> Cardinality(Committed),
   orphans     |-> Cardinality(DOMAIN raw) - Cardinality(Committed),
   improvement |-> Cardinality({i \in Committed : raw[i].delta > 0}),
   neutral     |-> Cardinality({i \in Committed : raw[i].delta = 0}),
   regression  |-> Cardinality({i \in Committed : raw[i].delta < 0})]

WriteSummary ==
  /\ At("annotate") /\ proc.next > Len(evaluation) + 1
  /\ IF summary \in {None, Summary}
     THEN summary' = Summary /\ Goto("analysis")
     ELSE UNCHANGED summary /\ Goto("refused")
  /\ UNCHANGED <<draw, evaluation, request, context, raw, annotated, ending, crashes>>

-----------------------------------------------------------------------------
(* The rest of _finalize. *)

(* write_phase4_analysis: of its files access-ledger.json alone depends on    *)
(* the process, which declared its purpose there; another one raises.         *)
WriteAnalysis ==
  /\ At("analysis")
  /\ IF access \in {None, proc.purpose}
     THEN access' = proc.purpose /\ Goto("results")
     ELSE UNCHANGED access /\ Goto("refused")
  /\ UNCHANGED <<draw, evaluation, request, context, raw, annotated, summary, results, status,
                 crashes>>

(* results.json names the hash of the analysis.                               *)
Results == [evaluations |-> Len(evaluation), analysis |-> access]
WriteResults ==
  /\ At("results")
  /\ IF results \in {None, Results}
     THEN results' = Results /\ Goto("close")
     ELSE UNCHANGED results /\ Goto("refused")
  /\ UNCHANGED <<draw, evaluation, request, context, raw, annotated, summary, access, status,
                 crashes>>

Close ==
  /\ At("close")
  /\ status' = "completed" /\ proc' = NoProcess
  /\ UNCHANGED <<draw, evaluation, request, context, raw, annotated, summary, access, results,
                 crashes>>

-----------------------------------------------------------------------------
Step ==
  \/ Initialize \/ Initialized \/ WriteContext \/ RejectItem \/ RecordExperience \/ CommitItem
  \/ ItemsDone \/ Finalize \/ WriteAnnotated \/ WriteSummary
  \/ WriteAnalysis \/ WriteResults \/ Close
  \/ \E n \in 1..BatchSize : \E items \in [1..n -> Programs \cup {None}] : Answer(items)

Next == Resume \/ Crash \/ Step

Spec == Init /\ [][Next]_vars
(* A process that runs keeps running and a run that stopped is resumed.      *)
LiveSpec == Spec /\ WF_vars(Step) /\ WF_vars(Resume)

-----------------------------------------------------------------------------
(* Types. *)

LineageTypeOK ==
  /\ draw \in [Calls -> Draws]
  /\ Len(evaluation) <= Max({MaxEvaluations, Len(InitialPrograms)})
  /\ \A row \in Evaluated : /\ row.candidate.program \in Programs
                            /\ row.candidate.parent \in {None} \cup Candidates
                            /\ row.call \in {None} \cup Calls /\ row.duplicate \in BOOLEAN
  /\ request = None \/ (request.call \in Calls /\ request.next \in 1..(BatchSize + 1))
  /\ DOMAIN context \subseteq Calls
  /\ DOMAIN raw \subseteq 1..MaxEvaluations /\ DOMAIN annotated \subseteq DOMAIN raw
  /\ status \in {"created", "running", "completed"}
  /\ proc.pc \in {"none", "initialize", "loop", "ask", "items", "commit", "annotate",
                  "analysis", "results", "close", "refused"}
  /\ access \in {None, "run", "resume"} /\ proc.purpose \in {"none", "run", "resume"}
  /\ proc.seen \subseteq Programs /\ crashes \in 0..MaxCrashes

(***************************************************************************)
(* Properties.                                                             *)
(***************************************************************************)

(* The process that started the run died in _finalize behind the access      *)
(* ledger: no process has its purpose any more.                              *)
SealedByFirstProcess == access = "run" /\ status # "completed" /\ proc.purpose # "run"

(* However often a process dies between a file and the commit it announces,  *)
(* the process that resumes writes the same context, record, annotation,     *)
(* summary and results again: no immutable file is refused but the access    *)
(* ledger of the process that started the run.                               *)
FilesAreRepeatable == At("refused") => SealedByFirstProcess

(* Every committed step from a parent to a child has its record, which names *)
(* the row's own child, parent, call and ordinal; the only record without a  *)
(* row is the one of the evaluation that is about to be committed.           *)
RecordsMatchRows ==
  /\ \A i \in DOMAIN evaluation :
       evaluation[i].candidate.parent # None =>
         /\ i \in DOMAIN raw
         /\ raw[i].child = evaluation[i].candidate
         /\ raw[i].call = evaluation[i].call /\ raw[i].ordinal = evaluation[i].ordinal
         /\ raw[i].duplicate = evaluation[i].duplicate
  /\ DOMAIN raw \subseteq 1..(Len(evaluation) + 1)

(* The duplicate flag of a row tells whether its program was evaluated       *)
(* before, across every process that executed the run.                       *)
DuplicatesAreRemembered ==
  \A i \in DOMAIN evaluation :
    evaluation[i].candidate.parent # None =>
      (evaluation[i].duplicate <=>
         \E j \in 1..(i - 1) : evaluation[j].candidate.program = evaluation[i].candidate.program)

(* The lineage below the record's child that was evaluated after the record. *)
Below(c, record) ==
  LET line == <<c>> \o Ancestors(c)
  IN \E n \in 1..(Len(line) - 1) :
       /\ line[n + 1] = record.child
       /\ \A i \in 1..n : FirstEvaluation(line[i]) > record.index

(* An annotation tells of the candidates that descend from the child through *)
(* later evaluations only: whether one of them is exact, how many            *)
(* evaluations after the record the first of those came, the best of their   *)
(* scores, and whether one came within the horizon.                          *)
AnnotationsDescribeDescent ==
  \A i \in DOMAIN annotated :
    LET record == annotated[i].record
        told   == annotated[i].downstream
        later  == {c \in Candidates : Below(c, record)}
    IN /\ told.eventuallyExact <=> \E c \in later : Exact(c)
       /\ told.until # None =>
            /\ \E c \in later : Exact(c) /\ FirstEvaluation(c) = i + told.until
            /\ \A c \in later : Exact(c) => FirstEvaluation(c) >= i + told.until
       /\ \A c \in later : Score(c) <= told.best
       /\ told.best \in {record.score} \cup {Score(c) : c \in later}
       /\ told.shortExact <=> (told.until # None /\ told.until <= Horizon)

(* A finished run has an annotation for each of its steps and no orphan, and *)
(* the import of the run from its database alone, which reads none of these  *)
(* files, reconstructs every record with its context and annotation.         *)
ImportAgrees ==
  status = "completed" => /\ Range(annotated) = Imported
                          /\ summary.orphans = 0
                          /\ summary.records = Cardinality(Imported)

(* Once resumed often enough a run completes, its summary and results        *)
(* written, unless the first process sealed it.                              *)
RunCompletes ==
  <>((status = "completed" /\ summary # None /\ results # None) \/ SealedByFirstProcess)

=============================================================================
