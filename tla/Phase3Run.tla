------------------------------ MODULE Phase3Run ------------------------------
(***************************************************************************)
(* Phase3RunEngine (search/phase3.py) with its database                    *)
(* (persistence/database.py): every attempt lets the scheduler choose a    *)
(* branch of the mechanism, takes parents from it, applies an operator,    *)
(* evaluates what comes out and commits attempt, candidate, evaluation,    *)
(* archive transition and budget in one transaction, after its proposal is *)
(* written to an immutable file.  The mechanism lives in memory; a resume  *)
(* rebuilds it from the committed evaluations.                             *)
(*                                                                         *)
(* An attempt is a function of the seed, its index and the mechanism.      *)
(* TLC chooses the seed as it goes: draws remembers what it gave for each  *)
(* attempt, so that an attempt made again after a crash draws the same.  A *)
(* candidate is named by the attempt that first produced its program with  *)
(* its parents and operator.  Files are written at once; SearchLoop shows  *)
(* what torn ones do.                                                      *)
(***************************************************************************)
EXTENDS Archive, Artifacts

CONSTANTS
  Condition,        \* "diverse" or "incumbent"
  InitialPrograms,  \* initialization_candidates()
  SemanticOf,       \* semantic hash of a program
  CellOrder,        \* the cells in their order
  AttemptCap, OracleCap,   \* config.budget
  Locked,           \* the authority is the locked validation's
  Procs, Limits,    \* processes; values of --interrupt-after, 0 for none
  MaxFaults         \* bound: processes killed or interrupted by a signal

Phase3Constants ==
  /\ Condition \in {"diverse", "incumbent"}
  /\ InitialPrograms \in Seq(Programs)
  /\ Ids = 0..AttemptCap - 1
  /\ {AttemptCap, OracleCap, MaxFaults} \subseteq Nat
  /\ Len(InitialPrograms) <= OracleCap      \* prepare_phase3 refuses less
  /\ None \notin Programs /\ None \notin Ids /\ None # "completed"
  /\ Limits \subseteq Nat /\ Locked \in BOOLEAN

VARIABLES
  db,      \* run.sqlite3
  files,   \* proposals/, analysis/, results.json
  proc,    \* memory and place in the code of each process
  draws,   \* what the seed gives for each attempt
  faults

vars == <<db, files, proc, draws, faults>>

-----------------------------------------------------------------------------
(* BudgetState. *)

Outcomes == {"inserted", "replaced", "reserved", "duplicate", "rejected"}
EmptyBudget ==
  [attempts |-> 0, operators |-> 0, invalid |-> 0, noop |-> 0, evaluated |-> 0,
   canonicalDuplicates |-> 0, semanticDuplicates |-> 0, distinct |-> 0,
   archive |-> [o \in Outcomes |-> 0]]

Exhausted(budget) == budget.attempts >= AttemptCap \/ budget.evaluated >= OracleCap
ValidBudget(budget) == /\ budget.attempts <= AttemptCap
                       /\ budget.evaluated <= OracleCap
                       /\ budget.operators <= budget.attempts

Count(condition) == IF condition THEN 1 ELSE 0

BudgetAfterEvaluation(b, operator, canonical, semantic, outcome) ==
  [b EXCEPT !.attempts = @ + 1, !.operators = @ + Count(operator),
            !.evaluated = @ + 1,
            !.canonicalDuplicates = @ + Count(canonical),
            !.semanticDuplicates = @ + Count(semantic),
            !.distinct = @ + Count(~semantic),
            !.archive[outcome] = @ + 1]

BudgetAfterFailure(b, outcome) ==
  [b EXCEPT !.attempts = @ + 1, !.operators = @ + 1,
            !.invalid = @ + Count(outcome = "invalid"),
            !.noop = @ + Count(outcome = "no-op")]

-----------------------------------------------------------------------------
(* The mechanism in memory, for either condition, and what has been seen. *)

EmptyMechanism == [archive |-> EmptyArchive, held |-> None, programs |-> {}, semantics |-> {}]

(* mechanism.insert together with canonical_seen and semantic_seen.          *)
Evaluate(mechanism, member) ==
  LET diverse == Insert(mechanism.archive, member)
      single == InsertIncumbent(mechanism.held, member)
      Seen(archive, held) ==
        [archive |-> archive, held |-> held,
         programs |-> mechanism.programs \cup {member.program},
         semantics |-> mechanism.semantics \cup {SemanticOf[member.program]}]
  IN  IF Condition = "diverse"
        THEN [mechanism |-> Seen(diverse.archive, None), decision |-> diverse.decision]
        ELSE [mechanism |-> Seen(mechanism.archive, single.held), decision |-> single.decision]

(* branch_ids, sorted.                                                       *)
Branches(mechanism) ==
  IF Condition = "diverse"
    THEN SelectSeq(CellOrder, LAMBDA c : c \in Occupied(mechanism.archive))
    ELSE <<"incumbent">>

(* candidate_summaries of one branch and of all of them.                     *)
PoolOf(mechanism, branch) ==
  IF Condition = "diverse"
    THEN LET cell == mechanism.archive[branch] IN <<cell.elite>> \o cell.reserve
    ELSE <<mechanism.held>>

WholePool(mechanism) ==
  LET branches == Branches(mechanism)
      upTo[n \in 0..Len(branches)] ==
        IF n = 0 THEN <<>> ELSE upTo[n - 1] \o PoolOf(mechanism, branches[n])
  IN  upTo[Len(branches)]

(* The evaluations among the committed attempts, replayed through the        *)
(* mechanism: restore_mechanism.                                             *)
MemberOf(attempt) ==
  [id |-> attempt.candidate, program |-> attempt.program, lineage |-> attempt.lineage]

NothingRestored == [mechanism |-> EmptyMechanism, agrees |-> TRUE]

(* One committed attempt: its recorded decision must come out again.         *)
Reinserted(before, attempt) ==
  LET step == Evaluate(before.mechanism, MemberOf(attempt)) IN
  IF attempt.candidate = None
    THEN before
    ELSE [mechanism |-> step.mechanism,
          agrees |-> before.agrees /\ step.decision = attempt.decision]

(* Mutant: only elites and incumbents are inserted again. *)
RestoredLeaders(attempts) ==
  LET Leads(a) == a.candidate # None /\ a.decision.outcome \in {"inserted", "replaced"}
      after[n \in 0..Len(attempts)] ==
        IF n = 0 THEN NothingRestored
        ELSE IF Leads(attempts[n]) THEN Reinserted(after[n - 1], attempts[n]) ELSE after[n - 1]
  IN  after[Len(attempts)]

Restored(attempts) ==
  LET after[n \in 0..Len(attempts)] ==
        IF n = 0 THEN NothingRestored ELSE Reinserted(after[n - 1], attempts[n])
  IN  after[Len(attempts)]

-----------------------------------------------------------------------------
NoAttempt == [index |-> -1]
Idle == [pc |-> "idle", limit |-> 0, purpose |-> None, mechanism |-> EmptyMechanism,
         budget |-> EmptyBudget, attempt |-> NoAttempt]

Init ==
  /\ db = [status |-> None, next |-> 0, budget |-> EmptyBudget, attempts |-> <<>>]
  /\ files = [manifest |-> Absent, proposals |-> [n \in Ids |-> Absent],
              lineage |-> Absent, access |-> Absent, analysis |-> Absent, results |-> Absent]
  /\ proc = [p \in Procs |-> Idle]
  /\ draws = [n \in Ids |-> None]
  /\ faults = 0

At(p, pc) == proc[p].pc = pc
Goto(p, pc) == proc' = [proc EXCEPT ![p].pc = pc]
Ends(p) == proc' = [proc EXCEPT ![p] = Idle]

(* start_phase3_run: directory and manifest, then the database.              *)
Start(p) ==
  /\ At(p, "idle") /\ files.manifest = Absent
  /\ files' = [files EXCEPT !.manifest = Whole(Locked)]
  /\ \E limit \in Limits :
       proc' = [proc EXCEPT ![p].pc = "initialize", ![p].limit = limit,
                  ![p].purpose = IF Locked THEN "validation-gate" ELSE "mutation-run"]
  /\ UNCHANGED <<db, draws, faults>>

InitializePhase3(p) ==
  /\ At(p, "initialize")
  /\ db' = [db EXCEPT !.status = "running"]
  /\ Goto(p, "open")
  /\ UNCHANGED <<files, draws, faults>>

(* resume_phase3_run: the authority comes from the manifest.                 *)
Resume(p) ==
  /\ At(p, "idle")
  /\ IsWhole(files.manifest) /\ db.status # None
  /\ \E limit \in Limits :
       proc' = [proc EXCEPT ![p].pc = "open", ![p].limit = limit,
                  ![p].purpose = IF files.manifest.content
                                   THEN "validation-resume" ELSE "mutation-run"]
  /\ UNCHANGED <<db, files, draws, faults>>

(* The head of execute: restore_mechanism raises when a decision diverges.   *)
Open(p) ==
  /\ At(p, "open")
  /\ LET restored == Restored(db.attempts) IN
     IF \/ db.status = "completed"
        \/ ~restored.agrees
        \/ db.budget.attempts # db.next
       THEN Ends(p)
       ELSE proc' = [proc EXCEPT ![p].pc = "run", ![p].mechanism = restored.mechanism,
                                 ![p].budget = db.budget]
  /\ UNCHANGED <<db, files, draws, faults>>

AfterStep(budget) == IF Exhausted(budget) THEN "lineage" ELSE "attempt"

(* set_status("running"), whatever the status has become.                    *)
SetRunning(p) ==
  /\ At(p, "run")
  /\ db' = [db EXCEPT !.status = "running"]
  /\ Goto(p, AfterStep(proc[p].budget))
  /\ UNCHANGED <<files, draws, faults>>

-----------------------------------------------------------------------------
(* One attempt. *)

Index(p) == proc[p].budget.attempts

Pick(seq, draw) == seq[1 + (draw % Len(seq))]

(* What a seed may give to an attempt: a branch, an operator and the indices *)
(* of its parents, the second one only for a crossover.                      *)
DrawsFor(mechanism) ==
  {d \in [branch : 0..Len(Branches(mechanism)) - 1, primary : 0..ReserveSize,
          operator : {"local-mutation", "typed-crossover"},
          secondary : 0..Len(WholePool(mechanism)) - 1] :
     /\ d.primary < Len(PoolOf(mechanism, Pick(Branches(mechanism), d.branch)))
     /\ d.operator = "local-mutation" => d.secondary = 0}

(* _parent_candidates.                                                       *)
ParentsFor(mechanism, draw) ==
  LET primary == PoolOf(mechanism, Pick(Branches(mechanism), draw.branch))
      first == Pick(primary, draw.primary)
  IN  IF draw.operator = "typed-crossover"
        THEN <<first, Pick(WholePool(mechanism), draw.secondary)>>
        ELSE <<first>>

(* apply_operator on the parents: rejected, the first parent again, or a     *)
(* program.                                                                  *)
Products(parents) == {"invalid", "no-op"} \cup (Programs \ {parents[1].program})

(* phase3_candidate: the same program from the same parents by the same      *)
(* operator is the same candidate.                                           *)
CandidateId(index, program, lineage) ==
  LET same == {i \in DOMAIN db.attempts :
                 /\ db.attempts[i].candidate # None
                 /\ db.attempts[i].program = program
                 /\ db.attempts[i].lineage = lineage}
  IN  IF same = {} THEN index ELSE db.attempts[CHOOSE i \in same : TRUE].candidate

(* An attempt that produced a program: it is evaluated and inserted.         *)
Evaluated(p, index, program, lineage, byOperator) ==
  LET mechanism == proc[p].mechanism
      member == [id |-> CandidateId(index, program, lineage), program |-> program,
                 lineage |-> lineage]
      canonical == program \in mechanism.programs
      semantic == SemanticOf[program] \in mechanism.semantics
      step == Evaluate(mechanism, member)
      budget == BudgetAfterEvaluation(proc[p].budget, byOperator, canonical, semantic,
                                      step.decision.outcome)
  IN  [mechanism |-> step.mechanism,
       attempt |-> [index |-> index, candidate |-> member.id, program |-> program,
                    lineage |-> lineage, outcome |-> "emitted", decision |-> step.decision,
                    canonical |-> canonical, semantic |-> semantic, budget |-> budget]]

(* An attempt whose operator was rejected or gave its parent back.           *)
Failed(p, index, outcome, lineage) ==
  [mechanism |-> proc[p].mechanism,
   attempt |-> [index |-> index, candidate |-> None, program |-> None, lineage |-> lineage,
                outcome |-> outcome, decision |-> None, canonical |-> FALSE,
                semantic |-> FALSE, budget |-> BudgetAfterFailure(proc[p].budget, outcome)]]

(* The proposal file of an attempt: context, parents, operator, candidate.   *)
ArtifactOf(attempt) == [lineage |-> attempt.lineage, outcome |-> attempt.outcome,
                        program |-> attempt.program]

(* write_content_artifact of the proposal; the memory is changed already.    *)
Propose(p, made) ==
  LET n == made.attempt.index  content == ArtifactOf(made.attempt) IN
  IF Collides(files.proposals[n], content)
    THEN Ends(p) /\ UNCHANGED files
    ELSE /\ files' = [files EXCEPT !.proposals[n] = Whole(content)]
         /\ proc' = [proc EXCEPT ![p].pc = "commit", ![p].mechanism = made.mechanism,
                       ![p].budget = made.attempt.budget, ![p].attempt = made.attempt]

Attempt(p) ==
  LET index == Index(p) IN
  /\ At(p, "attempt")
  /\ \/ /\ index < Len(InitialPrograms)
        /\ Propose(p, Evaluated(p, index, InitialPrograms[index + 1],
                                [parents |-> <<>>, operator |-> "initialization"], FALSE))
        /\ UNCHANGED draws
     \/ /\ index >= Len(InitialPrograms)
        /\ \E draw \in IF draws[index] = None THEN DrawsFor(proc[p].mechanism)
                                               ELSE {draws[index].draw} :
             LET parents == ParentsFor(proc[p].mechanism, draw)
                 lineage == [parents |-> [i \in DOMAIN parents |-> parents[i].id],
                             operator |-> draw.operator]
                 known == draws[index] # None /\ draws[index].lineage = lineage
             IN  \E product \in IF known THEN {draws[index].product} ELSE Products(parents) :
                   /\ draws' = [draws EXCEPT ![index] =
                        [draw |-> draw, lineage |-> lineage, product |-> product]]
                   /\ Propose(p, IF product \in {"invalid", "no-op"}
                                   THEN Failed(p, index, product, lineage)
                                   ELSE Evaluated(p, index, product, lineage, TRUE))
  /\ UNCHANGED <<db, faults>>

(* The parents of a new candidate are earlier candidates.                    *)
ParentsExist(attempt) ==
  attempt.candidate = attempt.index =>
    \A i \in DOMAIN attempt.lineage.parents :
      \E k \in DOMAIN db.attempts :
        db.attempts[k].candidate = attempt.lineage.parents[i] /\ k - 1 < attempt.index

(* Mutant: an attempt may be appended whatever was appended before. *)
AppendableTwice(attempt) == ParentsExist(attempt) /\ ValidBudget(attempt.budget)

(* The transaction of append_phase3_step: attempt_index is unique, and the   *)
(* budget is valid.                                                          *)
Appendable(attempt) ==
  /\ ParentsExist(attempt)
  /\ \A k \in DOMAIN db.attempts : db.attempts[k].index # attempt.index
  /\ ValidBudget(attempt.budget)

AppendStep(attempt) ==
  db' = [db EXCEPT !.attempts = Append(@, attempt), !.budget = attempt.budget,
                   !.next = attempt.index + 1]

Commit(p) ==
  LET attempt == proc[p].attempt IN
  /\ At(p, "commit")
  /\ IF ~Appendable(attempt)
       THEN Ends(p) /\ UNCHANGED db
       ELSE /\ AppendStep(attempt)
            /\ proc' = [proc EXCEPT ![p].attempt = NoAttempt,
                 ![p].pc = IF proc[p].limit # 0 /\ attempt.budget.attempts >= proc[p].limit
                             THEN "interrupt"
                           ELSE AfterStep(attempt.budget)]
  /\ UNCHANGED <<files, draws, faults>>

Interrupt(p) ==
  /\ At(p, "interrupt")
  /\ db' = [db EXCEPT !.status = "interrupted"]
  /\ Ends(p)
  /\ UNCHANGED <<files, draws, faults>>

-----------------------------------------------------------------------------
(* The end of execute: phase3_results, write_phase3_analysis, results.json   *)
(* and the status.  lineage stands for the files that are made from the      *)
(* committed rows.                                                           *)

Results(p) == [budget |-> proc[p].budget, coverage |-> Occupied(proc[p].mechanism.archive),
               events |-> db.attempts]

WriteChecked(p, name, content, here, next) ==
  /\ At(p, here)
  /\ IF Collides(files[name], content)
       THEN Ends(p) /\ UNCHANGED files
       ELSE files' = [files EXCEPT ![name] = Whole(content)] /\ Goto(p, next)
  /\ UNCHANGED <<db, draws, faults>>

Finalize(p) ==
  \/ WriteChecked(p, "lineage", db.attempts, "lineage", "access")
  \/ WriteChecked(p, "access", proc[p].purpose, "access", "analysis")
  \/ WriteChecked(p, "analysis", [lineage |-> db.attempts, access |-> proc[p].purpose],
                  "analysis", "results")
  \/ WriteChecked(p, "results", Results(p), "results", "complete")
  \/ /\ At(p, "complete")
     /\ db' = [db EXCEPT !.status = "completed"]
     /\ Ends(p)
     /\ UNCHANGED <<files, draws, faults>>

Step(p) == InitializePhase3(p) \/ Open(p) \/ SetRunning(p) \/ Attempt(p) \/ Commit(p) \/ Interrupt(p) \/ Finalize(p)

(* A process is killed, or a signal ends its search in good order.           *)
Crash(p) ==
  /\ ~At(p, "idle") /\ faults < MaxFaults
  /\ faults' = faults + 1
  /\ Ends(p)
  /\ UNCHANGED <<db, files, draws>>

Signal(p) ==
  /\ proc[p].pc \in {"attempt", "commit"} /\ faults < MaxFaults
  /\ faults' = faults + 1
  /\ Goto(p, "interrupt")
  /\ UNCHANGED <<db, files, draws>>

Next == \E p \in Procs : Start(p) \/ Resume(p) \/ Step(p) \/ Crash(p) \/ Signal(p)
Spec == Init /\ [][Next]_vars

(* Live processes run, and somebody resumes in the end a run that is not     *)
(* completed.                                                                *)
LiveSpec ==
  /\ Spec
  /\ \A p \in Procs : WF_vars(Step(p))
  /\ SF_vars(\E p \in Procs : db.status # "completed" /\ Resume(p))

-----------------------------------------------------------------------------
(* Replay (replay.py): the proposal files alone are evaluated again, and     *)
(* every row and the results must be what comes out.                         *)

Replayed(n, before) ==
  LET row == db.attempts[n]
      proposal == files.proposals[row.index].content
      member == [id |-> row.candidate, program |-> proposal.program,
                 lineage |-> proposal.lineage]
      canonical == proposal.program \in before.mechanism.programs
      semantic == SemanticOf[proposal.program] \in before.mechanism.semantics
      step == Evaluate(before.mechanism, member)
      budget == BudgetAfterEvaluation(before.budget,
                  proposal.lineage.operator # "initialization", canonical, semantic,
                  step.decision.outcome)
      failed == [before.budget EXCEPT !.attempts = @ + 1, !.operators = @ + 1,
                   !.invalid = @ + Count(proposal.outcome = "invalid"),
                   !.noop = @ + Count(proposal.outcome = "no-op")]
  IN  IF ~IsWhole(files.proposals[row.index]) \/ ArtifactOf(row) # proposal
        THEN [before EXCEPT !.agrees = FALSE]
      ELSE IF proposal.program = None
        THEN [mechanism |-> before.mechanism, budget |-> failed,
              agrees |-> before.agrees /\ row.budget = failed]
      ELSE [mechanism |-> step.mechanism, budget |-> budget,
            agrees |-> /\ before.agrees /\ row.budget = budget
                       /\ row.canonical = canonical /\ row.semantic = semantic
                       /\ row.decision = step.decision]

Phase3Replays ==
  LET after[n \in 0..Len(db.attempts)] ==
        IF n = 0 THEN [mechanism |-> EmptyMechanism, budget |-> EmptyBudget, agrees |-> TRUE]
                 ELSE Replayed(n, after[n - 1])
      end == after[Len(db.attempts)]
  IN  /\ db.status = "completed"
      /\ end.agrees /\ end.budget = db.budget
      /\ IsWhole(files.analysis) /\ IsWhole(files.results)
      /\ files.results.content = [budget |-> end.budget, events |-> db.attempts,
                                  coverage |-> Occupied(end.mechanism.archive)]

-----------------------------------------------------------------------------
(* Properties. *)

Phase3TypeOK ==
  /\ db.status \in {None, "running", "interrupted", "completed"}
  /\ db.next \in 0..AttemptCap /\ db.next = Len(db.attempts)
  /\ ValidBudget(db.budget)
  /\ \A p \in Procs : /\ Condition = "diverse" => proc[p].mechanism.held = None
                       /\ proc[p].mechanism.programs \subseteq Programs
                       /\ ValidBudget(proc[p].budget)
  /\ \A i \in DOMAIN db.attempts : db.attempts[i].index = i - 1

(* The mechanism a resume rebuilds from the committed evaluations is the one *)
(* the interrupted process had: replaying the rows reproduces every recorded *)
(* decision, and every process that is about to make the next attempt holds  *)
(* what they give (restore_mechanism).                                       *)
MemoryAgreesWithRows ==
  LET restored == Restored(db.attempts) IN
  /\ restored.agrees
  /\ \A p \in Procs :
       proc[p].pc \in {"run", "attempt", "lineage", "access", "analysis", "results", "complete"}
         /\ Index(p) = db.next =>
           proc[p].mechanism = restored.mechanism /\ proc[p].budget = db.budget

(* The charged budget is what the rows add up to: every attempt, every       *)
(* evaluation, duplicates included, and every distinct semantics once.       *)
BudgetMatchesRows ==
  LET Rows(P(_)) == Cardinality({i \in DOMAIN db.attempts : P(db.attempts[i])})
      emitted == {i \in DOMAIN db.attempts : db.attempts[i].candidate # None}
  IN  /\ db.budget.attempts = Len(db.attempts)
      /\ db.budget.evaluated = Cardinality(emitted)
      /\ db.budget.invalid = Rows(LAMBDA a : a.outcome = "invalid")
      /\ db.budget.noop = Rows(LAMBDA a : a.outcome = "no-op")
      /\ db.budget.canonicalDuplicates = Rows(LAMBDA a : a.canonical)
      /\ db.budget.distinct =
           Cardinality({SemanticOf[db.attempts[i].program] : i \in emitted})
      /\ db.budget.distinct + db.budget.semanticDuplicates = db.budget.evaluated

(* An evaluation is marked a duplicate exactly if the same program, or one   *)
(* of the same semantics, was evaluated before, whichever process did it.    *)
DuplicatesAreFlagged ==
  \A i \in DOMAIN db.attempts :
    LET earlier == {j \in 1..i - 1 : db.attempts[j].candidate # None} IN
    db.attempts[i].candidate # None =>
      /\ db.attempts[i].canonical <=>
           \E j \in earlier : db.attempts[j].program = db.attempts[i].program
      /\ db.attempts[i].semantic <=>
           \E j \in earlier :
             SemanticOf[db.attempts[j].program] = SemanticOf[db.attempts[i].program]

(* The parents of every attempt were in the mechanism when it was made: no   *)
(* attempt rests on an archive that another process has moved on.            *)
ParentsWereHeld ==
  \A i \in DOMAIN db.attempts :
    LET parents == SeqRange(db.attempts[i].lineage.parents)
        before == Restored(SubSeq(db.attempts, 1, i - 1)).mechanism
    IN  parents # {} => parents \subseteq {m.id : m \in SeqRange(WholePool(before))}

(* A completed run has all its files, and whoever wrote them wrote what the  *)
(* rows say.                                                                 *)
ResultsMatchRows ==
  /\ IsWhole(files.results) =>
       files.results.content = [budget |-> db.budget, events |-> db.attempts,
         coverage |-> Occupied(Restored(db.attempts).mechanism.archive)]
  /\ db.status = "completed" => /\ Exhausted(db.budget)
                                /\ IsWhole(files.results) /\ IsWhole(files.analysis)

(* Every completed run passes its replay.                                    *)
CompletedReplays == db.status = "completed" => Phase3Replays

(* An initialized run is completed in the end, whatever its processes        *)
(* suffer: what a killed process left behind is made again, the same.        *)
RunsComplete == (db.status # None) ~> (db.status = "completed")
=============================================================================
