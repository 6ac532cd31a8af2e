------------------------------ MODULE Phase4Run ------------------------------
(***************************************************************************)
(* Phase4RunEngine (search/phase4.py): a run asks a paid model for batches *)
(* of candidates and evaluates them.  Every step leaves a durable trace in *)
(* the run's own database (persistence/phase4_database.py), in immutable   *)
(* files of the run directory, in the response cache and in the project    *)
(* ledger, so that a process that dies anywhere is continued by a later    *)
(* resume.  One action is one durable effect together with the control     *)
(* flow up to the next one: a crash falls between two actions.             *)
(*                                                                         *)
(* A run is executed by at most one process at a time.  Runs share the     *)
(* ledger and the cache.  Request rows are numbered from 1.  Prompts and   *)
(* candidates are opaque: RequestHash gives the hash of the request a run  *)
(* builds for a logical call and the size of its batch, which the hash     *)
(* covers; a batch is the sequence of its items' acceptance, and input and *)
(* output tokens are counted together.                                     *)
(***************************************************************************)
EXTENDS Ledger, FiniteSets

CONSTANTS
  RunStage,            \* phase4_policy.stage of each run
  RequestHash,         \* request_hash of a run's logical call and batch size
  InitialCandidates,   \* len(initialization_candidates())
  BatchSize, ModelRequestCap, ItemCap, OracleCap, TokenCap,   \* configuration
  MaxRetries, RetryableCategories,                            \* retry policy
  TokenBound,          \* conservative token bound of one request
  Usages,              \* token counts the provider may report
  CostOf,              \* PricePolicy.price.cost of a token count
  MaxCost,             \* PricePolicy.price.maximum_cost of a request
  MaxCrashes,          \* bound: processes that die, over all runs
  Nothing              \* None

ASSUME Phase4Constants ==
  /\ RunStage \in [Runs -> Stages]
  /\ RequestHash \in [Runs \X (0..ModelRequestCap) \X (0..BatchSize) -> Hashes]
  /\ \A a, b \in DOMAIN RequestHash : RequestHash[a] = RequestHash[b] => a[3] = b[3]
  /\ {InitialCandidates, BatchSize, ModelRequestCap, ItemCap, OracleCap, TokenCap,
      MaxRetries, TokenBound, MaxCost, MaxCrashes} \subseteq Nat
  /\ InitialCandidates <= OracleCap
  /\ RetryableCategories \subseteq {"malformed", "rate-limit"}
  /\ Usages \subseteq 0..TokenBound
  /\ CostOf \in [Usages -> 0..MaxCost]
  /\ MaxCost \in Amounts /\ MaxCost <= RequestCap
  /\ {PhaseCap} \cup {StageCap[s] : s \in Stages} \subseteq Overrides   \* None

VARIABLES
  db,       \* run.sqlite3 of each run: run_state, model_request, budget_state
  files,    \* immutable files of each run directory
  cache,    \* the shared ExactResponseCache
  proc,     \* the process executing each run: memory and place in the code
  calls,    \* what the provider was asked by each run, and what it charges
  crashes,
  torn,     \* files of each run directory that were created and never written
  tornCache \* cache entries that were created and never written

tornVars == <<torn, tornCache>>
vars == <<reservation, cash_checkpoint, observed, db, files, cache, proc, calls, crashes,
          torn, tornCache>>

-----------------------------------------------------------------------------
(* Data. *)

(* ModelResponse, or the ModelError of a failed dispatch.                    *)
Answer(batch) ==
  [kind : {"response"}, usage : Usages, items : [1..batch -> BOOLEAN]]
    \cup [kind : {"malformed"}, usage : Usages, items : {<<>>}]
    \cup [kind : {"rejected", "rate-limit", "uncertain"}, usage : {0}, items : {<<>>}]

Answers == UNION {Answer(batch) : batch \in 0..BatchSize}

IsResponse(answer) == answer.kind \in {"response", "malformed"}

(* What the provider charges: an ambiguous failure may or may not be billed. *)
Charges(answer) ==
  CASE IsResponse(answer) -> {CostOf[answer.usage]}
    [] answer.kind = "uncertain" -> {0, MaxCost}
    [] OTHER -> {0}

Terminal == {"completed", "cost-cap-exhausted", "usage-uncertain"}

(* None is no answer and no status, and what the engine writes into the      *)
(* ledger, a reservation's identity and its usage record, the ledger takes.  *)
ASSUME Phase4Values ==
  /\ Nothing \notin Answers
  /\ Nothing \notin {"running", "interrupted"} \cup Terminal
  /\ Runs \X (1..ModelRequestCap) \X Hashes \subseteq Ids
  /\ Runs \X (1..ModelRequestCap) \X Answers \subseteq Records

Finalized == {"responded", "schema-failure", "failed", "usage-uncertain", "completed"}

(* Phase4BudgetState, its counters. *)
EmptyBudget ==
  [logical |-> 0, attempts |-> 0, provider |-> 0, hits |-> 0, retries |-> 0,
   tokens |-> 0, items |-> 0, oracle |-> 0, actual |-> 0, uncertain |-> 0,
   released |-> 0]

Exhausted(r, b) ==
  \/ b.attempts >= ModelRequestCap
  \/ b.items >= ItemCap
  \/ b.oracle >= OracleCap
  \/ b.tokens >= TokenCap
  \/ ChildCap[r] > 0 /\ b.actual + b.uncertain >= ChildCap[r]

(* Mutant: only the tokens already used are compared with the cap. *)
PreflightUsedOnly(b) == b.attempts < ModelRequestCap /\ b.tokens < TokenCap

Preflight(b) == b.attempts < ModelRequestCap /\ b.tokens + TokenBound <= TokenCap

(* validate(): every update of the counters raises unless this holds. *)
Valid(r, b) ==
  /\ b.attempts <= ModelRequestCap /\ b.tokens <= TokenCap
  /\ b.items <= ItemCap /\ b.oracle <= OracleCap
  /\ b.provider + b.hits = b.attempts /\ b.retries <= b.attempts
  /\ b.actual + b.uncertain <= ChildCap[r]

BatchFor(b) ==
  LET remaining == MinOf(ItemCap - b.items, OracleCap - b.oracle)
  IN  MinOf(BatchSize, remaining)

NoProcess ==
  [pc |-> "none", online |-> FALSE, purpose |-> Nothing, recovering |-> FALSE,
   budget |-> EmptyBudget, logical |-> 0, retry |-> 0, batch |-> 0,
   hit |-> Nothing, answer |-> Nothing, status |-> Nothing]

-----------------------------------------------------------------------------
Init ==
  /\ LedgerInit
  /\ db = [r \in Runs |-> [status |-> Nothing, evaluations |-> 0, requests |-> <<>>,
                           budget |-> EmptyBudget]]
  /\ files = [r \in Runs |-> [answers |-> <<>>, report |-> Nothing,
                              access |-> Nothing, results |-> Nothing]]
  /\ cache = [h \in Hashes |-> Nothing]
  /\ proc = [r \in Runs |-> NoProcess]
  /\ calls = [r \in Runs |-> <<>>]
  /\ crashes = 0
  /\ torn = [r \in Runs |-> {}]
  /\ tornCache = {}

At(r, pc) == proc[r].pc = pc
Requests(r) == db[r].requests
Index(r) == Len(Requests(r))            \* the request being processed
Row(r) == Requests(r)[Index(r)]
AnswerFile(r) == IF Index(r) \in DOMAIN files[r].answers
                 THEN files[r].answers[Index(r)] ELSE Nothing
Finished(r) == db[r].status \in Terminal /\ files[r].results # Nothing
NextHash(r) == RequestHash[r, proc[r].logical, proc[r].batch]
ReservationId(r, i, h) == <<r, i, h>>

Become(r, p) == proc' = [proc EXCEPT ![r] = p]
Goto(r, pc) == Become(r, [proc[r] EXCEPT !.pc = pc])
End(r) == Become(r, NoProcess)
SetStatus(r, status) == db' = [db EXCEPT ![r].status = status]
Update(r, row, budget) ==
  db' = [db EXCEPT ![r].requests[Index(r)] = row, ![r].budget = budget]
Finish(r, status) == Become(r, [proc[r] EXCEPT !.pc = "report", !.status = status])

(* write_content_artifact: an existing file is accepted only when it is the same. *)
Writable(existing, content) == existing \in {Nothing, content}

(* It creates the path with O_EXCL and writes it afterwards, so that a kill   *)
(* can leave the file the process was about to write behind, empty: after    *)
(* mkdir the whole directory has no manifest and no database, and the        *)
(* analysis goes on after access-ledger.json.                                *)
LeftBehind(r) ==
  CASE At(r, "none") -> IF db[r].status = Nothing THEN {"directory"} ELSE {}
    [] At(r, "prepare") -> {"prompt"}
    [] At(r, "record") -> IF AnswerFile(r) = Nothing THEN {"answer"} ELSE {}
    [] At(r, "report") -> IF files[r].report = Nothing THEN {"report"} ELSE {}
    [] At(r, "access") -> IF files[r].access = Nothing THEN {"access"} ELSE {}
    [] At(r, "results") -> IF files[r].results = Nothing THEN {"report", "results"} ELSE {}
    [] OTHER -> {}

Tear(r) ==
  \/ \E f \in LeftBehind(r) \ torn[r] :
       torn' = [torn EXCEPT ![r] = @ \cup {f}] /\ UNCHANGED tornCache
  \/ /\ At(r, "store") /\ cache[Row(r).hash] = Nothing
     /\ tornCache' = tornCache \cup {Row(r).hash} /\ UNCHANGED torn

(* The next step of the process reads, or collides with, a file that was      *)
(* left behind empty.                                                        *)
Obstructed(r) ==
  \/ /\ At(r, "recover") /\ Requests(r) # <<>>
     /\ Row(r).state = "dispatched" /\ "answer" \in torn[r]
  \/ /\ At(r, "attempt") /\ proc[r].online /\ Preflight(proc[r].budget)
     /\ NextHash(r) \in tornCache
  \/ At(r, "prepare") /\ "prompt" \in torn[r]
  \/ At(r, "record") /\ "answer" \in torn[r]
  \/ At(r, "store") /\ Row(r).hash \in tornCache
  \/ \E f \in {"report", "access", "results"} : At(r, f) /\ f \in torn[r]

(* The next step meets a cache entry that another run is just writing.        *)
Overtaken(r) ==
  \E q \in Runs \ {r} :
    /\ At(q, "store") /\ cache[Row(q).hash] = Nothing
    /\ \/ At(r, "attempt") /\ proc[r].online /\ Preflight(proc[r].budget)
          /\ NextHash(r) = Row(q).hash
       \/ At(r, "store") /\ Row(r).hash = Row(q).hash

-----------------------------------------------------------------------------
(* start_phase4_run, which refuses a directory that exists, and               *)
(* resume_phase4_run, which returns at once when the status is terminal and  *)
(* results.json exists, written or not.  Without the live opt-in a resume    *)
(* may finish what is durable but dispatches nothing.                        *)
Start(r) ==
  /\ db[r].status = Nothing /\ "directory" \notin torn[r]
  /\ SetStatus(r, "running")
  /\ Become(r, [NoProcess EXCEPT !.pc = "open", !.online = TRUE, !.purpose = "run"])
  /\ UNCHANGED <<ledgerVars, files, cache, calls, crashes, tornVars>>

Resume(r, online) ==
  /\ db[r].status # Nothing /\ At(r, "none") /\ ~ Finished(r)
  /\ ~ (db[r].status \in Terminal /\ "results" \in torn[r])
  /\ Become(r, [NoProcess EXCEPT !.pc = "open", !.online = online, !.purpose = "resume"])
  /\ UNCHANGED <<ledgerVars, db, files, cache, calls, crashes, tornVars>>

(* The process is killed between two durable effects, or, at the start too, *)
(* within the next file's; what it held in memory is gone.                   *)
Crash(r) ==
  /\ crashes < MaxCrashes
  /\ crashes' = crashes + 1
  /\ Tear(r) \/ (~ At(r, "none") /\ UNCHANGED tornVars)
  /\ End(r)
  /\ UNCHANGED <<ledgerVars, db, files, cache, calls>>

(* The process ends with a PersistenceError: a file is not what it must be.  *)
Raise(r) ==
  /\ Obstructed(r) \/ Overtaken(r)
  /\ End(r)
  /\ UNCHANGED <<ledgerVars, db, files, cache, calls, crashes, tornVars>>

(* Mutant: every resume runs the search loop. *)
OpenAlways(r) ==
  /\ At(r, "open")
  /\ SetStatus(r, "running")
  /\ Become(r, [proc[r] EXCEPT !.pc = "initialize", !.budget = db[r].budget])
  /\ UNCHANGED <<ledgerVars, files, cache, calls, crashes, tornVars>>

(* execute(): read the database; a run with a terminal status is only        *)
(* finalized.                                                                *)
Open(r) ==
  /\ At(r, "open")
  /\ \/ /\ db[r].status \in Terminal
        /\ Become(r, [proc[r] EXCEPT !.pc = "report", !.budget = db[r].budget,
                                     !.status = db[r].status])
        /\ UNCHANGED db
     \/ /\ db[r].status \notin Terminal
        /\ SetStatus(r, "running")
        /\ Become(r, [proc[r] EXCEPT !.pc = "initialize", !.budget = db[r].budget])
  /\ UNCHANGED <<ledgerVars, files, cache, calls, crashes, tornVars>>

(* interrupt_after was reached: set_status("interrupted") and return. *)
Evaluated(r, stop, budget, pc) ==
  Become(r, IF stop THEN NoProcess
                    ELSE [proc[r] EXCEPT !.pc = pc, !.budget = budget])

(* The charged evaluation of one public baseline. *)
Initialize(r, stop) ==
  LET budget == [proc[r].budget EXCEPT !.oracle = @ + 1]
  IN  /\ At(r, "initialize")
      /\ db[r].evaluations < InitialCandidates
      /\ db' = [db EXCEPT ![r].evaluations = @ + 1, ![r].budget = budget,
                          ![r].status = IF stop THEN "interrupted" ELSE @]
      /\ Evaluated(r, stop, budget, "initialize")
      /\ UNCHANGED <<ledgerVars, files, cache, calls, crashes, tornVars>>

Initialized(r) ==
  /\ At(r, "initialize")
  /\ db[r].evaluations >= InitialCandidates
  /\ Goto(r, "recover")
  /\ UNCHANGED <<ledgerVars, db, files, cache, calls, crashes, tornVars>>

-----------------------------------------------------------------------------
(* _incomplete_request and _resume_response: continue from the last row.     *)

(* Mutant: one retry too many. *)
MayRetryOnceMore(kind, retry) == kind \in RetryableCategories /\ retry <= MaxRetries

MayRetry(kind, retry) == kind \in RetryableCategories /\ retry < MaxRetries

(* The retry loop goes on, or the sequence ends without a usable answer. *)
AfterFailure(p, kind, retry) ==
  IF MayRetry(kind, retry) THEN [p EXCEPT !.pc = "attempt", !.retry = retry + 1]
                           ELSE [p EXCEPT !.pc = "give-up"]

(* Mutant: taking up a row counts its attempt. *)
RecoveredCounts(r) ==
  [proc[r] EXCEPT !.recovering = TRUE, !.logical = Row(r).logical,
                  !.retry = Row(r).retry, !.batch = Row(r).batch,
                  !.budget.attempts = @ + 1, !.budget.provider = @ + 1]

Recovered(r) ==
  [proc[r] EXCEPT !.recovering = TRUE, !.logical = Row(r).logical,
                  !.retry = Row(r).retry, !.batch = Row(r).batch]

(* Mutant: a pending request is never sent by a resume. *)
ResumePendingNever(r) == [proc[r] EXCEPT !.pc = "interrupt"]

(* A pending row was never sent: answer it from the cache it was prepared    *)
(* with, or send it now.                                                     *)
ResumePending(r) ==
  CASE ~ proc[r].online -> [proc[r] EXCEPT !.pc = "interrupt"]
    [] proc[r].online /\ Row(r).cache_hit ->
         [Recovered(r) EXCEPT !.pc = "record", !.hit = cache[Row(r).hash],
                              !.answer = cache[Row(r).hash]]
    [] proc[r].online /\ ~ Row(r).cache_hit -> [Recovered(r) EXCEPT !.pc = "send"]

(* Mutant: a request without a durable answer is sent again. *)
ResumeDispatchedAgain(r) ==
  IF AnswerFile(r) # Nothing
  THEN [Recovered(r) EXCEPT !.pc = "record", !.answer = AnswerFile(r)]
  ELSE [Recovered(r) EXCEPT !.pc = "wire"]

(* A dispatched row is settled by its durable answer; without one it is      *)
(* never duplicated but becomes an ambiguous failure.                        *)
ResumeDispatched(r) ==
  [Recovered(r) EXCEPT !.pc = "record",
     !.answer = IF AnswerFile(r) # Nothing THEN AnswerFile(r)
                ELSE [kind |-> "uncertain", usage |-> 0, items |-> <<>>]]

Recover(r) ==
  /\ At(r, "recover") /\ ~ Obstructed(r)
  /\ IF Requests(r) = <<>> THEN Goto(r, "gate") ELSE
     Become(r,
       CASE Row(r).state = "completed" -> [proc[r] EXCEPT !.pc = "gate"]
         [] Row(r).state = "responded" ->
              [Recovered(r) EXCEPT !.pc = "items", !.answer = AnswerFile(r)]
         [] Row(r).state \in {"schema-failure", "failed"} ->
              AfterFailure(Recovered(r), AnswerFile(r).kind, Row(r).retry)
         [] Row(r).state = "usage-uncertain" -> [proc[r] EXCEPT !.pc = "stop"]
         [] Row(r).state = "pending" -> ResumePending(r)
         [] Row(r).state = "dispatched" -> ResumeDispatched(r))
  /\ UNCHANGED <<ledgerVars, db, files, cache, calls, crashes, tornVars>>

(* set_status("interrupted") and return. *)
Interrupt(r) ==
  /\ At(r, "interrupt")
  /\ SetStatus(r, "interrupted")
  /\ End(r)
  /\ UNCHANGED <<ledgerVars, files, cache, calls, crashes, tornVars>>

(* The request's usage is ambiguous: set_status("usage-uncertain"), then _finalize. *)
Stop(r) ==
  /\ At(r, "stop")
  /\ SetStatus(r, "usage-uncertain")
  /\ Finish(r, "usage-uncertain")
  /\ UNCHANGED <<ledgerVars, files, cache, calls, crashes, tornVars>>

(* No answer and no retry left: a recovered sequence stores the status before *)
(* _finalize, the main loop leaves that to _finalize.                         *)
GiveUp(r) ==
  /\ At(r, "give-up")
  /\ IF proc[r].recovering THEN SetStatus(r, "completed") ELSE UNCHANGED db
  /\ Finish(r, "completed")
  /\ UNCHANGED <<ledgerVars, files, cache, calls, crashes, tornVars>>

-----------------------------------------------------------------------------
(* The main loop of execute(). *)

(* Nothing is left to recover: an offline resume ends here. *)
Gate(r) ==
  /\ At(r, "gate")
  /\ Goto(r, IF ~ proc[r].online /\ ~ Exhausted(r, proc[r].budget)
             THEN "interrupt" ELSE "loop")
  /\ UNCHANGED <<ledgerVars, db, files, cache, calls, crashes, tornVars>>

NextCall(r) ==
  LET budget == proc[r].budget
  IN  /\ At(r, "loop")
      /\ IF Exhausted(r, budget) \/ ~ Preflight(budget)
         THEN Finish(r, "completed")
         ELSE Become(r, [proc[r] EXCEPT !.pc = "attempt", !.recovering = FALSE,
                           !.logical = budget.logical, !.retry = 0,
                           !.batch = BatchFor(budget), !.budget.logical = @ + 1])
      /\ UNCHANGED <<ledgerVars, db, files, cache, calls, crashes, tornVars>>

(* The head of either retry loop, and the cache lookup of _dispatch_request. *)
Attempt(r) ==
  LET hit == cache[NextHash(r)]
  IN  /\ At(r, "attempt") /\ ~ Obstructed(r)
      /\ IF ~ proc[r].online THEN Goto(r, "interrupt")
         ELSE IF ~ Preflight(proc[r].budget) THEN Goto(r, "give-up")
         ELSE Become(r, [proc[r] EXCEPT !.hit = hit,
                           !.pc = IF hit = Nothing THEN "reserve" ELSE "prepare"])
      /\ UNCHANGED <<ledgerVars, db, files, cache, calls, crashes, tornVars>>

ReservationRequest(r) ==
  LET hash == NextHash(r)
  IN  [reservation_id |-> ReservationId(r, Index(r) + 1, hash), run_id |-> r,
       stage |-> RunStage[r], request_hash |-> hash, amount |-> MaxCost]

ReserveCost(r) ==
  /\ At(r, "reserve")
  /\ Reserve(ReservationRequest(r), PhaseCap, StageCap[RunStage[r]])
  /\ Goto(r, "prepare")
  /\ UNCHANGED <<db, files, cache, calls, crashes, tornVars>>

(* Mutant: the abandoned call stays counted in memory. *)
RefuseCostStale(r) ==
  /\ At(r, "reserve")
  /\ ReserveRefused(ReservationRequest(r), PhaseCap, StageCap[RunStage[r]])
  /\ IF proc[r].recovering THEN SetStatus(r, "cost-cap-exhausted") ELSE UNCHANGED db
  /\ Become(r, [proc[r] EXCEPT !.pc = "report", !.status = "cost-cap-exhausted"])
  /\ UNCHANGED <<ledgerVars, files, cache, calls, crashes, tornVars>>

(* BudgetExhaustedError: the counters of the abandoned call are dropped. *)
RefuseCost(r) ==
  /\ At(r, "reserve")
  /\ ReserveRefused(ReservationRequest(r), PhaseCap, StageCap[RunStage[r]])
  /\ IF proc[r].recovering THEN SetStatus(r, "cost-cap-exhausted") ELSE UNCHANGED db
  /\ Become(r, [proc[r] EXCEPT !.pc = "report", !.status = "cost-cap-exhausted",
                               !.budget = db[r].budget])
  /\ UNCHANGED <<ledgerVars, files, cache, calls, crashes, tornVars>>

(* Prompt and request artifacts, then prepare_request(). *)
Prepare(r) ==
  LET hit == proc[r].hit # Nothing
      row == [logical |-> proc[r].logical, retry |-> proc[r].retry,
              hash |-> NextHash(r), batch |-> proc[r].batch,
              state |-> "pending", cache_hit |-> hit, reserved |-> IF hit THEN 0 ELSE MaxCost,
              actual |-> 0, released |-> 0, uncertain |-> 0, usage |-> 0,
              item_count |-> 0, next_item |-> 0]
  IN  /\ At(r, "prepare") /\ ~ Obstructed(r)
      /\ db' = [db EXCEPT ![r].requests = Append(@, row), ![r].budget = proc[r].budget]
      /\ Become(r, [proc[r] EXCEPT !.pc = IF hit THEN "record" ELSE "send",
                                   !.answer = proc[r].hit])
      /\ UNCHANGED <<ledgerVars, files, cache, calls, crashes, tornVars>>

(* mark_dispatched() *)
Send(r) ==
  /\ At(r, "send")
  /\ Row(r).state = "pending"
  /\ db' = [db EXCEPT ![r].requests[Index(r)].state = "dispatched"]
  /\ Goto(r, "wire")
  /\ UNCHANGED <<ledgerVars, files, cache, calls, crashes, tornVars>>

(* backend.dispatch(): the provider serves the request and charges for it. *)
Provider(r, answer, charge) ==
  /\ At(r, "wire")
  /\ calls' = [calls EXCEPT ![r] = Append(@, [request |-> Index(r), charge |-> charge])]
  /\ Become(r, [proc[r] EXCEPT !.pc = "record", !.answer = answer])
  /\ UNCHANGED <<ledgerVars, db, files, cache, crashes, tornVars>>

(* The response or failure artifact; a recovery finds it written already. *)
Record(r) ==
  /\ At(r, "record") /\ ~ Obstructed(r)
  /\ files' = [files EXCEPT ![r].answers =
       [i \in DOMAIN @ \cup {Index(r)} |-> IF i = Index(r) THEN proc[r].answer ELSE @[i]]]
  /\ Goto(r, "settle")
  /\ UNCHANGED <<ledgerVars, db, cache, calls, crashes, tornVars>>

-----------------------------------------------------------------------------
(* Settlement: ledger, counters, cache, row. *)

Paid(r) == ~ Row(r).cache_hit
Actual(r, answer) == IF Paid(r) /\ IsResponse(answer) THEN CostOf[answer.usage] ELSE 0
Uncertain(r, answer) == IF Paid(r) /\ answer.kind = "uncertain" THEN MaxCost ELSE 0

(* Mutant: an ambiguous failure is reported as released. *)
ReleasedAll(r, answer) == Row(r).reserved - Actual(r, answer)

Released(r, answer) == Row(r).reserved - Actual(r, answer) - Uncertain(r, answer)

Counted(r, b, answer) ==
  [b EXCEPT !.attempts = @ + 1,
            !.provider = @ + (IF Row(r).cache_hit THEN 0 ELSE 1),
            !.hits = @ + (IF Row(r).cache_hit THEN 1 ELSE 0),
            !.retries = @ + (IF Row(r).retry > 0 THEN 1 ELSE 0),
            !.tokens = @ + answer.usage,
            !.actual = @ + Actual(r, answer),
            !.uncertain = @ + Uncertain(r, answer),
            !.released = @ + Released(r, answer)]

(* Mutant: an ambiguous failure is settled like a free one. *)
SettleLedgerFree(r, answer) ==
  IF Paid(r) THEN Reconcile(ReservationId(r, Index(r), Row(r).hash), Actual(r, answer),
                            <<r, Index(r), answer>>)
             ELSE UNCHANGED ledgerVars

(* Mutant: only an answer settles the reservation. *)
SettleLedgerResponse(r, answer) ==
  IF Paid(r) /\ IsResponse(answer)
  THEN Reconcile(ReservationId(r, Index(r), Row(r).hash), Actual(r, answer),
                 <<r, Index(r), answer>>)
  ELSE UNCHANGED ledgerVars

(* reconcile() or mark_uncertain(), with the answer in the usage record. *)
SettleLedger(r, answer) ==
  LET id == ReservationId(r, Index(r), Row(r).hash)
      record == <<r, Index(r), answer>>
  IN  CASE ~ Paid(r) -> UNCHANGED ledgerVars
        [] Paid(r) /\ answer.kind = "uncertain" -> MarkUncertain(id, record)
        [] Paid(r) /\ answer.kind # "uncertain" -> Reconcile(id, Actual(r, answer), record)

(* The ledger, then the counters in memory. *)
Settle(r) ==
  LET answer == proc[r].answer
  IN  /\ At(r, "settle")
      /\ SettleLedger(r, answer)
      /\ Become(r, [proc[r] EXCEPT !.budget = Counted(r, @, answer),
                      !.pc = IF answer.kind = "response" /\ Paid(r) THEN "store" ELSE "commit"])
      /\ UNCHANGED <<db, files, cache, calls, crashes, tornVars>>

(* cache.put(): another run may have cached another answer to the same       *)
(* request; the collision is raised.                                         *)
Store(r) ==
  LET hash == Row(r).hash
      answer == proc[r].answer
  IN  /\ At(r, "store") /\ ~ Obstructed(r)
      /\ IF Writable(cache[hash], answer)
         THEN cache' = [cache EXCEPT ![hash] = answer] /\ Goto(r, "commit")
         ELSE UNCHANGED cache /\ End(r)
      /\ UNCHANGED <<ledgerVars, db, files, calls, crashes, tornVars>>

FinalState(answer) ==
  CASE answer.kind = "response" -> "responded"
    [] answer.kind = "malformed" -> "schema-failure"
    [] answer.kind \in {"rejected", "rate-limit"} -> "failed"
    [] answer.kind = "uncertain" -> "usage-uncertain"

(* finalize_request(): the row and the counters in one transaction. *)
Commit(r) ==
  LET answer == proc[r].answer
  IN  /\ At(r, "commit")
      /\ Row(r).state \in {"pending", "dispatched"}
      /\ Update(r, [Row(r) EXCEPT !.state = FinalState(answer), !.usage = answer.usage,
                      !.actual = Actual(r, answer), !.released = Released(r, answer),
                      !.uncertain = Uncertain(r, answer),
                      !.item_count = Len(answer.items)],
                proc[r].budget)
      /\ Become(r, CASE answer.kind = "response" -> [proc[r] EXCEPT !.pc = "items"]
                     [] answer.kind = "uncertain" -> [proc[r] EXCEPT !.pc = "stop"]
                     [] OTHER -> AfterFailure(proc[r], answer.kind, Row(r).retry))
      /\ UNCHANGED <<ledgerVars, files, cache, calls, crashes, tornVars>>

(* One item of _process_items: a rejected item is recorded, an accepted one   *)
(* is evaluated; interrupt_after is looked at after an evaluation only.       *)
Item(r, stop) ==
  LET accepted == proc[r].answer.items[Row(r).next_item + 1]
      budget == [proc[r].budget EXCEPT !.items = @ + 1,
                   !.oracle = @ + (IF accepted THEN 1 ELSE 0)]
  IN  /\ At(r, "items")
      /\ Row(r).next_item < Row(r).item_count
      /\ stop => accepted
      /\ db' = [db EXCEPT ![r].requests[Index(r)].next_item = @ + 1,
                          ![r].budget = budget,
                          ![r].evaluations = @ + (IF accepted THEN 1 ELSE 0),
                          ![r].status = IF stop THEN "interrupted" ELSE @]
      /\ Evaluated(r, stop, budget, "items")
      /\ UNCHANGED <<ledgerVars, files, cache, calls, crashes, tornVars>>

(* complete_request() *)
Complete(r) ==
  /\ At(r, "items")
  /\ Row(r).state = "responded" /\ Row(r).next_item = Row(r).item_count
  /\ db' = [db EXCEPT ![r].requests[Index(r)].state = "completed"]
  /\ Goto(r, IF proc[r].recovering THEN "gate" ELSE "loop")
  /\ UNCHANGED <<ledgerVars, files, cache, calls, crashes, tornVars>>

-----------------------------------------------------------------------------
(* _finalize(): the files derived from the database, access-ledger.json with *)
(* the purpose the process declared, results.json, and last the status.      *)

ReportOf(r) == [requests |-> Requests(r), budget |-> proc[r].budget]
ResultsOf(r) == [status |-> proc[r].status, report |-> ReportOf(r), access |-> proc[r].purpose]

WriteReport(r) ==
  /\ At(r, "report") /\ ~ Obstructed(r)
  /\ IF Writable(files[r].report, ReportOf(r))
     THEN files' = [files EXCEPT ![r].report = ReportOf(r)] /\ Goto(r, "access")
     ELSE UNCHANGED files /\ End(r)
  /\ UNCHANGED <<ledgerVars, db, cache, calls, crashes, tornVars>>

WriteAccessLedger(r) ==
  /\ At(r, "access") /\ ~ Obstructed(r)
  /\ IF Writable(files[r].access, proc[r].purpose)
     THEN files' = [files EXCEPT ![r].access = proc[r].purpose] /\ Goto(r, "results")
     ELSE UNCHANGED files /\ End(r)
  /\ UNCHANGED <<ledgerVars, db, cache, calls, crashes, tornVars>>

WriteResults(r) ==
  /\ At(r, "results") /\ ~ Obstructed(r)
  /\ IF Writable(files[r].results, ResultsOf(r))
     THEN files' = [files EXCEPT ![r].results = ResultsOf(r)] /\ Goto(r, "close")
     ELSE UNCHANGED files /\ End(r)
  /\ UNCHANGED <<ledgerVars, db, cache, calls, crashes, tornVars>>

Close(r) ==
  /\ At(r, "close")
  /\ SetStatus(r, proc[r].status)
  /\ End(r)
  /\ UNCHANGED <<ledgerVars, files, cache, calls, crashes, tornVars>>

-----------------------------------------------------------------------------
(* A step of the process that executes run r. *)
Step(r) ==
  \/ Open(r) \/ \E stop \in BOOLEAN : Initialize(r, stop) \/ Item(r, stop)
  \/ Initialized(r) \/ Recover(r) \/ Interrupt(r) \/ Stop(r) \/ GiveUp(r)
  \/ Gate(r) \/ NextCall(r) \/ Attempt(r) \/ ReserveCost(r) \/ RefuseCost(r)
  \/ Prepare(r) \/ Send(r)
  \/ \E answer \in Answer(proc[r].batch) :
       \E charge \in Charges(answer) : Provider(r, answer, charge)
  \/ Record(r) \/ Settle(r) \/ Store(r) \/ Commit(r) \/ Complete(r)
  \/ WriteReport(r) \/ WriteAccessLedger(r) \/ WriteResults(r) \/ Close(r)

Next ==
  \E r \in Runs :
    Step(r) \/ Start(r) \/ Crash(r) \/ Raise(r) \/ \E online \in BOOLEAN : Resume(r, online)

(* The operating system runs a process, and an operator starts every run and *)
(* in the end resumes an unfinished one with the live opt-in.                *)
Fairness ==
  \A r \in Runs : /\ WF_vars(Step(r) \/ Raise(r)) /\ WF_vars(Start(r))
                 /\ SF_vars(Resume(r, TRUE))

Spec == Init /\ [][Next]_vars /\ Fairness
-----------------------------------------------------------------------------
(* Types. *)

BudgetState == [DOMAIN EmptyBudget -> Nat]

RequestRow ==
  [logical : Nat, retry : 0..MaxRetries, hash : Hashes, batch : Nat,
   state : {"pending", "dispatched"} \cup Finalized, cache_hit : BOOLEAN,
   reserved : Nat, actual : Nat, released : Nat, uncertain : Nat, usage : Nat,
   item_count : Nat, next_item : Nat]

Phase4TypeOK ==
  /\ LedgerTypeOK
  /\ \A r \in Runs :
       /\ db[r].status \in {Nothing, "running", "interrupted"} \cup Terminal
       /\ db[r].evaluations \in Nat
       /\ db[r].requests \in Seq(RequestRow)
       /\ db[r].budget \in BudgetState /\ proc[r].budget \in BudgetState
       /\ DOMAIN files[r].answers \subseteq 1..Index(r)
       /\ \A i \in DOMAIN files[r].answers : files[r].answers[i] \in Answers
       /\ {proc[r].answer, proc[r].hit} \subseteq Answers \cup {Nothing}
  /\ \A h \in Hashes : cache[h] \in Answers \cup {Nothing}

-----------------------------------------------------------------------------
(* Safety. *)

(* The provider is asked at most once for one request row, however often the *)
(* run is killed and resumed: mark_dispatched precedes the call, and a       *)
(* dispatched row is never sent again.                                       *)
ProviderCalledOnce ==
  \A r \in Runs : \A a, b \in DOMAIN calls[r] :
    calls[r][a].request = calls[r][b].request => a = b

(* What the provider charges a run is at every moment within what the ledger *)
(* holds committed for it: the reservation comes before the call, and no     *)
(* recovery releases money that may have been spent.                         *)
SpendIsCommitted ==
  \A r \in Runs :
    RunningSum([k \in DOMAIN calls[r] |-> calls[r][k].charge])[Len(calls[r])]
      <= Committed(ChildScope(r))

SumOver(r, value(_)) ==
  RunningSum([k \in 1..Index(r) |-> value(Requests(r)[k])])[Index(r)]
CountOver(r, test(_)) == Cardinality({k \in 1..Index(r) : test(Requests(r)[k])})

(* The stored counters are the sums over the stored rows, though they were   *)
(* carried through memory by several processes: nothing is counted twice or  *)
(* lost when a request is taken up again after a crash.                      *)
BudgetMatchesRows ==
  \A r \in Runs :
    LET b == db[r].budget
        final(row) == row.state \in Finalized
    IN  /\ b.logical = CountOver(r, LAMBDA row : row.retry = 0)
        /\ b.attempts = CountOver(r, final)
        /\ b.hits = CountOver(r, LAMBDA row : final(row) /\ row.cache_hit)
        /\ b.retries = CountOver(r, LAMBDA row : final(row) /\ row.retry > 0)
        /\ b.tokens = SumOver(r, LAMBDA row : row.usage)
        /\ b.items = SumOver(r, LAMBDA row : row.next_item)
        /\ b.actual = SumOver(r, LAMBDA row : row.actual)
        /\ b.uncertain = SumOver(r, LAMBDA row : row.uncertain)
        /\ b.released = SumOver(r, LAMBDA row : row.released)
        /\ b.oracle = db[r].evaluations

(* validate() never raises: the preflight before a request and the child cap *)
(* of the ledger leave room for whatever the answer turns out to cost.  Were *)
(* it to raise, the ledger would be settled and the row not, and every       *)
(* resume would raise again.                                                 *)
BudgetStaysValid ==
  \A r \in Runs : Valid(r, db[r].budget) /\ Valid(r, proc[r].budget)

(* A finalized paid row and its reservation tell the same story, and an      *)
(* unfinished paid row has its reservation.                                  *)
RowsMatchLedger ==
  \A r \in Runs : \A i \in 1..Index(r) :
    LET row == Requests(r)[i]
    IN  ~ row.cache_hit =>
          \E k \in RowOf(ReservationId(r, i, row.hash)) :
            /\ reservation[k].reserved = row.reserved
            /\ row.state \in Finalized =>
                 /\ reservation[k].state = IF row.state = "usage-uncertain"
                                           THEN "uncertain" ELSE "reconciled"
                 /\ reservation[k].actual = row.actual
                 /\ reservation[k].uncertain = row.uncertain
                 /\ reservation[k].released = row.released

(* A finished run holds no money: none of its reservations is still active.  *)
NothingLeftHeld ==
  \A r \in Runs : Finished(r) =>
    \A k \in Rowids : reservation[k].run_id = r => reservation[k].state # "active"

(* The rows form bounded retry sequences, across any number of processes: a  *)
(* row either retries the failed row before it, with the same request, or    *)
(* starts the next logical call after a completed one.                       *)
RetriesFormChains ==
  \A r \in Runs : \A i \in 1..Index(r) :
    LET row == Requests(r)[i]
        prev == Requests(r)[i - 1]
    IN  \/ row.retry = 0 /\ row.logical = 0 /\ i = 1
        \/ /\ i > 1 /\ row.retry = 0 /\ row.logical = prev.logical + 1
           /\ prev.state = "completed"
        \/ /\ i > 1 /\ row.retry = prev.retry + 1 /\ row.retry <= MaxRetries
           /\ row.logical = prev.logical /\ row.hash = prev.hash
           /\ prev.state \in {"schema-failure", "failed"}

(* results.json, once written, describes the run as the database has it.     *)
ResultsDescribeRun ==
  \A r \in Runs : files[r].results # Nothing =>
    files[r].results.report = [requests |-> Requests(r), budget |-> db[r].budget]

(* A terminal status is final: no later process changes the run's database.  *)
TerminalIsFinal ==
  [][\A r \in Runs : db[r].status \in Terminal => db'[r] = db[r]]_vars

(* A durable answer can always be taken up: the cache holds nothing that     *)
(* contradicts the answer of a request that is still to be finalized.        *)
DurableAnswerResumes ==
  \A r \in Runs :
    Requests(r) # <<>> /\ Row(r).state = "dispatched" /\ AnswerFile(r) # Nothing =>
      (AnswerFile(r).kind = "response" => Writable(cache[Row(r).hash], AnswerFile(r)))

-----------------------------------------------------------------------------
(* Liveness. *)

(* The first process of the run died inside _finalize, after it had declared *)
(* its purpose in access-ledger.json.                                        *)
SealedByFirstProcess(r) == files[r].access = "run" /\ ~ Finished(r)

(* A kill left a file of the run, or a cache entry of one of its requests,    *)
(* behind empty.                                                             *)
TornInWriting(r) ==
  torn[r] # {} \/ \E call \in DOMAIN RequestHash :
                    call[1] = r /\ RequestHash[call] \in tornCache

(* Every run is finished in the end, through crashes, interruptions and      *)
(* offline resumes, unless its first process dies inside _finalize or some   *)
(* process dies within the writing of a file.                                *)
RunsFinish ==
  \A r \in Runs : <>(Finished(r) \/ SealedByFirstProcess(r) \/ TornInWriting(r))

(* Every interrupted run without terminal results is resumed to its end, as   *)
(* long as no file was left behind empty.                                    *)
InterruptedRunsFinish == \A r \in Runs : <>(Finished(r) \/ TornInWriting(r))
=============================================================================
