------------------------------ MODULE Phase5Live ------------------------------
(***************************************************************************)
(* The paid Phase 5 experiments (evaluation/phase5_live.py).  A canary and *)
(* a development pilot share the project ledger.  An experiment is a fixed *)
(* list of children, a child a fixed list of requests; every request       *)
(* leaves a request, a response and a result file, every child and every   *)
(* experiment a summary.  The files are the only memory: a process that    *)
(* dies is followed by another one that starts the experiment again and    *)
(* finds out from the files what was already done and what was perhaps     *)
(* already paid.                                                           *)
(*                                                                         *)
(* A child is <<experiment, task, seed, condition>>; a request is the      *)
(* child, its index and the source tree it was built from, which stands    *)
(* for its hash and for its reservation_id.                                *)
(***************************************************************************)
EXTENDS Ledger, Artifacts, FiniteSetsExt, SequencesExt

CONSTANTS
  Experiments,
  Plan,        \* registry of each experiment, see Plans
  Authority,   \* authority declaration of each experiment
  Policy,      \* exposure policy: request, child, canary, development, sealed, total
  ConditionC, ConditionD,
  Requires,    \* prerequisite canary of a pilot
  RequestMax,  \* price.maximum_cost of the frozen token bounds
  CostBound,   \* price.maximum_cost of a request's own bounds, a member of Amounts
  InputBound, OutputBound,   \* conservative_input_token_bound, max_output_tokens
  Answers,     \* what the provider answers: valid, exact, input, output, cost, latency
  Procs, MaxCrashes, MaxEdits

VARIABLES
  files,   \* output_root and the response cache, by path
  tree,    \* the working tree: source version, frozen inputs unchanged
  proc,    \* memory and place in the code of each process
  calls,   \* requests that reached the provider, in order, with the true charge
  crashes

vars == <<reservation, cash_checkpoint, observed, files, tree, proc, calls, crashes>>

-----------------------------------------------------------------------------
(* Loading. *)

Canary(e) == Plan[e].stage = "training-canary"

(* load_phase5_exposure_policy *)
AcceptedPolicy == /\ Policy.canary + Policy.development + Policy.sealed = Policy.total
                  /\ Policy.request <= Policy.child

(* load_phase5_live_experiment: the stage fixes order and number of the       *)
(* conditions and whether a canary has to come first, and the caps have to    *)
(* contain the requests of a child.                                           *)
AcceptedSelection(plan) ==
  /\ plan.tasks # <<>> /\ IsInjective(plan.tasks)
  /\ plan.seeds # <<>> /\ IsInjective(plan.seeds)
  /\ plan.conditions = IF plan.stage = "training-canary" THEN <<ConditionD>>
                                                         ELSE <<ConditionC, ConditionD>>

AcceptedCaps(plan) ==
  /\ plan.requests \in Nat \ {0}
  /\ plan.requests <= plan.itemCap
  /\ plan.requests <= plan.oracleCap
  /\ plan.requests * OutputBound <= plan.outputCap
  /\ plan.inputCap + plan.outputCap <= plan.totalCap

AcceptedPlan(e) == /\ AcceptedSelection(Plan[e])
                   /\ Canary(e) <=> Requires[e] = {}
                   /\ AcceptedCaps(Plan[e])

(* load_phase5_live_authority: all four permissions with evidence, or none.   *)
Permissions == {"model_calls", "oracle_access", "reviewed", "authorized"}
AcceptedAuthority(e) ==
  IF Authority[e].status = "authorized"
    THEN Authority[e].granted = Permissions /\ Authority[e].evidence
    ELSE Authority[e].granted = {}

Authorized(e) == AcceptedAuthority(e) /\ Authority[e].status = "authorized"

ChildCount(e) == Len(Plan[e].tasks) * Len(Plan[e].seeds) * Len(Plan[e].conditions)

(* _child_order: the conditions of a pair change places from cell to cell.    *)
ChildOrder(e) ==
  LET Conditions(t, s) == IF (t + s) % 2 = 1 THEN Reverse(Plan[e].conditions)
                                             ELSE Plan[e].conditions
  IN  FlattenSeq([t \in 1..Len(Plan[e].tasks) |->
        FlattenSeq([s \in 1..Len(Plan[e].seeds) |->
          [k \in 1..Len(Plan[e].conditions) |->
            <<e, Plan[e].tasks[t], Plan[e].seeds[s], Conditions(t, s)[k]>>]])])

LedgerStage(e) == IF Canary(e) THEN "canary" ELSE "pilot"
StageExposure(e) == IF Canary(e) THEN Policy.canary ELSE Policy.development

-----------------------------------------------------------------------------
(* Files. *)

Indices(e) == 1..Plan[e].requests
ChildFiles == {"manifest", "child"}
RequestFiles == {"request", "response", "failure", "result"}
ExperimentFiles == {"children", "analysis", "summary"}
Versions == 0..MaxEdits
Requests == UNION {ToSet(ChildOrder(e)) \X Indices(e) \X Versions : e \in Experiments}
Paths == (ChildFiles \X Runs)
         \cup UNION {RequestFiles \X ToSet(ChildOrder(e)) \X Indices(e) : e \in Experiments}
         \cup (ExperimentFiles \X Experiments)
         \cup ({"cache"} \X Requests)

(* The accepted experiments, and what they put into the ledger's columns.     *)
Phase5Constants ==
  /\ AcceptedPolicy /\ \A e \in Experiments : AcceptedPlan(e)
  /\ Runs = UNION {ToSet(ChildOrder(e)) : e \in Experiments}
  /\ \A c \in Runs : ChildCap[c] = Policy.child
  /\ CostBound \in Amounts /\ CostBound <= RequestMax
  /\ \A a \in Answers : a.cost \in 0..CostBound /\ a.input <= InputBound
  /\ {RequestMax, InputBound, OutputBound, MaxCrashes, MaxEdits} \subseteq Nat
  /\ \A e \in Experiments : LedgerStage(e) \in Stages /\ StageExposure(e) \in Overrides
  /\ Policy.total \in Overrides
  /\ Requests \subseteq Ids /\ Requests \subseteq Hashes
  /\ Requests \cup (Requests \X Answers) \subseteq Records

WholeAt(path) == IsWhole(files[path])
Content(path) == files[path].content

(* _validate_freeze: registries, policies and the frozen memory hash as before. *)
FreezeHolds == tree.frozen

-----------------------------------------------------------------------------
(* The gates of run_phase5_live_experiment. *)

AggregateMax(e) == RequestMax * Plan[e].requests * ChildCount(e)

(* phase5_live_dry_run and _ledger_committed_exposure: the worst case of the  *)
(* whole experiment fits beside everything committed so far, its own earlier  *)
(* requests included.                                                         *)
Preflight(e) ==
  /\ RequestMax <= Policy.request
  /\ RequestMax * Plan[e].requests <= Policy.child
  /\ Committed(StageScope(LedgerStage(e))) + AggregateMax(e) <= StageExposure(e)
  /\ Committed(PhaseScope) + AggregateMax(e) <= Policy.total

(* _check_canary_prerequisite *)
CanaryPassed(e) ==
  \A c \in Requires[e] :
    /\ WholeAt(<<"summary", c>>)
    /\ Content(<<"summary", c>>).status = "passed-live-training-canary"
    /\ Content(<<"summary", c>>).valid >= 1

Nothing == [state |-> "nothing"]
Gone == [pc |-> "gone"]

(* What a process holds: the experiment, the child it is at and the results   *)
(* of it so far, the summaries of earlier children, the request it is at with *)
(* the version it was built from, the answer, and a file to write.            *)
Memory(e) ==
  [pc |-> "child", e |-> e, k |-> 1, i |-> 1, version |-> 0,
   results |-> <<>>, kids |-> <<>>, cached |-> FALSE, answer |-> Nothing,
   spent |-> 0, path |-> <<>>, content |-> Nothing, opened |-> FALSE, next |-> "child"]

Start(p, e) ==
  /\ proc[p] = Gone
  /\ FreezeHolds /\ Authorized(e) /\ CanaryPassed(e) /\ Preflight(e)
  /\ files[<<"summary", e>>] = Absent
  /\ proc' = [proc EXCEPT ![p] = Memory(e)]
  /\ UNCHANGED <<ledgerVars, files, tree, calls, crashes>>

-----------------------------------------------------------------------------
(* Steps. *)

Exp(p) == proc[p].e
Child(p) == ChildOrder(Exp(p))[proc[p].k]
Req(p) == <<Child(p), proc[p].i, proc[p].version>>
RequestPath(p, kind) == <<kind, Child(p), proc[p].i>>
At(p, pc) == proc[p].pc = pc

(* An exception ends the process. *)
Raise(p) == proc' = [proc EXCEPT ![p] = Gone]

Go(p, memory, pc) == proc' = [proc EXCEPT ![p] = [memory EXCEPT !.pc = pc]]

(* write_content_artifact is called next and the code goes on at pc. *)
WriteThen(p, memory, path, content, pc) ==
  proc' = [proc EXCEPT ![p] = [memory EXCEPT !.pc = "write", !.path = path,
                                             !.content = content, !.next = pc]]

OnlyProc == UNCHANGED <<ledgerVars, files, tree, calls, crashes>>

(* write_content_artifact: create, fill, or find the same content.            *)
Write(p) ==
  LET m == proc[p]
  IN  /\ At(p, "write")
      /\ \/ /\ files[m.path] = Absent
            /\ files' = [files EXCEPT ![m.path] = Torn]
            /\ proc' = [proc EXCEPT ![p].opened = TRUE]
         \/ /\ m.opened
            /\ files' = [files EXCEPT ![m.path] = Whole(m.content)]
            /\ Go(p, [m EXCEPT !.opened = FALSE], m.next)
         \/ /\ ~ m.opened /\ Holds(files[m.path], m.content)
            /\ Go(p, m, m.next)
            /\ UNCHANGED files
         \/ /\ ~ m.opened /\ Collides(files[m.path], m.content)
            /\ Raise(p)
            /\ UNCHANGED files
      /\ UNCHANGED <<ledgerVars, tree, calls, crashes>>

(* Mutant: a manifest that is there is taken for this one. *)
BeginChildTrusting(p) ==
  LET m == proc[p]
      manifest == <<"manifest", Child(p)>>
      child == [m EXCEPT !.i = 1, !.results = <<>>, !.version = tree.version]
  IN  /\ At(p, "child") /\ m.k \in DOMAIN ChildOrder(m.e)
      /\ IF WholeAt(<<"child", Child(p)>>)
           THEN Go(p, [m EXCEPT !.k = @ + 1,
                                !.kids = Append(@, Content(<<"child", Child(p)>>))], "child")
         ELSE IF WholeAt(manifest) THEN Go(p, child, "request")
         ELSE WriteThen(p, child, manifest, tree.version, "request")
      /\ OnlyProc

(* _run_child up to its manifest: a child with a summary is taken as it is,   *)
(* any other one is bound to the source tree of the moment.                   *)
BeginChild(p) ==
  LET m == proc[p]
      summary == files[<<"child", Child(p)>>]
  IN  /\ At(p, "child") /\ m.k \in DOMAIN ChildOrder(m.e)
      /\ \/ /\ IsWhole(summary)
            /\ Go(p, [m EXCEPT !.k = @ + 1, !.kids = Append(@, summary.content)], "child")
         \/ summary = Torn /\ Raise(p)
         \/ /\ summary = Absent
            /\ WriteThen(p, [m EXCEPT !.i = 1, !.results = <<>>, !.version = tree.version],
                         <<"manifest", Child(p)>>, tree.version, "request")
      /\ OnlyProc

Used(m, part(_)) == FoldSeq(LAMBDA result, sum : part(result) + sum, 0, m.results)
InputOf(result) == result.answer.input
OutputOf(result) == result.answer.output

(* The token preflight of one request. *)
TokensFit(m) ==
  /\ Used(m, InputOf) + InputBound <= Plan[m.e].inputCap
  /\ Used(m, OutputOf) + OutputBound <= Plan[m.e].outputCap
  /\ Used(m, InputOf) + Used(m, OutputOf) + InputBound + OutputBound <= Plan[m.e].totalCap

(* Mutant: a request file without a result is sent again. *)
ExamineAgain(p) ==
  LET m == proc[p]
      result == files[RequestPath(p, "result")]
  IN  /\ At(p, "request") /\ m.i <= Plan[m.e].requests
      /\ \/ /\ IsWhole(result) /\ result.content.request = Req(p)
            /\ Go(p, [m EXCEPT !.i = @ + 1, !.results = Append(@, result.content)], "request")
         \/ /\ result # Absent /\ ~ (IsWhole(result) /\ result.content.request = Req(p))
            /\ Raise(p)
         \/ result = Absent /\ Go(p, m, IF TokensFit(m) THEN "cache" ELSE "gone")
      /\ OnlyProc

(* The head of the request loop: a result is taken over; a request without    *)
(* one may already be paid and is never sent again.                           *)
Examine(p) ==
  LET m == proc[p]
      result == files[RequestPath(p, "result")]
  IN  /\ At(p, "request") /\ m.i <= Plan[m.e].requests
      /\ \/ /\ IsWhole(result) /\ result.content.request = Req(p)
            /\ Go(p, [m EXCEPT !.i = @ + 1, !.results = Append(@, result.content)], "request")
         \/ /\ result # Absent /\ ~ (IsWhole(result) /\ result.content.request = Req(p))
            /\ Raise(p)
         \/ /\ result = Absent
            /\ IF files[RequestPath(p, "request")] = Absent /\ TokensFit(m)
                 THEN Go(p, m, "cache")
                 ELSE Raise(p)
      /\ OnlyProc

(* cache.get; the latency of an answer is not kept in the cache.              *)
LookUp(p) ==
  LET m == proc[p]
      entry == files[<<"cache", Req(p)>>]
  IN  /\ At(p, "cache")
      /\ \/ /\ IsWhole(entry)
            /\ WriteThen(p, [m EXCEPT !.cached = TRUE, !.answer = entry.content],
                         RequestPath(p, "request"), Req(p), "respond")
         \/ entry = Torn /\ Raise(p)
         \/ entry = Absent /\ Go(p, [m EXCEPT !.cached = FALSE], "reserve")
      /\ OnlyProc

ReservationOf(p) ==
  [reservation_id |-> Req(p), run_id |-> Child(p), stage |-> LedgerStage(Exp(p)),
   request_hash |-> Req(p), amount |-> CostBound]

(* Mutant: a reservation that is already there is an error. *)
ReserveOnce(p) ==
  /\ At(p, "reserve")
  /\ IF RowOf(Req(p)) # {} \/ ReserveRefused(ReservationOf(p), Policy.total, StageExposure(Exp(p)))
       THEN Raise(p) /\ UNCHANGED ledgerVars
       ELSE /\ Reserve(ReservationOf(p), Policy.total, StageExposure(Exp(p)))
            /\ WriteThen(p, proc[p], RequestPath(p, "request"), Req(p), "dispatch")
  /\ UNCHANGED <<files, tree, calls, crashes>>

(* ledger.reserve, with the exposure policy's caps in place of the wider ones. *)
ReserveRequest(p) ==
  /\ At(p, "reserve")
  /\ \/ /\ CostBound <= Policy.request
        /\ Reserve(ReservationOf(p), Policy.total, StageExposure(Exp(p)))
        /\ WriteThen(p, proc[p], RequestPath(p, "request"), Req(p), "dispatch")
     \/ /\ \/ CostBound > Policy.request
           \/ ReserveRefused(ReservationOf(p), Policy.total, StageExposure(Exp(p)))
        /\ Raise(p)
        /\ UNCHANGED ledgerVars
  /\ UNCHANGED <<files, tree, calls, crashes>>

(* backend.dispatch answers, or fails with or without a certain charge.       *)
Dispatch(p) ==
  LET m == proc[p]
      Called(charge) == calls' = Append(calls, [request |-> Req(p), charge |-> charge])
  IN  /\ At(p, "dispatch")
      /\ \/ \E a \in Answers :
              /\ Called(a.cost)
              /\ Go(p, [m EXCEPT !.answer = a], "respond")
         \/ \E charge \in {0, CostBound} :
              /\ Called(charge)
              /\ WriteThen(p, m, RequestPath(p, "failure"), "uncertain", "uncertain")
         \/ /\ Called(0)
            /\ WriteThen(p, m, RequestPath(p, "failure"), "certain", "release")
      /\ UNCHANGED <<ledgerVars, files, tree, crashes>>

(* A failed request settles its reservation and ends the process.             *)
SettleFailure(p) ==
  /\ \/ At(p, "uncertain") /\ MarkUncertain(Req(p), Req(p))
     \/ At(p, "release") /\ Reconcile(Req(p), 0, Req(p))
  /\ Raise(p)
  /\ UNCHANGED <<files, tree, calls, crashes>>

Respond(p) ==
  /\ At(p, "respond")
  /\ WriteThen(p, proc[p], RequestPath(p, "response"),
               [request |-> Req(p), answer |-> proc[p].answer],
               IF proc[p].cached THEN "evaluate" ELSE "settle")
  /\ OnlyProc

Remembered(answer) == [answer EXCEPT !.latency = 0]

(* ledger.reconcile, which may find the reservation settled otherwise, and    *)
(* cache.put.                                                                 *)
Settle(p) ==
  LET answer == proc[p].answer
      settled == \E k \in RowOf(Req(p)) :
                   \/ reservation[k].state = "active"
                   \/ /\ reservation[k].state = "reconciled"
                      /\ reservation[k].actual = answer.cost
                      /\ reservation[k].record = <<Req(p), answer>>
  IN  /\ At(p, "settle")
      /\ \/ /\ Reconcile(Req(p), answer.cost, <<Req(p), answer>>)
            /\ WriteThen(p, proc[p], <<"cache", Req(p)>>, Remembered(answer), "evaluate")
         \/ /\ ~ settled
            /\ Raise(p)
            /\ UNCHANGED ledgerVars
      /\ UNCHANGED <<files, tree, calls, crashes>>

(* Parsing, the oracle and the result file of one request.                    *)
EvaluateAnswer(p) ==
  LET m == proc[p]
      result == [request |-> Req(p), answer |-> m.answer, physical |-> IF m.cached THEN 0 ELSE 1,
                 charge |-> IF m.cached THEN 0 ELSE m.answer.cost]
  IN  /\ At(p, "evaluate")
      /\ WriteThen(p, [m EXCEPT !.i = @ + 1, !.results = Append(@, result)],
                   RequestPath(p, "result"), result, "request")
      /\ OnlyProc

ChargeOf(result) == result.charge
PhysicalOf(result) == result.physical
ValidOf(result) == IF result.answer.valid THEN 1 ELSE 0

ChildSummary(p) ==
  LET m == proc[p]
  IN  [child |-> Child(p), attempts |-> Len(m.results),
       physical |-> Used(m, PhysicalOf), charge |-> Used(m, ChargeOf),
       valid |-> Used(m, ValidOf),
       exact |-> \E j \in DOMAIN m.results : m.results[j].answer.exact,
       results |-> m.results]

(* The end of _run_child. *)
EndChild(p) ==
  LET m == proc[p]
  IN  /\ At(p, "request") /\ m.i > Plan[m.e].requests
      /\ WriteThen(p, [m EXCEPT !.k = @ + 1, !.kids = Append(@, ChildSummary(p))],
                   <<"child", Child(p)>>, ChildSummary(p), "child")
      /\ OnlyProc

-----------------------------------------------------------------------------
(* The experiment's own files. *)

SumOf(kids, part(_)) == FoldSeq(LAMBDA kid, sum : part(kid) + sum, 0, kids)
KidCharge(kid) == kid.charge
KidPhysical(kid) == kid.physical
KidValid(kid) == kid.valid
KidAttempts(kid) == kid.attempts

Kid(kids, e, task, seed, condition) ==
  CHOOSE kid \in ToSet(kids) : kid.child = <<e, task, seed, condition>>

(* What C and D of each task and seed found. *)
Analysis(e, kids) ==
  {[task |-> t, seed |-> s, off |-> Kid(kids, e, t, s, ConditionC).exact,
                            on |-> Kid(kids, e, t, s, ConditionD).exact] :
     t \in ToSet(Plan[e].tasks), s \in ToSet(Plan[e].seeds)}

Aggregates(kids) ==
  [attempts |-> SumOf(kids, KidAttempts), physical |-> SumOf(kids, KidPhysical),
   valid |-> SumOf(kids, KidValid), charge |-> SumOf(kids, KidCharge)]

ExperimentStatus(e, valid) ==
  IF ~ Canary(e) THEN "completed-live-development-pilot"
  ELSE IF valid >= 1 THEN "passed-live-training-canary" ELSE "failed-live-training-canary"

Summary(m) ==
  LET sums == Aggregates(m.kids)
  IN  [e |-> m.e, status |-> ExperimentStatus(m.e, sums.valid), valid |-> sums.valid,
       sums |-> sums, spent |-> m.spent,
       analysis |-> IF Canary(m.e) THEN Nothing ELSE Whole(Analysis(m.e, m.kids))]

(* After the last child: the ledger's status, then children.json.             *)
EndExperiment(p) ==
  LET m == proc[p]
  IN  /\ At(p, "child") /\ m.k \notin DOMAIN ChildOrder(m.e)
      /\ WriteThen(p, [m EXCEPT !.spent = Committed(PhaseScope)], <<"children", m.e>>, m.kids,
                   IF Canary(m.e) THEN "summary" ELSE "analysis")
      /\ OnlyProc

WriteAnalysis(p) ==
  LET m == proc[p]
  IN  /\ At(p, "analysis")
      /\ WriteThen(p, m, <<"analysis", m.e>>, Analysis(m.e, m.kids), "summary")
      /\ OnlyProc

WriteSummary(p) ==
  /\ At(p, "summary")
  /\ WriteThen(p, proc[p], <<"summary", Exp(p)>>, Summary(proc[p]), "done")
  /\ OnlyProc

Return(p) == At(p, "done") /\ Raise(p) /\ OnlyProc

(* replay_phase5_live_experiment *)
ReplayAccepts(e) ==
  LET kids == Content(<<"children", e>>)
      summary == Content(<<"summary", e>>)
      Agrees(kid, i) ==
        LET request == files[<<"request", kid.child, i>>]
            response == files[<<"response", kid.child, i>>]
            result == files[<<"result", kid.child, i>>]
        IN  /\ IsWhole(request) /\ IsWhole(response) /\ IsWhole(result)
            /\ request.content = response.content.request
            /\ request.content = result.content.request
            /\ response.content.answer = result.content.answer
            /\ result.content = kid.results[i]
  IN  /\ WholeAt(<<"summary", e>>) /\ WholeAt(<<"children", e>>)
      /\ Len(kids) = ChildCount(e)
      /\ \A k \in DOMAIN kids :
           /\ files[<<"child", kids[k].child>>] = Whole(kids[k])
           /\ Len(kids[k].results) = Plan[e].requests
           /\ \A i \in Indices(e) : Agrees(kids[k], i)
      /\ summary.sums = Aggregates(kids)
      /\ IF Canary(e) THEN summary.analysis = Nothing
                      ELSE files[<<"analysis", e>>] = summary.analysis

-----------------------------------------------------------------------------
Step(p) ==
  \/ Write(p) \/ BeginChild(p) \/ Examine(p) \/ LookUp(p) \/ ReserveRequest(p)
  \/ Dispatch(p) \/ SettleFailure(p) \/ Respond(p) \/ Settle(p) \/ EvaluateAnswer(p)
  \/ EndChild(p) \/ EndExperiment(p) \/ WriteAnalysis(p) \/ WriteSummary(p) \/ Return(p)

Crash(p) ==
  /\ proc[p] # Gone /\ crashes < MaxCrashes
  /\ Raise(p)
  /\ crashes' = crashes + 1
  /\ UNCHANGED <<ledgerVars, files, tree, calls>>

(* Somebody changes the source tree, or an input the experiment is frozen on. *)
Edit ==
  /\ tree.version < MaxEdits
  /\ \/ tree' = [tree EXCEPT !.version = @ + 1]
     \/ tree' = [version |-> tree.version + 1, frozen |-> FALSE]
  /\ UNCHANGED <<ledgerVars, files, proc, calls, crashes>>

Init ==
  /\ LedgerInit
  /\ files = [path \in Paths |-> Absent]
  /\ tree = [version |-> 0, frozen |-> TRUE]
  /\ proc = [p \in Procs |-> Gone]
  /\ calls = <<>> /\ crashes = 0

Next == Edit \/ \E p \in Procs : Step(p) \/ Crash(p) \/ \E e \in Experiments : Start(p, e)

Spec == Init /\ [][Next]_vars

(* A live process goes on, and somebody starts the experiment again as long   *)
(* as it is not finished and its gates are open.                              *)
Fairness == \A p \in Procs : WF_vars(Step(p)) /\ \A e \in Experiments : WF_vars(Start(p, e))
LiveSpec == Spec /\ Fairness

-----------------------------------------------------------------------------
(* Properties. *)

Phase5TypeOK ==
  /\ LedgerTypeOK
  /\ \A path \in Paths : files[path].state \in {"absent", "torn", "whole"}
  /\ tree \in [version : Versions, frozen : BOOLEAN]
  /\ \A j \in DOMAIN calls : calls[j].request \in Requests
  /\ crashes \in 0..MaxCrashes

(* "may already be paid; do not duplicate": whatever happens in between, a    *)
(* request of a child reaches the provider once, under any source version.    *)
PaidOnce ==
  \A j, l \in DOMAIN calls :
    calls[j].request[1] = calls[l].request[1] /\ calls[j].request[2] = calls[l].request[2]
      => j = l

Charged == RunningSum([j \in DOMAIN calls |-> calls[j].charge])[Len(calls)]

(* The ledger never knows less than the provider bills: a crash at any point  *)
(* leaves the charge behind a reservation that still counts.                  *)
SpendCovered == Charged <= Committed(PhaseScope)

(* Both, in states that are well formed.                                      *)
PaidOnceAndCovered == Phase5TypeOK /\ PaidOnce /\ SpendCovered

(* A summary on disk is one that replay_phase5_live_experiment accepts, with  *)
(* every file of every child behind it, after any crashes and restarts.       *)
CompletedReplays ==
  FreezeHolds => \A e \in Experiments : WholeAt(<<"summary", e>>) => ReplayAccepts(e)

(* A finished experiment is settled: what its summary reports as spent is     *)
(* what the ledger records for its children, with nothing open or uncertain,  *)
(* and its physical calls are those the provider saw.                         *)
SummaryMatchesLedger ==
  \A e \in Experiments :
    WholeAt(<<"summary", e>>) =>
      LET sums == Content(<<"summary", e>>).sums
          Own(k) == reservation[k].run_id[1] = e
      IN  /\ \A k \in Rowids : Own(k) => reservation[k].state = "reconciled"
          /\ sums.charge = FoldSeq(LAMBDA call, sum :
               (IF call.request[1][1] = e THEN call.charge ELSE 0) + sum, 0, calls)
          /\ sums.charge = MapThenSumSet(LAMBDA k : reservation[k].actual,
                                         {k \in Rowids : Own(k)})
          /\ sums.physical = Cardinality({j \in DOMAIN calls : calls[j].request[1][1] = e})

(* The pilot spends nothing before a canary has answered with a candidate     *)
(* that was valid.                                                            *)
PilotFollowsCanary ==
  \A k \in Rowids :
    LET e == reservation[k].run_id[1]
    IN  \A c \in Requires[e] :
          \E i \in Indices(c) : \E child \in ToSet(ChildOrder(c)) :
            LET result == files[<<"result", child, i>>]
            IN  IsWhole(result) /\ result.content.answer.valid

(* All results of a child come from one source tree, the one in its manifest. *)
ChildHasOneTree ==
  \A c \in Runs : \A i \in Indices(c[1]) :
    WholeAt(<<"result", c, i>>) =>
      Content(<<"result", c, i>>).request[3] = Content(<<"manifest", c>>)

-----------------------------------------------------------------------------
(* Liveness. *)

(* What a person has to look into before e can go on. *)
Ambiguous(e) ==
  \E c \in ToSet(ChildOrder(e)) : \E i \in Indices(e) :
    files[<<"request", c, i>>] # Absent /\ ~ WholeAt(<<"result", c, i>>)
TornFile(e) ==
  \E path \in Paths : files[path] = Torn
Blocked(e) == Ambiguous(e) \/ TornFile(e) \/ ~ Preflight(e)

(* An experiment whose canary has passed comes to its summary, unless a       *)
(* request may have been paid, a file was cut off or the exposure left is too *)
(* small: nothing else stands in the way of a restart, at whatever point the  *)
(* process before died.                                                       *)
ExperimentsFinish ==
  \A e \in Experiments :
    CanaryPassed(e) ~> WholeAt(<<"summary", e>>) \/ Blocked(e)
=============================================================================
