---------------------------- MODULE LedgerRebuild ----------------------------
(***************************************************************************)
(* The loss of the project ledger and its reconstruction from the records  *)
(* of the paid runs (rebuild_project_ledger, model/ledger.py), beside      *)
(* processes of Phase 4 runs that reserve, pay and settle (search/         *)
(* phase4.py), die and resume, and beside the other ledger commands, which *)
(* create a ledger that is not there (cli.py).                             *)
(*                                                                         *)
(* A run is reduced to what the rebuild reads: its request rows and its    *)
(* files under responses/.  Everything else of it is Phase4Run.  The cash  *)
(* policy is the first one: the second refuses to rebuild.                 *)
(***************************************************************************)
EXTENDS Ledger, FiniteSetsExt

CONSTANTS
  PathOrder,     \* the runs in the order of the paths of their databases
  RunStage,      \* phase4_policy.stage of each run
  RequestHash,   \* RequestHash[r][i] of the requests a run makes
  Cost,          \* the worst case of a request
  Charges,       \* what the provider may charge for an answer
  MaxCrashes,    \* bound: processes that die
  Nothing

RebuildConstants ==
  /\ ~ Dual /\ OpeningBalance = 0
  /\ PathOrder \in Seq(Runs) /\ {PathOrder[k] : k \in DOMAIN PathOrder} = Runs
  /\ RunStage \in [Runs -> Stages]
  /\ RequestHash \in [Runs -> Seq(Hashes)]
  /\ Cost \in Amounts /\ Charges \subseteq 0..Cost /\ MaxCrashes \in Nat

VARIABLES
  present,    \* the ledger file exists; reservation is its table
  rows,       \* model_request of each run's database
  responses,  \* files of responses/ of each run
  cache,      \* hashes of cached answers
  proc,       \* the process of each run
  marker,     \* the file *.rebuild-in-progress exists
  temporary,  \* its table
  command,    \* the process that rebuilds
  origin,     \* history: where the present ledger comes from
  charged,    \* history: what the provider charged each run
  refusal,    \* history: why a rebuild was refused
  crashes

runVars == <<rows, responses, cache, proc, charged>>
rebuildVars == <<marker, temporary, command, refusal>>
vars == <<ledgerVars, present, runVars, rebuildVars, origin, crashes>>

T == INSTANCE Ledger WITH reservation <- temporary

-----------------------------------------------------------------------------
Answers ==
  [kind : {"response"}, charge : Charges]
    \cup [kind : {"failed"}, charge : {0}] \cup [kind : {"uncertain"}, charge : {0, Cost}]

Down == [pc |-> "down", answer |-> Nothing]
NoCommand == [pc |-> "none", run |-> 0, row |-> 0, paid |-> {}, referenced |-> {}]

Init ==
  /\ LedgerInit
  /\ present = TRUE
  /\ rows = [r \in Runs |-> <<>>]
  /\ responses = [r \in Runs |-> <<>>]
  /\ cache = {}
  /\ proc = [r \in Runs |-> Down]
  /\ marker = FALSE /\ temporary = <<>> /\ command = NoCommand
  /\ origin = "kept" /\ refusal = Nothing
  /\ charged = [r \in Runs |-> 0] /\ crashes = 0

Last(r) == Len(rows[r])
Row(r) == rows[r][Last(r)]
Response(r, i) == IF i <= Len(responses[r]) THEN responses[r][i] ELSE Nothing
Become(r, pc, answer) == proc' = [proc EXCEPT ![r] = [pc |-> pc, answer |-> answer]]
At(r, pc) == proc[r].pc = pc

(* Request with the reservation the run makes for its i-th request.          *)
ReservationOf(r, i, amount) ==
  [reservation_id |-> <<r, i>>, run_id |-> r, stage |-> RunStage[r],
   request_hash |-> RequestHash[r][i], amount |-> amount]

(* _paid_artifacts_exist and paid_artifacts: recorded answers of the         *)
(* provider, those that came from the cache included; a failure does not     *)
(* name the provider.                                                        *)
PaidArtifacts ==
  {x \in Runs \X (1..Max({Len(responses[r]) : r \in Runs})) :
     /\ Response(x[1], x[2]) # Nothing
     /\ Response(x[1], x[2]).kind = "response"}

-----------------------------------------------------------------------------
(* A run. *)

MayOpen == present \/ PaidArtifacts = {}

(* Where a process that opens the run goes on: from the last row.            *)
Recovered(r) ==
  IF rows[r] = <<>> THEN [pc |-> "next", answer |-> Nothing]
  ELSE CASE Row(r).state = "pending" -> [pc |-> "prepared", answer |-> Nothing]
         [] Row(r).state = "dispatched" ->
              [pc |-> "answered",
               answer |-> IF Response(r, Last(r)) # Nothing THEN Response(r, Last(r))
                          ELSE [kind |-> "uncertain", charge |-> 0]]
         [] Row(r).state \in {"responded", "failed"} -> [pc |-> "next", answer |-> Nothing]
         [] Row(r).state = "usage-uncertain" -> Down

(* Phase4RunEngine.__init__ and the head of execute.                         *)
Open(r) ==
  /\ At(r, "down") /\ MayOpen /\ Recovered(r) # Down
  /\ present' = TRUE
  /\ origin' = IF present THEN origin ELSE "created"
  /\ proc' = [proc EXCEPT ![r] = Recovered(r)]
  /\ UNCHANGED <<ledgerVars, rows, responses, cache, charged, rebuildVars, crashes>>

(* _dispatch_request: the cache, or a reservation; a refused one ends the    *)
(* run.                                                                      *)
Begin(r) ==
  LET q == ReservationOf(r, Last(r) + 1, Cost)
  IN /\ At(r, "next") /\ Last(r) < Len(RequestHash[r])
     /\ \/ /\ q.request_hash \in cache
           /\ Become(r, "reserved", "hit")
           /\ UNCHANGED ledgerVars
        \/ /\ q.request_hash \notin cache
           /\ Reserve(q, PhaseCap, StageCap[RunStage[r]])
           /\ Become(r, "reserved", Nothing)
        \/ /\ q.request_hash \notin cache
           /\ ReserveRefused(q, PhaseCap, StageCap[RunStage[r]])
           /\ Become(r, "down", Nothing)
           /\ UNCHANGED ledgerVars
     /\ UNCHANGED <<present, rows, responses, cache, charged, rebuildVars, origin, crashes>>

(* prepare_request.                                                          *)
Prepare(r) ==
  LET hit == proc[r].answer = "hit"
  IN /\ At(r, "reserved")
     /\ rows' = [rows EXCEPT ![r] =
          Append(@, [state |-> "pending", hit |-> hit, reserved |-> IF hit THEN 0 ELSE Cost,
                     actual |-> 0, artifact |-> FALSE])]
     /\ Become(r, "prepared", Nothing)
     /\ UNCHANGED <<ledgerVars, present, responses, cache, charged, rebuildVars, origin, crashes>>

(* mark_dispatched and the call; an answer from the cache is not sent.       *)
Dispatch(r) ==
  /\ At(r, "prepared")
  /\ IF Row(r).hit
     THEN Become(r, "answered", [kind |-> "response", charge |-> 0]) /\ UNCHANGED rows
     ELSE /\ rows' = [rows EXCEPT ![r][Last(r)].state = "dispatched"]
          /\ Become(r, "sent", Nothing)
  /\ UNCHANGED <<ledgerVars, present, responses, cache, charged, rebuildVars, origin, crashes>>

Provider(r, answer) ==
  /\ At(r, "sent")
  /\ charged' = [charged EXCEPT ![r] = @ + answer.charge]
  /\ Become(r, "answered", answer)
  /\ UNCHANGED <<ledgerVars, present, rows, responses, cache, rebuildVars, origin, crashes>>

(* The artifact of the answer or of the failure; a recovery finds it.        *)
Record(r) ==
  /\ At(r, "answered")
  /\ responses' = [responses EXCEPT ![r] =
       [i \in 1..Last(r) |-> IF i = Last(r) THEN proc[r].answer ELSE @[i]]]
  /\ Become(r, "recorded", proc[r].answer)
  /\ UNCHANGED <<ledgerVars, present, rows, cache, charged, rebuildVars, origin, crashes>>

(* The row of the ledger a settlement finds, and whether it takes the record.*)
Settleable(r, record) ==
  \E k \in RowOf(<<r, Last(r)>>) : reservation[k].state = "active" \/ reservation[k].record = record

(* reconcile or mark_uncertain; a refusal ends the process.                  *)
Settle(r) ==
  LET answer == proc[r].answer
      record == <<"run", r, Last(r), answer.kind>>
  IN /\ At(r, "recorded")
     /\ IF Row(r).hit \/ Settleable(r, record)
        THEN /\ CASE Row(r).hit -> UNCHANGED ledgerVars
                  [] ~ Row(r).hit /\ answer.kind = "uncertain" -> MarkUncertain(<<r, Last(r)>>, record)
                  [] ~ Row(r).hit /\ answer.kind # "uncertain" ->
                       Reconcile(<<r, Last(r)>>, answer.charge, record)
             /\ Become(r, "settled", answer)
        ELSE Become(r, "down", Nothing) /\ UNCHANGED ledgerVars
     /\ UNCHANGED <<present, rows, responses, cache, charged, rebuildVars, origin, crashes>>

(* cache.put and finalize_request.  An ambiguous answer ends the run.        *)
Finalize(r) ==
  LET answer == proc[r].answer
      state == CASE answer.kind = "response" -> "responded" [] answer.kind = "failed" -> "failed"
                 [] answer.kind = "uncertain" -> "usage-uncertain"
  IN /\ At(r, "settled")
     /\ rows' = [rows EXCEPT ![r][Last(r)] =
          [@ EXCEPT !.state = state, !.artifact = TRUE,
                    !.actual = IF answer.kind = "response" THEN answer.charge ELSE 0]]
     /\ cache' = IF answer.kind = "response" THEN cache \cup {RequestHash[r][Last(r)]} ELSE cache
     /\ Become(r, IF state = "usage-uncertain" THEN "down" ELSE "next", Nothing)
     /\ UNCHANGED <<ledgerVars, present, responses, charged, rebuildVars, origin, crashes>>

(* The run has made its requests and ends.                                   *)
Finish(r) ==
  /\ At(r, "next") /\ Last(r) = Len(RequestHash[r])
  /\ Become(r, "down", Nothing)
  /\ UNCHANGED <<ledgerVars, present, rows, responses, cache, charged, rebuildVars, origin, crashes>>

Crash(r) ==
  /\ ~ At(r, "down") /\ crashes < MaxCrashes
  /\ crashes' = crashes + 1 /\ Become(r, "down", Nothing)
  /\ UNCHANGED <<ledgerVars, present, rows, responses, cache, charged, rebuildVars, origin>>

-----------------------------------------------------------------------------
(* The ledger is lost while no run is executed (once), and a command that    *)
(* only reads it creates it again.                                           *)
Lose ==
  /\ present /\ origin = "kept" /\ \A r \in Runs : At(r, "down")
  /\ present' = FALSE /\ reservation' = <<>> /\ origin' = "missing"
  /\ UNCHANGED <<cash_checkpoint, observed, runVars, rebuildVars, crashes>>

ReadStatus ==
  /\ ~ present
  /\ present' = TRUE /\ origin' = "created"
  /\ UNCHANGED <<ledgerVars, runVars, rebuildVars, crashes>>

-----------------------------------------------------------------------------
(* rebuild_project_ledger. *)

Refuse(why) ==
  /\ refusal' = why /\ command' = NoCommand /\ UNCHANGED <<marker, temporary>>

RebuildBegin ==
  /\ ~ present /\ ~ marker /\ command = NoCommand
  /\ marker' = TRUE
  /\ command' = [NoCommand EXCEPT !.pc = "database", !.run = 1, !.paid = PaidArtifacts]
  /\ UNCHANGED <<ledgerVars, present, runVars, temporary, refusal, origin, crashes>>

(* WHERE reservation_id IS NOT NULL.                                         *)
PaidRows(r) == {i \in 1..Last(r) : ~ rows[r][i].hit}

RebuiltRun == PathOrder[command.run]

(* The next paid row of the database, or the next database.                  *)
RebuildNext ==
  LET left == {i \in PaidRows(RebuiltRun) : i > command.row}
  IN /\ command.pc = "database"
     /\ command' = CASE left # {} -> [command EXCEPT !.pc = "reserve", !.row = Min(left)]
                     [] left = {} /\ command.run < Len(PathOrder) ->
                          [command EXCEPT !.run = @ + 1, !.row = 0]
                     [] left = {} /\ command.run = Len(PathOrder) -> [command EXCEPT !.pc = "orphans"]
     /\ UNCHANGED <<ledgerVars, present, runVars, marker, temporary, refusal, origin, crashes>>

(* The reservation through the cap checks, in the order of this rebuild.     *)
RebuildReserve ==
  LET r == RebuiltRun
      q == ReservationOf(r, command.row, rows[r][command.row].reserved)
  IN /\ command.pc = "reserve"
     /\ \/ /\ T!Reserve(q, PhaseCap, StageCap[RunStage[r]])
           /\ command' = [command EXCEPT !.pc = "settle"]
           /\ UNCHANGED <<marker, refusal>>
        \/ /\ T!ReserveRefused(q, PhaseCap, StageCap[RunStage[r]])
           /\ Refuse("cap") /\ UNCHANGED <<cash_checkpoint, observed>>
     /\ UNCHANGED <<reservation, present, runVars, origin, crashes>>

(* Mutant: a request that was sent but not answered is taken for free. *)
RebuiltSettlementFree(id, row, record) ==
  CASE row.state = "usage-uncertain" -> T!MarkUncertain(id, record)
    [] row.state \in {"dispatched", "responded", "failed"} -> T!Reconcile(id, row.actual, record)
    [] row.state = "pending" -> UNCHANGED <<temporary, cash_checkpoint, observed>>

RebuiltSettlement(id, row, record) ==
  CASE row.state \in {"usage-uncertain", "dispatched"} -> T!MarkUncertain(id, record)
    [] row.state \in {"responded", "failed"} -> T!Reconcile(id, row.actual, record)
    [] row.state = "pending" -> UNCHANGED <<temporary, cash_checkpoint, observed>>

(* The row is settled as its database has it, under a record of its own.     *)
RebuildSettle ==
  LET r == RebuiltRun
      row == rows[r][command.row]
  IN /\ command.pc = "settle"
     /\ RebuiltSettlement(<<r, command.row>>, row, <<"rebuilt", r, command.row, row.artifact>>)
     /\ command' = [command EXCEPT !.pc = "database",
          !.referenced = IF row.artifact THEN @ \cup {<<r, command.row>>} ELSE @]
     /\ UNCHANGED <<reservation, present, runVars, marker, refusal, origin, crashes>>

(* No recorded answer without a row, then os.replace.                        *)
RebuildInstall ==
  /\ command.pc = "orphans"
  /\ IF command.paid \subseteq command.referenced
     THEN /\ reservation' = temporary /\ temporary' = <<>> /\ marker' = FALSE
          /\ command' = NoCommand /\ present' = TRUE
          /\ origin' = IF present THEN "replaced" ELSE "rebuilt"
          /\ UNCHANGED refusal
     ELSE Refuse("orphan") /\ UNCHANGED <<reservation, present, origin>>
  /\ UNCHANGED <<cash_checkpoint, observed, runVars, crashes>>

(* The command dies; its file stays.                                         *)
RebuildCrash ==
  /\ command # NoCommand /\ crashes < MaxCrashes
  /\ crashes' = crashes + 1 /\ command' = NoCommand
  /\ UNCHANGED <<ledgerVars, present, runVars, marker, temporary, refusal, origin>>

(* The operator looks at an incomplete rebuild and removes it.               *)
Discard ==
  /\ marker /\ command = NoCommand
  /\ marker' = FALSE /\ temporary' = <<>>
  /\ UNCHANGED <<ledgerVars, present, runVars, command, refusal, origin, crashes>>

-----------------------------------------------------------------------------
Next ==
  \/ \E r \in Runs : \/ Open(r) \/ Begin(r) \/ Prepare(r) \/ Dispatch(r)
                     \/ \E answer \in Answers : Provider(r, answer)
                     \/ Record(r) \/ Settle(r) \/ Finalize(r) \/ Finish(r)
                     \/ Crash(r)
  \/ Lose \/ ReadStatus
  \/ RebuildBegin \/ RebuildNext \/ RebuildReserve \/ RebuildSettle \/ RebuildInstall
  \/ RebuildCrash \/ Discard

Spec == Init /\ [][Next]_vars

RebuildTypeOK ==
  /\ LedgerTypeOK
  /\ temporary \in Seq(ReservationRow) /\ (~ marker => temporary = <<>>)
  /\ \A r \in Runs : Len(responses[r]) <= Last(r) /\ Last(r) <= Len(RequestHash[r])
  /\ command.referenced \subseteq {<<r, i>> : r \in Runs, i \in 1..Len(temporary)}
  /\ origin \in {"kept", "missing", "created", "rebuilt", "replaced"}
  /\ (origin = "missing") = ~ present

(***************************************************************************)
(* Properties.                                                             *)
(***************************************************************************)

Accounted == \A r \in Runs : charged[r] <= Committed(ChildScope(r))

(* What the provider charged is committed in a ledger that was never lost,   *)
(* and again in one that was rebuilt while there was none, whatever the runs *)
(* were doing when they died, and however they go on.                        *)
RebuiltCoversSpend == origin \in {"kept", "rebuilt"} => Accounted

(* A rebuilt ledger tells of every finalized paid request what its run       *)
(* tells: amounts and state; and holds the money of every other one.         *)
RebuiltAgreesWithRows ==
  origin = "rebuilt" =>
    \A r \in Runs : \A i \in PaidRows(r) :
      LET row == rows[r][i]
      IN \E k \in RowOf(<<r, i>>) :
           CASE row.state \in {"responded", "failed"} ->
                  reservation[k].state = "reconciled" /\ reservation[k].actual = row.actual
             [] row.state = "usage-uncertain" ->
                  reservation[k].state = "uncertain" /\ reservation[k].uncertain = row.reserved
             [] row.state \in {"pending", "dispatched"} -> reservation[k].reserved = row.reserved

=============================================================================
