--------------------------- MODULE Phase4RunProofs ---------------------------
(***************************************************************************)
(* What the Phase 4 engine keeps straight through crashes, interruptions   *)
(* and resumes, for every number of runs and every configuration.  The     *)
(* invariant speaks of one run at a time: d is what its database holds, f  *)
(* its files, p the process executing it, c the calls of the provider, h   *)
(* the shared cache.                                                       *)
(*                                                                         *)
(* What it has to do with money: the rows of every run agree with the      *)
(* shared ledger, what the provider charges is covered by it, and the      *)
(* stored counters of a run are the sums over its stored rows, whichever   *)
(* processes carried them through their memory.                            *)
(***************************************************************************)
EXTENDS Phase4Run, LedgerProofs, FiniteSetTheorems

-----------------------------------------------------------------------------
(* The invariant. *)

Begun ==
  {"initialize", "recover", "gate", "loop", "attempt", "reserve", "prepare", "send", "wire",
   "record", "settle", "store", "commit", "items", "stop", "give-up", "interrupt"}
Ending == {"report", "access", "results", "close"}
Purposes == {"run", "resume", Nothing}
Statuses == {Nothing, "running", "interrupted"} \cup Terminal

Process ==
  [pc : {"none", "open"} \cup Begun \cup Ending, online : BOOLEAN, purpose : Purposes,
   recovering : BOOLEAN, budget : BudgetState, logical : 0..ModelRequestCap,
   retry : 0..MaxRetries, batch : 0..BatchSize, hit : Answers \cup {Nothing},
   answer : Answers \cup {Nothing}, status : Terminal \cup {Nothing}]

Database ==
  [status : Statuses, evaluations : Nat, requests : Seq(RequestRow), budget : BudgetState]

Call == [request : Nat, charge : Nat]

Report == [requests : Seq(RequestRow), budget : BudgetState]
Directory ==
  [answers : UNION {[D -> Answers] : D \in SUBSET (1..ModelRequestCap)}, report : Report \cup {Nothing},
   access : Purposes,
   results : [status : Terminal, report : Report, access : Purposes] \cup {Nothing}]

(* The last row of the run, and what its state says. *)
Size(d) == Len(d.requests)
LastRow(d) == d.requests[Size(d)]
Closed == {"completed", "schema-failure", "failed"}
LastIn(d, states) == Size(d) > 0 /\ LastRow(d).state \in states
Waiting(d) == LastIn(d, {"pending", "dispatched"})
Between(d) == Size(d) > 0 => LastRow(d).state \in Closed
Fresh(d) == Size(d) > 0 => LastRow(d).state = "completed"
Ended(d) == Size(d) > 0 => LastRow(d).state \in Closed \cup {"usage-uncertain"}
NextLogical(d) == IF Size(d) = 0 THEN 0 ELSE LastRow(d).logical + 1

(* One row: its request is that of its logical call, and it has reserved the *)
(* worst case or was answered by the cache.                                  *)
RowFits(r, row, h) ==
  /\ row.batch <= BatchSize /\ row.logical <= ModelRequestCap
  /\ row.hash = RequestHash[r, row.logical, row.batch]
  /\ row.reserved = IF row.cache_hit THEN 0 ELSE MaxCost
  /\ row.next_item <= row.item_count
  /\ row.cache_hit => row.state \in {"pending", "responded", "completed"} /\ h[row.hash] # Nothing
  /\ row.state \in {"pending", "dispatched"} => row.item_count = 0

(* Two rows that follow each other. *)
Follows(prev, row) ==
  \/ row.retry = 0 /\ row.logical = prev.logical + 1 /\ prev.state = "completed"
  \/ /\ row.retry = prev.retry + 1 /\ row.logical = prev.logical /\ row.batch = prev.batch
     /\ prev.state \in {"schema-failure", "failed"}

RowsFit(r, d, h) ==
  /\ \A i \in 1..Size(d) : RowFits(r, d.requests[i], h)
  /\ Size(d) > 0 => d.requests[1].retry = 0 /\ d.requests[1].logical = 0
  /\ \A i \in 2..Size(d) : Follows(d.requests[i - 1], d.requests[i])

(* The counters, as far as the control flow depends on them. *)
CountersFit(d) ==
  /\ d.budget.logical = NextLogical(d) /\ NextLogical(d) <= Size(d)
  /\ d.budget.attempts = IF Waiting(d) THEN Size(d) - 1 ELSE Size(d)
  /\ Waiting(d) => Preflight(d.budget)
  /\ Size(d) <= ModelRequestCap
  /\ d.status \in Terminal => Ended(d)

(* The files: the answer to an answered row is there. *)
FilesFit(d, f) ==
  /\ DOMAIN f.answers \subseteq 1..Size(d)
  /\ LastIn(d, {"responded", "schema-failure", "failed"}) =>
       /\ Size(d) \in DOMAIN f.answers
       /\ FinalState(f.answers[Size(d)]) = LastRow(d).state
       /\ Len(f.answers[Size(d)].items) = LastRow(d).item_count

(* The provider was asked for a row only once, and only after it was marked. *)
CallsFit(d, c) ==
  /\ \A a \in 1..Len(c) : c[a].request \in 1..Size(d)
  /\ \A a, b \in 1..Len(c) : c[a].request = c[b].request => a = b
  /\ LastIn(d, {"pending"}) => \A a \in 1..Len(c) : c[a].request # Size(d)

(* The process: its status. *)
StatusFits(d, p) ==
  /\ d.status = Nothing => p.pc = "none"
  /\ p.pc \in Begun => d.status = "running"
  /\ p.pc \in Ending => p.status \in Terminal /\ d.status \in {"running", p.status} /\ Ended(d)

(* Its place in the code, against the last row. *)
Asking == {"attempt", "reserve", "prepare"}
Answering == {"record", "settle", "store", "commit"}

AskingFits(r, d, p, h) ==
  /\ Between(d)
  /\ IF p.retry = 0
     THEN Fresh(d) /\ p.logical = NextLogical(d) /\ Preflight(d.budget)
     ELSE /\ LastIn(d, {"schema-failure", "failed"})
          /\ p.retry = LastRow(d).retry + 1
          /\ p.logical = LastRow(d).logical /\ p.batch = LastRow(d).batch
  /\ p.pc # "attempt" => Preflight(d.budget)
  /\ p.pc = "reserve" => p.hit = Nothing
  /\ p.pc = "prepare" => p.hit = Nothing \/ p.hit = h[RequestHash[r, p.logical, p.batch]]

AnsweringFits(d, f, p) ==
  /\ Waiting(d) /\ p.answer # Nothing
  /\ p.logical = LastRow(d).logical /\ p.batch = LastRow(d).batch
  /\ LastRow(d).cache_hit <=> LastRow(d).state = "pending"
  /\ LastRow(d).cache_hit => p.answer.kind = "response"
  /\ p.pc # "record" => Size(d) \in DOMAIN f.answers /\ f.answers[Size(d)] = p.answer
  /\ p.pc = "store" => p.answer.kind = "response" /\ ~ LastRow(d).cache_hit

PlaceFits(r, d, f, p, c, h) ==
  /\ p.pc \in {"gate", "loop"} => Fresh(d)
  /\ p.pc \in Asking => AskingFits(r, d, p, h)
  /\ p.pc = "send" => /\ LastIn(d, {"pending"}) /\ ~ LastRow(d).cache_hit
                      /\ p.logical = LastRow(d).logical /\ p.batch = LastRow(d).batch
  /\ p.pc = "wire" => /\ LastIn(d, {"dispatched"}) /\ ~ LastRow(d).cache_hit
                      /\ p.logical = LastRow(d).logical /\ p.batch = LastRow(d).batch
                      /\ \A a \in 1..Len(c) : c[a].request # Size(d)
  /\ p.pc \in Answering => AnsweringFits(d, f, p)
  /\ p.pc = "items" => LastIn(d, {"responded"}) /\ p.answer = f.answers[Size(d)]
  /\ p.pc = "stop" => LastIn(d, {"usage-uncertain"})
  /\ p.pc = "give-up" => Between(d)

(* Its memory: the counters are those of the database, with what it has done *)
(* since it last stored them.                                                *)
InMemory == {"initialize", "recover", "gate", "loop", "send", "wire", "record", "settle",
             "items", "stop"}
CountedIn(d, answer) ==
  LET row == LastRow(d)
      actual == IF ~ row.cache_hit /\ IsResponse(answer) THEN CostOf[answer.usage] ELSE 0
      uncertain == IF ~ row.cache_hit /\ answer.kind = "uncertain" THEN MaxCost ELSE 0
  IN  [d.budget EXCEPT !.attempts = @ + 1,
         !.provider = @ + (IF row.cache_hit THEN 0 ELSE 1),
         !.hits = @ + (IF row.cache_hit THEN 1 ELSE 0),
         !.retries = @ + (IF row.retry > 0 THEN 1 ELSE 0),
         !.tokens = @ + answer.usage, !.actual = @ + actual, !.uncertain = @ + uncertain,
         !.released = @ + (row.reserved - actual - uncertain)]

MemoryFits(d, p) ==
  /\ p.pc \in InMemory => p.budget = d.budget
  /\ p.pc \in Asking =>
       p.budget = IF p.retry = 0 THEN [d.budget EXCEPT !.logical = @ + 1] ELSE d.budget
  /\ p.pc \in {"store", "commit"} => p.budget = CountedIn(d, p.answer)

RunFits(r, d, f, p, c, h) ==
  /\ RowsFit(r, d, h) /\ CountersFit(d) /\ FilesFit(d, f) /\ CallsFit(d, c)
  /\ StatusFits(d, p) /\ PlaceFits(r, d, f, p, c, h) /\ MemoryFits(d, p)

(* The cache holds answers only. *)
CacheFits(h) ==
  h \in [Hashes -> {Nothing} \cup {answer \in Answers : answer.kind = "response"}]

Phase4Inv ==
  /\ db \in [Runs -> Database] /\ files \in [Runs -> Directory]
  /\ proc \in [Runs -> Process] /\ calls \in [Runs -> Seq(Call)]
  /\ CacheFits(cache)
  /\ \A r \in Runs : RunFits(r, db[r], files[r], proc[r], calls[r], cache)

-----------------------------------------------------------------------------
(* Steps of one run. *)

(* What holds of a run still holds when the cache has one more answer.       *)
LEMMA CacheGrows ==
  ASSUME NEW r \in Runs, NEW d \in Database, NEW f, NEW p \in Process, NEW c, NEW h, NEW h1,
         \A x \in Hashes : h[x] # Nothing => h1[x] = h[x],
         RunFits(r, d, f, p, c, h)
  PROVE  RunFits(r, d, f, p, c, h1)
<1>1. \A i \in 1..Size(d) : d.requests[i].hash \in Hashes
  <2>1. \A i \in 1..Size(d) : d.requests[i] \in RequestRow
    BY DEF Size, Database
  <2>2. QED
    BY <2>1 DEF RequestRow
<1>2. RowsFit(r, d, h1)
  BY <1>1 DEF RunFits, RowsFit, RowFits
<1>3. RequestHash[r, p.logical, p.batch] \in Hashes
  BY Phase4Constants DEF Process
<1>4. PlaceFits(r, d, f, p, c, h1)
  BY <1>3 DEF RunFits, PlaceFits, AskingFits
<1>5. QED
  BY <1>2, <1>4 DEF RunFits

(* A step of run r leaves the other runs alone.                              *)
LEMMA RunStep ==
  ASSUME Phase4Inv, NEW r \in Runs,
         NEW d \in Database, NEW f \in Directory, NEW p \in Process, NEW c \in Seq(Call),
         db' = [db EXCEPT ![r] = d], files' = [files EXCEPT ![r] = f],
         proc' = [proc EXCEPT ![r] = p], calls' = [calls EXCEPT ![r] = c],
         CacheFits(cache'), \A x \in Hashes : cache[x] # Nothing => cache'[x] = cache[x],
         RunFits(r, d, f, p, c, cache')
  PROVE  Phase4Inv'
<1>1. /\ db \in [Runs -> Database] /\ files \in [Runs -> Directory]
      /\ proc \in [Runs -> Process] /\ calls \in [Runs -> Seq(Call)]
  BY DEF Phase4Inv
<1>2. /\ db' \in [Runs -> Database] /\ files' \in [Runs -> Directory]
      /\ proc' \in [Runs -> Process] /\ calls' \in [Runs -> Seq(Call)]
  BY <1>1
<1>3. /\ db'[r] = d /\ files'[r] = f /\ proc'[r] = p /\ calls'[r] = c
      /\ \A s \in Runs : s # r =>
           db'[s] = db[s] /\ files'[s] = files[s] /\ proc'[s] = proc[s] /\ calls'[s] = calls[s]
  BY <1>1
<1>4. ASSUME NEW s \in Runs
      PROVE  RunFits(s, db'[s], files'[s], proc'[s], calls'[s], cache')
  <2>1. CASE s = r
    BY <1>3, <2>1
  <2>2. CASE s # r
    <3>1. RunFits(s, db[s], files[s], proc[s], calls[s], cache)
      BY DEF Phase4Inv
    <3>2. db[s] \in Database /\ proc[s] \in Process
      BY <1>1
    <3>3. RunFits(s, db[s], files[s], proc[s], calls[s], cache')
      BY <3>1, <3>2, CacheGrows
    <3>4. QED
      BY <1>3, <2>2, <3>3
  <2>3. QED
    BY <2>1, <2>2
<1>5. QED
  BY <1>2, <1>4 DEF Phase4Inv

(* The same for a step that changes one of the stores only: the database,    *)
(* the files, or what the provider was asked.                                *)
LEMMA DatabaseStep ==
  ASSUME Phase4Inv, NEW r \in Runs, NEW d \in Database, NEW p \in Process,
         db' = [db EXCEPT ![r] = d], proc' = [proc EXCEPT ![r] = p],
         UNCHANGED <<files, cache, calls>>,
         RunFits(r, d, files[r], p, calls[r], cache)
  PROVE  Phase4Inv'
<1>1. /\ files[r] \in Directory /\ calls[r] \in Seq(Call) /\ CacheFits(cache)
      /\ files \in [Runs -> Directory] /\ calls \in [Runs -> Seq(Call)]
  BY DEF Phase4Inv
<1>2. files' = [files EXCEPT ![r] = files[r]] /\ calls' = [calls EXCEPT ![r] = calls[r]]
  BY <1>1
<1>3. /\ CacheFits(cache') /\ \A x \in Hashes : cache[x] # Nothing => cache'[x] = cache[x]
      /\ RunFits(r, d, files[r], p, calls[r], cache')
  BY <1>1
<1>4. QED
  BY <1>1, <1>2, <1>3, RunStep, ZenonT(60)

(* A step of a process that changes only its files and its own state keeps the
   invariant, when what it writes fits the rows. *)
LEMMA FileStep ==
  ASSUME Phase4Inv, NEW r \in Runs, NEW f \in Directory, NEW p \in Process,
         files' = [files EXCEPT ![r] = f], proc' = [proc EXCEPT ![r] = p],
         UNCHANGED <<db, cache, calls>>,
         RunFits(r, db[r], f, p, calls[r], cache)
  PROVE  Phase4Inv'
<1>1. /\ db[r] \in Database /\ calls[r] \in Seq(Call) /\ CacheFits(cache)
      /\ db \in [Runs -> Database] /\ calls \in [Runs -> Seq(Call)]
  BY DEF Phase4Inv
<1>2. db' = [db EXCEPT ![r] = db[r]] /\ calls' = [calls EXCEPT ![r] = calls[r]]
  BY <1>1
<1>3. /\ CacheFits(cache') /\ \A x \in Hashes : cache[x] # Nothing => cache'[x] = cache[x]
      /\ RunFits(r, db[r], f, p, calls[r], cache')
  BY <1>1
<1>4. QED
  BY <1>1, <1>2, <1>3, RunStep, ZenonT(60)

(* A step that changes what the provider was asked by one run, and its process. *)
LEMMA CallStep ==
  ASSUME Phase4Inv, NEW r \in Runs, NEW c \in Seq(Call), NEW p \in Process,
         calls' = [calls EXCEPT ![r] = c], proc' = [proc EXCEPT ![r] = p],
         UNCHANGED <<db, files, cache>>,
         RunFits(r, db[r], files[r], p, c, cache)
  PROVE  Phase4Inv'
<1>1. /\ db[r] \in Database /\ files[r] \in Directory /\ CacheFits(cache)
      /\ db \in [Runs -> Database] /\ files \in [Runs -> Directory]
  BY DEF Phase4Inv
<1>2. db' = [db EXCEPT ![r] = db[r]] /\ files' = [files EXCEPT ![r] = files[r]]
  BY <1>1
<1>3. /\ CacheFits(cache') /\ \A x \in Hashes : cache[x] # Nothing => cache'[x] = cache[x]
      /\ RunFits(r, db[r], files[r], p, c, cache')
  BY <1>1
<1>4. QED
  BY <1>1, <1>2, <1>3, RunStep, ZenonT(60)

(* A step that changes a run's status and process only.                      *)
LEMMA ControlStep ==
  ASSUME Phase4Inv, NEW r \in Runs, NEW s \in Statuses, NEW p \in Process,
         db' = [db EXCEPT ![r].status = s], proc' = [proc EXCEPT ![r] = p],
         UNCHANGED <<files, cache, calls>>,
         s \in Terminal => Ended(db[r]),
         StatusFits([db[r] EXCEPT !.status = s], p),
         PlaceFits(r, db[r], files[r], p, calls[r], cache), MemoryFits(db[r], p)
  PROVE  Phase4Inv'
<1> DEFINE d == [db[r] EXCEPT !.status = s]
<1>1. /\ db[r] \in Database /\ files[r] \in Directory /\ calls[r] \in Seq(Call)
      /\ db \in [Runs -> Database] /\ files \in [Runs -> Directory] /\ calls \in [Runs -> Seq(Call)]
      /\ RunFits(r, db[r], files[r], proc[r], calls[r], cache) /\ CacheFits(cache)
  BY DEF Phase4Inv
<1>2. /\ d \in Database /\ d.requests = db[r].requests /\ d.budget = db[r].budget
      /\ d.status = s
  BY <1>1 DEF Database
<1>3. Size(d) = Size(db[r]) /\ LastRow(d) = LastRow(db[r])
  BY <1>2 DEF Size, LastRow
<1>4. \A states : LastIn(d, states) <=> LastIn(db[r], states)
  BY <1>3 DEF LastIn
<1>5. /\ Waiting(d) <=> Waiting(db[r])
      /\ Between(d) <=> Between(db[r])
      /\ Fresh(d) <=> Fresh(db[r])
      /\ Ended(d) <=> Ended(db[r])
      /\ NextLogical(d) = NextLogical(db[r])
  BY <1>3, <1>4 DEF Waiting, Between, Fresh, Ended, NextLogical
<1>6. RowsFit(r, d, cache)
  BY <1>1, <1>2, <1>3 DEF RunFits, RowsFit
<1>7. CountersFit(d)
  BY <1>1, <1>2, <1>3, <1>5 DEF RunFits, CountersFit
<1>8. FilesFit(d, files[r]) /\ CallsFit(d, calls[r])
  BY <1>1, <1>3, <1>4 DEF RunFits, FilesFit, CallsFit
<1>9. PlaceFits(r, d, files[r], p, calls[r], cache)
  BY <1>2, <1>3, <1>4, <1>5 DEF PlaceFits, AskingFits, AnsweringFits
<1>10. MemoryFits(d, p)
  BY <1>2, <1>3 DEF MemoryFits, CountedIn
<1>11. RunFits(r, d, files[r], p, calls[r], cache)
  BY <1>6, <1>7, <1>8, <1>9, <1>10 DEF RunFits
<1>12. db' = [db EXCEPT ![r] = d]
  BY <1>1
<1> HIDE DEF d
<1>13. QED
  BY <1>2, <1>11, <1>12, DatabaseStep

(* A step that changes a run's process only.                                 *)
LEMMA QuietStep ==
  ASSUME Phase4Inv, NEW r \in Runs, NEW p \in Process,
         proc' = [proc EXCEPT ![r] = p], UNCHANGED <<db, files, cache, calls>>,
         StatusFits(db[r], p), PlaceFits(r, db[r], files[r], p, calls[r], cache),
         MemoryFits(db[r], p)
  PROVE  Phase4Inv'
<1>1. db \in [Runs -> Database] /\ db[r] \in Database /\ db[r].status \in Statuses
  BY DEF Phase4Inv, Database
<1>2. db[r].status \in Terminal => Ended(db[r])
  BY DEF Phase4Inv, RunFits, CountersFit
<1>3. [db[r] EXCEPT !.status = db[r].status] = db[r]
  BY <1>1 DEF Database
<1>4. db' = [db EXCEPT ![r].status = db[r].status]
  BY <1>1, <1>3
<1>5. QED
  BY <1>1, <1>2, <1>3, <1>4, ControlStep

(* Where a process holds nothing of the last request, there is nothing to    *)
(* agree with.                                                               *)
LEMMA NothingHeld ==
  ASSUME NEW r, NEW d, NEW f, NEW p, NEW c, NEW h,
         p.pc \in {"none", "open", "interrupt"} \cup Ending
  PROVE  PlaceFits(r, d, f, p, c, h) /\ MemoryFits(d, p)
BY DEF Ending, PlaceFits, MemoryFits, Asking, Answering, InMemory

(* The state of a run nobody executes is a process state. *)
LEMMA NoProcessType == NoProcess \in Process
BY Phase4Constants DEF NoProcess, Process, EmptyBudget, BudgetState, Purposes

(* A process that ends leaves everything else as it is.                      *)
LEMMA EndStep ==
  ASSUME Phase4Inv, NEW r \in Runs, End(r), UNCHANGED <<db, files, cache, calls>>
  PROVE  Phase4Inv'
<1>1. NoProcess.pc = "none"
  BY DEF NoProcess
<1>2. StatusFits(db[r], NoProcess)
  BY <1>1 DEF StatusFits, Begun, Ending
<1>3. QED
  BY <1>1, <1>2, NothingHeld, NoProcessType, QuietStep DEF End, Become
-----------------------------------------------------------------------------
(* The actions that change the process, and at most the status of the run.   *)

(* Starting, resuming, dying and being interrupted.                          *)
LEMMA ComeAndGo ==
  ASSUME Phase4Inv, NEW r \in Runs,
         \/ Start(r) \/ Crash(r) \/ Raise(r) \/ Interrupt(r) \/ \E online \in BOOLEAN : Resume(r, online)
  PROVE  Phase4Inv'
<1> USE Phase4Values
<1>1. CASE Start(r)
  <2> DEFINE p == [NoProcess EXCEPT !.pc = "open", !.online = TRUE, !.purpose = "run"]
  <2>1. p \in Process /\ p.pc = "open"
    BY NoProcessType DEF Process, Purposes
  <2>2. db[r] \in Database
    BY DEF Phase4Inv
  <2>3. StatusFits([db[r] EXCEPT !.status = "running"], p)
    BY <2>1, <2>2 DEF StatusFits, Begun, Ending, Database
  <2>4. /\ db' = [db EXCEPT ![r].status = "running"] /\ proc' = [proc EXCEPT ![r] = p]
        /\ UNCHANGED <<files, cache, calls>>
    BY <1>1 DEF Start, SetStatus, Become
  <2>5. "running" \in Statuses /\ "running" \notin Terminal
    BY DEF Statuses, Terminal
  <2> HIDE DEF p
  <2>6. QED
    BY <2>1, <2>3, <2>4, <2>5, NothingHeld, ControlStep
<1>2. CASE Crash(r) \/ Raise(r)
  BY <1>2, EndStep DEF Crash, Raise
<1>3. CASE Interrupt(r)
  <2>1. db[r] \in Database /\ NoProcess.pc = "none"
    BY DEF Phase4Inv, NoProcess
  <2>2. StatusFits([db[r] EXCEPT !.status = "interrupted"], NoProcess)
    BY <2>1 DEF StatusFits, Begun, Ending
  <2>3. /\ db' = [db EXCEPT ![r].status = "interrupted"]
        /\ proc' = [proc EXCEPT ![r] = NoProcess] /\ UNCHANGED <<files, cache, calls>>
    BY <1>3 DEF Interrupt, SetStatus, End, Become
  <2>4. "interrupted" \in Statuses /\ "interrupted" \notin Terminal
    BY DEF Statuses, Terminal
  <2>5. QED
    BY <2>1, <2>2, <2>3, <2>4, NothingHeld, NoProcessType, ControlStep
<1>4. ASSUME NEW online \in BOOLEAN, Resume(r, online)
      PROVE  Phase4Inv'
  <2> DEFINE p == [NoProcess EXCEPT !.pc = "open", !.online = online, !.purpose = "resume"]
  <2>1. p \in Process /\ p.pc = "open"
    BY NoProcessType DEF Process, Purposes
  <2>2. StatusFits(db[r], p)
    BY <1>4, <2>1 DEF StatusFits, Begun, Ending, Resume
  <2>3. proc' = [proc EXCEPT ![r] = p] /\ UNCHANGED <<db, files, cache, calls>>
    BY <1>4 DEF Resume, Become
  <2> HIDE DEF p
  <2>4. QED
    BY <2>1, <2>2, <2>3, NothingHeld, QuietStep
<1>5. QED
  BY <1>1, <1>2, <1>3, <1>4

(* What is known of a run while its process is at work.                      *)
LEMMA AtWork ==
  ASSUME Phase4Inv, NEW r \in Runs
  PROVE  /\ db[r] \in Database /\ proc[r] \in Process /\ files[r] \in Directory
         /\ calls[r] \in Seq(Call)
         /\ db \in [Runs -> Database] /\ proc \in [Runs -> Process]
         /\ files \in [Runs -> Directory] /\ calls \in [Runs -> Seq(Call)]
         /\ RowsFit(r, db[r], cache) /\ CountersFit(db[r]) /\ FilesFit(db[r], files[r])
         /\ CallsFit(db[r], calls[r]) /\ StatusFits(db[r], proc[r])
         /\ PlaceFits(r, db[r], files[r], proc[r], calls[r], cache)
         /\ MemoryFits(db[r], proc[r]) /\ CacheFits(cache)
         /\ Size(db[r]) \in Nat /\ Index(r) = Size(db[r]) /\ Row(r) = LastRow(db[r])
         /\ Size(db[r]) > 0 =>
              /\ LastRow(db[r]) \in RequestRow /\ RowFits(r, LastRow(db[r]), cache)
<1>1. /\ db[r] \in Database /\ proc[r] \in Process /\ files[r] \in Directory
      /\ calls[r] \in Seq(Call)
      /\ db \in [Runs -> Database] /\ proc \in [Runs -> Process]
      /\ files \in [Runs -> Directory] /\ calls \in [Runs -> Seq(Call)]
  BY DEF Phase4Inv
<1>2. /\ RowsFit(r, db[r], cache) /\ CountersFit(db[r]) /\ FilesFit(db[r], files[r])
      /\ CallsFit(db[r], calls[r]) /\ StatusFits(db[r], proc[r])
      /\ PlaceFits(r, db[r], files[r], proc[r], calls[r], cache)
      /\ MemoryFits(db[r], proc[r]) /\ CacheFits(cache)
  BY DEF Phase4Inv, RunFits
<1>3. db[r].requests \in Seq(RequestRow)
  BY <1>1 DEF Database
<1>4. /\ Size(db[r]) \in Nat
      /\ Size(db[r]) > 0 => LastRow(db[r]) \in RequestRow /\ Size(db[r]) \in 1..Size(db[r])
  BY <1>3 DEF Size, LastRow
<1>5. Index(r) = Size(db[r]) /\ Row(r) = LastRow(db[r])
  BY DEF Index, Requests, Row, Size, LastRow
<1>6. Size(db[r]) > 0 => RowFits(r, LastRow(db[r]), cache)
  BY <1>2, <1>4 DEF RowsFit, LastRow
<1>7. QED
  BY <1>1, <1>2, <1>4, <1>5, <1>6

(* The head of execute().                                                    *)
LEMMA OpenStep ==
  ASSUME Phase4Inv, NEW r \in Runs, Open(r)
  PROVE  Phase4Inv'
<1>1. CASE db[r].status \in Terminal
  <2> DEFINE p == [proc[r] EXCEPT !.pc = "report", !.budget = db[r].budget,
                                  !.status = db[r].status]
  <2>1. p \in Process /\ p.pc = "report" /\ p.status = db[r].status
    BY <1>1, AtWork DEF Process, Ending, Database
  <2>2. StatusFits(db[r], p)
    BY <1>1, <2>1, AtWork, Phase4Values DEF StatusFits, Begun, Ending, CountersFit
  <2>3. proc' = [proc EXCEPT ![r] = p] /\ UNCHANGED <<db, files, cache, calls>>
    BY <1>1 DEF Open, Become
  <2>4. p.pc \in {"none", "open", "interrupt"} \cup Ending
    BY <2>1 DEF Ending
  <2> HIDE DEF p
  <2>5. QED
    BY <2>1, <2>2, <2>3, <2>4, NothingHeld, QuietStep
<1>2. CASE db[r].status \notin Terminal
  <2> DEFINE p == [proc[r] EXCEPT !.pc = "initialize", !.budget = db[r].budget]
  <2>1. p \in Process /\ p.pc = "initialize" /\ p.budget = db[r].budget
    <3>1. proc[r] \in Process /\ db[r].budget \in BudgetState
      BY AtWork DEF Database
    <3>2. QED
      BY <3>1 DEF Process, Begun
  <2>2. StatusFits([db[r] EXCEPT !.status = "running"], p)
    BY <2>1, AtWork, Phase4Values DEF StatusFits, Begun, Ending, Database
  <2>3. /\ db' = [db EXCEPT ![r].status = "running"] /\ proc' = [proc EXCEPT ![r] = p]
        /\ UNCHANGED <<files, cache, calls>>
    BY <1>2 DEF Open, SetStatus, Become
  <2>4. "running" \in Statuses /\ "running" \notin Terminal
    BY DEF Statuses, Terminal
  <2> HIDE DEF p
  <2>5. PlaceFits(r, db[r], files[r], p, calls[r], cache) /\ MemoryFits(db[r], p)
    BY <2>1 DEF PlaceFits, MemoryFits, Asking, Answering, InMemory
  <2>6. QED
    BY <2>1, <2>2, <2>3, <2>4, <2>5, ControlStep
<1>3. QED
  BY <1>1, <1>2

(* The process goes on from one place to another with what it has.           *)
LEMMA InitializedStep ==
  ASSUME Phase4Inv, NEW r \in Runs, Initialized(r)
  PROVE  Phase4Inv'
<1> DEFINE p == [proc[r] EXCEPT !.pc = "recover"]
<1>1. proc[r].pc = "initialize" /\ p \in Process /\ p.pc = "recover" /\ p.budget = proc[r].budget
  <2>1. proc[r] \in Process /\ proc[r].pc = "initialize"
    BY AtWork DEF Initialized, At
  <2>2. QED
    BY <2>1 DEF Process, Begun
<1>2. StatusFits(db[r], p) /\ p.budget = db[r].budget
  BY <1>1, AtWork DEF StatusFits, Begun, Ending, MemoryFits, InMemory
<1>3. proc' = [proc EXCEPT ![r] = p] /\ UNCHANGED <<db, files, cache, calls>>
  BY DEF Initialized, Goto, Become
<1> HIDE DEF p
<1>4. PlaceFits(r, db[r], files[r], p, calls[r], cache) /\ MemoryFits(db[r], p)
  BY <1>1, <1>2 DEF PlaceFits, MemoryFits, Asking, Answering, InMemory
<1>5. QED
  BY <1>1, <1>2, <1>3, <1>4, QuietStep

(* The gate of `execute`: an offline run with an open request stops, the others go on. *)
LEMMA GateStep ==
  ASSUME Phase4Inv, NEW r \in Runs, Gate(r)
  PROVE  Phase4Inv'
<1> DEFINE p == [proc[r] EXCEPT !.pc = IF ~ proc[r].online /\ ~ Exhausted(r, proc[r].budget)
                                       THEN "interrupt" ELSE "loop"]
<1>1. /\ proc[r].pc = "gate" /\ p \in Process /\ p.pc \in {"interrupt", "loop"}
      /\ p.budget = proc[r].budget
  <2>1. proc[r] \in Process /\ proc[r].pc = "gate"
    BY AtWork DEF Gate, At
  <2>2. QED
    BY <2>1 DEF Process, Begun
<1>2. StatusFits(db[r], p) /\ p.budget = db[r].budget /\ Fresh(db[r])
  BY <1>1, AtWork DEF StatusFits, Begun, Ending, MemoryFits, InMemory, PlaceFits
<1>3. proc' = [proc EXCEPT ![r] = p] /\ UNCHANGED <<db, files, cache, calls>>
  BY DEF Gate, Goto, Become
<1> HIDE DEF p
<1>4. PlaceFits(r, db[r], files[r], p, calls[r], cache) /\ MemoryFits(db[r], p)
  BY <1>1, <1>2 DEF PlaceFits, MemoryFits, Asking, Answering, InMemory
<1>5. QED
  BY <1>1, <1>2, <1>3, <1>4, QuietStep

(* The shape of an answer.                                                   *)
LEMMA AnswerShape ==
  ASSUME NEW a \in Answers
  PROVE  /\ a.kind \in {"response", "malformed", "rejected", "rate-limit", "uncertain"}
         /\ a.usage \in 0..TokenBound /\ Len(a.items) \in Nat
         /\ a.kind \in {"response", "malformed"} => a.usage \in Usages
         /\ a.kind = "response" => a.items \in Seq(BOOLEAN)
         /\ a.kind # "response" => a.items = <<>>
         /\ a.kind = "uncertain" => a.usage = 0
<1>1. PICK n \in 0..BatchSize : a \in Answer(n)
  BY DEF Answers
<1>2. n \in Nat /\ Usages \subseteq 0..TokenBound /\ TokenBound \in Nat
  BY Phase4Constants
<1>3. CASE a \in [kind : {"response"}, usage : Usages, items : [1..n -> BOOLEAN]]
  <2>1. a.items \in Seq(BOOLEAN)
    <3>1. a.items \in [1..n -> BOOLEAN]
      BY <1>3
    <3>2. QED
      BY <1>2, <3>1, SeqDef
  <2>2. a.kind = "response" /\ a.usage \in Usages /\ Len(a.items) \in Nat
    BY <1>3, <2>1
  <2>3. QED
    BY <1>2, <2>1, <2>2
<1>4. CASE a \in [kind : {"malformed"}, usage : Usages, items : {<<>>}]
  BY <1>2, <1>4
<1>5. CASE a \in [kind : {"rejected", "rate-limit", "uncertain"}, usage : {0}, items : {<<>>}]
  BY <1>2, <1>5
<1>6. QED
  BY <1>1, <1>3, <1>4, <1>5 DEF Answer

(* The failure a resume assumes of a request it finds dispatched.            *)
LEMMA AmbiguousAnswer ==
  [kind |-> "uncertain", usage |-> 0, items |-> <<>>] \in Answers
<1>1. 0 \in 0..BatchSize
  BY Phase4Constants
<1>2. [kind |-> "uncertain", usage |-> 0, items |-> <<>>] \in Answer(0)
  BY DEF Answer
<1>3. QED
  BY <1>1, <1>2 DEF Answers

(* A process taken up where the last row left it: what it has in memory.     *)
LEMMA RecoveredProcess ==
  ASSUME Phase4Inv, NEW r \in Runs, At(r, "recover"), Size(db[r]) > 0
  PROVE  /\ Recovered(r) \in Process
         /\ Recovered(r).budget = db[r].budget
         /\ Recovered(r).retry = LastRow(db[r]).retry
         /\ Recovered(r).logical = LastRow(db[r]).logical
         /\ Recovered(r).batch = LastRow(db[r]).batch
         /\ Recovered(r).pc = "recover"
<1>1. /\ LastRow(db[r]).batch \in 0..BatchSize /\ LastRow(db[r]).logical \in 0..ModelRequestCap
      /\ LastRow(db[r]).retry \in 0..MaxRetries
  <2>1. LastRow(db[r]) \in RequestRow /\ RowFits(r, LastRow(db[r]), cache)
    BY AtWork
  <2>2. BatchSize \in Nat /\ ModelRequestCap \in Nat
    BY Phase4Constants
  <2>3. LastRow(db[r]).batch <= BatchSize /\ LastRow(db[r]).logical <= ModelRequestCap
    BY <2>1 DEF RowFits
  <2>4. /\ LastRow(db[r]).batch \in Nat /\ LastRow(db[r]).logical \in Nat
        /\ LastRow(db[r]).retry \in 0..MaxRetries
    BY <2>1 DEF RequestRow
  <2>5. QED
    BY <2>2, <2>3, <2>4
<1>2. proc[r] \in Process /\ Row(r) = LastRow(db[r]) /\ proc[r].budget = db[r].budget
      /\ proc[r].pc = "recover"
  BY AtWork DEF MemoryFits, InMemory, At
<1>3. QED
  BY <1>1, <1>2 DEF Recovered, Process

(* After a failed answer the process either retries the row or gives up.     *)
LEMMA AfterFailureFits ==
  ASSUME NEW r \in Runs, NEW d \in Database, NEW f, NEW c, NEW h, NEW p \in Process, NEW kind,
         LastIn(d, {"schema-failure", "failed"}), p.budget = d.budget,
         p.logical = LastRow(d).logical, p.batch = LastRow(d).batch,
         LastRow(d).retry \in 0..MaxRetries,
         NEW q, q = AfterFailure(p, kind, LastRow(d).retry)
  PROVE  /\ q \in Process /\ q.pc \in Begun
         /\ PlaceFits(r, d, f, q, c, h) /\ MemoryFits(d, q)
<1>1. Between(d)
  BY DEF Between, LastIn, Closed
<1>2. CASE MayRetry(kind, LastRow(d).retry)
  <2>1. q = [p EXCEPT !.pc = "attempt", !.retry = LastRow(d).retry + 1]
    BY <1>2 DEF AfterFailure
  <2>2. LastRow(d).retry + 1 \in 1..MaxRetries
    BY <1>2, Phase4Constants DEF MayRetry
  <2>3. /\ q \in Process /\ q.pc = "attempt" /\ q.retry = LastRow(d).retry + 1
        /\ q.budget = d.budget /\ q.logical = LastRow(d).logical /\ q.batch = LastRow(d).batch
    <3>1. LastRow(d).retry + 1 \in 0..MaxRetries
      BY <2>2
    <3>2. QED
      BY <2>1, <3>1 DEF Process, Begun
  <2>4. q.retry # 0
    BY <2>2, <2>3
  <2>5. AskingFits(r, d, q, h)
    BY <1>1, <2>3, <2>4 DEF AskingFits
  <2>6. QED
    BY <2>3, <2>4, <2>5 DEF PlaceFits, MemoryFits, Asking, Answering, InMemory, Begun
<1>3. CASE ~ MayRetry(kind, LastRow(d).retry)
  <2>1. q \in Process /\ q.pc = "give-up"
    BY <1>3 DEF AfterFailure, Process, Begun
  <2>2. QED
    BY <1>1, <2>1 DEF PlaceFits, MemoryFits, Asking, Answering, InMemory, Begun
<1>4. QED
  BY <1>2, <1>3

(* Where a resume takes up the last row.                                     *)
LEMMA RecoverStep ==
  ASSUME Phase4Inv, NEW r \in Runs, Recover(r)
  PROVE  Phase4Inv'
<1> DEFINE d == db[r]
<1>1. proc[r].pc = "recover" /\ UNCHANGED <<db, files, cache, calls>> /\ At(r, "recover")
  BY DEF Recover, At
<1>2. /\ d \in Database /\ proc[r] \in Process /\ d.status = "running"
      /\ proc[r].budget = d.budget /\ Index(r) = Size(d) /\ Row(r) = LastRow(d)
      /\ (Requests(r) = <<>> <=> Size(d) = 0) /\ Size(d) \in Nat
  <2>1. /\ d \in Database /\ proc[r] \in Process /\ d.status = "running"
        /\ proc[r].budget = d.budget /\ Index(r) = Size(d) /\ Row(r) = LastRow(d)
    BY <1>1, AtWork DEF StatusFits, MemoryFits, InMemory, Begun
  <2>2. d.requests \in Seq(RequestRow) /\ Requests(r) = d.requests
    BY <2>1 DEF Database, Requests
  <2>3. QED
    BY <2>1, <2>2 DEF Size
<1>3. ASSUME NEW p \in Process, proc' = [proc EXCEPT ![r] = p], p.pc \in Begun,
             PlaceFits(r, d, files[r], p, calls[r], cache), MemoryFits(d, p)
      PROVE  Phase4Inv'
  <2>1. StatusFits(d, p)
    BY <1>2, <1>3, Phase4Values DEF StatusFits, Begun, Ending
  <2>2. QED
    BY <1>1, <1>3, <2>1, QuietStep
<1>4. ASSUME NEW p \in Process, proc' = [proc EXCEPT ![r] = p], p.pc = "gate",
             p.budget = d.budget, Fresh(d)
      PROVE  Phase4Inv'
  BY <1>3, <1>4 DEF PlaceFits, MemoryFits, Asking, Answering, InMemory, Begun
<1>5. CASE Size(d) = 0
  <2> DEFINE p == [proc[r] EXCEPT !.pc = "gate"]
  <2>1. p \in Process /\ p.pc = "gate" /\ p.budget = d.budget
    BY <1>2 DEF Process, Begun
  <2>2. proc' = [proc EXCEPT ![r] = p]
    BY <1>2, <1>5 DEF Recover, Goto, Become
  <2>3. Fresh(d)
    BY <1>5 DEF Fresh
  <2> HIDE DEF p
  <2>4. QED
    BY <1>4, <2>1, <2>2, <2>3
<1>6. CASE Size(d) > 0
  <2>1. /\ Recovered(r) \in Process /\ Recovered(r).budget = d.budget
        /\ Recovered(r).retry = LastRow(d).retry
        /\ Recovered(r).logical = LastRow(d).logical /\ Recovered(r).batch = LastRow(d).batch
        /\ LastRow(d) \in RequestRow /\ RowFits(r, LastRow(d), cache) /\ FilesFit(d, files[r])
        /\ CacheFits(cache) /\ proc \in [Runs -> Process] /\ files[r] \in Directory
    BY <1>1, <1>6, RecoveredProcess, AtWork
  <2>2. proc' = [proc EXCEPT ![r] =
       CASE Row(r).state = "completed" -> [proc[r] EXCEPT !.pc = "gate"]
         [] Row(r).state = "responded" ->
              [Recovered(r) EXCEPT !.pc = "items", !.answer = AnswerFile(r)]
         [] Row(r).state \in {"schema-failure", "failed"} ->
              AfterFailure(Recovered(r), AnswerFile(r).kind, Row(r).retry)
         [] Row(r).state = "usage-uncertain" -> [proc[r] EXCEPT !.pc = "stop"]
         [] Row(r).state = "pending" -> ResumePending(r)
         [] Row(r).state = "dispatched" -> ResumeDispatched(r)]
    <3>1. Requests(r) # <<>>
      BY <1>2, <1>6
    <3>2. QED
      BY <3>1, Zenon DEF Recover, Become
  <2>3. CASE LastRow(d).state = "completed"
    <3> DEFINE q == [proc[r] EXCEPT !.pc = "gate"]
    <3>1. q \in Process /\ q.pc = "gate" /\ q.budget = d.budget
      BY <1>2 DEF Process, Begun
    <3>2. proc' = [proc EXCEPT ![r] = q]
      BY <1>2, <2>2, <2>3
    <3> HIDE DEF q
    <3>3. QED
      BY <1>4, <2>3, <3>1, <3>2 DEF Fresh
  <2>4. CASE LastRow(d).state = "responded"
    <3> DEFINE q == [Recovered(r) EXCEPT !.pc = "items", !.answer = AnswerFile(r)]
    <3>1. LastIn(d, {"responded"}) /\ Size(d) \in DOMAIN files[r].answers
      BY <1>6, <2>1, <2>4 DEF LastIn, FilesFit
    <3>2. AnswerFile(r) = files[r].answers[Size(d)] /\ AnswerFile(r) \in Answers
      BY <1>2, <2>1, <3>1 DEF AnswerFile, Directory
    <3>3. q \in Process /\ q.pc = "items" /\ q.budget = d.budget /\ q.answer = AnswerFile(r)
      BY <2>1, <3>2 DEF Process, Begun
    <3>4. proc' = [proc EXCEPT ![r] = q]
      BY <1>2, <2>2, <2>4
    <3>5. QED
      BY <1>3, <3>1, <3>2, <3>3, <3>4
      DEF PlaceFits, MemoryFits, Asking, Answering, InMemory, Begun
  <2>5. CASE LastRow(d).state \in {"schema-failure", "failed"}
    <3> DEFINE q == AfterFailure(Recovered(r), AnswerFile(r).kind, LastRow(d).retry)
    <3>1. LastIn(d, {"schema-failure", "failed"}) /\ LastRow(d).retry \in 0..MaxRetries
      BY <1>6, <2>1, <2>5 DEF LastIn, RequestRow
    <3>2. proc' = [proc EXCEPT ![r] = q]
      BY <1>2, <2>2, <2>5
    <3>3. /\ q \in Process /\ q.pc \in Begun
          /\ PlaceFits(r, d, files[r], q, calls[r], cache) /\ MemoryFits(d, q)
      BY <1>2, <2>1, <3>1, AfterFailureFits
    <3>4. QED
      BY <1>3, <3>2, <3>3
  <2>6. CASE LastRow(d).state = "usage-uncertain"
    <3> DEFINE q == [proc[r] EXCEPT !.pc = "stop"]
    <3>1. q \in Process /\ q.pc = "stop" /\ q.budget = d.budget
      BY <1>2 DEF Process, Begun
    <3>2. proc' = [proc EXCEPT ![r] = q]
      BY <1>2, <2>2, <2>6
    <3>3. LastIn(d, {"usage-uncertain"})
      BY <1>6, <2>6 DEF LastIn
    <3>4. QED
      BY <1>3, <3>1, <3>2, <3>3
      DEF PlaceFits, MemoryFits, Asking, Answering, InMemory, Begun
  <2>7. CASE LastRow(d).state = "pending"
    <3>1. proc' = [proc EXCEPT ![r] = ResumePending(r)]
      BY <1>2, <2>2, <2>7
    <3>2. LastIn(d, {"pending"}) /\ Waiting(d)
      BY <1>6, <2>7 DEF LastIn, Waiting
    <3>3. CASE ~ proc[r].online
      <4> DEFINE q == [proc[r] EXCEPT !.pc = "interrupt"]
      <4>1. q \in Process /\ q.pc = "interrupt"
        BY <1>2 DEF Process, Begun
      <4>2. proc' = [proc EXCEPT ![r] = q]
        BY <3>1, <3>3 DEF ResumePending
      <4>3. QED
        BY <1>3, <4>1, <4>2, NothingHeld DEF Begun
    <3>4. CASE proc[r].online /\ LastRow(d).cache_hit
      <4> DEFINE a == cache[LastRow(d).hash]
                 q == [Recovered(r) EXCEPT !.pc = "record", !.hit = a, !.answer = a]
      <4>1. a \in Answers /\ a # Nothing /\ a.kind = "response"
        BY <2>1, <3>4, Phase4Values DEF CacheFits, RowFits, RequestRow
      <4>2. /\ q \in Process /\ q.pc = "record" /\ q.budget = d.budget /\ q.answer = a
            /\ q.logical = LastRow(d).logical /\ q.batch = LastRow(d).batch
        BY <2>1, <4>1 DEF Process, Begun
      <4>3. proc' = [proc EXCEPT ![r] = q]
        BY <1>2, <3>1, <3>4 DEF ResumePending
      <4>4. AnsweringFits(d, files[r], q)
        BY <2>7, <3>2, <3>4, <4>1, <4>2 DEF AnsweringFits
      <4>5. QED
        BY <1>3, <4>2, <4>3, <4>4
        DEF PlaceFits, MemoryFits, Asking, Answering, InMemory, Begun
    <3>5. CASE proc[r].online /\ ~ LastRow(d).cache_hit
      <4> DEFINE q == [Recovered(r) EXCEPT !.pc = "send"]
      <4>1. /\ q \in Process /\ q.pc = "send" /\ q.budget = d.budget
            /\ q.logical = LastRow(d).logical /\ q.batch = LastRow(d).batch
        BY <2>1 DEF Process, Begun
      <4>2. proc' = [proc EXCEPT ![r] = q]
        BY <1>2, <3>1, <3>5 DEF ResumePending
      <4>3. QED
        BY <1>3, <3>2, <3>5, <4>1, <4>2
        DEF PlaceFits, MemoryFits, Asking, Answering, InMemory, Begun
    <3>6. QED
      BY <1>2, <3>3, <3>4, <3>5 DEF Process
  <2>8. CASE LastRow(d).state = "dispatched"
    <3> DEFINE a == IF AnswerFile(r) # Nothing THEN AnswerFile(r)
                    ELSE [kind |-> "uncertain", usage |-> 0, items |-> <<>>]
               q == [Recovered(r) EXCEPT !.pc = "record", !.answer = a]
    <3>1. a \in Answers /\ a # Nothing
      BY <2>1, AmbiguousAnswer, Phase4Values DEF AnswerFile, Directory
    <3>2. /\ q \in Process /\ q.pc = "record" /\ q.budget = d.budget /\ q.answer = a
          /\ q.logical = LastRow(d).logical /\ q.batch = LastRow(d).batch
      BY <2>1, <3>1 DEF Process, Begun
    <3>3. proc' = [proc EXCEPT ![r] = q]
      BY <1>2, <2>2, <2>8 DEF ResumeDispatched
    <3>4. Waiting(d) /\ ~ LastRow(d).cache_hit
      BY <1>6, <2>1, <2>8 DEF LastIn, Waiting, RowFits
    <3>5. AnsweringFits(d, files[r], q)
      BY <2>8, <3>1, <3>2, <3>4 DEF AnsweringFits
    <3>6. QED
      BY <1>3, <3>2, <3>3, <3>5
      DEF PlaceFits, MemoryFits, Asking, Answering, InMemory, Begun
  <2>9. QED
    BY <2>1, <2>3, <2>4, <2>5, <2>6, <2>7, <2>8 DEF RequestRow, Finalized
<1>7. QED
  BY <1>2, <1>5, <1>6

(* A process that stops asking goes to _finalize, whether the status is      *)
(* stored now or later.                                                      *)
LEMMA FinishStep ==
  ASSUME Phase4Inv, NEW r \in Runs, NEW status \in Terminal, NEW budget \in BudgetState,
         proc[r].pc \in Begun, Ended(db[r]),
         proc' = [proc EXCEPT ![r] = [proc[r] EXCEPT !.pc = "report", !.status = status,
                                                     !.budget = budget]],
         UNCHANGED <<files, cache, calls>>,
         db' = [db EXCEPT ![r].status = status] \/ UNCHANGED db
  PROVE  Phase4Inv'
<1> DEFINE p == [proc[r] EXCEPT !.pc = "report", !.status = status, !.budget = budget]
<1>1. p \in Process /\ p.pc = "report" /\ p.status = status
  BY AtWork DEF Process, Ending
<1>2. db[r] \in Database /\ db[r].status = "running" /\ status \in Statuses
  BY AtWork DEF StatusFits, Statuses
<1>3. proc' = [proc EXCEPT ![r] = p]
  OBVIOUS
<1> HIDE DEF p
<1>4. PlaceFits(r, db[r], files[r], p, calls[r], cache) /\ MemoryFits(db[r], p)
  BY <1>1, NothingHeld DEF Ending
<1>5. CASE UNCHANGED db
  <2>1. StatusFits(db[r], p)
    BY <1>1, <1>2, Phase4Values DEF StatusFits, Begun, Ending
  <2>2. QED
    BY <1>1, <1>3, <1>4, <1>5, <2>1, QuietStep
<1>6. CASE db' = [db EXCEPT ![r].status = status]
  <2>1. /\ [db[r] EXCEPT !.status = status].status = status
        /\ Ended([db[r] EXCEPT !.status = status])
    BY <1>2 DEF Database, Ended, Size, LastRow
  <2>2. StatusFits([db[r] EXCEPT !.status = status], p)
    BY <1>1, <2>1, Phase4Values DEF StatusFits, Begun, Ending
  <2>3. QED
    BY <1>1, <1>2, <1>3, <1>4, <1>6, <2>2, ControlStep
<1>7. QED
  BY <1>5, <1>6

(* No answer and no retry left.                                              *)
LEMMA GiveUpStep ==
  ASSUME Phase4Inv, NEW r \in Runs, GiveUp(r)
  PROVE  Phase4Inv'
<1>1. proc[r].pc = "give-up" /\ proc[r] \in Process /\ Between(db[r]) /\ db[r] \in Database
  BY AtWork DEF GiveUp, At, PlaceFits
<1>2. "completed" \in Terminal /\ proc[r].pc \in Begun /\ Ended(db[r])
      /\ proc[r].budget \in BudgetState
  BY <1>1 DEF Terminal, Begun, Between, Ended, Process
<1>3. [proc[r] EXCEPT !.pc = "report", !.status = "completed"]
        = [proc[r] EXCEPT !.pc = "report", !.status = "completed", !.budget = proc[r].budget]
  BY <1>1 DEF Process
<1>4. /\ proc' = [proc EXCEPT ![r] = [proc[r] EXCEPT !.pc = "report", !.status = "completed",
                                                     !.budget = proc[r].budget]]
      /\ UNCHANGED <<files, cache, calls>>
      /\ db' = [db EXCEPT ![r].status = "completed"] \/ UNCHANGED db
  BY <1>3 DEF GiveUp, Finish, Become, SetStatus
<1>5. QED
  BY <1>2, <1>4, FinishStep

(* The request's usage stays ambiguous: the run ends.                        *)
LEMMA StopStep ==
  ASSUME Phase4Inv, NEW r \in Runs, Stop(r)
  PROVE  Phase4Inv'
<1>1. /\ proc[r].pc = "stop" /\ proc[r] \in Process /\ LastIn(db[r], {"usage-uncertain"})
  BY AtWork DEF Stop, At, PlaceFits
<1>2. "usage-uncertain" \in Terminal /\ proc[r].pc \in Begun /\ Ended(db[r])
      /\ proc[r].budget \in BudgetState
  BY <1>1 DEF Terminal, Begun, LastIn, Ended, Process
<1>3. [proc[r] EXCEPT !.pc = "report", !.status = "usage-uncertain"]
        = [proc[r] EXCEPT !.pc = "report", !.status = "usage-uncertain",
                          !.budget = proc[r].budget]
  BY <1>1 DEF Process
<1>4. /\ proc' = [proc EXCEPT ![r] = [proc[r] EXCEPT !.pc = "report",
                    !.status = "usage-uncertain", !.budget = proc[r].budget]]
      /\ UNCHANGED <<files, cache, calls>>
      /\ db' = [db EXCEPT ![r].status = "usage-uncertain"]
  BY <1>3 DEF Stop, Finish, Become, SetStatus
<1>5. QED
  BY <1>2, <1>4, FinishStep

(* The ledger refuses the reservation.                                       *)
LEMMA RefuseCostStep ==
  ASSUME Phase4Inv, NEW r \in Runs, RefuseCost(r)
  PROVE  Phase4Inv'
<1>1. /\ proc[r].pc = "reserve" /\ Between(db[r]) /\ db[r].budget \in BudgetState
  BY AtWork DEF RefuseCost, At, PlaceFits, Asking, AskingFits, Database
<1>2. "cost-cap-exhausted" \in Terminal /\ proc[r].pc \in Begun /\ Ended(db[r])
  BY <1>1 DEF Terminal, Begun, Between, Ended
<1>3. /\ proc' = [proc EXCEPT ![r] = [proc[r] EXCEPT !.pc = "report",
                    !.status = "cost-cap-exhausted", !.budget = db[r].budget]]
      /\ UNCHANGED <<files, cache, calls>>
      /\ db' = [db EXCEPT ![r].status = "cost-cap-exhausted"] \/ UNCHANGED db
  BY DEF RefuseCost, Become, SetStatus
<1>4. QED
  BY <1>1, <1>2, <1>3, FinishStep

(* The reservation is made: the place moves on, the invariant speaks of the  *)
(* ledger nowhere.                                                           *)
LEMMA ReserveCostStep ==
  ASSUME Phase4Inv, NEW r \in Runs, ReserveCost(r)
  PROVE  Phase4Inv'
<1> DEFINE p == [proc[r] EXCEPT !.pc = "prepare"]
<1>1. /\ proc[r].pc = "reserve" /\ proc' = [proc EXCEPT ![r] = p]
      /\ UNCHANGED <<db, files, cache, calls>>
  BY DEF ReserveCost, Goto, Become, At
<1>2. /\ p \in Process /\ p.pc = "prepare" /\ p.budget = proc[r].budget
      /\ p.retry = proc[r].retry /\ p.logical = proc[r].logical /\ p.batch = proc[r].batch
      /\ p.hit = proc[r].hit
  <2>1. proc[r] \in Process
    BY AtWork
  <2>2. QED
    BY <2>1 DEF Process, Begun
<1>3. AskingFits(r, db[r], proc[r], cache) /\ db[r].status = "running"
  BY <1>1, AtWork DEF PlaceFits, Asking, StatusFits, Begun
<1> HIDE DEF p
<1>4. AskingFits(r, db[r], p, cache)
  BY <1>1, <1>2, <1>3 DEF AskingFits
<1>5. StatusFits(db[r], p)
  BY <1>2, <1>3, Phase4Values DEF StatusFits, Begun, Ending
<1>6. MemoryFits(db[r], p)
  BY <1>1, <1>2, AtWork DEF MemoryFits, Asking, InMemory
<1>7. PlaceFits(r, db[r], files[r], p, calls[r], cache)
  BY <1>2, <1>4 DEF PlaceFits, Asking, Answering
<1>8. QED
  BY <1>1, <1>2, <1>5, <1>6, <1>7, QuietStep

(* The head of either retry loop.                                            *)
LEMMA AttemptStep ==
  ASSUME Phase4Inv, NEW r \in Runs, Attempt(r)
  PROVE  Phase4Inv'
<1> DEFINE hit == cache[RequestHash[r, proc[r].logical, proc[r].batch]]
<1>1. /\ proc[r].pc = "attempt" /\ UNCHANGED <<db, files, cache, calls>>
      /\ proc' = [proc EXCEPT ![r] =
           IF ~ proc[r].online THEN [proc[r] EXCEPT !.pc = "interrupt"]
           ELSE IF ~ Preflight(proc[r].budget) THEN [proc[r] EXCEPT !.pc = "give-up"]
           ELSE [proc[r] EXCEPT !.hit = hit,
                                !.pc = IF hit = Nothing THEN "reserve" ELSE "prepare"]]
  BY DEF Attempt, NextHash, Goto, Become, At
<1>2. /\ proc[r] \in Process /\ db[r] \in Database /\ AskingFits(r, db[r], proc[r], cache)
      /\ db[r].status = "running" /\ Between(db[r])
      /\ proc[r].budget = IF proc[r].retry = 0 THEN [db[r].budget EXCEPT !.logical = @ + 1]
                                               ELSE db[r].budget
  BY <1>1, AtWork DEF PlaceFits, Asking, AskingFits, StatusFits, Begun, MemoryFits
<1>3. ASSUME NEW p \in Process, proc' = [proc EXCEPT ![r] = p], p.pc \in Begun,
             PlaceFits(r, db[r], files[r], p, calls[r], cache), MemoryFits(db[r], p)
      PROVE  Phase4Inv'
  <2>1. StatusFits(db[r], p)
    BY <1>2, <1>3, Phase4Values DEF StatusFits, Begun, Ending
  <2>2. QED
    BY <1>1, <1>3, <2>1, QuietStep
<1>4. CASE ~ proc[r].online
  <2> DEFINE p == [proc[r] EXCEPT !.pc = "interrupt"]
  <2>1. p \in Process /\ p.pc = "interrupt" /\ proc' = [proc EXCEPT ![r] = p]
    BY <1>1, <1>2, <1>4 DEF Process, Begun
  <2>2. QED
    BY <1>3, <2>1, NothingHeld DEF Begun
<1>5. CASE proc[r].online /\ ~ Preflight(proc[r].budget)
  <2> DEFINE p == [proc[r] EXCEPT !.pc = "give-up"]
  <2>1. p \in Process /\ p.pc = "give-up" /\ proc' = [proc EXCEPT ![r] = p]
    BY <1>1, <1>2, <1>5 DEF Process, Begun
  <2>2. QED
    BY <1>2, <1>3, <2>1 DEF PlaceFits, MemoryFits, Asking, Answering, InMemory, Begun
<1>6. CASE proc[r].online /\ Preflight(proc[r].budget)
  <2> DEFINE p == [proc[r] EXCEPT !.hit = hit,
                                  !.pc = IF hit = Nothing THEN "reserve" ELSE "prepare"]
  <2>1. RequestHash[r, proc[r].logical, proc[r].batch] \in Hashes
    BY <1>2, Phase4Constants DEF Process
  <2>2. hit \in Answers \cup {Nothing}
    BY <2>1, AtWork DEF CacheFits
  <2>3. /\ p \in Process /\ p.pc \in {"reserve", "prepare"} /\ p.hit = hit
        /\ p.pc = "reserve" => hit = Nothing
        /\ p.budget = proc[r].budget /\ p.retry = proc[r].retry
        /\ p.logical = proc[r].logical /\ p.batch = proc[r].batch
    BY <1>2, <2>2 DEF Process, Begun
  <2>4. proc' = [proc EXCEPT ![r] = p]
    BY <1>1, <1>6
  <2>5. db[r].budget \in BudgetState
    BY <1>2 DEF Database
  <2>6. Preflight(db[r].budget)
    BY <1>2, <1>6, <2>5 DEF Preflight, BudgetState, EmptyBudget
  <2>7. AskingFits(r, db[r], p, cache)
    BY <1>2, <2>3, <2>6 DEF AskingFits
  <2>8. QED
    BY <1>2, <1>3, <2>3, <2>4, <2>7
    DEF PlaceFits, MemoryFits, Asking, Answering, InMemory, Begun
<1>7. QED
  BY <1>2, <1>4, <1>5, <1>6 DEF Process

(* The main loop asks for a new batch, or ends.                              *)
LEMMA NextCallStep ==
  ASSUME Phase4Inv, NEW r \in Runs, NextCall(r)
  PROVE  Phase4Inv'
<1> DEFINE budget == proc[r].budget
<1>1. proc[r].pc = "loop" /\ UNCHANGED <<db, files, cache, calls>>
  BY DEF NextCall, At
<1>2. /\ proc[r] \in Process /\ db[r] \in Database /\ Fresh(db[r]) /\ db[r].status = "running"
      /\ budget = db[r].budget /\ budget \in BudgetState /\ CountersFit(db[r])
      /\ Size(db[r]) \in Nat
  BY <1>1, AtWork DEF PlaceFits, StatusFits, Begun, MemoryFits, InMemory, Database
<1>3. Between(db[r]) /\ Ended(db[r])
  BY <1>2 DEF Fresh, Between, Ended, Closed
<1>4. CASE Exhausted(r, budget) \/ ~ Preflight(budget)
  <2>1. [proc[r] EXCEPT !.pc = "report", !.status = "completed"]
          = [proc[r] EXCEPT !.pc = "report", !.status = "completed", !.budget = proc[r].budget]
    BY <1>2 DEF Process
  <2>2. proc' = [proc EXCEPT ![r] = [proc[r] EXCEPT !.pc = "report", !.status = "completed",
                                                    !.budget = proc[r].budget]]
    BY <1>4, <2>1 DEF NextCall, Finish, Become
  <2>3. "completed" \in Terminal /\ proc[r].pc \in Begun
    BY <1>1 DEF Terminal, Begun
  <2>4. QED
    BY <1>1, <1>2, <1>3, <2>2, <2>3, FinishStep
<1>5. CASE ~ Exhausted(r, budget) /\ Preflight(budget)
  <2> DEFINE p == [proc[r] EXCEPT !.pc = "attempt", !.recovering = FALSE,
                     !.logical = budget.logical, !.retry = 0,
                     !.batch = BatchFor(budget), !.budget.logical = @ + 1]
  <2>1. /\ budget.items \in Nat /\ budget.oracle \in Nat /\ budget.logical \in Nat
        /\ ItemCap \in Nat /\ OracleCap \in Nat /\ BatchSize \in Nat
    BY <1>2, Phase4Constants DEF BudgetState, EmptyBudget
  <2>2. BatchFor(budget) \in 0..BatchSize
    BY <1>5, <2>1 DEF Exhausted, BatchFor, MinOf
  <2>3. budget.logical = NextLogical(db[r]) /\ budget.logical \in 0..ModelRequestCap
    BY <1>2, <2>1, Phase4Constants DEF CountersFit
  <2>4. [budget EXCEPT !.logical = @ + 1] \in BudgetState
    BY <1>2, <2>1 DEF BudgetState, EmptyBudget
  <2>5. p = [proc[r] EXCEPT !.pc = "attempt", !.recovering = FALSE,
               !.logical = budget.logical, !.retry = 0,
               !.batch = BatchFor(budget), !.budget = [budget EXCEPT !.logical = @ + 1]]
    BY <1>2 DEF Process
  <2>6. /\ p \in Process /\ p.pc = "attempt" /\ p.retry = 0 /\ p.logical = NextLogical(db[r])
        /\ p.budget = [db[r].budget EXCEPT !.logical = @ + 1]
    <3>1. 0 \in 0..MaxRetries
      BY Phase4Constants
    <3>2. QED
      BY <1>2, <2>2, <2>3, <2>4, <2>5, <3>1 DEF Process, Begun
  <2>7. proc' = [proc EXCEPT ![r] = p]
    BY <1>5 DEF NextCall, Become
  <2> HIDE DEF p
  <2>8. AskingFits(r, db[r], p, cache)
    BY <1>2, <1>3, <1>5, <2>6 DEF AskingFits
  <2>9. PlaceFits(r, db[r], files[r], p, calls[r], cache) /\ MemoryFits(db[r], p)
    BY <2>6, <2>8 DEF PlaceFits, MemoryFits, Asking, Answering, InMemory
  <2>10. StatusFits(db[r], p)
    BY <1>2, <2>6, Phase4Values DEF StatusFits, Begun, Ending
  <2>11. QED
    BY <1>1, <2>6, <2>7, <2>9, <2>10, QuietStep
<1>6. QED
  BY <1>4, <1>5

(* The status is stored last.                                                *)
LEMMA CloseStep ==
  ASSUME Phase4Inv, NEW r \in Runs, Close(r)
  PROVE  Phase4Inv'
<1> DEFINE s == proc[r].status
<1>1. /\ proc[r].pc = "close" /\ db' = [db EXCEPT ![r].status = s]
      /\ proc' = [proc EXCEPT ![r] = NoProcess] /\ UNCHANGED <<files, cache, calls>>
  BY DEF Close, SetStatus, End, Become, At
<1>2. s \in Terminal /\ s \in Statuses /\ Ended(db[r])
  BY <1>1, AtWork DEF StatusFits, Ending, Statuses
<1>3. NoProcess.pc = "none"
  BY DEF NoProcess
<1>4. StatusFits([db[r] EXCEPT !.status = s], NoProcess)
  BY <1>3 DEF StatusFits, Begun, Ending
<1>5. QED
  BY <1>1, <1>2, <1>3, <1>4, NothingHeld, NoProcessType, ControlStep

-----------------------------------------------------------------------------
(* The actions that change what the run has stored.                          *)

(* The counters as a record.                                                 *)
LEMMA BudgetType ==
  BudgetState = [logical : Nat, attempts : Nat, provider : Nat, hits : Nat, retries : Nat,
                 tokens : Nat, items : Nat, oracle : Nat, actual : Nat, uncertain : Nat,
                 released : Nat]
BY DEF BudgetState, EmptyBudget

(* The budget with an answer counted in is one.                              *)
LEMMA CountedType ==
  ASSUME NEW r \in Runs, NEW d \in Database, NEW a \in Answers, NEW h,
         Size(d) > 0, LastRow(d) \in RequestRow, RowFits(r, LastRow(d), h)
  PROVE  CountedIn(d, a) \in BudgetState
<1> DEFINE row == LastRow(d)
           actual == IF ~ row.cache_hit /\ IsResponse(a) THEN CostOf[a.usage] ELSE 0
           uncertain == IF ~ row.cache_hit /\ a.kind = "uncertain" THEN MaxCost ELSE 0
           counted(retries, x, y) ==
             [d.budget EXCEPT !.attempts = @ + 1,
                !.provider = @ + (IF row.cache_hit THEN 0 ELSE 1),
                !.hits = @ + (IF row.cache_hit THEN 1 ELSE 0),
                !.retries = @ + retries,
                !.tokens = @ + a.usage, !.actual = @ + x, !.uncertain = @ + y,
                !.released = @ + (row.reserved - x - y)]
<1>1. /\ row.reserved \in Nat /\ row.cache_hit \in BOOLEAN /\ MaxCost \in Nat
      /\ row.reserved = IF row.cache_hit THEN 0 ELSE MaxCost
  BY Phase4Constants DEF RequestRow, RowFits
<1>2. a.usage \in Nat /\ (IsResponse(a) => CostOf[a.usage] \in 0..MaxCost)
      /\ (a.kind = "uncertain" => ~ IsResponse(a))
  BY AnswerShape, Phase4Constants DEF IsResponse
<1>3. actual \in Nat /\ uncertain \in Nat /\ row.reserved - actual - uncertain \in Nat
  BY <1>1, <1>2
<1>4. d.budget \in BudgetState
  BY DEF Database
<1>5. ASSUME NEW x \in Nat, NEW y \in Nat, NEW z \in Nat, row.reserved - x - y \in Nat
      PROVE  counted(z, x, y) \in BudgetState
  <2> DEFINE b == d.budget
             w == row.reserved - x - y
             provided == IF row.cache_hit THEN 0 ELSE 1
             found == IF row.cache_hit THEN 1 ELSE 0
             used == a.usage
  <2>1. /\ b.attempts + 1 \in Nat /\ b.provider + provided \in Nat /\ b.hits + found \in Nat
        /\ b.retries + z \in Nat /\ b.tokens + used \in Nat /\ b.actual + x \in Nat
        /\ b.uncertain + y \in Nat /\ b.released + w \in Nat /\ b \in BudgetState
    BY <1>2, <1>4, <1>5, BudgetType
  <2> HIDE DEF b, w, provided, found, used
  <2>2. [b EXCEPT !.attempts = @ + 1, !.provider = @ + provided, !.hits = @ + found,
                  !.retries = @ + z, !.tokens = @ + used, !.actual = @ + x,
                  !.uncertain = @ + y, !.released = @ + w] \in BudgetState
    BY <2>1, BudgetType
  <2>3. QED
    BY <2>2 DEF b, w, provided, found, used
<1>6. (IF row.retry > 0 THEN 1 ELSE 0) \in Nat
  OBVIOUS
<1>7. CountedIn(d, a) = counted(IF row.retry > 0 THEN 1 ELSE 0, actual, uncertain)
  BY DEF CountedIn
<1> HIDE DEF actual, uncertain, counted
<1>8. QED
  BY <1>3, <1>5, <1>6, <1>7

(* The ledger is settled and the counters in memory follow.                  *)
LEMMA SettleStep ==
  ASSUME Phase4Inv, NEW r \in Runs, Settle(r)
  PROVE  Phase4Inv'
<1> DEFINE a == proc[r].answer
           d == db[r]
           p == [proc[r] EXCEPT !.budget = CountedIn(d, a),
                   !.pc = IF a.kind = "response" /\ Paid(r) THEN "store" ELSE "commit"]
<1>1. proc[r].pc = "settle" /\ UNCHANGED <<db, files, cache, calls>>
  BY DEF Settle, At
<1>2. /\ proc[r] \in Process /\ d \in Database /\ d.status = "running"
      /\ AnsweringFits(d, files[r], proc[r]) /\ proc[r].budget = d.budget
      /\ Row(r) = LastRow(d) /\ Size(d) \in Nat
  BY <1>1, AtWork DEF PlaceFits, Answering, StatusFits, Begun, MemoryFits, InMemory
<1>3. Size(d) > 0 /\ a \in Answers
  BY <1>2 DEF AnsweringFits, Waiting, LastIn, Process
<1>4. LastRow(d) \in RequestRow /\ RowFits(r, LastRow(d), cache)
  BY <1>3, AtWork
<1>5. CountedIn(d, a) \in BudgetState
  BY <1>2, <1>3, <1>4, CountedType
<1>6. Counted(r, d.budget, a) = CountedIn(d, a)
  BY <1>2 DEF Counted, CountedIn, Actual, Uncertain, Released, Paid
<1>7. proc' = [proc EXCEPT ![r] = p]
  BY <1>2, <1>6 DEF Settle, Become
<1>8. /\ p \in Process /\ p.pc \in {"store", "commit"} /\ p.answer = a
      /\ p.logical = proc[r].logical /\ p.batch = proc[r].batch
      /\ p.budget = CountedIn(d, a)
      /\ p.pc = "store" => a.kind = "response" /\ ~ LastRow(d).cache_hit
  BY <1>2, <1>5 DEF Process, Begun, Paid
<1> HIDE DEF p
<1>9. AnsweringFits(d, files[r], p)
  BY <1>1, <1>2, <1>8 DEF AnsweringFits
<1>10. PlaceFits(r, d, files[r], p, calls[r], cache) /\ MemoryFits(d, p)
  BY <1>8, <1>9 DEF PlaceFits, MemoryFits, Asking, Answering, InMemory
<1>11. StatusFits(d, p)
  BY <1>2, <1>8, Phase4Values DEF StatusFits, Begun, Ending
<1>12. QED
  BY <1>1, <1>7, <1>8, <1>10, <1>11, QuietStep

(* One public baseline is evaluated: the rows stay.                          *)
LEMMA InitializeStep ==
  ASSUME Phase4Inv, NEW r \in Runs, NEW stop \in BOOLEAN, Initialize(r, stop)
  PROVE  Phase4Inv'
<1> DEFINE d == db[r]
           b == [d.budget EXCEPT !.oracle = @ + 1]
           s == IF stop THEN "interrupted" ELSE d.status
           e == [d EXCEPT !.evaluations = @ + 1, !.budget = b, !.status = s]
           q == [proc[r] EXCEPT !.pc = "initialize", !.budget = b]
           p == IF stop THEN NoProcess ELSE q
<1>1. proc[r].pc = "initialize" /\ UNCHANGED <<files, cache, calls>>
  BY DEF Initialize, At
<1>2. /\ d \in Database /\ d.budget \in BudgetState /\ d.evaluations \in Nat
      /\ proc[r] \in Process /\ d.status = "running" /\ proc[r].budget = d.budget
  BY <1>1, AtWork DEF Database, StatusFits, Begun, MemoryFits, InMemory
<1>3. /\ b \in BudgetState /\ b.logical = d.budget.logical /\ b.attempts = d.budget.attempts
      /\ b.tokens = d.budget.tokens
  BY <1>2, BudgetType
<1>4. db' = [db EXCEPT ![r] = e] /\ proc' = [proc EXCEPT ![r] = p]
  <2>1. /\ db \in [Runs -> Database] /\ files \in [Runs -> Directory] /\ calls \in [Runs -> Seq(Call)]
    BY AtWork
  <2>2. QED
    BY <1>2, <2>1 DEF Initialize, Evaluated, Become
<1>5. /\ e \in Database /\ e.requests = d.requests /\ e.budget = b /\ e.status = s
      /\ s \in {"running", "interrupted"}
  <2>1. s \in Statuses /\ s \in {"running", "interrupted"} /\ d.evaluations + 1 \in Nat
    BY <1>2 DEF Statuses
  <2> HIDE DEF b, s
  <2>2. QED
    BY <1>2, <1>3, <2>1 DEF Database
<1>6. /\ p \in Process /\ p.pc \in {"none", "initialize"}
      /\ p.pc = "initialize" => p.budget = b /\ s = "running"
  <2>1. q \in Process /\ q.pc = "initialize" /\ q.budget = b
    BY <1>2, <1>3 DEF Process, Begun
  <2>2. NoProcess \in Process /\ NoProcess.pc = "none"
    BY NoProcessType DEF NoProcess
  <2>3. QED
    BY <1>2, <2>1, <2>2
<1> HIDE DEF e, p, b, s
<1>7. Size(e) = Size(d) /\ LastRow(e) = LastRow(d)
  BY <1>5 DEF Size, LastRow
<1>8. \A states : LastIn(e, states) <=> LastIn(d, states)
  BY <1>7 DEF LastIn
<1>9. RowsFit(r, e, cache)
  BY <1>5, <1>7, AtWork DEF RowsFit
<1>10. CountersFit(e)
  <2>1. s \notin Terminal
    BY <1>5 DEF Terminal
  <2>2. CountersFit(d)
    BY AtWork
  <2>3. Preflight(b) <=> Preflight(d.budget)
    BY <1>3 DEF Preflight
  <2>4. QED
    BY <1>3, <1>5, <1>7, <1>8, <2>1, <2>2, <2>3 DEF CountersFit, Waiting, NextLogical
<1>11. FilesFit(e, files[r]) /\ CallsFit(e, calls[r])
  BY <1>7, <1>8, AtWork DEF FilesFit, CallsFit
<1>12. StatusFits(e, p)
  BY <1>5, <1>6, Phase4Values DEF StatusFits, Begun, Ending
<1>13. PlaceFits(r, e, files[r], p, calls[r], cache) /\ MemoryFits(e, p)
  BY <1>5, <1>6 DEF PlaceFits, MemoryFits, Asking, Answering, InMemory
<1>14. RunFits(r, e, files[r], p, calls[r], cache)
  BY <1>9, <1>10, <1>11, <1>12, <1>13 DEF RunFits
<1>15. QED
  BY <1>1, <1>4, <1>5, <1>6, <1>14, DatabaseStep

(* A new state of the last row.                                              *)
LEMMA LastRowStep ==
  ASSUME NEW r \in Runs, NEW d \in Database, NEW e \in Database, NEW row \in RequestRow, NEW h,
         Size(d) > 0, RowsFit(r, d, h),
         e.requests = [d.requests EXCEPT ![Size(d)] = row],
         row.logical = LastRow(d).logical, row.batch = LastRow(d).batch,
         row.retry = LastRow(d).retry,
         RowFits(r, row, h)
  PROVE  /\ Size(e) = Size(d) /\ LastRow(e) = row /\ NextLogical(e) = NextLogical(d)
         /\ RowsFit(r, e, h)
         /\ \A states : LastIn(e, states) <=> row.state \in states
<1>1. d.requests \in Seq(RequestRow) /\ Size(d) \in Nat
  BY DEF Database, Size
<1>2. /\ Size(e) = Size(d) /\ e.requests[Size(d)] = row
      /\ \A i \in 1..Size(d) : i # Size(d) => e.requests[i] = d.requests[i]
  BY <1>1 DEF Size
<1>3. LastRow(e) = row /\ NextLogical(e) = NextLogical(d)
  BY <1>2 DEF LastRow, NextLogical
<1>4. \A i \in 1..Size(e) : RowFits(r, e.requests[i], h)
  BY <1>2 DEF RowsFit
<1>5. e.requests[1].retry = 0 /\ e.requests[1].logical = 0
  BY <1>1, <1>2 DEF RowsFit, LastRow
<1>6. ASSUME NEW i \in 2..Size(e)
      PROVE  Follows(e.requests[i - 1], e.requests[i])
  <2>1. e.requests[i - 1] = d.requests[i - 1]
    BY <1>1, <1>2, <1>6
  <2>2. /\ e.requests[i].retry = d.requests[i].retry
        /\ e.requests[i].logical = d.requests[i].logical
        /\ e.requests[i].batch = d.requests[i].batch
    BY <1>1, <1>2, <1>6 DEF LastRow
  <2>3. Follows(d.requests[i - 1], d.requests[i])
    BY <1>1, <1>2, <1>6 DEF RowsFit
  <2>4. QED
    BY <2>1, <2>2, <2>3 DEF Follows
<1>7. \A states : LastIn(e, states) <=> row.state \in states
  BY <1>2, <1>3 DEF LastIn
<1>8. QED
  BY <1>2, <1>3, <1>4, <1>5, <1>6, <1>7 DEF RowsFit

(* mark_dispatched()                                                         *)
LEMMA SendStep ==
  ASSUME Phase4Inv, NEW r \in Runs, Send(r)
  PROVE  Phase4Inv'
<1> DEFINE d == db[r]
           row == [LastRow(d) EXCEPT !.state = "dispatched"]
           e == [d EXCEPT !.requests = [@ EXCEPT ![Size(d)] = row]]
           p == [proc[r] EXCEPT !.pc = "wire"]
<1>1. /\ proc[r].pc = "send" /\ UNCHANGED <<files, cache, calls>>
      /\ proc' = [proc EXCEPT ![r] = p]
      /\ db' = [db EXCEPT ![r].requests[Index(r)].state = "dispatched"]
  BY DEF Send, At, Goto, Become
<1>2. /\ d \in Database /\ proc[r] \in Process /\ d.status = "running"
      /\ LastIn(d, {"pending"}) /\ ~ LastRow(d).cache_hit
      /\ proc[r].logical = LastRow(d).logical /\ proc[r].batch = LastRow(d).batch
      /\ proc[r].budget = d.budget /\ Index(r) = Size(d) /\ Size(d) \in Nat
      /\ RowsFit(r, d, cache) /\ CountersFit(d) /\ FilesFit(d, files[r]) /\ CallsFit(d, calls[r])
  BY <1>1, AtWork DEF StatusFits, PlaceFits, Begun, MemoryFits, InMemory
<1>3. /\ Size(d) > 0 /\ LastRow(d).state = "pending" /\ d.requests \in Seq(RequestRow)
      /\ Size(d) \in 1..Len(d.requests) /\ LastRow(d) = d.requests[Size(d)]
  BY <1>2 DEF LastIn, Database, Size, LastRow
<1>4. LastRow(d) \in RequestRow /\ RowFits(r, LastRow(d), cache)
  BY <1>3, AtWork
<1>5. /\ row \in RequestRow /\ RowFits(r, row, cache) /\ row.state = "dispatched"
      /\ row.logical = LastRow(d).logical /\ row.batch = LastRow(d).batch /\ row.retry = LastRow(d).retry
      /\ row.cache_hit = LastRow(d).cache_hit
  BY <1>2, <1>3, <1>4 DEF RequestRow, RowFits
<1>6. [d.requests EXCEPT ![Size(d)] = row] \in Seq(RequestRow)
  BY <1>3, <1>5
<1>7. /\ e \in Database /\ e.requests = [d.requests EXCEPT ![Size(d)] = row]
      /\ e.budget = d.budget /\ e.status = "running"
  BY <1>2, <1>6 DEF Database
<1>8. db' = [db EXCEPT ![r] = e]
  BY <1>1, <1>2, <1>3
<1>9. /\ p \in Process /\ p.pc = "wire" /\ p.budget = d.budget
      /\ p.logical = LastRow(d).logical /\ p.batch = LastRow(d).batch
  BY <1>2 DEF Process, Begun
<1> HIDE DEF e, p, row
<1>10. /\ Size(e) = Size(d) /\ LastRow(e) = row /\ NextLogical(e) = NextLogical(d)
       /\ RowsFit(r, e, cache)
       /\ \A states : LastIn(e, states) <=> row.state \in states
  BY <1>2, <1>3, <1>5, <1>7, LastRowStep
<1>11. Waiting(e) /\ Waiting(d) /\ ~ LastIn(e, {"pending"})
       /\ ~ LastIn(e, {"responded", "schema-failure", "failed"})
  BY <1>3, <1>5, <1>10 DEF Waiting, LastIn
<1>12. CountersFit(e)
  <2>1. "running" \notin Terminal
    BY DEF Terminal
  <2>2. QED
    BY <1>2, <1>7, <1>10, <1>11, <2>1 DEF CountersFit
<1>13. FilesFit(e, files[r]) /\ CallsFit(e, calls[r])
  BY <1>2, <1>10, <1>11 DEF FilesFit, CallsFit
<1>14. StatusFits(e, p)
  BY <1>7, <1>9, Phase4Values DEF StatusFits, Begun, Ending
<1>15. \A a \in 1..Len(calls[r]) : calls[r][a].request # Size(e)
  BY <1>2, <1>10 DEF CallsFit
<1>16. PlaceFits(r, e, files[r], p, calls[r], cache)
  BY <1>2, <1>5, <1>9, <1>10, <1>15 DEF PlaceFits, Asking, Answering
<1>17. MemoryFits(e, p)
  BY <1>7, <1>9 DEF MemoryFits, Asking, InMemory
<1>18. RunFits(r, e, files[r], p, calls[r], cache)
  BY <1>10, <1>12, <1>13, <1>14, <1>16, <1>17 DEF RunFits
<1>19. QED
  BY <1>1, <1>7, <1>8, <1>9, <1>18, DatabaseStep

(* backend.dispatch(): the one place that asks the provider.                 *)
LEMMA ProviderStep ==
  ASSUME Phase4Inv, NEW r \in Runs, NEW a \in Answer(proc[r].batch), NEW charge \in Charges(a),
         Provider(r, a, charge)
  PROVE  Phase4Inv'
<1> DEFINE d == db[r]
           c == Append(calls[r], [request |-> Size(d), charge |-> charge])
           p == [proc[r] EXCEPT !.pc = "record", !.answer = a]
<1>1. /\ proc[r].pc = "wire" /\ UNCHANGED <<db, files, cache>>
      /\ proc' = [proc EXCEPT ![r] = p]
      /\ calls' = [calls EXCEPT ![r] = Append(@, [request |-> Index(r), charge |-> charge])]
  BY DEF Provider, At, Become
<1>2. /\ d \in Database /\ proc[r] \in Process /\ d.status = "running" /\ calls[r] \in Seq(Call)
      /\ LastIn(d, {"dispatched"}) /\ ~ LastRow(d).cache_hit
      /\ proc[r].logical = LastRow(d).logical /\ proc[r].batch = LastRow(d).batch
      /\ \A k \in 1..Len(calls[r]) : calls[r][k].request # Size(d)
      /\ proc[r].budget = d.budget /\ Index(r) = Size(d) /\ Size(d) \in Nat
      /\ CallsFit(d, calls[r]) /\ calls \in [Runs -> Seq(Call)]
  BY <1>1, AtWork DEF StatusFits, PlaceFits, Begun, MemoryFits, InMemory
<1>3. a \in Answers
  BY <1>2 DEF Answers, Process
<1>4. charge \in Nat
  BY <1>3, AnswerShape, Phase4Constants DEF Charges, IsResponse
<1>5. [request |-> Size(d), charge |-> charge] \in Call
  BY <1>2, <1>4 DEF Call
<1>6. /\ c \in Seq(Call) /\ Len(c) = Len(calls[r]) + 1 /\ c[Len(c)].request = Size(d)
      /\ \A k \in 1..Len(calls[r]) : c[k] = calls[r][k]
  BY <1>2, <1>5
<1>7. calls' = [calls EXCEPT ![r] = c]
  BY <1>1, <1>2
<1>8. /\ p \in Process /\ p.pc = "record" /\ p.budget = d.budget /\ p.answer = a
      /\ p.logical = LastRow(d).logical /\ p.batch = LastRow(d).batch
  BY <1>2, <1>3 DEF Process, Begun
<1> HIDE DEF c, p
<1>9. Size(d) > 0 /\ LastRow(d).state = "dispatched"
  BY <1>2 DEF LastIn
<1>10. CallsFit(d, c)
  <2>1. Len(calls[r]) \in Nat /\ \A k \in 1..Len(c) : k \in 1..Len(calls[r]) \/ k = Len(c)
    BY <1>2, <1>6
  <2>2. \A k \in 1..Len(c) : c[k].request \in 1..Size(d)
    BY <1>2, <1>6, <1>9, <2>1 DEF CallsFit
  <2>3. \A k, l \in 1..Len(c) : c[k].request = c[l].request => k = l
    BY <1>2, <1>6, <2>1 DEF CallsFit
  <2>4. ~ LastIn(d, {"pending"})
    BY <1>9 DEF LastIn
  <2>5. QED
    BY <2>2, <2>3, <2>4 DEF CallsFit
<1>11. AnsweringFits(d, files[r], p)
  BY <1>2, <1>3, <1>8, <1>9, Phase4Values DEF AnsweringFits, Waiting, LastIn
<1>12. PlaceFits(r, d, files[r], p, c, cache) /\ MemoryFits(d, p)
  BY <1>8, <1>11 DEF PlaceFits, MemoryFits, Asking, Answering, InMemory
<1>13. StatusFits(d, p)
  BY <1>2, <1>8, Phase4Values DEF StatusFits, Begun, Ending
<1>14. RunFits(r, d, files[r], p, c, cache)
  BY <1>10, <1>12, <1>13, AtWork DEF RunFits
<1>15. QED
  BY <1>1, <1>2, <1>6, <1>7, <1>8, <1>14, CallStep

(* The answer is written to its file.                                        *)
LEMMA RecordStep ==
  ASSUME Phase4Inv, NEW r \in Runs, Record(r)
  PROVE  Phase4Inv'
<1> DEFINE d == db[r]
           a == proc[r].answer
           answers == [i \in DOMAIN files[r].answers \cup {Size(d)} |->
                         IF i = Size(d) THEN a ELSE files[r].answers[i]]
           f == [files[r] EXCEPT !.answers = answers]
           p == [proc[r] EXCEPT !.pc = "settle"]
<1>1. /\ proc[r].pc = "record" /\ UNCHANGED <<db, cache, calls>>
      /\ proc' = [proc EXCEPT ![r] = p]
      /\ files' = [files EXCEPT ![r].answers =
           [i \in DOMAIN @ \cup {Index(r)} |-> IF i = Index(r) THEN proc[r].answer ELSE @[i]]]
  BY DEF Record, At, Goto, Become
<1>2. /\ d \in Database /\ proc[r] \in Process /\ d.status = "running"
      /\ files \in [Runs -> Directory] /\ files[r] \in Directory
      /\ AnsweringFits(d, files[r], proc[r]) /\ proc[r].budget = d.budget
      /\ Index(r) = Size(d) /\ Size(d) \in Nat /\ CountersFit(d) /\ FilesFit(d, files[r])
  BY <1>1, AtWork DEF StatusFits, PlaceFits, Answering, Begun, MemoryFits, InMemory
<1>3. a \in Answers /\ Waiting(d) /\ Size(d) > 0
  BY <1>2 DEF AnsweringFits, Process, Waiting, LastIn
<1>4. Size(d) \in 1..ModelRequestCap
  BY <1>2, <1>3, Phase4Constants DEF CountersFit
<1>5. /\ DOMAIN files[r].answers \subseteq 1..ModelRequestCap
      /\ \A i \in DOMAIN files[r].answers : files[r].answers[i] \in Answers
  BY <1>2 DEF Directory
<1>6. DOMAIN answers \in SUBSET (1..ModelRequestCap) /\ answers \in [DOMAIN answers -> Answers]
  BY <1>3, <1>4, <1>5
<1>7. answers[Size(d)] = a /\ DOMAIN answers = DOMAIN files[r].answers \cup {Size(d)}
  OBVIOUS
<1> HIDE DEF answers
<1>8. f \in Directory /\ f.answers = answers
  BY <1>2, <1>6 DEF Directory
<1>9. files' = [files EXCEPT ![r] = f]
  BY <1>1, <1>2 DEF answers
<1>10. /\ p \in Process /\ p.pc = "settle" /\ p.budget = d.budget /\ p.answer = a
       /\ p.logical = proc[r].logical /\ p.batch = proc[r].batch
  BY <1>2 DEF Process, Begun
<1> HIDE DEF f, p
<1>11. ~ LastIn(d, {"responded", "schema-failure", "failed"})
  BY <1>3 DEF LastIn, Waiting
<1>12. FilesFit(d, f)
  BY <1>2, <1>3, <1>7, <1>8, <1>11 DEF FilesFit
<1>13. AnsweringFits(d, f, p)
  BY <1>2, <1>3, <1>7, <1>8, <1>10 DEF AnsweringFits
<1>14. PlaceFits(r, d, f, p, calls[r], cache) /\ MemoryFits(d, p)
  BY <1>10, <1>13 DEF PlaceFits, MemoryFits, Asking, Answering, InMemory
<1>15. StatusFits(d, p)
  BY <1>2, <1>10, Phase4Values DEF StatusFits, Begun, Ending
<1>16. RunFits(r, d, f, p, calls[r], cache)
  BY <1>12, <1>14, <1>15, AtWork DEF RunFits
<1>17. QED
  BY <1>1, <1>8, <1>9, <1>10, <1>16, FileStep

(* cache.put(), or the collision that ends the process.                      *)
LEMMA StoreStep ==
  ASSUME Phase4Inv, NEW r \in Runs, Store(r)
  PROVE  Phase4Inv'
<1> DEFINE d == db[r]
           a == proc[r].answer
           hash == LastRow(d).hash
           p == [proc[r] EXCEPT !.pc = "commit"]
<1>1. proc[r].pc = "store" /\ UNCHANGED <<db, files, calls>>
  BY DEF Store, At
<1>2. /\ d \in Database /\ proc[r] \in Process /\ d.status = "running" /\ CacheFits(cache)
      /\ AnsweringFits(d, files[r], proc[r]) /\ proc[r].budget = CountedIn(d, a)
      /\ Row(r) = LastRow(d) /\ Size(d) \in Nat
  BY <1>1, AtWork DEF StatusFits, PlaceFits, Answering, Begun, MemoryFits
<1>3. a \in Answers /\ a.kind = "response" /\ Size(d) > 0
  BY <1>1, <1>2 DEF AnsweringFits, Process, Waiting, LastIn
<1>4. hash \in Hashes
  BY <1>3, AtWork DEF RequestRow
<1>5. CASE ~ Writable(cache[hash], a)
  <2>1. End(r) /\ UNCHANGED cache
    BY <1>2, <1>5 DEF Store
  <2>2. QED
    BY <1>1, <2>1, EndStep
<1>6. CASE Writable(cache[hash], a)
  <2>1. cache' = [cache EXCEPT ![hash] = a] /\ proc' = [proc EXCEPT ![r] = p]
    BY <1>2, <1>6 DEF Store, Goto, Become
  <2>2. CacheFits(cache')
    BY <1>2, <1>3, <1>4, <2>1 DEF CacheFits
  <2>3. \A x \in Hashes : cache[x] # Nothing => cache'[x] = cache[x]
    BY <1>2, <1>6, <2>1 DEF CacheFits, Writable
  <2>4. /\ p \in Process /\ p.pc = "commit" /\ p.budget = proc[r].budget /\ p.answer = a
        /\ p.logical = proc[r].logical /\ p.batch = proc[r].batch
    BY <1>2 DEF Process, Begun
  <2> HIDE DEF p
  <2>5. AnsweringFits(d, files[r], p)
    BY <1>1, <1>2, <2>4 DEF AnsweringFits
  <2>6. PlaceFits(r, d, files[r], p, calls[r], cache) /\ MemoryFits(d, p)
    BY <1>2, <2>4, <2>5 DEF PlaceFits, MemoryFits, Asking, Answering, InMemory
  <2>7. StatusFits(d, p)
    BY <1>2, <2>4, Phase4Values DEF StatusFits, Begun, Ending
  <2>8. RunFits(r, d, files[r], p, calls[r], cache)
    BY <2>6, <2>7, AtWork DEF RunFits
  <2>9. RunFits(r, d, files[r], p, calls[r], cache')
    BY <1>2, <2>3, <2>4, <2>8, CacheGrows
  <2>10. /\ db' = [db EXCEPT ![r] = d] /\ files' = [files EXCEPT ![r] = files[r]]
         /\ calls' = [calls EXCEPT ![r] = calls[r]]
         /\ files[r] \in Directory /\ calls[r] \in Seq(Call)
    BY <1>1, AtWork
  <2> HIDE DEF d
  <2>11. QED
    BY <1>2, <2>1, <2>2, <2>3, <2>4, <2>9, <2>10, RunStep, ZenonT(60)
<1>7. QED
  BY <1>5, <1>6

(* finalize_request(): the row and the counters in one transaction.          *)
LEMMA CommitStep ==
  ASSUME Phase4Inv, NEW r \in Runs, Commit(r)
  PROVE  Phase4Inv'
<1> DEFINE d == db[r]
           a == proc[r].answer
           row == [LastRow(d) EXCEPT !.state = FinalState(a), !.usage = a.usage,
                      !.actual = Actual(r, a), !.released = Released(r, a),
                      !.uncertain = Uncertain(r, a), !.item_count = Len(a.items)]
           b == proc[r].budget
           e == [d EXCEPT !.requests = [@ EXCEPT ![Size(d)] = row], !.budget = b]
           p == CASE a.kind = "response" -> [proc[r] EXCEPT !.pc = "items"]
                  [] a.kind = "uncertain" -> [proc[r] EXCEPT !.pc = "stop"]
                  [] OTHER -> AfterFailure(proc[r], a.kind, LastRow(d).retry)
<1>1. proc[r].pc = "commit" /\ UNCHANGED <<files, cache, calls>>
  BY DEF Commit, At
<1>2. /\ d \in Database /\ proc[r] \in Process /\ d.status = "running"
      /\ AnsweringFits(d, files[r], proc[r]) /\ b = CountedIn(d, a)
      /\ Row(r) = LastRow(d) /\ Index(r) = Size(d) /\ Size(d) \in Nat
      /\ RowsFit(r, d, cache) /\ CountersFit(d) /\ FilesFit(d, files[r]) /\ CallsFit(d, calls[r])
  BY <1>1, AtWork DEF StatusFits, PlaceFits, Answering, Begun, MemoryFits
<1>3. /\ a \in Answers /\ Waiting(d) /\ Size(d) > 0
      /\ LastRow(d).state \in {"pending", "dispatched"}
  BY <1>2 DEF AnsweringFits, Process, Waiting, LastIn
<1>4. /\ LastRow(d) \in RequestRow /\ RowFits(r, LastRow(d), cache)
      /\ d.requests \in Seq(RequestRow) /\ b \in BudgetState
      /\ Size(d) \in 1..Len(d.requests) /\ LastRow(d) = d.requests[Size(d)]
  BY <1>2, <1>3, AtWork DEF Database, Process, Size, LastRow
<1>5. Actual(r, a) \in Nat /\ Released(r, a) \in Nat /\ Uncertain(r, a) \in Nat
  <2>1. /\ LastRow(d).reserved \in Nat /\ LastRow(d).cache_hit \in BOOLEAN /\ MaxCost \in Nat
        /\ LastRow(d).reserved = IF LastRow(d).cache_hit THEN 0 ELSE MaxCost
    BY <1>4, Phase4Constants DEF RequestRow, RowFits
  <2>2. /\ IsResponse(a) => CostOf[a.usage] \in 0..MaxCost
        /\ a.kind = "uncertain" => ~ IsResponse(a)
    BY <1>3, AnswerShape, Phase4Constants DEF IsResponse
  <2>3. QED
    BY <1>2, <2>1, <2>2 DEF Actual, Released, Uncertain, Paid
<1>6. /\ a.usage \in Nat /\ Len(a.items) \in Nat
      /\ a.kind \in {"response", "malformed", "rejected", "rate-limit", "uncertain"}
  BY <1>3, AnswerShape, Phase4Constants
<1>7. /\ FinalState(a) \in {"responded", "schema-failure", "failed", "usage-uncertain"}
      /\ a.kind = "response" <=> FinalState(a) = "responded"
      /\ a.kind = "uncertain" <=> FinalState(a) = "usage-uncertain"
  BY <1>6 DEF FinalState
<1>8. /\ row \in RequestRow /\ row.state = FinalState(a) /\ row.item_count = Len(a.items)
      /\ row.logical = LastRow(d).logical /\ row.batch = LastRow(d).batch /\ row.retry = LastRow(d).retry
      /\ row.hash = LastRow(d).hash
      /\ row.cache_hit = LastRow(d).cache_hit /\ row.reserved = LastRow(d).reserved
      /\ row.next_item = LastRow(d).next_item
  BY <1>4, <1>5, <1>6, <1>7 DEF RequestRow, Finalized
<1> HIDE DEF row
<1>9. RowFits(r, row, cache)
  <2>1. LastRow(d).next_item = 0
    <3>1. LastRow(d).next_item <= LastRow(d).item_count /\ LastRow(d).item_count = 0
      BY <1>3, <1>4 DEF RowFits
    <3>2. LastRow(d).next_item \in Nat
      BY <1>4 DEF RequestRow
    <3>3. QED
      BY <3>1, <3>2
  <2>2. row.cache_hit => row.state = "responded" /\ cache[row.hash] # Nothing
    BY <1>2, <1>4, <1>7, <1>8 DEF AnsweringFits, RowFits
  <2>3. row.next_item <= row.item_count /\ row.state \notin {"pending", "dispatched"}
    BY <1>6, <1>7, <1>8, <2>1
  <2>4. /\ row.batch <= BatchSize /\ row.logical <= ModelRequestCap
        /\ row.hash = RequestHash[r, row.logical, row.batch]
        /\ row.reserved = IF row.cache_hit THEN 0 ELSE MaxCost
    BY <1>4, <1>8 DEF RowFits
  <2>5. QED
    BY <2>2, <2>3, <2>4 DEF RowFits
<1>10. [d.requests EXCEPT ![Size(d)] = row] \in Seq(RequestRow)
  BY <1>4, <1>8
<1>11. /\ e \in Database /\ e.requests = [d.requests EXCEPT ![Size(d)] = row]
       /\ e.budget = b /\ e.status = "running"
  BY <1>2, <1>4, <1>10 DEF Database
<1>12. db' = [db EXCEPT ![r] = e] /\ proc' = [proc EXCEPT ![r] = p]
  <2>1. db \in [Runs -> Database]
    BY AtWork
  <2>2. db' = [db EXCEPT ![r].requests[Size(d)] = row, ![r].budget = b]
    BY <1>2 DEF Commit, Update, row
  <2>3. db' = [db EXCEPT ![r] = e]
    BY <1>2, <1>4, <2>1, <2>2 DEF Database
  <2>4. proc' = [proc EXCEPT ![r] = p]
    BY <1>2 DEF Commit, Become
  <2>5. QED
    BY <2>3, <2>4
<1> HIDE DEF e
<1>13. /\ Size(e) = Size(d) /\ LastRow(e) = row /\ NextLogical(e) = NextLogical(d)
       /\ RowsFit(r, e, cache)
       /\ \A states : LastIn(e, states) <=> row.state \in states
  BY <1>2, <1>3, <1>8, <1>9, <1>11, LastRowStep
<1>14. ~ Waiting(e) /\ ~ LastIn(e, {"pending"})
  BY <1>7, <1>8, <1>13 DEF Waiting
<1>15. CountersFit(e)
  <2>1. "running" \notin Terminal
    BY DEF Terminal
  <2>2. d.budget \in BudgetState
    BY <1>2 DEF Database
  <2>3. b.logical = d.budget.logical /\ b.attempts = d.budget.attempts + 1
    BY <1>2, <2>2, BudgetType DEF CountedIn
  <2>4. b.attempts = Size(d)
    BY <1>2, <1>3, <2>2, <2>3 DEF CountersFit
  <2>5. QED
    BY <1>2, <1>11, <1>13, <1>14, <2>1, <2>3, <2>4 DEF CountersFit
<1>16. FilesFit(e, files[r])
  <2>1. Size(d) \in DOMAIN files[r].answers /\ files[r].answers[Size(d)] = a
    BY <1>1, <1>2 DEF AnsweringFits
  <2>2. QED
    BY <1>2, <1>8, <1>13, <2>1 DEF FilesFit
<1>17. CallsFit(e, calls[r])
  BY <1>2, <1>13, <1>14 DEF CallsFit
<1>18. /\ p \in Process /\ p.pc \in Begun
       /\ PlaceFits(r, e, files[r], p, calls[r], cache) /\ MemoryFits(e, p)
  <2>1. CASE a.kind = "response"
    <3>1. p = [proc[r] EXCEPT !.pc = "items"]
      BY <2>1
    <3>2. p \in Process /\ p.pc = "items" /\ p.answer = a /\ p.budget = b
      BY <1>2, <3>1 DEF Process, Begun
    <3> HIDE DEF p
    <3>3. LastIn(e, {"responded"}) /\ p.answer = files[r].answers[Size(e)]
      BY <1>1, <1>2, <1>7, <1>8, <1>13, <2>1, <3>2 DEF AnsweringFits
    <3>4. QED
      BY <1>11, <3>2, <3>3 DEF PlaceFits, MemoryFits, Asking, Answering, InMemory, Begun
  <2>2. CASE a.kind = "uncertain"
    <3>1. p = [proc[r] EXCEPT !.pc = "stop"]
      BY <2>2
    <3>2. p \in Process /\ p.pc = "stop" /\ p.budget = b
      BY <1>2, <3>1 DEF Process, Begun
    <3> HIDE DEF p
    <3>3. LastIn(e, {"usage-uncertain"})
      BY <1>7, <1>8, <1>13, <2>2
    <3>4. QED
      BY <1>11, <3>2, <3>3 DEF PlaceFits, MemoryFits, Asking, Answering, InMemory, Begun
  <2>3. CASE a.kind \notin {"response", "uncertain"}
    <3>1. p = AfterFailure(proc[r], a.kind, LastRow(e).retry)
      BY <1>8, <1>13, <2>3
    <3> HIDE DEF p
    <3>2. LastIn(e, {"schema-failure", "failed"})
      BY <1>7, <1>8, <1>13, <2>3
    <3>3. /\ proc[r].logical = LastRow(e).logical /\ proc[r].batch = LastRow(e).batch
          /\ LastRow(e).retry \in 0..MaxRetries
      BY <1>2, <1>8, <1>13 DEF AnsweringFits, RequestRow
    <3>4. QED
      BY <1>2, <1>11, <3>1, <3>2, <3>3, AfterFailureFits
  <2>4. QED
    BY <2>1, <2>2, <2>3
<1> HIDE DEF p
<1>19. StatusFits(e, p)
  BY <1>11, <1>18, Phase4Values DEF StatusFits, Begun, Ending
<1>20. RunFits(r, e, files[r], p, calls[r], cache)
  BY <1>13, <1>15, <1>16, <1>17, <1>18, <1>19 DEF RunFits
<1>21. QED
  BY <1>1, <1>11, <1>12, <1>18, <1>20, DatabaseStep

(* One item of the batch is recorded, and evaluated when it is accepted.     *)
LEMMA ItemStep ==
  ASSUME Phase4Inv, NEW r \in Runs, NEW stop \in BOOLEAN, Item(r, stop)
  PROVE  Phase4Inv'
<1> DEFINE d == db[r]
           accepted == proc[r].answer.items[LastRow(d).next_item + 1]
           more == IF accepted THEN 1 ELSE 0
           b == [d.budget EXCEPT !.items = @ + 1, !.oracle = @ + more]
           row == [LastRow(d) EXCEPT !.next_item = @ + 1]
           s == IF stop THEN "interrupted" ELSE d.status
           e == [d EXCEPT !.requests = [@ EXCEPT ![Size(d)] = row], !.budget = b,
                          !.evaluations = @ + more, !.status = s]
           q == [proc[r] EXCEPT !.pc = "items", !.budget = b]
           p == IF stop THEN NoProcess ELSE q
<1>1. proc[r].pc = "items" /\ UNCHANGED <<files, cache, calls>>
  BY DEF Item, At
<1>2. /\ d \in Database /\ proc[r] \in Process /\ d.status = "running"
      /\ LastIn(d, {"responded"}) /\ proc[r].answer = files[r].answers[Size(d)]
      /\ proc[r].budget = d.budget /\ d.budget \in BudgetState /\ d.evaluations \in Nat
      /\ Row(r) = LastRow(d) /\ Index(r) = Size(d) /\ Size(d) \in Nat
      /\ RowsFit(r, d, cache) /\ CountersFit(d) /\ FilesFit(d, files[r]) /\ CallsFit(d, calls[r])
      /\ db \in [Runs -> Database]
  BY <1>1, AtWork DEF StatusFits, PlaceFits, Begun, MemoryFits, InMemory, Database
<1>3. Size(d) > 0 /\ LastRow(d).state = "responded" /\ d.requests \in Seq(RequestRow)
  BY <1>2 DEF LastIn, Database
<1>4. /\ LastRow(d) \in RequestRow /\ RowFits(r, LastRow(d), cache)
      /\ Size(d) \in 1..Len(d.requests) /\ LastRow(d) = d.requests[Size(d)]
      /\ LastRow(d).next_item < LastRow(d).item_count
  <2>1. LastRow(d) \in RequestRow /\ RowFits(r, LastRow(d), cache)
    BY <1>3, AtWork
  <2>2. Size(d) \in 1..Len(d.requests) /\ LastRow(d) = d.requests[Size(d)]
    BY <1>3 DEF Size, LastRow
  <2>3. LastRow(d).next_item < LastRow(d).item_count
    BY <1>2 DEF Item
  <2>4. QED
    BY <2>1, <2>2, <2>3
<1>5. more \in Nat
  OBVIOUS
<1>6. /\ b \in BudgetState /\ b.logical = d.budget.logical /\ b.attempts = d.budget.attempts
      /\ b.tokens = d.budget.tokens
  <2> DEFINE c == d.budget
  <2> HIDE DEF c, more
  <2>1. c \in BudgetState /\ c.items + 1 \in Nat /\ c.oracle + more \in Nat
    BY <1>2, <1>5, BudgetType DEF c
  <2>2. [c EXCEPT !.items = @ + 1, !.oracle = @ + more] \in BudgetState
    BY <2>1, BudgetType
  <2>3. QED
    BY <2>2, BudgetType DEF c
<1>7. /\ row \in RequestRow /\ row.state = "responded" /\ row.item_count = LastRow(d).item_count
      /\ row.logical = LastRow(d).logical /\ row.batch = LastRow(d).batch /\ row.retry = LastRow(d).retry
      /\ row.hash = LastRow(d).hash
      /\ row.cache_hit = LastRow(d).cache_hit /\ row.reserved = LastRow(d).reserved
      /\ row.next_item = LastRow(d).next_item + 1
  <2> DEFINE old == LastRow(d)
  <2> HIDE DEF old
  <2>1. old \in RequestRow /\ old.state = "responded" /\ old.next_item + 1 \in Nat
    <3>1. LastRow(d).next_item \in Nat
      BY <1>4 DEF RequestRow
    <3>2. LastRow(d).next_item + 1 \in Nat
      BY <3>1
    <3>3. QED
      BY <1>3, <1>4, <3>2 DEF old
  <2>2. [old EXCEPT !.next_item = @ + 1] \in RequestRow
    BY <2>1 DEF RequestRow
  <2>3. QED
    BY <2>1, <2>2 DEF RequestRow, old
<1> HIDE DEF row
<1>8. RowFits(r, row, cache)
  <2>1. row.next_item <= row.item_count
    <3>1. LastRow(d).next_item \in Nat /\ LastRow(d).item_count \in Nat
      BY <1>4 DEF RequestRow
    <3>2. QED
      BY <1>4, <1>7, <3>1
  <2>2. QED
    BY <1>3, <1>4, <1>7, <2>1 DEF RowFits
<1>9. [d.requests EXCEPT ![Size(d)] = row] \in Seq(RequestRow)
  BY <1>3, <1>4, <1>7
<1>10. s \in Statuses /\ s \in {"running", "interrupted"} /\ d.evaluations + more \in Nat
  BY <1>2, <1>5 DEF Statuses
<1>11. /\ e \in Database /\ e.requests = [d.requests EXCEPT ![Size(d)] = row]
       /\ e.budget = b /\ e.status = s
  <2> HIDE DEF b, s, more
  <2>1. QED
    BY <1>2, <1>6, <1>9, <1>10 DEF Database
<1>12. db' = [db EXCEPT ![r] = e] /\ proc' = [proc EXCEPT ![r] = p]
  <2>1. db' = [db EXCEPT ![r].requests[Size(d)].next_item = @ + 1, ![r].budget = b,
                 ![r].evaluations = @ + more,
                 ![r].status = IF stop THEN "interrupted" ELSE @]
    BY <1>2 DEF Item
  <2>2. proc' = [proc EXCEPT ![r] = p]
    BY <1>2 DEF Item, Evaluated, Become
  <2> HIDE DEF b, more
  <2>3. db' = [db EXCEPT ![r] = e]
    BY <1>2, <1>4, <2>1 DEF Database, row
  <2>4. QED
    BY <2>2, <2>3
<1>13. /\ p \in Process /\ p.pc \in {"none", "items"}
       /\ p.pc = "items" => p.budget = b /\ p.answer = proc[r].answer /\ s = "running"
  <2>1. q \in Process /\ q.pc = "items" /\ q.budget = b /\ q.answer = proc[r].answer
    <3> HIDE DEF b
    <3>1. QED
      BY <1>2, <1>6 DEF Process, Begun
  <2>2. NoProcess \in Process /\ NoProcess.pc = "none"
    BY NoProcessType DEF NoProcess
  <2>3. QED
    BY <1>2, <2>1, <2>2
<1> HIDE DEF b, s, e, p
<1>14. /\ Size(e) = Size(d) /\ LastRow(e) = row /\ NextLogical(e) = NextLogical(d)
       /\ RowsFit(r, e, cache)
       /\ \A states : LastIn(e, states) <=> row.state \in states
  BY <1>2, <1>3, <1>7, <1>8, <1>11, LastRowStep
<1>15. ~ Waiting(e) /\ ~ Waiting(d) /\ ~ LastIn(e, {"pending"}) /\ LastIn(e, {"responded"})
  BY <1>3, <1>7, <1>14 DEF Waiting, LastIn
<1>16. CountersFit(e)
  <2>1. s \notin Terminal
    BY <1>10 DEF Terminal
  <2>2. QED
    BY <1>2, <1>6, <1>11, <1>14, <1>15, <2>1 DEF CountersFit
<1>17. FilesFit(e, files[r]) /\ CallsFit(e, calls[r])
  <2>1. LastIn(d, {"responded", "schema-failure", "failed"})
    BY <1>3 DEF LastIn
  <2>2. QED
    BY <1>2, <1>3, <1>7, <1>14, <1>15, <2>1 DEF FilesFit, CallsFit
<1>18. PlaceFits(r, e, files[r], p, calls[r], cache) /\ MemoryFits(e, p)
  BY <1>2, <1>11, <1>13, <1>14, <1>15 DEF PlaceFits, MemoryFits, Asking, Answering, InMemory
<1>19. StatusFits(e, p)
  BY <1>10, <1>11, <1>13, Phase4Values DEF StatusFits, Begun, Ending
<1>20. RunFits(r, e, files[r], p, calls[r], cache)
  BY <1>14, <1>16, <1>17, <1>18, <1>19 DEF RunFits
<1>21. QED
  BY <1>1, <1>11, <1>12, <1>13, <1>20, DatabaseStep

(* complete_request()                                                        *)
LEMMA CompleteStep ==
  ASSUME Phase4Inv, NEW r \in Runs, Complete(r)
  PROVE  Phase4Inv'
<1> DEFINE d == db[r]
           row == [LastRow(d) EXCEPT !.state = "completed"]
           e == [d EXCEPT !.requests = [@ EXCEPT ![Size(d)] = row]]
           p == [proc[r] EXCEPT !.pc = IF proc[r].recovering THEN "gate" ELSE "loop"]
<1>1. /\ proc[r].pc = "items" /\ UNCHANGED <<files, cache, calls>>
      /\ proc' = [proc EXCEPT ![r] = p]
      /\ db' = [db EXCEPT ![r].requests[Index(r)].state = "completed"]
  BY DEF Complete, At, Goto, Become
<1>2. /\ d \in Database /\ proc[r] \in Process /\ d.status = "running"
      /\ LastIn(d, {"responded"})
      /\ proc[r].budget = d.budget /\ Index(r) = Size(d) /\ Size(d) \in Nat
      /\ RowsFit(r, d, cache) /\ CountersFit(d) /\ FilesFit(d, files[r]) /\ CallsFit(d, calls[r])
  BY <1>1, AtWork DEF StatusFits, PlaceFits, Begun, MemoryFits, InMemory
<1>3. /\ Size(d) > 0 /\ LastRow(d).state = "responded" /\ d.requests \in Seq(RequestRow)
      /\ Size(d) \in 1..Len(d.requests) /\ LastRow(d) = d.requests[Size(d)]
  BY <1>2 DEF LastIn, Database, Size, LastRow
<1>4. LastRow(d) \in RequestRow /\ RowFits(r, LastRow(d), cache)
  BY <1>3, AtWork
<1>5. /\ row \in RequestRow /\ row.state = "completed"
      /\ row.logical = LastRow(d).logical /\ row.batch = LastRow(d).batch /\ row.retry = LastRow(d).retry
      /\ RowFits(r, row, cache)
  <2>1. /\ row \in RequestRow /\ row.state = "completed"
        /\ row.logical = LastRow(d).logical /\ row.batch = LastRow(d).batch /\ row.retry = LastRow(d).retry
        /\ row.hash = LastRow(d).hash
        /\ row.cache_hit = LastRow(d).cache_hit /\ row.reserved = LastRow(d).reserved
        /\ row.next_item = LastRow(d).next_item /\ row.item_count = LastRow(d).item_count
    BY <1>4 DEF RequestRow, Finalized
  <2> HIDE DEF row
  <2>2. QED
    BY <1>4, <2>1 DEF RowFits
<1>6. [d.requests EXCEPT ![Size(d)] = row] \in Seq(RequestRow)
  BY <1>3, <1>5
<1>7. /\ e \in Database /\ e.requests = [d.requests EXCEPT ![Size(d)] = row]
      /\ e.budget = d.budget /\ e.status = "running"
  BY <1>2, <1>6 DEF Database
<1>8. db' = [db EXCEPT ![r] = e]
  BY <1>1, <1>2, <1>3
<1>9. p \in Process /\ p.pc \in {"gate", "loop"} /\ p.budget = d.budget
  BY <1>2 DEF Process, Begun
<1> HIDE DEF e, p, row
<1>10. /\ Size(e) = Size(d) /\ LastRow(e) = row /\ NextLogical(e) = NextLogical(d)
       /\ RowsFit(r, e, cache)
       /\ \A states : LastIn(e, states) <=> row.state \in states
  BY <1>2, <1>3, <1>5, <1>7, LastRowStep
<1>11. ~ Waiting(e) /\ ~ Waiting(d) /\ ~ LastIn(e, {"pending"}) /\ Fresh(e)
       /\ ~ LastIn(e, {"responded", "schema-failure", "failed"})
  BY <1>3, <1>5, <1>10 DEF Waiting, LastIn, Fresh
<1>12. CountersFit(e)
  <2>1. "running" \notin Terminal
    BY DEF Terminal
  <2>2. QED
    BY <1>2, <1>7, <1>10, <1>11, <2>1 DEF CountersFit
<1>13. FilesFit(e, files[r]) /\ CallsFit(e, calls[r])
  BY <1>2, <1>10, <1>11 DEF FilesFit, CallsFit
<1>14. StatusFits(e, p)
  BY <1>7, <1>9, Phase4Values DEF StatusFits, Begun, Ending
<1>15. PlaceFits(r, e, files[r], p, calls[r], cache) /\ MemoryFits(e, p)
  BY <1>7, <1>9, <1>11 DEF PlaceFits, MemoryFits, Asking, Answering, InMemory
<1>16. RunFits(r, e, files[r], p, calls[r], cache)
  BY <1>10, <1>12, <1>13, <1>14, <1>15 DEF RunFits
<1>17. QED
  BY <1>1, <1>7, <1>8, <1>9, <1>16, DatabaseStep

(* Prompt and request artifacts, then prepare_request(): a new row.          *)
LEMMA PrepareStep ==
  ASSUME Phase4Inv, NEW r \in Runs, Prepare(r)
  PROVE  Phase4Inv'
<1> DEFINE d == db[r]
           m == proc[r]
           hit == m.hit # Nothing
           row == [logical |-> m.logical, retry |-> m.retry,
                   hash |-> RequestHash[r, m.logical, m.batch], batch |-> m.batch,
                   state |-> "pending", cache_hit |-> hit,
                   reserved |-> IF hit THEN 0 ELSE MaxCost,
                   actual |-> 0, released |-> 0, uncertain |-> 0, usage |-> 0,
                   item_count |-> 0, next_item |-> 0]
           e == [d EXCEPT !.requests = Append(@, row), !.budget = m.budget]
           p == [m EXCEPT !.pc = IF hit THEN "record" ELSE "send", !.answer = m.hit]
<1>1. /\ m.pc = "prepare" /\ UNCHANGED <<files, cache, calls>>
      /\ proc' = [proc EXCEPT ![r] = p]
      /\ db' = [db EXCEPT ![r].requests = Append(@, row), ![r].budget = m.budget]
  BY DEF Prepare, NextHash, At, Become
<1>2. /\ d \in Database /\ m \in Process /\ d.status = "running"
      /\ db \in [Runs -> Database] /\ Size(d) \in Nat
      /\ AskingFits(r, d, m, cache)
      /\ m.budget = IF m.retry = 0 THEN [d.budget EXCEPT !.logical = @ + 1] ELSE d.budget
      /\ RowsFit(r, d, cache) /\ CountersFit(d) /\ FilesFit(d, files[r]) /\ CallsFit(d, calls[r])
      /\ CacheFits(cache)
      /\ Size(d) > 0 => LastRow(d) \in RequestRow
  BY <1>1, AtWork DEF StatusFits, PlaceFits, Asking, Begun, MemoryFits
<1>3. /\ d.requests \in Seq(RequestRow) /\ d.budget \in BudgetState /\ m.budget \in BudgetState
      /\ m.logical \in 0..ModelRequestCap /\ m.retry \in 0..MaxRetries /\ m.batch \in 0..BatchSize
      /\ m.hit \in Answers \cup {Nothing} /\ BatchSize \in Nat /\ ModelRequestCap \in Nat
      /\ MaxCost \in Nat
  BY <1>2, Phase4Constants DEF Database, Process
<1>4. RequestHash[r, m.logical, m.batch] \in Hashes
  BY <1>3, Phase4Constants
<1>5. hit => m.hit = cache[RequestHash[r, m.logical, m.batch]]
  BY <1>1, <1>2 DEF AskingFits
<1>6. ~ Waiting(d) /\ Preflight(d.budget)
  BY <1>1, <1>2 DEF AskingFits, Between, Waiting, LastIn, Closed
<1>7. Size(d) < ModelRequestCap
  BY <1>2, <1>6 DEF CountersFit, Preflight
<1>8. row \in RequestRow
  <2>1. (IF hit THEN 0 ELSE MaxCost) \in Nat /\ m.batch \in Nat /\ m.logical \in Nat
        /\ hit \in BOOLEAN
    BY <1>3
  <2> HIDE DEF hit, m
  <2>2. QED
    BY <1>3, <1>4, <2>1 DEF RequestRow
<1>9. /\ row.logical = m.logical /\ row.retry = m.retry /\ row.state = "pending"
      /\ row.cache_hit = hit /\ row.item_count = 0 /\ row.next_item = 0 /\ row.batch = m.batch
      /\ row.hash = RequestHash[r, m.logical, m.batch] /\ row.reserved = IF hit THEN 0 ELSE MaxCost
  OBVIOUS
<1> HIDE DEF row
<1>10. RowFits(r, row, cache)
  <2>1. row.batch <= BatchSize /\ row.logical <= ModelRequestCap /\ row.next_item <= row.item_count
    <3>1. row.batch \in 0..BatchSize /\ row.logical \in 0..ModelRequestCap
      <4>1. row.batch = m.batch /\ row.logical = m.logical
        BY <1>9
      <4> HIDE DEF m
      <4>2. QED
        BY <1>3, <4>1
    <3>2. row.next_item = 0 /\ row.item_count = 0
      BY <1>9
    <3>3. QED
      BY <1>3, <3>1, <3>2
  <2>2. row.cache_hit => cache[row.hash] # Nothing
    BY <1>5, <1>9
  <2> HIDE DEF hit
  <2>3. QED
    BY <1>9, <2>1, <2>2 DEF RowFits
<1>11. e \in Database /\ e.requests = Append(d.requests, row) /\ e.budget = m.budget
       /\ e.status = "running"
  <2>1. Append(d.requests, row) \in Seq(RequestRow)
    BY <1>3, <1>8
  <2>2. QED
    BY <1>2, <1>3, <2>1 DEF Database
<1>12. db' = [db EXCEPT ![r] = e]
  BY <1>1, <1>2
<1>13. /\ Size(e) = Size(d) + 1 /\ e.requests[Size(e)] = row
       /\ \A i \in 1..Size(d) : e.requests[i] = d.requests[i]
  BY <1>3, <1>8, <1>11 DEF Size
<1>14. p \in Process /\ p.pc = (IF hit THEN "record" ELSE "send") /\ p.answer = m.hit
       /\ p.budget = m.budget /\ p.logical = m.logical /\ p.batch = m.batch
  <2>1. (IF hit THEN "record" ELSE "send") \in Begun
    BY DEF Begun
  <2> HIDE DEF hit
  <2>2. QED
    BY <1>2, <1>3, <2>1 DEF Process
<1> HIDE DEF e, p
<1>15. /\ LastRow(e) = row /\ Size(e) > 0
       /\ \A states : LastIn(e, states) <=> row.state \in states
  BY <1>2, <1>13 DEF LastRow, LastIn
<1>16. RowsFit(r, e, cache)
  <2>1. \A i \in 1..Size(e) : RowFits(r, e.requests[i], cache)
    BY <1>2, <1>10, <1>13 DEF RowsFit
  <2>2. CASE Size(d) = 0
    <3>1. ~ LastIn(d, {"schema-failure", "failed"})
      BY <2>2 DEF LastIn
    <3>2. m.retry = 0 /\ m.logical = 0
      BY <1>2, <2>2, <3>1 DEF AskingFits, NextLogical
    <3>3. e.requests[1] = row /\ 2..Size(e) = {}
      BY <1>13, <2>2
    <3>4. QED
      BY <1>9, <2>1, <3>2, <3>3 DEF RowsFit
  <2>3. CASE Size(d) > 0
    <3>1. e.requests[1].retry = 0 /\ e.requests[1].logical = 0
      BY <1>2, <1>13, <2>3 DEF RowsFit
    <3>2. Follows(LastRow(d), row)
      <4>1. CASE m.retry = 0
        <5>1. LastRow(d).state = "completed" /\ m.logical = NextLogical(d)
          BY <1>2, <2>3, <4>1 DEF AskingFits, Fresh
        <5>2. NextLogical(d) = LastRow(d).logical + 1
          BY <2>3 DEF NextLogical
        <5>3. QED
          BY <1>9, <4>1, <5>1, <5>2 DEF Follows
      <4>2. CASE m.retry # 0
        BY <1>2, <1>9, <2>3, <4>2 DEF AskingFits, LastIn, Follows
      <4>3. QED
        BY <4>1, <4>2
    <3>3. ASSUME NEW i \in 2..Size(e)
          PROVE  Follows(e.requests[i - 1], e.requests[i])
      <4>1. CASE i = Size(e)
        BY <1>2, <1>13, <2>3, <3>2, <4>1 DEF LastRow
      <4>2. CASE i # Size(e)
        <5>1. i \in 2..Size(d) /\ i \in 1..Size(d) /\ i - 1 \in 1..Size(d)
          BY <1>2, <1>13, <4>2
        <5>2. QED
          BY <1>2, <1>13, <5>1 DEF RowsFit
      <4>3. QED
        BY <4>1, <4>2
    <3>4. QED
      BY <2>1, <3>1, <3>3 DEF RowsFit
  <2>4. QED
    BY <1>2, <2>2, <2>3
<1>17. Waiting(e) /\ ~ LastIn(e, {"responded", "schema-failure", "failed"})
  BY <1>9, <1>15 DEF Waiting
<1>18. /\ e.budget.logical = NextLogical(e) /\ NextLogical(e) <= Size(e)
       /\ e.budget.attempts = Size(d) /\ Preflight(e.budget)
  <2>1. NextLogical(e) = m.logical + 1
    <3>1. Size(e) # 0
      BY <1>2, <1>13
    <3>2. NextLogical(e) = LastRow(e).logical + 1
      BY <3>1 DEF NextLogical
    <3>3. QED
      BY <1>9, <1>15, <3>2
  <2>2. NextLogical(d) \in Nat
    <3>1. Size(d) > 0 => LastRow(d).logical \in Nat
      BY <1>2 DEF RequestRow
    <3>2. QED
      BY <1>2, <3>1 DEF NextLogical
  <2>3. /\ d.budget.logical = NextLogical(d) /\ NextLogical(d) <= Size(d)
        /\ d.budget.attempts = Size(d)
    BY <1>2, <1>6 DEF CountersFit
  <2>4. CASE m.retry = 0
    <3>1. m.logical = NextLogical(d)
      BY <1>2, <2>4 DEF AskingFits
    <3>2. /\ e.budget.logical = d.budget.logical + 1 /\ e.budget.attempts = d.budget.attempts
          /\ e.budget.tokens = d.budget.tokens
      BY <1>2, <1>3, <1>11, <2>4, BudgetType
    <3>3. QED
      BY <1>2, <1>6, <1>13, <2>1, <2>2, <2>3, <3>1, <3>2 DEF Preflight
  <2>5. CASE m.retry # 0
    <3>1. m.logical = LastRow(d).logical /\ m.batch = LastRow(d).batch /\ Size(d) > 0
      BY <1>2, <2>5 DEF AskingFits, LastIn
    <3>2. NextLogical(d) = m.logical + 1 /\ e.budget = d.budget
      BY <1>2, <1>11, <2>5, <3>1 DEF NextLogical
    <3>3. QED
      BY <1>2, <1>6, <1>13, <2>1, <2>2, <2>3, <3>2
  <2>6. QED
    BY <2>4, <2>5
<1>19. CountersFit(e)
  <2>1. "running" \notin Terminal
    BY DEF Terminal
  <2>2. QED
    <3>1. e.budget.attempts = Size(e) - 1 /\ Size(e) <= ModelRequestCap
      BY <1>2, <1>3, <1>7, <1>13, <1>18
    <3>2. QED
      BY <1>11, <1>17, <1>18, <2>1, <3>1 DEF CountersFit
<1>20. FilesFit(e, files[r])
  BY <1>2, <1>13, <1>17 DEF FilesFit
<1>21. CallsFit(e, calls[r])
  BY <1>2, <1>13 DEF CallsFit
<1>22. PlaceFits(r, e, files[r], p, calls[r], cache)
  <2>1. CASE hit
    <3>1. m.hit \in Answers /\ m.hit.kind = "response"
      BY <1>2, <1>3, <1>4, <1>5, <2>1, Phase4Values DEF CacheFits
    <3>2. AnsweringFits(e, files[r], p)
      BY <1>9, <1>14, <1>15, <1>17, <2>1, <3>1 DEF AnsweringFits
    <3>3. QED
      BY <1>14, <2>1, <3>2 DEF PlaceFits, Asking, Answering
  <2>2. CASE ~ hit
    BY <1>9, <1>14, <1>15, <2>2 DEF PlaceFits, Asking, Answering
  <2>3. QED
    BY <2>1, <2>2
<1>23. MemoryFits(e, p)
  BY <1>11, <1>14 DEF MemoryFits, Asking, InMemory
<1>24. StatusFits(e, p)
  BY <1>11, <1>14, Phase4Values DEF StatusFits, Begun, Ending
<1>25. RunFits(r, e, files[r], p, calls[r], cache)
  BY <1>16, <1>19, <1>20, <1>21, <1>22, <1>23, <1>24 DEF RunFits
<1>26. QED
  BY <1>1, <1>11, <1>12, <1>14, <1>25, DatabaseStep

(* _finalize() writes one more file, or finds another content in it.         *)
LEMMA FinalizeStep ==
  ASSUME Phase4Inv, NEW r \in Runs, NEW f \in Directory, NEW pc \in Ending,
         f.answers = files[r].answers, proc[r].pc \in Ending,
         files' = [files EXCEPT ![r] = f], Goto(r, pc), UNCHANGED <<db, cache, calls>>
  PROVE  Phase4Inv'
<1> DEFINE p == [proc[r] EXCEPT !.pc = pc]
<1>1. proc' = [proc EXCEPT ![r] = p]
  BY DEF Goto, Become
<1>2. proc[r] \in Process /\ StatusFits(db[r], proc[r]) /\ FilesFit(db[r], files[r])
  BY AtWork
<1>3. p \in Process /\ p.pc = pc /\ p.status = proc[r].status
  BY <1>2 DEF Process
<1> HIDE DEF p
<1>4. StatusFits(db[r], p)
  BY <1>2, <1>3, Phase4Values DEF StatusFits, Begun, Ending
<1>5. PlaceFits(r, db[r], f, p, calls[r], cache) /\ MemoryFits(db[r], p)
  BY <1>3, NothingHeld
<1>6. FilesFit(db[r], f)
  BY <1>2 DEF FilesFit
<1>7. RunFits(r, db[r], f, p, calls[r], cache)
  BY <1>4, <1>5, <1>6, AtWork DEF RunFits
<1>8. QED
  BY <1>1, <1>3, <1>7, FileStep

(* `_finalize` writes the report. *)
LEMMA WriteReportStep ==
  ASSUME Phase4Inv, NEW r \in Runs, WriteReport(r)
  PROVE  Phase4Inv'
<1>1. CASE Writable(files[r].report, ReportOf(r))
  <2> DEFINE f == [files[r] EXCEPT !.report = ReportOf(r)]
  <2>1. /\ files[r] \in Directory /\ files \in [Runs -> Directory]
        /\ db[r] \in Database /\ proc[r] \in Process
    BY AtWork
  <2>2. ReportOf(r) \in Report
    BY <2>1 DEF ReportOf, Report, Requests, Database, Process
  <2>3. f \in Directory /\ f.answers = files[r].answers
    BY <2>1, <2>2 DEF Directory
  <2>4. /\ files' = [files EXCEPT ![r] = f] /\ Goto(r, "access")
        /\ UNCHANGED <<db, cache, calls>> /\ proc[r].pc = "report"
    BY <1>1, <2>1 DEF WriteReport, At
  <2>5. "access" \in Ending /\ "report" \in Ending
    BY DEF Ending
  <2> HIDE DEF f
  <2>6. QED
    BY <2>3, <2>4, <2>5, FinalizeStep
<1>2. CASE ~ Writable(files[r].report, ReportOf(r))
  BY <1>2, EndStep DEF WriteReport
<1>3. QED
  BY <1>1, <1>2

(* `_finalize` writes the access log. *)
LEMMA WriteAccessStep ==
  ASSUME Phase4Inv, NEW r \in Runs, WriteAccessLedger(r)
  PROVE  Phase4Inv'
<1>1. CASE Writable(files[r].access, proc[r].purpose)
  <2> DEFINE f == [files[r] EXCEPT !.access = proc[r].purpose]
  <2>1. /\ files[r] \in Directory /\ files \in [Runs -> Directory]
        /\ proc[r].purpose \in Purposes
    BY AtWork DEF Process
  <2>2. f \in Directory /\ f.answers = files[r].answers
    BY <2>1 DEF Directory
  <2>3. /\ files' = [files EXCEPT ![r] = f] /\ Goto(r, "results")
        /\ UNCHANGED <<db, cache, calls>> /\ proc[r].pc = "access"
    BY <1>1, <2>1 DEF WriteAccessLedger, At
  <2>4. "access" \in Ending /\ "results" \in Ending
    BY DEF Ending
  <2> HIDE DEF f
  <2>5. QED
    BY <2>2, <2>3, <2>4, FinalizeStep
<1>2. CASE ~ Writable(files[r].access, proc[r].purpose)
  BY <1>2, EndStep DEF WriteAccessLedger
<1>3. QED
  BY <1>1, <1>2

(* `_finalize` writes the results, the last file before the status changes. *)
LEMMA WriteResultsStep ==
  ASSUME Phase4Inv, NEW r \in Runs, WriteResults(r)
  PROVE  Phase4Inv'
<1>1. CASE Writable(files[r].results, ResultsOf(r))
  <2> DEFINE f == [files[r] EXCEPT !.results = ResultsOf(r)]
  <2>1. /\ files[r] \in Directory /\ files \in [Runs -> Directory]
        /\ db[r] \in Database /\ proc[r] \in Process /\ proc[r].pc = "results"
    BY AtWork DEF WriteResults, At
  <2>2. proc[r].status \in Terminal
    BY <2>1, AtWork DEF StatusFits, Ending
  <2>3. ReportOf(r) \in Report
    BY <2>1 DEF ReportOf, Report, Requests, Database, Process
  <2>4. ResultsOf(r) \in [status : Terminal, report : Report, access : Purposes]
    BY <2>1, <2>2, <2>3 DEF ResultsOf, Process
  <2>5. f \in Directory /\ f.answers = files[r].answers
    BY <2>1, <2>4 DEF Directory
  <2>6. /\ files' = [files EXCEPT ![r] = f] /\ Goto(r, "close")
        /\ UNCHANGED <<db, cache, calls>>
    BY <1>1, <2>1 DEF WriteResults
  <2>7. "close" \in Ending /\ "results" \in Ending
    BY DEF Ending
  <2> HIDE DEF f
  <2>8. QED
    BY <2>1, <2>5, <2>6, <2>7, FinalizeStep
<1>2. CASE ~ Writable(files[r].results, ResultsOf(r))
  BY <1>2, EndStep DEF WriteResults
<1>3. QED
  BY <1>1, <1>2

-----------------------------------------------------------------------------
(* The invariant holds of the specification.                                 *)

(* The invariant holds when nothing has happened yet. *)
LEMMA InitInv == Init => Phase4Inv
<1> SUFFICES ASSUME Init PROVE Phase4Inv
  OBVIOUS
<1> DEFINE d == [status |-> Nothing, evaluations |-> 0, requests |-> <<>>, budget |-> EmptyBudget]
           f == [answers |-> <<>>, report |-> Nothing, access |-> Nothing, results |-> Nothing]
<1>1. EmptyBudget \in BudgetState /\ EmptyBudget.logical = 0 /\ EmptyBudget.attempts = 0
  BY BudgetType DEF EmptyBudget
<1>2. d \in Database /\ d.requests = <<>> /\ d.budget = EmptyBudget /\ d.status = Nothing
  BY <1>1 DEF Database, Statuses
<1>3. DOMAIN <<>> = {} /\ <<>> \in [{} -> Answers] /\ {} \in SUBSET (1..ModelRequestCap)
  OBVIOUS
<1>4. f \in Directory /\ f.answers = <<>>
  BY <1>3 DEF Directory, Purposes
<1>5. NoProcess \in Process /\ NoProcess.pc = "none"
  BY NoProcessType DEF NoProcess
<1>6. <<>> \in Seq(Call) /\ Len(<<>>) = 0
  OBVIOUS
<1>7. /\ db = [r \in Runs |-> d] /\ files = [r \in Runs |-> f]
      /\ proc = [r \in Runs |-> NoProcess] /\ calls = [r \in Runs |-> <<>>]
      /\ cache = [h \in Hashes |-> Nothing]
  BY DEF Init
<1> HIDE DEF d, f
<1>8. CacheFits(cache)
  BY <1>7 DEF CacheFits
<1>9. ASSUME NEW r \in Runs
      PROVE  RunFits(r, d, f, NoProcess, <<>>, cache)
  <2>1. Size(d) = 0
    BY <1>2 DEF Size
  <2>2. \A states : ~ LastIn(d, states)
    BY <2>1 DEF LastIn
  <2>3. RowsFit(r, d, cache)
    BY <2>1 DEF RowsFit
  <2>4. CountersFit(d)
    BY <1>1, <1>2, <2>1, <2>2, Phase4Values, Phase4Constants
    DEF CountersFit, NextLogical, Waiting
  <2>5. FilesFit(d, f) /\ CallsFit(d, <<>>)
    BY <1>3, <1>4, <1>6, <2>1, <2>2 DEF FilesFit, CallsFit
  <2>6. StatusFits(d, NoProcess)
    BY <1>5 DEF StatusFits, Begun, Ending
  <2>7. QED
    BY <1>5, <2>3, <2>4, <2>5, <2>6, NothingHeld DEF RunFits
<1>10. QED
  BY <1>2, <1>4, <1>5, <1>6, <1>7, <1>8, <1>9 DEF Phase4Inv

(* Every step of every process, and a step of none, keeps the invariant: one case
   for each action. *)
LEMMA NextInv == Phase4Inv /\ [Next]_vars => Phase4Inv'
<1> SUFFICES ASSUME Phase4Inv, [Next]_vars PROVE Phase4Inv'
  OBVIOUS
<1>1. CASE UNCHANGED vars
  BY <1>1 DEF vars, Phase4Inv
<1>2. ASSUME NEW r \in Runs, Step(r)
      PROVE  Phase4Inv'
  <2>1. CASE Open(r)
    BY <2>1, OpenStep
  <2>2. ASSUME NEW stop \in BOOLEAN, Initialize(r, stop)
        PROVE  Phase4Inv'
    BY <2>2, InitializeStep
  <2>3. ASSUME NEW stop \in BOOLEAN, Item(r, stop)
        PROVE  Phase4Inv'
    BY <2>3, ItemStep
  <2>4. CASE Initialized(r)
    BY <2>4, InitializedStep
  <2>5. CASE Recover(r)
    BY <2>5, RecoverStep
  <2>6. CASE Interrupt(r)
    BY <2>6, ComeAndGo
  <2>7. CASE Stop(r)
    BY <2>7, StopStep
  <2>8. CASE GiveUp(r)
    BY <2>8, GiveUpStep
  <2>9. CASE Gate(r)
    BY <2>9, GateStep
  <2>10. CASE NextCall(r)
    BY <2>10, NextCallStep
  <2>11. CASE Attempt(r)
    BY <2>11, AttemptStep
  <2>12. CASE ReserveCost(r)
    BY <2>12, ReserveCostStep
  <2>13. CASE RefuseCost(r)
    BY <2>13, RefuseCostStep
  <2>14. CASE Prepare(r)
    BY <2>14, PrepareStep
  <2>15. CASE Send(r)
    BY <2>15, SendStep
  <2>16. ASSUME NEW answer \in Answer(proc[r].batch), NEW charge \in Charges(answer),
                Provider(r, answer, charge)
         PROVE  Phase4Inv'
    BY <2>16, ProviderStep
  <2>17. CASE Record(r)
    BY <2>17, RecordStep
  <2>18. CASE Settle(r)
    BY <2>18, SettleStep
  <2>19. CASE Store(r)
    BY <2>19, StoreStep
  <2>20. CASE Commit(r)
    BY <2>20, CommitStep
  <2>21. CASE Complete(r)
    BY <2>21, CompleteStep
  <2>22. CASE WriteReport(r)
    BY <2>22, WriteReportStep
  <2>23. CASE WriteAccessLedger(r)
    BY <2>23, WriteAccessStep
  <2>24. CASE WriteResults(r)
    BY <2>24, WriteResultsStep
  <2>25. CASE Close(r)
    BY <2>25, CloseStep
  <2>26. QED
    BY <1>2, <2>1, <2>2, <2>3, <2>4, <2>5, <2>6, <2>7, <2>8, <2>9, <2>10, <2>11, <2>12,
       <2>13, <2>14, <2>15, <2>16, <2>17, <2>18, <2>19, <2>20, <2>21, <2>22, <2>23, <2>24,
       <2>25 DEF Step
<1>3. ASSUME NEW r \in Runs,
             Start(r) \/ Crash(r) \/ Raise(r) \/ \E online \in BOOLEAN : Resume(r, online)
      PROVE  Phase4Inv'
  BY <1>3, ComeAndGo
<1>4. QED
  BY <1>1, <1>2, <1>3 DEF Next

(* The engine's own state is always one the control flow can explain.        *)
THEOREM EngineConsistent == Spec => []Phase4Inv
BY InitInv, NextInv, PTL DEF Spec

(* The provider is asked at most once for one request row, however often the *)
(* run is killed and resumed.                                                *)
THEOREM CalledOnce == Spec => []ProviderCalledOnce
<1>1. Phase4Inv => ProviderCalledOnce
  <2> SUFFICES ASSUME Phase4Inv, NEW r \in Runs
               PROVE  \A a, b \in DOMAIN calls[r] :
                        calls[r][a].request = calls[r][b].request => a = b
    BY DEF ProviderCalledOnce
  <2>1. CallsFit(db[r], calls[r]) /\ DOMAIN calls[r] = 1..Len(calls[r])
    BY AtWork
  <2>2. QED
    BY <2>1 DEF CallsFit
<1>2. QED
  BY <1>1, EngineConsistent, PTL

(* The rows form bounded retry sequences, across any number of processes.    *)
THEOREM RetriesAreChains == Spec => []RetriesFormChains
<1>1. Phase4Inv => RetriesFormChains
  <2> SUFFICES ASSUME Phase4Inv, NEW r \in Runs, NEW i \in 1..Index(r)
               PROVE  LET row == Requests(r)[i]
                          prev == Requests(r)[i - 1]
                      IN  \/ row.retry = 0 /\ row.logical = 0 /\ i = 1
                          \/ /\ i > 1 /\ row.retry = 0 /\ row.logical = prev.logical + 1
                             /\ prev.state = "completed"
                          \/ /\ i > 1 /\ row.retry = prev.retry + 1 /\ row.retry <= MaxRetries
                             /\ row.logical = prev.logical /\ row.hash = prev.hash
                             /\ prev.state \in {"schema-failure", "failed"}
    BY DEF RetriesFormChains
  <2> DEFINE d == db[r]
  <2>1. /\ d \in Database /\ RowsFit(r, d, cache) /\ Size(d) \in Nat /\ Index(r) = Size(d)
        /\ Requests(r) = d.requests
    BY AtWork DEF Requests
  <2>2. \A k \in 1..Size(d) : d.requests[k] \in RequestRow
    BY <2>1 DEF Database, Size
  <2>3. CASE i = 1
    BY <2>1, <2>3 DEF RowsFit
  <2>4. CASE i # 1
    <3>1. i \in 2..Size(d) /\ i - 1 \in 1..Size(d) /\ i \in 1..Size(d) /\ i > 1
      BY <2>1, <2>4
    <3> DEFINE row == d.requests[i]
               prev == d.requests[i - 1]
    <3>2. Follows(prev, row) /\ RowFits(r, row, cache) /\ RowFits(r, prev, cache)
      BY <2>1, <3>1 DEF RowsFit
    <3>3. row.retry <= MaxRetries
      <4>1. row.retry \in 0..MaxRetries
        BY <2>2, <3>1 DEF RequestRow
      <4>2. QED
        BY <4>1, Phase4Constants
    <3>4. row.logical = prev.logical /\ row.batch = prev.batch => row.hash = prev.hash
      BY <3>2 DEF RowFits
    <3>5. QED
      BY <2>1, <3>1, <3>2, <3>3, <3>4 DEF Follows
  <2>5. QED
    BY <2>3, <2>4
<1>2. QED
  BY <1>1, EngineConsistent, PTL

(* A terminal status is final: no later process changes the run's database.  *)
THEOREM TerminalStaysFinal == Spec => TerminalIsFinal
<1> DEFINE Final == \A r \in Runs : db[r].status \in Terminal => db'[r] = db[r]
<1>1. Phase4Inv /\ [Next]_vars => [Final]_vars
  <2> SUFFICES ASSUME Phase4Inv, [Next]_vars, NEW r \in Runs, db[r].status \in Terminal
               PROVE  db'[r] = db[r]
    OBVIOUS
  <2>1. db \in [Runs -> Database] /\ db[r] \in Database
    BY AtWork
  <2>2. db[r].status # Nothing /\ db[r].status \notin {"running", "interrupted"}
    BY Phase4Values DEF Terminal
  <2>3. proc[r].pc \notin Begun
    BY <2>2, AtWork DEF StatusFits
  <2>4. proc[r].pc = "close" => proc[r].status = db[r].status
    BY <2>2, AtWork DEF StatusFits, Ending
  <2>5. ASSUME NEW s \in Runs, Step(s)
        PROVE  db'[r] = db[r]
    <3>1. CASE s = r
      <4>1. CASE Open(r)
        BY <4>1 DEF Open
      <4>2. CASE Close(r)
        BY <2>1, <2>4, <4>2 DEF Close, SetStatus, Database, At
      <4>3. CASE WriteReport(r) \/ WriteAccessLedger(r) \/ WriteResults(r)
        BY <4>3 DEF WriteReport, WriteAccessLedger, WriteResults
      <4>4. QED
        BY <2>3, <2>5, <3>1, <4>1, <4>2, <4>3
        DEF Step, Begun, At, Initialize, Item, Initialized, Recover, Interrupt, Stop, GiveUp,
            Gate, NextCall, Attempt, ReserveCost, RefuseCost, Prepare, NextHash, Send, Provider, Record,
            Settle, Store, Commit, Complete
    <3>2. CASE s # r
      BY <2>1, <2>5, <3>2
      DEF Step, Open, Initialize, Item, Initialized, Recover, Interrupt, Stop, GiveUp,
          Gate, NextCall, Attempt, ReserveCost, RefuseCost, Prepare, NextHash, Send, Provider, Record,
          Settle, Store, Commit, Complete, WriteReport, WriteAccessLedger, WriteResults, Close,
          SetStatus, Update
    <3>3. QED
      BY <3>1, <3>2
  <2>6. ASSUME NEW s \in Runs,
               Start(s) \/ Crash(s) \/ Raise(s) \/ \E online \in BOOLEAN : Resume(s, online)
        PROVE  db'[r] = db[r]
    BY <2>1, <2>2, <2>6 DEF Start, Crash, Raise, Resume, SetStatus
  <2>7. QED
    BY <2>5, <2>6 DEF Next, vars
<1>2. QED
  BY <1>1, EngineConsistent, PTL DEF Spec, TerminalIsFinal

-----------------------------------------------------------------------------
(* The engine implements the ledger: whatever the runs do, the shared tables *)
(* change by the ledger's transactions only.                                 *)

(* Every step of the engine is a transaction of the ledger or leaves it alone. *)
LEMMA LedgerStep == Phase4Inv /\ [Next]_vars => [LedgerNext]_ledgerVars
<1> SUFFICES ASSUME Phase4Inv, [Next]_vars PROVE [LedgerNext]_ledgerVars
  OBVIOUS
<1>1. CASE UNCHANGED vars
  BY <1>1 DEF vars, ledgerVars
<1>2. ASSUME NEW r \in Runs, ReserveCost(r)
      PROVE  [LedgerNext]_ledgerVars
  <2> DEFINE q == ReservationRequest(r)
             hash == RequestHash[r, proc[r].logical, proc[r].batch]
  <2>1. /\ proc[r] \in Process /\ AskingFits(r, db[r], proc[r], cache) /\ CountersFit(db[r])
        /\ Index(r) = Size(db[r]) /\ Size(db[r]) \in Nat /\ proc[r].pc = "reserve"
    BY <1>2, AtWork DEF ReserveCost, At, PlaceFits, Asking
  <2>2. Index(r) + 1 \in 1..ModelRequestCap
    <3>1. ~ Waiting(db[r]) /\ Preflight(db[r].budget)
      BY <2>1 DEF AskingFits, Between, Waiting, LastIn, Closed
    <3>2. QED
      BY <2>1, <3>1, Phase4Constants DEF CountersFit, Preflight
  <2>3. hash \in Hashes
    BY <2>1, Phase4Constants DEF Process
  <2>4. ReservationId(r, Index(r) + 1, hash) \in Ids
    BY <2>2, <2>3, Phase4Values DEF ReservationId
  <2>5. q \in Request
    BY <2>3, <2>4, Phase4Constants DEF ReservationRequest, NextHash, Request
  <2>6. PhaseCap \in Overrides /\ StageCap[RunStage[r]] \in Overrides
    BY Phase4Constants
  <2>7. Reserve(q, PhaseCap, StageCap[RunStage[r]])
    BY <1>2 DEF ReserveCost
  <2>8. QED
    BY <2>5, <2>6, <2>7 DEF LedgerNext
<1>3. ASSUME NEW r \in Runs, Settle(r)
      PROVE  [LedgerNext]_ledgerVars
  <2> DEFINE a == proc[r].answer
             id == ReservationId(r, Index(r), Row(r).hash)
             record == <<r, Index(r), a>>
  <2>1. /\ proc[r] \in Process /\ AnsweringFits(db[r], files[r], proc[r]) /\ CountersFit(db[r])
        /\ Index(r) = Size(db[r]) /\ Size(db[r]) \in Nat /\ Row(r) = LastRow(db[r])
    BY <1>3, AtWork DEF Settle, At, PlaceFits, Answering
  <2>2. a \in Answers /\ Size(db[r]) > 0 /\ Index(r) \in 1..ModelRequestCap
    BY <2>1, Phase4Constants DEF AnsweringFits, Process, Waiting, LastIn, CountersFit
  <2>3. Row(r).hash \in Hashes
    BY <2>1, <2>2, AtWork DEF RequestRow
  <2>4. id \in Ids /\ record \in Records
    BY <2>2, <2>3, Phase4Values DEF ReservationId
  <2>5. Actual(r, a) \in 0..RequestCap
    <3>1. IsResponse(a) => CostOf[a.usage] \in 0..MaxCost
      BY <2>2, AnswerShape, Phase4Constants DEF IsResponse
    <3>2. MaxCost \in Nat /\ RequestCap \in Nat /\ MaxCost <= RequestCap
      BY Phase4Constants, LedgerConstants
    <3>3. QED
      BY <3>1, <3>2 DEF Actual
  <2>6. SettleLedger(r, a)
    BY <1>3 DEF Settle
  <2>7. \/ UNCHANGED ledgerVars
        \/ MarkUncertain(id, record)
        \/ Reconcile(id, Actual(r, a), record)
    BY <2>6 DEF SettleLedger
  <2>8. QED
    BY <2>4, <2>5, <2>7 DEF LedgerNext
<1>4. ASSUME NEW r \in Runs, Step(r), ~ ReserveCost(r), ~ Settle(r)
      PROVE  UNCHANGED ledgerVars
  BY <1>4
  DEF Step, Open, Initialize, Item, Initialized, Recover, Interrupt, Stop, GiveUp, Gate,
      NextCall, Attempt, RefuseCost, Prepare, NextHash, Send, Provider, Record, Store, Commit, Complete,
      WriteReport, WriteAccessLedger, WriteResults, Close
<1>5. ASSUME NEW r \in Runs,
             Start(r) \/ Crash(r) \/ Raise(r) \/ \E online \in BOOLEAN : Resume(r, online)
      PROVE  UNCHANGED ledgerVars
  BY <1>5 DEF Start, Crash, Raise, Resume
<1>6. QED
  BY <1>1, <1>2, <1>3, <1>4, <1>5 DEF Next

(* The engine's use of the ledger is a behaviour of the ledger.              *)
THEOREM EngineImplementsLedger == Spec => LedgerSpec
<1>1. Init => LedgerInit
  BY DEF Init
<1>2. QED
  BY <1>1, LedgerStep, EngineConsistent, PTL DEF Spec, LedgerSpec

(* Type correctness of the engine, its database and the shared tables.       *)
THEOREM EngineTypeCorrect == Spec => []Phase4TypeOK
<1>1. Phase4Inv /\ LedgerTypeOK => Phase4TypeOK
  <2> SUFFICES ASSUME Phase4Inv, LedgerTypeOK PROVE Phase4TypeOK
    OBVIOUS
  <2>1. ASSUME NEW r \in Runs
        PROVE  /\ db[r].status \in {Nothing, "running", "interrupted"} \cup Terminal
               /\ db[r].evaluations \in Nat
               /\ db[r].requests \in Seq(RequestRow)
               /\ db[r].budget \in BudgetState /\ proc[r].budget \in BudgetState
               /\ DOMAIN files[r].answers \subseteq 1..Index(r)
               /\ \A i \in DOMAIN files[r].answers : files[r].answers[i] \in Answers
               /\ {proc[r].answer, proc[r].hit} \subseteq Answers \cup {Nothing}
    <3>1. /\ db[r] \in Database /\ proc[r] \in Process /\ files[r] \in Directory
          /\ FilesFit(db[r], files[r]) /\ Index(r) = Size(db[r])
      BY AtWork
    <3>2. /\ db[r].status \in {Nothing, "running", "interrupted"} \cup Terminal
          /\ db[r].evaluations \in Nat
          /\ db[r].requests \in Seq(RequestRow) /\ db[r].budget \in BudgetState
      BY <3>1 DEF Database, Statuses
    <3>3. proc[r].budget \in BudgetState /\ {proc[r].answer, proc[r].hit} \subseteq Answers \cup {Nothing}
      BY <3>1 DEF Process
    <3>4. \A i \in DOMAIN files[r].answers : files[r].answers[i] \in Answers
      BY <3>1 DEF Directory
    <3>5. QED
      BY <3>1, <3>2, <3>3, <3>4 DEF FilesFit
  <2>2. \A h \in Hashes : cache[h] \in Answers \cup {Nothing}
    BY DEF Phase4Inv, CacheFits
  <2>3. QED
    BY <2>1, <2>2 DEF Phase4TypeOK
<1>2. QED
  BY <1>1, EngineConsistent, EngineImplementsLedger, TypeCorrect, PTL

(* However many engines share the ledger, and wherever they die, the caps of *)
(* the phase, of every stage and of every run are respected.                 *)
THEOREM EngineRespectsCaps == Spec => []CapsRespected
BY EngineImplementsLedger, CapsHold, PTL

(* An engine never rewrites what was settled, whatever it repeats.           *)
THEOREM EngineSettlesOnce == Spec => SettledIsFinal
BY EngineImplementsLedger, SettledStaysFinal, PTL

-----------------------------------------------------------------------------
(* The rows of every run agree with the shared ledger, and what the provider *)
(* charges is covered by it, whoever dies between the two.  The invariant    *)
(* says of one run where its requests stand in the ledger; R is the table of *)
(* reservations.                                                             *)

RowsWith(R, id) == {k \in 1..Len(R) : R[k].reservation_id = id}

(* Reservations of the engine reserve the worst case of one request, and     *)
(* what is not spent is released when the row is settled.                    *)
AmountsFit(R) ==
  \A k \in 1..Len(R) :
    /\ R[k].reserved = MaxCost /\ RowOK(R[k])
    /\ R[k].released = IF R[k].state = "reconciled" THEN MaxCost - R[k].actual ELSE 0

(* The reservation of a stored row. *)
Agrees(entry, row) ==
  /\ entry.reserved = row.reserved
  /\ row.state \in Finalized =>
       /\ entry.state = IF row.state = "usage-uncertain" THEN "uncertain" ELSE "reconciled"
       /\ entry.actual = row.actual /\ entry.uncertain = row.uncertain
       /\ entry.released = row.released

RowsPaid(r, d, R) ==
  \A i \in 1..Size(d) : ~ d.requests[i].cache_hit =>
    \E k \in RowsWith(R, <<r, i, d.requests[i].hash>>) : Agrees(R[k], d.requests[i])

(* A reservation for a row that is not stored yet was never settled. *)
FutureHeld(r, d, R) ==
  \A i \in 1..ModelRequestCap, h \in Hashes : i > Size(d) =>
    \A k \in RowsWith(R, <<r, i, h>>) : R[k].state = "active"

Holds(entry, r) == entry.run_id = r /\ entry.state = "active"

(* Before the provider is asked the reservation is active. *)
PrepareHeld(r, d, p, R) ==
  p.pc = "prepare" /\ p.hit = Nothing =>
    \E k \in RowsWith(R, <<r, Size(d) + 1, RequestHash[r, p.logical, p.batch]>>) : Holds(R[k], r)

SendHeld(r, d, p, R) ==
  (LastIn(d, {"pending"}) /\ ~ LastRow(d).cache_hit) \/ p.pc = "wire" =>
    \E k \in RowsWith(R, <<r, Size(d), LastRow(d).hash>>) : Holds(R[k], r)

(* What an answer costs, and what the ledger says after it was settled. *)
Price(answer) ==
  IF IsResponse(answer) THEN CostOf[answer.usage]
  ELSE IF answer.kind = "uncertain" THEN MaxCost ELSE 0

SettledAs(entry, answer) ==
  /\ entry.state = IF answer.kind = "uncertain" THEN "uncertain" ELSE "reconciled"
  /\ entry.actual = IF IsResponse(answer) THEN CostOf[answer.usage] ELSE 0
  /\ entry.uncertain = IF answer.kind = "uncertain" THEN MaxCost ELSE 0
  /\ entry.released = MaxCost - Price(answer)

AnswerSettled(r, d, p, R) ==
  p.pc \in {"store", "commit"} /\ ~ LastRow(d).cache_hit =>
    \E k \in RowsWith(R, <<r, Size(d), LastRow(d).hash>>) : SettledAs(R[k], p.answer)

(* Each call of the provider is covered by the exposure of its reservation,  *)
(* and the answer in hand is one that covers it when it is settled.          *)
ChargesCovered(r, d, c, R) ==
  \A a \in 1..Len(c) :
    \E k \in RowsWith(R, <<r, c[a].request, d.requests[c[a].request].hash>>) :
      R[k].run_id = r /\ c[a].charge <= Exposure(R[k])

AnswerCovers(d, f, p, c) ==
  \A a \in 1..Len(c) : c[a].request = Size(d) /\ Waiting(d) =>
    /\ c[a].charge <= MaxCost
    /\ p.pc \in Answering => c[a].charge <= Price(p.answer)
    /\ Size(d) \in DOMAIN f.answers => c[a].charge <= Price(f.answers[Size(d)])

(* A request that was not answered has no answer file. *)
NoAnswerYet(d, f, p) ==
  (LastIn(d, {"pending"}) /\ ~ LastRow(d).cache_hit) \/ p.pc = "wire" =>
    Size(d) \notin DOMAIN f.answers

MoneyFits(r, d, f, p, c, R) ==
  /\ RowsPaid(r, d, R) /\ FutureHeld(r, d, R) /\ PrepareHeld(r, d, p, R)
  /\ SendHeld(r, d, p, R) /\ AnswerSettled(r, d, p, R) /\ ChargesCovered(r, d, c, R)
  /\ AnswerCovers(d, f, p, c) /\ NoAnswerYet(d, f, p)

MoneyInv ==
  /\ AmountsFit(reservation)
  /\ \A r \in Runs : MoneyFits(r, db[r], files[r], proc[r], calls[r], reservation)

-----------------------------------------------------------------------------
(* Steps of one run. *)

(* The table S is R with new rows, and other contents of rows whose ids are  *)
(* in I only.                                                                *)
Keeps(R, S, I) ==
  /\ Len(R) <= Len(S)
  /\ \A k \in 1..Len(R) :
       /\ S[k].reservation_id = R[k].reservation_id
       /\ R[k].reservation_id \notin I => S[k] = R[k]
  /\ \A k \in 1..Len(S) : k > Len(R) => S[k].state = "active"

(* What holds of a run still holds when the table changes in rows of others. *)
LEMMA TableGrows ==
  ASSUME NEW r, NEW d, NEW f, NEW p, NEW c, NEW I,
         NEW R \in Seq(ReservationRow), NEW S \in Seq(ReservationRow),
         Keeps(R, S, I), \A i, h : <<r, i, h>> \notin I,
         MoneyFits(r, d, f, p, c, R)
  PROVE  MoneyFits(r, d, f, p, c, S)
<1>1. Len(R) \in Nat /\ Len(S) \in Nat
  OBVIOUS
<1>2. ASSUME NEW i, NEW h, NEW k \in RowsWith(R, <<r, i, h>>)
      PROVE  k \in RowsWith(S, <<r, i, h>>) /\ S[k] = R[k]
  <2>1. k \in 1..Len(R) /\ k \in 1..Len(S) /\ R[k].reservation_id = <<r, i, h>>
    BY <1>1, <1>2 DEF RowsWith, Keeps
  <2>2. R[k].reservation_id \notin I
    BY <2>1
  <2>3. QED
    BY <2>1, <2>2 DEF RowsWith, Keeps
<1>3. ASSUME NEW i, NEW h, NEW k \in RowsWith(S, <<r, i, h>>)
      PROVE  S[k].state = "active" \/ (k \in RowsWith(R, <<r, i, h>>) /\ S[k] = R[k])
  <2>1. k \in 1..Len(S) /\ S[k].reservation_id = <<r, i, h>>
    BY <1>3 DEF RowsWith
  <2>2. CASE k > Len(R)
    BY <2>1, <2>2 DEF Keeps
  <2>3. CASE ~ (k > Len(R))
    <3>1. k \in 1..Len(R)
      BY <1>1, <2>1, <2>3
    <3>2. R[k].reservation_id = <<r, i, h>>
      BY <2>1, <3>1 DEF Keeps
    <3>3. R[k].reservation_id \notin I
      BY <3>2
    <3>4. QED
      BY <3>1, <3>2, <3>3 DEF RowsWith, Keeps
  <2>4. QED
    BY <2>2, <2>3
<1>4. RowsPaid(r, d, S)
  BY <1>2 DEF MoneyFits, RowsPaid
<1>5. FutureHeld(r, d, S)
  BY <1>3 DEF MoneyFits, FutureHeld
<1>6. PrepareHeld(r, d, p, S)
  BY <1>2 DEF MoneyFits, PrepareHeld
<1>7. SendHeld(r, d, p, S)
  BY <1>2 DEF MoneyFits, SendHeld
<1>8. AnswerSettled(r, d, p, S)
  BY <1>2 DEF MoneyFits, AnswerSettled
<1>9. ChargesCovered(r, d, c, S)
  BY <1>2 DEF MoneyFits, ChargesCovered
<1>10. QED
  BY <1>4, <1>5, <1>6, <1>7, <1>8, <1>9 DEF MoneyFits

(* The other runs stand still. *)
OthersRest(r) ==
  \A s \in Runs : s # r =>
    db'[s] = db[s] /\ files'[s] = files[s] /\ proc'[s] = proc[s] /\ calls'[s] = calls[s]

(* A step of run r changes nothing of another run. *)
LEMMA OneRunMoves ==
  ASSUME Phase4Inv, NEW r \in Runs,
         Step(r) \/ Start(r) \/ Crash(r) \/ Raise(r) \/ \E online \in BOOLEAN : Resume(r, online)
  PROVE  OthersRest(r)
<1>1. /\ db \in [Runs -> Database] /\ files \in [Runs -> Directory]
      /\ proc \in [Runs -> Process] /\ calls \in [Runs -> Seq(Call)]
  BY DEF Phase4Inv
<1> SUFFICES ASSUME NEW s \in Runs, s # r
             PROVE  db'[s] = db[s] /\ files'[s] = files[s] /\ proc'[s] = proc[s]
                    /\ calls'[s] = calls[s]
  BY DEF OthersRest
<1>2. CASE Start(r) \/ Crash(r) \/ Raise(r) \/ \E online \in BOOLEAN : Resume(r, online)
  BY <1>1, <1>2 DEF Start, Crash, Raise, Resume, SetStatus, Become, End
<1>3. CASE Step(r)
  BY <1>1, <1>3
  DEF Step, Open, Initialize, Item, Initialized, Recover, Interrupt, Stop, GiveUp,
      Gate, NextCall, Attempt, ReserveCost, RefuseCost, Prepare, NextHash, Send, Provider, Record,
      Settle, Store, Commit, Complete, WriteReport, WriteAccessLedger, WriteResults, Close,
      SetStatus, Update, Become, Goto, End, Finish, Evaluated
<1>4. QED
  BY <1>2, <1>3

(* It suffices to look at the run that moved and at the table.               *)
LEMMA MoneyStep ==
  ASSUME MoneyInv, NEW r \in Runs, NEW I, OthersRest(r),
         reservation \in Seq(ReservationRow), reservation' \in Seq(ReservationRow),
         Keeps(reservation, reservation', I), \A s, i, h : <<s, i, h>> \in I => s = r,
         AmountsFit(reservation'),
         MoneyFits(r, db'[r], files'[r], proc'[r], calls'[r], reservation')
  PROVE  MoneyInv'
<1>1. ASSUME NEW s \in Runs
      PROVE  MoneyFits(s, db'[s], files'[s], proc'[s], calls'[s], reservation')
  <2>1. CASE s = r
    BY <2>1
  <2>2. CASE s # r
    <3>1. MoneyFits(s, db[s], files[s], proc[s], calls[s], reservation)
      BY DEF MoneyInv
    <3>2. \A i, h : <<s, i, h>> \notin I
      BY <2>2
    <3>3. MoneyFits(s, db[s], files[s], proc[s], calls[s], reservation')
      BY <3>1, <3>2, TableGrows
    <3>4. QED
      BY <2>2, <3>3 DEF OthersRest
  <2>3. QED
    BY <2>1, <2>2
<1>2. QED
  BY <1>1 DEF MoneyInv

(* A step that leaves the ledger alone.                                      *)
LEMMA LocalStep ==
  ASSUME MoneyInv, NEW r \in Runs, OthersRest(r),
         reservation \in Seq(ReservationRow), UNCHANGED reservation,
         MoneyFits(r, db'[r], files'[r], proc'[r], calls'[r], reservation)
  PROVE  MoneyInv'
<1>1. Keeps(reservation, reservation', {})
  BY DEF Keeps
<1>2. AmountsFit(reservation')
  BY DEF MoneyInv, AmountsFit, RowOK
<1>3. MoneyFits(r, db'[r], files'[r], proc'[r], calls'[r], reservation')
  OBVIOUS
<1>4. QED
  BY <1>1, <1>2, <1>3, MoneyStep

(* Places where nothing of the current request is in hand. *)
InHand == {"prepare", "wire"} \cup Answering

(* A step that changes no row, no answer and no call, and goes to a place    *)
(* where nothing is in hand.                                                 *)
LEMMA RestStep ==
  ASSUME NEW r, NEW d, NEW f, NEW p, NEW c, NEW R, MoneyFits(r, d, f, p, c, R),
         NEW e, NEW g, NEW q, e.requests = d.requests, g.answers = f.answers,
         q.pc \notin InHand
  PROVE  MoneyFits(r, e, g, q, c, R)
<1>1. /\ Size(e) = Size(d) /\ LastRow(e) = LastRow(d)
      /\ Waiting(e) <=> Waiting(d)
      /\ \A states : LastIn(e, states) <=> LastIn(d, states)
  BY DEF Size, LastRow, LastIn, Waiting
<1>2. RowsPaid(r, e, R) /\ FutureHeld(r, e, R) /\ ChargesCovered(r, e, c, R)
  BY <1>1 DEF MoneyFits, RowsPaid, FutureHeld, ChargesCovered
<1>3. PrepareHeld(r, e, q, R) /\ AnswerSettled(r, e, q, R)
  BY DEF PrepareHeld, AnswerSettled, InHand, Answering
<1>4. SendHeld(r, e, q, R) /\ NoAnswerYet(e, g, q)
  BY <1>1 DEF MoneyFits, SendHeld, NoAnswerYet, InHand
<1>5. AnswerCovers(e, g, q, c)
  BY <1>1 DEF MoneyFits, AnswerCovers, InHand
<1>6. QED
  BY <1>2, <1>3, <1>4, <1>5 DEF MoneyFits

(* What is known of the money of a run before one of its steps.              *)
LEMMA MoneyOf ==
  ASSUME MoneyInv, NEW r \in Runs
  PROVE  /\ MoneyFits(r, db[r], files[r], proc[r], calls[r], reservation)
         /\ RowsPaid(r, db[r], reservation) /\ FutureHeld(r, db[r], reservation)
         /\ PrepareHeld(r, db[r], proc[r], reservation)
         /\ SendHeld(r, db[r], proc[r], reservation)
         /\ AnswerSettled(r, db[r], proc[r], reservation)
         /\ ChargesCovered(r, db[r], calls[r], reservation)
         /\ AnswerCovers(db[r], files[r], proc[r], calls[r])
         /\ NoAnswerYet(db[r], files[r], proc[r])
BY DEF MoneyInv, MoneyFits

-----------------------------------------------------------------------------
(* The actions that touch neither rows, answers, calls nor the ledger.       *)

(* What such an action leaves as it was, and where its process goes.         *)
Untouched(r) ==
  /\ db'[r].requests = db[r].requests /\ files'[r].answers = files[r].answers
  /\ calls'[r] = calls[r] /\ UNCHANGED reservation

(* The actions after which nothing of a request is in hand.                  *)
LEMMA NothingInHand ==
  ASSUME Phase4Inv, NEW r \in Runs,
         \/ Start(r) \/ Crash(r) \/ Raise(r) \/ Interrupt(r) \/ \E online \in BOOLEAN : Resume(r, online)
         \/ Open(r) \/ (\E stop \in BOOLEAN : Initialize(r, stop)) \/ Initialized(r)
         \/ Stop(r) \/ GiveUp(r) \/ Gate(r) \/ NextCall(r) \/ RefuseCost(r)
         \/ WriteReport(r) \/ WriteAccessLedger(r) \/ WriteResults(r) \/ Close(r)
  PROVE  Untouched(r) /\ proc'[r].pc \notin InHand
<1>1. /\ db \in [Runs -> Database] /\ files \in [Runs -> Directory]
      /\ proc \in [Runs -> Process] /\ db[r] \in Database /\ files[r] \in Directory
      /\ proc[r] \in Process
  BY AtWork
<1>2. NoProcess.pc = "none" /\ [NoProcess EXCEPT !.pc = "open"].pc = "open"
  BY DEF NoProcess
<1> USE DEF Untouched, InHand, Answering, ledgerVars
<1>3. CASE Start(r) \/ \E online \in BOOLEAN : Resume(r, online)
  <2>1. CASE Start(r)
    <3>1. [NoProcess EXCEPT !.pc = "open", !.online = TRUE, !.purpose = "run"].pc = "open"
      BY DEF NoProcess
    <3>2. QED
      BY <1>1, <2>1, <3>1 DEF Start, SetStatus, Become, Database
  <2>2. ASSUME NEW online \in BOOLEAN, Resume(r, online)
        PROVE  Untouched(r) /\ proc'[r].pc \notin InHand
    <3>1. [NoProcess EXCEPT !.pc = "open", !.online = online, !.purpose = "resume"].pc = "open"
      BY DEF NoProcess
    <3>2. QED
      BY <1>1, <2>2, <3>1 DEF Resume, Become
  <2>3. QED
    BY <1>3, <2>1, <2>2
<1>4. CASE Crash(r) \/ Raise(r) \/ Interrupt(r)
  <2>1. proc'[r] = NoProcess /\ UNCHANGED <<reservation, files, calls>>
    BY <1>1, <1>4 DEF Crash, Raise, Interrupt, Become, End
  <2>2. db'[r].requests = db[r].requests
    BY <1>1, <1>4 DEF Crash, Raise, Interrupt, SetStatus, Database
  <2>3. QED
    BY <1>2, <2>1, <2>2
<1>5. CASE Open(r)
  <2> DEFINE p == [proc[r] EXCEPT !.pc = "report", !.budget = db[r].budget,
                                  !.status = db[r].status]
             q == [proc[r] EXCEPT !.pc = "initialize", !.budget = db[r].budget]
  <2>1. p.pc = "report" /\ q.pc = "initialize"
    BY <1>1 DEF Process
  <2>2. proc'[r] = p \/ proc'[r] = q
    BY <1>1, <1>5 DEF Open, Become
  <2>3. db'[r].requests = db[r].requests /\ UNCHANGED <<reservation, files, calls>>
    BY <1>1, <1>5 DEF Open, SetStatus, Database
  <2> HIDE DEF p, q
  <2>4. QED
    BY <2>1, <2>2, <2>3
<1>6. ASSUME NEW stop \in BOOLEAN, Initialize(r, stop)
      PROVE  Untouched(r) /\ proc'[r].pc \notin InHand
  BY <1>1, <1>2, <1>6 DEF Initialize, Evaluated, Become, Database, Process
<1>7. CASE Initialized(r) \/ Gate(r)
  BY <1>1, <1>7 DEF Initialized, Gate, Goto, Become, Process
<1>8. CASE Stop(r) \/ GiveUp(r)
  <2>1. \A status : [proc[r] EXCEPT !.pc = "report", !.status = status].pc = "report"
    BY <1>1 DEF Process
  <2>2. CASE Stop(r)
    BY <1>1, <2>1, <2>2 DEF Stop, SetStatus, Finish, Become, Database
  <2>3. CASE GiveUp(r)
    BY <1>1, <2>1, <2>3 DEF GiveUp, SetStatus, Finish, Become, Database
  <2>4. QED
    BY <1>8, <2>2, <2>3
<1>9. CASE NextCall(r)
  <2> DEFINE p == [proc[r] EXCEPT !.pc = "attempt", !.recovering = FALSE,
                     !.logical = proc[r].budget.logical, !.retry = 0,
                     !.batch = BatchFor(proc[r].budget), !.budget.logical = @ + 1]
  <2>1. p.pc = "attempt" /\ [proc[r] EXCEPT !.pc = "report", !.status = "completed"].pc = "report"
    BY <1>1 DEF Process
  <2>2. \/ proc'[r] = p
        \/ proc'[r] = [proc[r] EXCEPT !.pc = "report", !.status = "completed"]
    BY <1>1, <1>9 DEF NextCall, Finish, Become
  <2>3. UNCHANGED <<reservation, db, files, calls>>
    BY <1>9 DEF NextCall
  <2> HIDE DEF p
  <2>4. QED
    BY <2>1, <2>2, <2>3
<1>10. CASE RefuseCost(r)
  BY <1>1, <1>10 DEF RefuseCost, SetStatus, Become, Database, Process
<1>11. CASE WriteReport(r) \/ WriteAccessLedger(r) \/ WriteResults(r)
  BY <1>1, <1>2, <1>11
  DEF WriteReport, WriteAccessLedger, WriteResults, Goto, Become, End, Directory, Process
<1>12. CASE Close(r)
  BY <1>1, <1>2, <1>12 DEF Close, SetStatus, Become, End, Database
<1>13. QED
  BY <1>3, <1>4, <1>5, <1>6, <1>7, <1>8, <1>9, <1>10, <1>11, <1>12

(* Their steps keep the invariant.                                           *)
LEMMA QuietMoney ==
  ASSUME Phase4Inv, MoneyInv, reservation \in Seq(ReservationRow), NEW r \in Runs,
         OthersRest(r), Untouched(r), proc'[r].pc \notin InHand
  PROVE  MoneyInv'
<1>1. MoneyFits(r, db'[r], files'[r], proc'[r], calls'[r], reservation)
  BY MoneyOf, RestStep DEF Untouched
<1>2. QED
  BY <1>1, LocalStep DEF Untouched

(* The cache lookup: what was found there is paid for already.               *)
LEMMA AttemptMoney ==
  ASSUME Phase4Inv, MoneyInv, reservation \in Seq(ReservationRow), NEW r \in Runs,
         OthersRest(r), Attempt(r)
  PROVE  MoneyInv'
<1>1. /\ proc \in [Runs -> Process] /\ proc[r] \in Process /\ Untouched(r)
      /\ db'[r] = db[r] /\ files'[r] = files[r]
  BY AtWork DEF Attempt, NextHash, Untouched, ledgerVars
<1>2. \/ proc'[r].pc \notin InHand
      \/ proc'[r].pc = "prepare" /\ proc'[r].hit # Nothing
  <2> DEFINE hit == cache[RequestHash[r, proc[r].logical, proc[r].batch]]
             p(pc) == [proc[r] EXCEPT !.pc = pc]
             q(pc) == [proc[r] EXCEPT !.hit = hit, !.pc = pc]
  <2>1. \A pc : p(pc).pc = pc /\ q(pc).pc = pc /\ q(pc).hit = hit
    BY <1>1 DEF Process
  <2>2. \/ proc'[r] = p("interrupt") \/ proc'[r] = p("give-up")
        \/ hit = Nothing /\ proc'[r] = q("reserve")
        \/ hit # Nothing /\ proc'[r] = q("prepare")
    BY <1>1 DEF Attempt, NextHash, Goto, Become
  <2> HIDE DEF hit, p, q
  <2>3. QED
    BY <2>1, <2>2 DEF InHand, Answering
<1>3. CASE proc'[r].pc \notin InHand
  BY <1>1, <1>3, QuietMoney
<1>4. CASE proc'[r].pc = "prepare" /\ proc'[r].hit # Nothing
  <2>1. MoneyFits(r, db[r], files[r], proc'[r], calls[r], reservation)
    BY <1>4, MoneyOf
    DEF MoneyFits, PrepareHeld, SendHeld, AnswerSettled, AnswerCovers, NoAnswerYet, Answering
  <2>2. QED
    BY <1>1, <2>1, LocalStep DEF Untouched
<1>5. QED
  BY <1>2, <1>3, <1>4

-----------------------------------------------------------------------------
(* A resume, and the reservation of a request. *)

(* A resume that settles a request takes an answer that covers the charge.   *)
LEMMA RecoverMoney ==
  ASSUME Phase4Inv, MoneyInv, reservation \in Seq(ReservationRow), NEW r \in Runs,
         OthersRest(r), Recover(r)
  PROVE  MoneyInv'
<1> DEFINE d == db[r]
<1>1. /\ UNCHANGED <<reservation, db, files, calls>> /\ Untouched(r) /\ At(r, "recover")
      /\ proc[r] \in Process /\ proc \in [Runs -> Process] /\ Size(d) \in Nat
      /\ Index(r) = Size(d) /\ Row(r) = LastRow(d) /\ CallsFit(d, calls[r])
      /\ files[r] \in Directory
  BY AtWork DEF Recover, Untouched, ledgerVars
<1>2. \/ proc'[r].pc \notin InHand
      \/ /\ proc'[r].pc = "record"
         /\ \/ LastIn(d, {"pending"})
            \/ proc'[r].answer = AnswerFile(r) /\ AnswerFile(r) # Nothing
            \/ proc'[r].answer.kind = "uncertain"
  <2> DEFINE p == proc[r]
             q == Recovered(r)
             stay(pc) == [p EXCEPT !.pc = pc]
             go(pc) == [q EXCEPT !.pc = pc]
             take(pc, a) == [q EXCEPT !.pc = pc, !.answer = a]
             found(a) == [q EXCEPT !.pc = "record", !.hit = a, !.answer = a]
             again(retry) == [q EXCEPT !.pc = "attempt", !.retry = retry]
             lost == [kind |-> "uncertain", usage |-> 0, items |-> <<>>]
  <2>1. CASE Requests(r) = <<>>
    <3>1. proc'[r] = stay("gate")
      BY <1>1, <2>1 DEF Recover, Goto, Become
    <3>2. stay("gate").pc = "gate"
      BY <1>1 DEF Process
    <3>3. QED
      BY <3>1, <3>2 DEF InHand, Answering
  <2>2. CASE Requests(r) # <<>>
    <3>1. d \in Database /\ d.requests = Requests(r)
      BY AtWork DEF Requests
    <3>2. Size(d) > 0
      BY <2>2, <3>1 DEF Size, Database
    <3>3. q \in Process /\ LastRow(d) \in RequestRow
      BY <1>1, <3>2, RecoveredProcess, AtWork
    <3>4. /\ \A pc : stay(pc).pc = pc /\ go(pc).pc = pc
          /\ \A pc, a : take(pc, a).pc = pc /\ take(pc, a).answer = a
          /\ \A a : found(a).pc = "record"
          /\ \A retry : again(retry).pc = "attempt"
          /\ lost.kind = "uncertain"
      BY <1>1, <3>3 DEF Process
    <3>5. proc'[r] =
       CASE Row(r).state = "completed" -> stay("gate")
         [] Row(r).state = "responded" -> take("items", AnswerFile(r))
         [] Row(r).state \in {"schema-failure", "failed"} ->
              AfterFailure(Recovered(r), AnswerFile(r).kind, Row(r).retry)
         [] Row(r).state = "usage-uncertain" -> stay("stop")
         [] Row(r).state = "pending" -> ResumePending(r)
         [] Row(r).state = "dispatched" -> ResumeDispatched(r)
      BY <1>1, <2>2, Zenon DEF Recover, Become
    <3>6. AfterFailure(q, AnswerFile(r).kind, Row(r).retry) \in
            {again(Row(r).retry + 1), go("give-up")}
      BY DEF AfterFailure
    <3>7. ResumePending(r) \in {stay("interrupt"), found(cache[Row(r).hash]), go("send")}
      BY <1>1 DEF ResumePending, Process
    <3>8. ResumeDispatched(r) =
            take("record", IF AnswerFile(r) # Nothing THEN AnswerFile(r) ELSE lost)
      BY DEF ResumeDispatched
    <3> HIDE DEF stay, go, take, found, again, lost
    <3>9. CASE Row(r).state \in {"completed", "usage-uncertain"}
      BY <3>4, <3>5, <3>9 DEF InHand, Answering
    <3>10. CASE Row(r).state = "responded"
      BY <3>4, <3>5, <3>10 DEF InHand, Answering
    <3>11. CASE Row(r).state \in {"schema-failure", "failed"}
      BY <3>4, <3>5, <3>6, <3>11 DEF InHand, Answering
    <3>12. CASE Row(r).state = "pending"
      BY <1>1, <3>2, <3>4, <3>5, <3>7, <3>12 DEF InHand, Answering, LastIn
    <3>13. CASE Row(r).state = "dispatched"
      BY <3>4, <3>5, <3>8, <3>13 DEF InHand, Answering
    <3>14. QED
      BY <1>1, <3>3, <3>9, <3>10, <3>11, <3>12, <3>13 DEF RequestRow, Finalized
  <2>3. QED
    BY <2>1, <2>2
<1>3. CASE proc'[r].pc \notin InHand
  BY <1>1, <1>3, QuietMoney
<1>4. CASE /\ proc'[r].pc = "record"
           /\ \/ LastIn(d, {"pending"})
              \/ proc'[r].answer = AnswerFile(r) /\ AnswerFile(r) # Nothing
              \/ proc'[r].answer.kind = "uncertain"
  <2>1. ASSUME NEW a \in 1..Len(calls[r]), calls[r][a].request = Size(d), Waiting(d)
        PROVE  calls[r][a].charge <= Price(proc'[r].answer)
    <3>1. ~ LastIn(d, {"pending"})
      BY <1>1, <2>1 DEF CallsFit
    <3>2. CASE proc'[r].answer = AnswerFile(r) /\ AnswerFile(r) # Nothing
      BY <1>1, <2>1, <3>2, MoneyOf DEF AnswerFile, AnswerCovers
    <3>3. CASE proc'[r].answer.kind = "uncertain"
      BY <2>1, <3>3, MoneyOf DEF AnswerCovers, Price, IsResponse
    <3>4. QED
      BY <1>4, <3>1, <3>2, <3>3
  <2>2. AnswerCovers(d, files[r], proc'[r], calls[r])
    BY <2>1, MoneyOf DEF AnswerCovers
  <2>3. MoneyFits(r, d, files[r], proc'[r], calls[r], reservation)
    BY <1>4, <2>2, MoneyOf
    DEF MoneyFits, PrepareHeld, SendHeld, AnswerSettled, NoAnswerYet
  <2>4. QED
    BY <1>1, <2>3, LocalStep
<1>5. QED
  BY <1>2, <1>3, <1>4

(* reserve(): the money is there before the request is prepared.             *)
LEMMA ReserveMoney ==
  ASSUME Phase4Inv, MoneyInv, reservation \in Seq(ReservationRow),
         reservation' \in Seq(ReservationRow), NEW r \in Runs, OthersRest(r), ReserveCost(r)
  PROVE  MoneyInv'
<1> DEFINE d == db[r]
           hash == RequestHash[r, proc[r].logical, proc[r].batch]
           id == <<r, Size(d) + 1, hash>>
           q == ReservationRequest(r)
<1>1. /\ proc \in [Runs -> Process] /\ proc[r] \in Process
      /\ AskingFits(r, d, proc[r], cache) /\ CountersFit(d)
      /\ Index(r) = Size(d) /\ Size(d) \in Nat /\ proc[r].pc = "reserve"
      /\ UNCHANGED <<db, files, calls>>
  BY AtWork DEF ReserveCost, At, PlaceFits, Asking
<1>2. Size(d) + 1 \in 1..ModelRequestCap /\ hash \in Hashes
  <2>1. ~ Waiting(d) /\ Preflight(d.budget)
    BY <1>1 DEF AskingFits, Between, Waiting, LastIn, Closed
  <2>2. d.budget.attempts = Size(d) /\ d.budget.attempts < ModelRequestCap
    BY <1>1, <2>1 DEF CountersFit, Preflight
  <2>3. /\ proc[r].logical \in 0..ModelRequestCap /\ proc[r].batch \in 0..BatchSize
        /\ ModelRequestCap \in Nat
    BY <1>1, Phase4Constants DEF Process
  <2>4. hash \in Hashes
    BY <2>3, Phase4Constants
  <2>5. Size(d) + 1 \in 1..ModelRequestCap
    <3>1. Size(d) \in Nat
      BY <1>1
    <3> HIDE DEF d
    <3>2. QED
      BY <2>2, <2>3, <3>1
  <2>6. QED
    BY <2>4, <2>5
<1>3. /\ q.reservation_id = id /\ q.run_id = r /\ q.amount = MaxCost
  BY <1>1 DEF ReservationRequest, NextHash, ReservationId
<1>4. proc'[r] = [proc[r] EXCEPT !.pc = "prepare"]
  BY <1>1 DEF ReserveCost, Goto, Become
<1>5. /\ proc'[r].pc = "prepare" /\ proc'[r].logical = proc[r].logical
      /\ proc'[r].batch = proc[r].batch
  BY <1>1, <1>4 DEF Process
<1> HIDE DEF q, hash
<1>6. /\ Keeps(reservation, reservation', {}) /\ AmountsFit(reservation')
      /\ \E k \in RowsWith(reservation', id) : Holds(reservation'[k], r)
  <2>1. \/ reservation' = Append(reservation, NewRow(q))
        \/ /\ \E k \in RowOf(q.reservation_id) : SameIdentity(reservation[k], q)
           /\ UNCHANGED reservation
    BY DEF ReserveCost, Reserve, q
  <2>2. Len(reservation) \in Nat /\ AmountsFit(reservation)
    BY DEF MoneyInv
  <2>3. CASE reservation' = Append(reservation, NewRow(q))
    <3> DEFINE n == Len(reservation)
    <3>1. /\ Len(reservation') = n + 1 /\ reservation'[n + 1] = NewRow(q)
          /\ \A k \in 1..n : reservation'[k] = reservation[k]
      BY <2>2, <2>3
    <3>2. /\ NewRow(q).state = "active" /\ NewRow(q).run_id = r /\ NewRow(q).reservation_id = id
          /\ NewRow(q).reserved = MaxCost /\ NewRow(q).actual = 0 /\ NewRow(q).uncertain = 0
          /\ NewRow(q).released = 0
      BY <1>3 DEF NewRow
    <3> HIDE DEF id
    <3>3. n + 1 \in RowsWith(reservation', id) /\ Holds(reservation'[n + 1], r)
      BY <2>2, <3>1, <3>2 DEF RowsWith, Holds
    <3>4. \A k \in 1..Len(reservation') : k \in 1..n \/ k = n + 1
      BY <2>2, <3>1
    <3>5. Keeps(reservation, reservation', {})
      BY <2>2, <3>1, <3>2, <3>4 DEF Keeps
    <3>6. AmountsFit(reservation')
      BY <2>2, <3>1, <3>2, <3>4 DEF AmountsFit, RowOK
    <3>7. QED
      BY <3>3, <3>5, <3>6
  <2>4. CASE /\ \E k \in RowOf(q.reservation_id) : SameIdentity(reservation[k], q)
             /\ UNCHANGED reservation
    <3>1. PICK k \in RowOf(id) : SameIdentity(reservation[k], q)
      BY <1>3, <2>4
    <3>2. k \in RowsWith(reservation, id) /\ reservation[k].run_id = r
      BY <1>3, <3>1 DEF RowOf, Rowids, RowsWith, SameIdentity
    <3>3. reservation[k].state = "active"
      <4>1. FutureHeld(r, d, reservation) /\ Size(d) + 1 > Size(d)
        BY <1>1, MoneyOf
      <4>2. QED
        BY <1>2, <3>2, <4>1 DEF FutureHeld
    <3>4. Keeps(reservation, reservation', {}) /\ AmountsFit(reservation')
      <4>1. reservation' = reservation
        BY <2>4
      <4>2. Keeps(reservation, reservation, {})
        BY <2>2 DEF Keeps
      <4>3. QED
        BY <2>2, <4>1, <4>2
    <3>5. QED
      BY <2>4, <3>2, <3>3, <3>4 DEF Holds, RowsWith
  <2>5. QED
    BY <2>1, <2>3, <2>4
<1>7. MoneyFits(r, d, files[r], proc[r], calls[r], reservation')
  BY <1>6, MoneyOf, TableGrows
<1>8. MoneyFits(r, d, files[r], proc'[r], calls[r], reservation')
  <2>1. PrepareHeld(r, d, proc'[r], reservation')
    BY <1>5, <1>6 DEF PrepareHeld, hash
  <2>2. QED
    BY <1>5, <1>7, <2>1
    DEF MoneyFits, SendHeld, AnswerSettled, AnswerCovers, NoAnswerYet, Answering
<1>9. QED
  BY <1>1, <1>6, <1>8, MoneyStep

-----------------------------------------------------------------------------
(* The actions that change a row: what they make of the table of requests.   *)

(* prepare_request() appends a pending row. *)
NewRequest(r) ==
  LET hit == proc[r].hit # Nothing
  IN  [logical |-> proc[r].logical, retry |-> proc[r].retry,
       hash |-> RequestHash[r, proc[r].logical, proc[r].batch], batch |-> proc[r].batch,
       state |-> "pending", cache_hit |-> hit, reserved |-> IF hit THEN 0 ELSE MaxCost,
       actual |-> 0, released |-> 0, uncertain |-> 0, usage |-> 0,
       item_count |-> 0, next_item |-> 0]

(* The row of run r as finalize_request() leaves it. *)
Answered(r) ==
  LET a == proc[r].answer
  IN  [LastRow(db[r]) EXCEPT !.state = FinalState(a), !.usage = a.usage,
         !.actual = Actual(r, a), !.released = Released(r, a),
         !.uncertain = Uncertain(r, a), !.item_count = Len(a.items)]

(* Only the database and the process of the run change. *)
OnlyRows(r) == files'[r] = files[r] /\ calls'[r] = calls[r] /\ UNCHANGED reservation

(* What prepare_request() writes. *)
LEMMA PrepareShape ==
  ASSUME Phase4Inv, NEW r \in Runs, Prepare(r)
  PROVE  /\ db'[r].requests = Append(db[r].requests, NewRequest(r))
         /\ db'[r].budget = proc[r].budget /\ db'[r].evaluations = db[r].evaluations
         /\ proc[r].pc = "prepare" /\ OnlyRows(r)
         /\ IF proc[r].hit = Nothing THEN proc'[r].pc = "send"
            ELSE proc'[r].pc = "record"
<1>1. /\ db \in [Runs -> Database] /\ db[r] \in Database
      /\ proc \in [Runs -> Process] /\ proc[r] \in Process
  BY AtWork
<1>2. /\ proc[r].pc = "prepare" /\ OnlyRows(r)
      /\ db' = [db EXCEPT ![r].requests = Append(@, NewRequest(r)),
                          ![r].budget = proc[r].budget]
      /\ proc' = [proc EXCEPT ![r] =
           [proc[r] EXCEPT !.pc = IF proc[r].hit # Nothing THEN "record" ELSE "send",
                           !.answer = proc[r].hit]]
  BY DEF Prepare, NextHash, At, Become, OnlyRows, ledgerVars, NewRequest
<1>3. /\ db'[r].requests = Append(db[r].requests, NewRequest(r))
      /\ db'[r].budget = proc[r].budget /\ db'[r].evaluations = db[r].evaluations
  BY <1>1, <1>2 DEF Database
<1>4. IF proc[r].hit = Nothing THEN proc'[r].pc = "send" ELSE proc'[r].pc = "record"
  BY <1>1, <1>2 DEF Process
<1>5. QED
  BY <1>2, <1>3, <1>4

(* mark_dispatched() changes the state of the last row. *)
LEMMA SendShape ==
  ASSUME Phase4Inv, NEW r \in Runs, Send(r)
  PROVE  /\ db'[r].requests = [db[r].requests EXCEPT ![Size(db[r])] =
                                 [LastRow(db[r]) EXCEPT !.state = "dispatched"]]
         /\ db'[r].budget = db[r].budget /\ db'[r].evaluations = db[r].evaluations
         /\ proc[r].pc = "send" /\ proc'[r].pc = "wire" /\ OnlyRows(r)
<1>1. /\ db \in [Runs -> Database] /\ db[r] \in Database /\ Index(r) = Size(db[r])
      /\ proc \in [Runs -> Process] /\ proc[r] \in Process
  BY AtWork
<1>2. /\ proc[r].pc = "send" /\ OnlyRows(r)
      /\ db' = [db EXCEPT ![r].requests[Size(db[r])].state = "dispatched"]
      /\ proc' = [proc EXCEPT ![r] = [proc[r] EXCEPT !.pc = "wire"]]
  BY <1>1 DEF Send, At, Goto, Become, OnlyRows, ledgerVars
<1>3. /\ db'[r].requests = [db[r].requests EXCEPT ![Size(db[r])].state = "dispatched"]
      /\ db'[r].budget = db[r].budget /\ db'[r].evaluations = db[r].evaluations
  BY <1>1, <1>2 DEF Database
<1>4. proc'[r].pc = "wire"
  BY <1>1, <1>2 DEF Process
<1>5. QED
  BY <1>2, <1>3, <1>4 DEF LastRow

(* finalize_request() writes the last row with the counters in memory. *)
LEMMA CommitShape ==
  ASSUME Phase4Inv, NEW r \in Runs, Commit(r)
  PROVE  /\ db'[r].requests = [db[r].requests EXCEPT ![Size(db[r])] = Answered(r)]
         /\ db'[r].budget = proc[r].budget /\ db'[r].evaluations = db[r].evaluations
         /\ proc[r].pc = "commit" /\ OnlyRows(r)
         /\ proc'[r].pc \in {"items", "stop", "attempt", "give-up"}
<1>1. /\ db \in [Runs -> Database] /\ db[r] \in Database /\ Index(r) = Size(db[r])
      /\ proc \in [Runs -> Process] /\ proc[r] \in Process /\ Row(r) = LastRow(db[r])
  BY AtWork
<1> DEFINE a == proc[r].answer
           p == CASE a.kind = "response" -> [proc[r] EXCEPT !.pc = "items"]
                  [] a.kind = "uncertain" -> [proc[r] EXCEPT !.pc = "stop"]
                  [] OTHER -> AfterFailure(proc[r], a.kind, LastRow(db[r]).retry)
<1>2. /\ proc[r].pc = "commit" /\ OnlyRows(r)
      /\ db' = [db EXCEPT ![r].requests[Size(db[r])] = Answered(r),
                          ![r].budget = proc[r].budget]
      /\ proc' = [proc EXCEPT ![r] = p]
  BY <1>1 DEF Commit, Update, At, Become, OnlyRows, ledgerVars, Answered
<1>3. /\ db'[r].requests = [db[r].requests EXCEPT ![Size(db[r])] = Answered(r)]
      /\ db'[r].budget = proc[r].budget /\ db'[r].evaluations = db[r].evaluations
  BY <1>1, <1>2 DEF Database
<1>4. proc'[r] = p
  BY <1>1, <1>2
<1>5. p.pc \in {"items", "stop", "attempt", "give-up"}
  BY <1>1 DEF AfterFailure, Process
<1>6. QED
  BY <1>2, <1>3, <1>4, <1>5

(* One item moves the row and two counters. *)
LEMMA ItemShape ==
  ASSUME Phase4Inv, NEW r \in Runs, NEW stop \in BOOLEAN, Item(r, stop)
  PROVE  \E more \in {0, 1} :
           /\ db'[r].requests = [db[r].requests EXCEPT ![Size(db[r])] =
                                   [LastRow(db[r]) EXCEPT !.next_item = @ + 1]]
           /\ db'[r].budget = [db[r].budget EXCEPT !.items = @ + 1, !.oracle = @ + more]
           /\ db'[r].evaluations = db[r].evaluations + more
           /\ proc[r].pc = "items" /\ proc'[r].pc \in {"none", "items"} /\ OnlyRows(r)
<1>1. /\ db \in [Runs -> Database] /\ db[r] \in Database /\ Index(r) = Size(db[r])
      /\ proc \in [Runs -> Process] /\ proc[r] \in Process /\ Row(r) = LastRow(db[r])
      /\ proc[r].pc = "items"
  BY AtWork DEF Item, At
<1>2. proc[r].budget = db[r].budget
  BY <1>1, AtWork DEF MemoryFits, InMemory
<1> DEFINE accepted == proc[r].answer.items[LastRow(db[r]).next_item + 1]
           more == IF accepted THEN 1 ELSE 0
           b == [db[r].budget EXCEPT !.items = @ + 1, !.oracle = @ + more]
           q == [proc[r] EXCEPT !.pc = "items", !.budget = b]
<1>3. /\ OnlyRows(r)
      /\ db' = [db EXCEPT ![r].requests[Size(db[r])].next_item = @ + 1,
                          ![r].budget = b, ![r].evaluations = @ + more,
                          ![r].status = IF stop THEN "interrupted" ELSE @]
      /\ proc' = [proc EXCEPT ![r] = IF stop THEN NoProcess ELSE q]
  BY <1>1, <1>2 DEF Item, Evaluated, Become, OnlyRows, ledgerVars
<1>4. q.pc = "items" /\ NoProcess.pc = "none"
  BY <1>1 DEF Process, NoProcess
<1>5. more \in {0, 1}
  OBVIOUS
<1> HIDE DEF b, more, q
<1>6. /\ db'[r].requests = [db[r].requests EXCEPT ![Size(db[r])].next_item = @ + 1]
      /\ db'[r].budget = b /\ db'[r].evaluations = db[r].evaluations + more
  BY <1>1, <1>3 DEF Database
<1>7. proc'[r].pc \in {"none", "items"}
  BY <1>1, <1>3, <1>4
<1>8. QED
  BY <1>1, <1>3, <1>5, <1>6, <1>7 DEF LastRow, b

(* complete_request() closes the last row. *)
LEMMA CompleteShape ==
  ASSUME Phase4Inv, NEW r \in Runs, Complete(r)
  PROVE  /\ db'[r].requests = [db[r].requests EXCEPT ![Size(db[r])] =
                                 [LastRow(db[r]) EXCEPT !.state = "completed"]]
         /\ db'[r].budget = db[r].budget /\ db'[r].evaluations = db[r].evaluations
         /\ proc[r].pc = "items" /\ proc'[r].pc \in {"gate", "loop"} /\ OnlyRows(r)
<1>1. /\ db \in [Runs -> Database] /\ db[r] \in Database /\ Index(r) = Size(db[r])
      /\ proc \in [Runs -> Process] /\ proc[r] \in Process
  BY AtWork
<1>2. /\ proc[r].pc = "items" /\ OnlyRows(r)
      /\ db' = [db EXCEPT ![r].requests[Size(db[r])].state = "completed"]
      /\ proc' = [proc EXCEPT ![r] =
           [proc[r] EXCEPT !.pc = IF proc[r].recovering THEN "gate" ELSE "loop"]]
  BY <1>1 DEF Complete, At, Goto, Become, OnlyRows, ledgerVars
<1>3. /\ db'[r].requests = [db[r].requests EXCEPT ![Size(db[r])].state = "completed"]
      /\ db'[r].budget = db[r].budget /\ db'[r].evaluations = db[r].evaluations
  BY <1>1, <1>2 DEF Database
<1>4. proc'[r].pc \in {"gate", "loop"}
  BY <1>1, <1>2 DEF Process
<1>5. QED
  BY <1>2, <1>3, <1>4 DEF LastRow

-----------------------------------------------------------------------------
(* The steps of a request that was reserved. *)

(* The last row of d becomes row, with its hash and its source. *)
Rewritten(d, e, row) ==
  /\ d.requests \in Seq(RequestRow) /\ Size(d) > 0
  /\ e.requests = [d.requests EXCEPT ![Size(d)] = row]
  /\ row.hash = LastRow(d).hash /\ row.cache_hit = LastRow(d).cache_hit

(* A new content of the last row: a reservation must agree with it.          *)
LEMMA LastRowMoney ==
  ASSUME NEW r, NEW d, NEW e, NEW f, NEW p, NEW c, NEW R, NEW row,
         MoneyFits(r, d, f, p, c, R), CallsFit(d, c), Rewritten(d, e, row),
         ~ row.cache_hit =>
           \E k \in RowsWith(R, <<r, Size(d), row.hash>>) : Agrees(R[k], row)
  PROVE  /\ RowsPaid(r, e, R) /\ FutureHeld(r, e, R) /\ ChargesCovered(r, e, c, R)
         /\ Size(e) = Size(d) /\ LastRow(e) = row
         /\ \A states : LastIn(e, states) <=> row.state \in states
<1>1. /\ Size(d) \in 1..Len(d.requests) /\ Size(e) = Size(d) /\ e.requests[Size(d)] = row
      /\ \A i \in 1..Size(d) : i # Size(d) => e.requests[i] = d.requests[i]
      /\ LastRow(d) = d.requests[Size(d)]
      /\ row.hash = LastRow(d).hash /\ row.cache_hit = LastRow(d).cache_hit
  BY DEF Rewritten, Size, LastRow
<1>2. LastRow(e) = row /\ \A states : LastIn(e, states) <=> row.state \in states
  BY <1>1 DEF LastRow, LastIn
<1>3. \A i : e.requests[i].hash = d.requests[i].hash \/ i \notin 1..Size(d)
  BY <1>1
<1>4. RowsPaid(r, e, R)
  <2> SUFFICES ASSUME NEW i \in 1..Size(d), ~ e.requests[i].cache_hit
               PROVE  \E k \in RowsWith(R, <<r, i, e.requests[i].hash>>) :
                        Agrees(R[k], e.requests[i])
    BY <1>1 DEF RowsPaid
  <2>1. CASE i = Size(d)
    BY <1>1, <2>1
  <2>2. CASE i # Size(d)
    <3>1. e.requests[i] = d.requests[i]
      BY <1>1, <2>2
    <3>2. QED
      BY <3>1 DEF MoneyFits, RowsPaid
  <2>3. QED
    BY <2>1, <2>2
<1>5. FutureHeld(r, e, R)
  BY <1>1 DEF MoneyFits, FutureHeld
<1>6. ChargesCovered(r, e, c, R)
  <2> SUFFICES ASSUME NEW a \in 1..Len(c)
               PROVE  \E k \in RowsWith(R, <<r, c[a].request, e.requests[c[a].request].hash>>) :
                        R[k].run_id = r /\ c[a].charge <= Exposure(R[k])
    BY DEF ChargesCovered
  <2>1. e.requests[c[a].request].hash = d.requests[c[a].request].hash
    BY <1>1 DEF CallsFit
  <2>2. QED
    BY <2>1 DEF MoneyFits, ChargesCovered
<1>7. QED
  BY <1>1, <1>2, <1>4, <1>5, <1>6

(* mark_dispatched(): the reservation that waited for the call is still held. *)
LEMMA SendMoney ==
  ASSUME Phase4Inv, MoneyInv, reservation \in Seq(ReservationRow), NEW r \in Runs,
         OthersRest(r), Send(r)
  PROVE  MoneyInv'
<1> DEFINE d == db[r]
           e == db'[r]
           row == [LastRow(d) EXCEPT !.state = "dispatched"]
<1>1. /\ e.requests = [d.requests EXCEPT ![Size(d)] = row] /\ OnlyRows(r)
      /\ proc[r].pc = "send" /\ proc'[r].pc = "wire"
  BY SendShape
<1>2. /\ LastIn(d, {"pending"}) /\ ~ LastRow(d).cache_hit /\ d \in Database
      /\ CallsFit(d, calls[r]) /\ Size(d) > 0 /\ LastRow(d).state = "pending"
      /\ LastRow(d) \in RequestRow
  BY <1>1, AtWork DEF PlaceFits, LastIn
<1>3. /\ row.state = "dispatched" /\ row.hash = LastRow(d).hash
      /\ row.cache_hit = LastRow(d).cache_hit /\ row.reserved = LastRow(d).reserved
  BY <1>2 DEF RequestRow
<1>4. \A k : Agrees(reservation[k], LastRow(d)) => Agrees(reservation[k], row)
  BY <1>2, <1>3 DEF Agrees, Finalized
<1> HIDE DEF row, e
<1>5. /\ RowsPaid(r, e, reservation) /\ FutureHeld(r, e, reservation)
      /\ ChargesCovered(r, e, calls[r], reservation)
      /\ Size(e) = Size(d) /\ LastRow(e) = row
      /\ \A states : LastIn(e, states) <=> row.state \in states
  <2>1. MoneyFits(r, d, files[r], proc[r], calls[r], reservation) /\ Rewritten(d, e, row)
    BY <1>1, <1>2, <1>3, MoneyOf DEF Database, Rewritten
  <2>2. ASSUME ~ row.cache_hit
        PROVE  \E k \in RowsWith(reservation, <<r, Size(d), row.hash>>) :
                 Agrees(reservation[k], row)
    <3>1. PICK k \in RowsWith(reservation, <<r, Size(d), d.requests[Size(d)].hash>>) :
            Agrees(reservation[k], d.requests[Size(d)])
      BY <1>2, <1>3, <2>2, MoneyOf DEF RowsPaid, LastRow, Size
    <3>2. QED
      BY <1>3, <1>4, <3>1 DEF LastRow
  <2>3. QED
    BY <1>2, <2>1, <2>2, LastRowMoney
<1>6. SendHeld(r, e, proc'[r], reservation) /\ NoAnswerYet(e, files[r], proc'[r])
  BY <1>2, <1>3, <1>5, MoneyOf DEF SendHeld, NoAnswerYet
<1>7. AnswerCovers(e, files[r], proc'[r], calls[r])
  BY <1>2, <1>5 DEF AnswerCovers, CallsFit
<1>8. PrepareHeld(r, e, proc'[r], reservation) /\ AnswerSettled(r, e, proc'[r], reservation)
  BY <1>1 DEF PrepareHeld, AnswerSettled
<1>9. MoneyFits(r, e, files[r], proc'[r], calls[r], reservation)
  BY <1>5, <1>6, <1>7, <1>8 DEF MoneyFits
<1>10. QED
  BY <1>1, <1>9, LocalStep DEF OnlyRows, e

(* prepare_request(): the new row has the reservation that was just made.    *)
LEMMA PrepareMoney ==
  ASSUME Phase4Inv, MoneyInv, reservation \in Seq(ReservationRow), NEW r \in Runs,
         OthersRest(r), Prepare(r)
  PROVE  MoneyInv'
<1> DEFINE d == db[r]
           e == db'[r]
           row == NewRequest(r)
           R == reservation
<1>1. /\ e.requests = Append(d.requests, row) /\ OnlyRows(r) /\ proc[r].pc = "prepare"
      /\ proc'[r].pc \in {"send", "record"}
  BY PrepareShape
<1>2. /\ d \in Database /\ CallsFit(d, calls[r]) /\ FilesFit(d, files[r]) /\ Size(d) \in Nat
      /\ d.requests \in Seq(RequestRow)
  BY AtWork DEF Database
<1>3. /\ row.state = "pending" /\ row.hash = RequestHash[r, proc[r].logical, proc[r].batch]
      /\ row.cache_hit <=> proc[r].hit # Nothing
      /\ row.reserved = IF row.cache_hit THEN 0 ELSE MaxCost
  BY DEF NewRequest
<1> HIDE DEF row, e
<1>4. /\ Size(e) = Size(d) + 1 /\ LastRow(e) = row /\ e.requests[Size(d) + 1] = row
      /\ \A i \in 1..Size(d) : e.requests[i] = d.requests[i]
      /\ \A states : LastIn(e, states) <=> row.state \in states
  BY <1>1, <1>2 DEF Size, LastRow, LastIn
<1>5. ~ row.cache_hit =>
        \E k \in RowsWith(R, <<r, Size(d) + 1, row.hash>>) : Holds(R[k], r)
  BY <1>1, <1>3, MoneyOf DEF PrepareHeld
<1>6. RowsPaid(r, e, R)
  <2> SUFFICES ASSUME NEW i \in 1..(Size(d) + 1), ~ e.requests[i].cache_hit
               PROVE  \E k \in RowsWith(R, <<r, i, e.requests[i].hash>>) :
                        Agrees(R[k], e.requests[i])
    BY <1>4 DEF RowsPaid
  <2>1. CASE i = Size(d) + 1
    <3>1. PICK k \in RowsWith(R, <<r, Size(d) + 1, row.hash>>) : Holds(R[k], r)
      BY <1>4, <1>5, <2>1
    <3>2. R[k].reserved = MaxCost
      BY <3>1 DEF MoneyInv, AmountsFit, RowsWith
    <3>3. Agrees(R[k], row)
      BY <1>3, <1>4, <2>1, <3>2 DEF Agrees, Finalized
    <3>4. QED
      BY <1>4, <2>1, <3>1, <3>3
  <2>2. CASE i # Size(d) + 1
    <3>1. i \in 1..Size(d)
      BY <1>2, <2>2
    <3>2. QED
      BY <1>4, <3>1, MoneyOf DEF RowsPaid
  <2>3. QED
    BY <2>1, <2>2
<1>7. FutureHeld(r, e, R)
  <2>1. \A i : i \in 1..ModelRequestCap /\ i > Size(d) + 1 => i > Size(d)
    BY <1>2, Phase4Constants
  <2>2. QED
    BY <1>4, <2>1, MoneyOf DEF FutureHeld
<1>8. ChargesCovered(r, e, calls[r], R)
  <2> SUFFICES ASSUME NEW a \in 1..Len(calls[r])
               PROVE  \E k \in RowsWith(R, <<r, calls[r][a].request,
                                             e.requests[calls[r][a].request].hash>>) :
                        R[k].run_id = r /\ calls[r][a].charge <= Exposure(R[k])
    BY DEF ChargesCovered
  <2>1. calls[r][a].request \in 1..Size(d)
    BY <1>2 DEF CallsFit
  <2>2. e.requests[calls[r][a].request].hash = d.requests[calls[r][a].request].hash
    BY <1>4, <2>1
  <2>3. QED
    BY <2>2, MoneyOf DEF ChargesCovered
<1>9. SendHeld(r, e, proc'[r], R)
  BY <1>1, <1>4, <1>5 DEF SendHeld
<1>10. AnswerCovers(e, files[r], proc'[r], calls[r]) /\ NoAnswerYet(e, files[r], proc'[r])
  <2>1. Size(d) + 1 \notin DOMAIN files[r].answers
    BY <1>2 DEF FilesFit
  <2>2. \A a \in 1..Len(calls[r]) : calls[r][a].request # Size(d) + 1
    BY <1>2 DEF CallsFit
  <2>3. QED
    BY <1>4, <2>1, <2>2 DEF AnswerCovers, NoAnswerYet
<1>11. PrepareHeld(r, e, proc'[r], R) /\ AnswerSettled(r, e, proc'[r], R)
  BY <1>1 DEF PrepareHeld, AnswerSettled
<1>12. MoneyFits(r, e, files[r], proc'[r], calls[r], R)
  BY <1>6, <1>7, <1>8, <1>9, <1>10, <1>11 DEF MoneyFits
<1>13. QED
  BY <1>1, <1>12, LocalStep DEF OnlyRows, e

(* A row that is not waiting any more, and no request in hand.               *)
LEMMA ClosedRowMoney ==
  ASSUME Phase4Inv, MoneyInv, reservation \in Seq(ReservationRow), NEW r \in Runs,
         OthersRest(r), OnlyRows(r), NEW row, Rewritten(db[r], db'[r], row),
         row.state \notin {"pending", "dispatched"}, proc'[r].pc \notin InHand,
         ~ row.cache_hit =>
           \E k \in RowsWith(reservation, <<r, Size(db[r]), row.hash>>) :
             Agrees(reservation[k], row)
  PROVE  MoneyInv'
<1> DEFINE d == db[r]
           e == db'[r]
           q == proc'[r]
<1>1. /\ MoneyFits(r, d, files[r], proc[r], calls[r], reservation) /\ CallsFit(d, calls[r])
  BY MoneyOf, AtWork
<1>2. /\ RowsPaid(r, e, reservation) /\ FutureHeld(r, e, reservation)
      /\ ChargesCovered(r, e, calls[r], reservation) /\ Size(e) = Size(d) /\ LastRow(e) = row
      /\ \A states : LastIn(e, states) <=> row.state \in states
  <2>1. ~ row.cache_hit =>
          \E k \in RowsWith(reservation, <<r, Size(d), row.hash>>) : Agrees(reservation[k], row)
    OBVIOUS
  <2>2. Rewritten(d, e, row)
    OBVIOUS
  <2> HIDE DEF d, e
  <2>3. QED
    BY <1>1, <2>1, <2>2, LastRowMoney
<1> HIDE DEF d, e
<1>3. ~ LastIn(e, {"pending"}) /\ ~ Waiting(e)
  BY <1>2 DEF Waiting
<1>4. /\ SendHeld(r, e, q, reservation) /\ NoAnswerYet(e, files[r], q)
      /\ PrepareHeld(r, e, q, reservation) /\ AnswerSettled(r, e, q, reservation)
      /\ AnswerCovers(e, files[r], q, calls[r])
  BY <1>3 DEF SendHeld, NoAnswerYet, PrepareHeld, AnswerSettled, AnswerCovers, InHand, Answering
<1>5. MoneyFits(r, e, files[r], q, calls[r], reservation)
  BY <1>2, <1>4 DEF MoneyFits
<1>6. QED
  BY <1>5, LocalStep DEF OnlyRows, e

(* The stored row is paid for. *)
LEMMA LastRowPaid ==
  ASSUME MoneyInv, NEW r \in Runs, Size(db[r]) \in Nat, Size(db[r]) > 0,
         ~ LastRow(db[r]).cache_hit
  PROVE  \E k \in RowsWith(reservation, <<r, Size(db[r]), LastRow(db[r]).hash>>) :
           Agrees(reservation[k], LastRow(db[r]))
<1>1. Size(db[r]) \in 1..Size(db[r])
  OBVIOUS
<1>2. QED
  BY <1>1, MoneyOf DEF RowsPaid, LastRow

(* One item: the row goes on, its settlement stays. *)
LEMMA ItemMoney ==
  ASSUME Phase4Inv, MoneyInv, reservation \in Seq(ReservationRow), NEW r \in Runs,
         OthersRest(r), NEW stop \in BOOLEAN, Item(r, stop)
  PROVE  MoneyInv'
<1> DEFINE d == db[r]
           row == [LastRow(d) EXCEPT !.next_item = @ + 1]
<1>1. /\ db'[r].requests = [d.requests EXCEPT ![Size(d)] = row] /\ OnlyRows(r)
      /\ proc[r].pc = "items" /\ proc'[r].pc \notin InHand
  BY ItemShape DEF InHand, Answering
<1>2. /\ LastIn(d, {"responded"}) /\ d.requests \in Seq(RequestRow) /\ Size(d) > 0
      /\ LastRow(d) \in RequestRow /\ LastRow(d).state = "responded" /\ Size(d) \in Nat
  BY <1>1, AtWork DEF PlaceFits, LastIn, Database
<1>3. /\ row.state = "responded" /\ row.hash = LastRow(d).hash
      /\ row.cache_hit = LastRow(d).cache_hit /\ row.reserved = LastRow(d).reserved
      /\ row.actual = LastRow(d).actual /\ row.uncertain = LastRow(d).uncertain
      /\ row.released = LastRow(d).released
  BY <1>2 DEF RequestRow
<1> HIDE DEF row
<1>4. Rewritten(d, db'[r], row)
  BY <1>1, <1>2, <1>3 DEF Rewritten
<1>5. ASSUME ~ row.cache_hit
      PROVE  \E k \in RowsWith(reservation, <<r, Size(d), row.hash>>) : Agrees(reservation[k], row)
  BY <1>2, <1>3, <1>5, LastRowPaid DEF Agrees
<1>6. QED
  BY <1>1, <1>3, <1>4, <1>5, ClosedRowMoney

(* complete_request(): the settlement of the row stays. *)
LEMMA CompleteMoney ==
  ASSUME Phase4Inv, MoneyInv, reservation \in Seq(ReservationRow), NEW r \in Runs,
         OthersRest(r), Complete(r)
  PROVE  MoneyInv'
<1> DEFINE d == db[r]
           row == [LastRow(d) EXCEPT !.state = "completed"]
<1>1. /\ db'[r].requests = [d.requests EXCEPT ![Size(d)] = row] /\ OnlyRows(r)
      /\ proc[r].pc = "items" /\ proc'[r].pc \notin InHand
  BY CompleteShape DEF InHand, Answering
<1>2. /\ LastIn(d, {"responded"}) /\ d.requests \in Seq(RequestRow) /\ Size(d) > 0
      /\ LastRow(d) \in RequestRow /\ LastRow(d).state = "responded" /\ Size(d) \in Nat
  BY <1>1, AtWork DEF PlaceFits, LastIn, Database
<1>3. /\ row.state = "completed" /\ row.hash = LastRow(d).hash
      /\ row.cache_hit = LastRow(d).cache_hit /\ row.reserved = LastRow(d).reserved
      /\ row.actual = LastRow(d).actual /\ row.uncertain = LastRow(d).uncertain
      /\ row.released = LastRow(d).released
  BY <1>2 DEF RequestRow
<1> HIDE DEF row
<1>4. Rewritten(d, db'[r], row)
  BY <1>1, <1>2, <1>3 DEF Rewritten
<1>5. ASSUME ~ row.cache_hit
      PROVE  \E k \in RowsWith(reservation, <<r, Size(d), row.hash>>) : Agrees(reservation[k], row)
  BY <1>2, <1>3, <1>5, LastRowPaid DEF Agrees, Finalized
<1>6. QED
  BY <1>1, <1>3, <1>4, <1>5, ClosedRowMoney

(* finalize_request(): the row says what the ledger said when it was settled. *)
LEMMA CommitMoney ==
  ASSUME Phase4Inv, MoneyInv, reservation \in Seq(ReservationRow), NEW r \in Runs,
         OthersRest(r), Commit(r)
  PROVE  MoneyInv'
<1> DEFINE d == db[r]
           a == proc[r].answer
           row == Answered(r)
<1>1. /\ db'[r].requests = [d.requests EXCEPT ![Size(d)] = row] /\ OnlyRows(r)
      /\ proc[r].pc = "commit" /\ proc'[r].pc \notin InHand
  BY CommitShape DEF InHand, Answering
<1>2. /\ AnsweringFits(d, files[r], proc[r]) /\ d.requests \in Seq(RequestRow)
      /\ proc[r] \in Process /\ Row(r) = LastRow(d)
  BY <1>1, AtWork DEF PlaceFits, Answering, Database
<1>3. a \in Answers /\ Size(d) > 0
  BY <1>2 DEF AnsweringFits, Process, Waiting, LastIn
<1>4. /\ LastRow(d) \in RequestRow
      /\ LastRow(d).reserved = IF LastRow(d).cache_hit THEN 0 ELSE MaxCost
  BY <1>3, AtWork DEF RowFits
<1>5. /\ row.state = FinalState(a) /\ row.hash = LastRow(d).hash
      /\ row.cache_hit = LastRow(d).cache_hit /\ row.reserved = LastRow(d).reserved
      /\ row.actual = Actual(r, a) /\ row.uncertain = Uncertain(r, a)
      /\ row.released = Released(r, a)
  BY <1>4 DEF RequestRow, Answered
<1>6. /\ FinalState(a) \notin {"pending", "dispatched"}
      /\ a.kind = "uncertain" <=> FinalState(a) = "usage-uncertain"
      /\ a.kind = "uncertain" => ~ IsResponse(a)
  BY <1>3, AnswerShape DEF FinalState, IsResponse
<1> HIDE DEF row
<1>7. Rewritten(d, db'[r], row)
  BY <1>1, <1>2, <1>3, <1>5 DEF Rewritten
<1>8. ASSUME ~ row.cache_hit
      PROVE  \E k \in RowsWith(reservation, <<r, Size(d), row.hash>>) : Agrees(reservation[k], row)
  <2>1. PICK k \in RowsWith(reservation, <<r, Size(d), LastRow(d).hash>>) :
          SettledAs(reservation[k], a)
    BY <1>1, <1>5, <1>8, MoneyOf DEF AnswerSettled
  <2>2. reservation[k].reserved = MaxCost
    BY <2>1 DEF MoneyInv, AmountsFit, RowsWith
  <2>3. /\ row.actual = IF IsResponse(a) THEN CostOf[a.usage] ELSE 0
        /\ row.uncertain = IF a.kind = "uncertain" THEN MaxCost ELSE 0
        /\ row.released = MaxCost - row.actual - row.uncertain
    BY <1>2, <1>4, <1>5, <1>8 DEF Actual, Uncertain, Released, Paid
  <2>4. row.released = MaxCost - Price(a)
    <3>1. MaxCost \in Nat /\ (IsResponse(a) => CostOf[a.usage] \in Nat)
      BY <1>3, AnswerShape, Phase4Constants DEF IsResponse
    <3>2. QED
      BY <1>6, <2>3, <3>1 DEF Price
  <2>5. Agrees(reservation[k], row)
    BY <1>4, <1>5, <1>6, <1>8, <2>1, <2>2, <2>3, <2>4 DEF Agrees, SettledAs
  <2>6. QED
    BY <1>5, <2>1, <2>5
<1>9. QED
  BY <1>1, <1>5, <1>6, <1>7, <1>8, ClosedRowMoney

(* An answer costs at most the worst case.                                   *)
LEMMA AnswerCost ==
  ASSUME NEW a \in Answers
  PROVE  /\ MaxCost \in Nat /\ (IsResponse(a) => CostOf[a.usage] \in 0..MaxCost)
         /\ a.kind = "uncertain" => ~ IsResponse(a)
BY AnswerShape, Phase4Constants DEF IsResponse

(* What an answer is charged is within its price, and that within the worst  *)
(* case.                                                                      *)
LEMMA ChargeBound ==
  ASSUME NEW a \in Answers, NEW charge \in Charges(a)
  PROVE  /\ charge \in Nat /\ Price(a) \in Nat /\ MaxCost \in Nat
         /\ charge <= Price(a) /\ Price(a) <= MaxCost
<1>1. /\ MaxCost \in Nat /\ (IsResponse(a) => CostOf[a.usage] \in 0..MaxCost)
      /\ a.kind = "uncertain" => ~ IsResponse(a)
  BY AnswerCost
<1>2. CASE IsResponse(a)
  BY <1>1, <1>2 DEF Charges, Price
<1>3. CASE a.kind = "uncertain"
  BY <1>1, <1>3 DEF Charges, Price
<1>4. CASE ~ IsResponse(a) /\ a.kind # "uncertain"
  BY <1>1, <1>4 DEF Charges, Price
<1>5. QED
  BY <1>2, <1>3, <1>4

(* The provider charges for a request whose reservation is held.             *)
LEMMA ProviderMoney ==
  ASSUME Phase4Inv, MoneyInv, reservation \in Seq(ReservationRow), NEW r \in Runs,
         OthersRest(r), NEW a \in Answer(proc[r].batch), NEW charge \in Charges(a),
         Provider(r, a, charge)
  PROVE  MoneyInv'
<1> DEFINE d == db[r]
           f == files[r]
           old == calls[r]
           c == calls'[r]
           q == proc'[r]
           n == Len(old)
<1>1. /\ db' = db /\ files' = files /\ UNCHANGED reservation /\ proc[r].pc = "wire"
      /\ c = Append(old, [request |-> Size(d), charge |-> charge])
      /\ q = [proc[r] EXCEPT !.pc = "record", !.answer = a]
  BY AtWork DEF Provider, At, Become, ledgerVars
<1>2. /\ proc[r] \in Process /\ old \in Seq(Call) /\ Size(d) > 0 /\ LastRow(d).state = "dispatched"
      /\ ~ LastRow(d).cache_hit /\ CallsFit(d, old) /\ n \in Nat
      /\ \A b \in 1..n : old[b].request # Size(d)
  BY <1>1, AtWork DEF PlaceFits, LastIn
<1>3. a \in Answers
  BY <1>2 DEF Answers, Process
<1>4. /\ Len(c) = n + 1 /\ c[n + 1].request = Size(d) /\ c[n + 1].charge = charge
      /\ \A b \in 1..n : c[b] = old[b]
      /\ \A b \in 1..Len(c) : b \in 1..n \/ b = n + 1
  BY <1>1, <1>2
<1>5. q.pc = "record" /\ q.answer = a
  BY <1>1, <1>2 DEF Process
<1>6. charge \in Nat /\ charge <= Price(a) /\ charge <= MaxCost
  BY <1>3, ChargeBound
<1> HIDE DEF c, q
<1>7. Size(d) \notin DOMAIN f.answers
  BY <1>1, MoneyOf DEF NoAnswerYet
<1>8. ChargesCovered(r, d, c, reservation)
  <2> SUFFICES ASSUME NEW b \in 1..Len(c)
               PROVE  \E k \in RowsWith(reservation, <<r, c[b].request,
                                                       d.requests[c[b].request].hash>>) :
                        reservation[k].run_id = r /\ c[b].charge <= Exposure(reservation[k])
    BY DEF ChargesCovered
  <2>1. CASE b \in 1..n
    BY <1>4, <2>1, MoneyOf DEF ChargesCovered
  <2>2. CASE b = n + 1
    <3>1. PICK k \in RowsWith(reservation, <<r, Size(d), LastRow(d).hash>>) :
            Holds(reservation[k], r)
      BY <1>1, MoneyOf DEF SendHeld
    <3>2. Exposure(reservation[k]) = MaxCost
      <4>1. k \in 1..Len(reservation) /\ reservation[k].state = "active"
        BY <3>1 DEF RowsWith, Holds
      <4>2. RowOK(reservation[k]) /\ reservation[k].reserved = MaxCost
        BY <4>1 DEF MoneyInv, AmountsFit
      <4>3. MaxCost \in Nat
        BY Phase4Constants
      <4>4. QED
        BY <4>1, <4>2, <4>3 DEF RowOK, Exposure
    <3>3. QED
      BY <1>4, <1>6, <2>2, <3>1, <3>2 DEF Holds, LastRow
  <2>3. QED
    BY <1>4, <2>1, <2>2
<1>9. AnswerCovers(d, f, q, c)
  <2> SUFFICES ASSUME NEW b \in 1..Len(c), c[b].request = Size(d), Waiting(d)
               PROVE  /\ c[b].charge <= MaxCost
                      /\ q.pc \in Answering => c[b].charge <= Price(q.answer)
                      /\ Size(d) \in DOMAIN f.answers => c[b].charge <= Price(f.answers[Size(d)])
    BY DEF AnswerCovers
  <2>1. b = n + 1
    BY <1>2, <1>4
  <2>2. QED
    BY <1>4, <1>5, <1>6, <1>7, <2>1
<1>10. /\ SendHeld(r, d, q, reservation) /\ NoAnswerYet(d, f, q)
       /\ PrepareHeld(r, d, q, reservation) /\ AnswerSettled(r, d, q, reservation)
  BY <1>2, <1>5 DEF SendHeld, NoAnswerYet, PrepareHeld, AnswerSettled, LastIn
<1>11. MoneyFits(r, d, f, q, c, reservation)
  BY <1>8, <1>9, <1>10, MoneyOf DEF MoneyFits
<1>12. QED
  BY <1>1, <1>11, LocalStep DEF c, q

(* The answer in hand becomes the durable one.                               *)
LEMMA RecordMoney ==
  ASSUME Phase4Inv, MoneyInv, reservation \in Seq(ReservationRow), NEW r \in Runs,
         OthersRest(r), Record(r)
  PROVE  MoneyInv'
<1> DEFINE d == db[r]
           f == files'[r]
           p == proc[r]
           q == proc'[r]
<1>1. /\ db' = db /\ calls' = calls /\ UNCHANGED reservation /\ p.pc = "record"
      /\ f = [files[r] EXCEPT !.answers =
               [i \in DOMAIN @ \cup {Size(d)} |-> IF i = Size(d) THEN p.answer ELSE @[i]]]
      /\ q = [p EXCEPT !.pc = "settle"]
  BY AtWork DEF Record, At, Goto, Become, ledgerVars
<1>2. AnsweringFits(d, files[r], p) /\ p \in Process /\ files[r] \in Directory
  BY <1>1, AtWork DEF PlaceFits, Answering
<1>3. f.answers = [i \in DOMAIN files[r].answers \cup {Size(d)} |->
                     IF i = Size(d) THEN p.answer ELSE files[r].answers[i]]
  BY <1>1, <1>2 DEF Directory
<1>4. f.answers[Size(d)] = p.answer
  BY <1>3
<1>5. q.pc = "settle" /\ q.answer = p.answer
  BY <1>1, <1>2 DEF Process
<1> HIDE DEF f, q
<1>6. AnswerCovers(d, f, q, calls[r])
  BY <1>1, <1>4, <1>5, MoneyOf DEF AnswerCovers, Answering
<1>7. /\ SendHeld(r, d, q, reservation) /\ NoAnswerYet(d, f, q)
      /\ PrepareHeld(r, d, q, reservation) /\ AnswerSettled(r, d, q, reservation)
  BY <1>2, <1>5 DEF SendHeld, NoAnswerYet, PrepareHeld, AnswerSettled, LastIn, AnsweringFits
<1>8. MoneyFits(r, d, f, q, calls[r], reservation)
  BY <1>6, <1>7, MoneyOf DEF MoneyFits
<1>9. QED
  BY <1>1, <1>8, LocalStep DEF f, q

(* cache.put(): a collision ends the process.                                *)
LEMMA StoreMoney ==
  ASSUME Phase4Inv, MoneyInv, reservation \in Seq(ReservationRow), NEW r \in Runs,
         OthersRest(r), Store(r)
  PROVE  MoneyInv'
<1> DEFINE d == db[r]
           q == proc'[r]
<1>1. /\ db' = db /\ files' = files /\ calls' = calls /\ UNCHANGED reservation
      /\ proc[r].pc = "store" /\ proc[r] \in Process /\ proc \in [Runs -> Process]
  BY AtWork DEF Store, At, ledgerVars
<1>2. q = NoProcess \/ q = [proc[r] EXCEPT !.pc = "commit"]
  BY <1>1 DEF Store, End, Goto, Become
<1>3. NoProcess.pc = "none"
  BY DEF NoProcess
<1>4. CASE q = NoProcess
  BY <1>1, <1>3, <1>4, QuietMoney DEF Untouched, InHand, Answering
<1>5. CASE q = [proc[r] EXCEPT !.pc = "commit"]
  <2>1. q.pc = "commit" /\ q.answer = proc[r].answer
    BY <1>1, <1>5 DEF Process
  <2>2. AnsweringFits(d, files[r], proc[r])
    BY <1>1, AtWork DEF PlaceFits, Answering
  <2> HIDE DEF q
  <2>3. AnswerSettled(r, d, q, reservation) /\ AnswerCovers(d, files[r], q, calls[r])
    BY <1>1, <2>1, MoneyOf DEF AnswerSettled, AnswerCovers, Answering
  <2>4. /\ SendHeld(r, d, q, reservation) /\ NoAnswerYet(d, files[r], q)
        /\ PrepareHeld(r, d, q, reservation)
    BY <2>1, <2>2 DEF SendHeld, NoAnswerYet, PrepareHeld, LastIn, AnsweringFits
  <2>5. MoneyFits(r, d, files[r], q, calls[r], reservation)
    BY <2>3, <2>4, MoneyOf DEF MoneyFits
  <2>6. QED
    BY <1>1, <2>5, LocalStep DEF q
<1>6. QED
  BY <1>2, <1>4, <1>5

(* The reservation of a paid request, active or settled already, is settled  *)
(* as the answer says, and nothing else in the table changes.                *)
LEMMA SettleTable ==
  ASSUME AmountsFit(reservation), reservation \in Seq(ReservationRow),
         NEW r \in Runs, NEW a \in Answers, SettleLedger(r, a), Paid(r)
  PROVE  \E k \in RowsWith(reservation, <<r, Index(r), Row(r).hash>>) :
           /\ Len(reservation') = Len(reservation)
           /\ \A l \in 1..Len(reservation) : l # k => reservation'[l] = reservation[l]
           /\ reservation'[k].reservation_id = reservation[k].reservation_id
           /\ reservation'[k].run_id = reservation[k].run_id
           /\ reservation'[k].reserved = MaxCost /\ RowOK(reservation'[k])
           /\ SettledAs(reservation'[k], a)
<1> DEFINE id == <<r, Index(r), Row(r).hash>>
           record == <<r, Index(r), a>>
           cost == Actual(r, a)
<1>1. \A k : k \in RowOf(id) => k \in RowsWith(reservation, id) /\ k \in 1..Len(reservation)
  BY DEF RowOf, Rowids, RowsWith
<1>2. /\ MaxCost \in Nat /\ cost = (IF IsResponse(a) THEN CostOf[a.usage] ELSE 0)
      /\ cost \in 0..MaxCost /\ (a.kind = "uncertain" => ~ IsResponse(a))
  BY AnswerShape, Phase4Constants DEF Actual, IsResponse
<1>3. Len(reservation) \in Nat
  OBVIOUS
<1>4. ASSUME NEW k \in 1..Len(reservation)
      PROVE  /\ reservation[k] \in ReservationRow /\ reservation[k].reserved = MaxCost
             /\ RowOK(reservation[k])
             /\ reservation[k].released = IF reservation[k].state = "reconciled"
                                          THEN MaxCost - reservation[k].actual ELSE 0
  BY DEF AmountsFit
<1>5. CASE a.kind = "uncertain"
  <2>1. MarkUncertain(id, record)
    BY <1>5 DEF SettleLedger, ReservationId
  <2>2. PICK k \in RowOf(id) :
          \/ /\ reservation[k].state = "active"
             /\ reservation' = [reservation EXCEPT ![k] =
                  [@ EXCEPT !.state = "uncertain", !.uncertain = reservation[k].reserved,
                            !.record = record]]
          \/ reservation[k].state = "uncertain" /\ UNCHANGED reservation
    BY <2>1 DEF MarkUncertain
  <2>3. k \in RowsWith(reservation, id) /\ k \in 1..Len(reservation)
    BY <1>1
  <2>4. Price(a) = MaxCost /\ cost = 0
    BY <1>2, <1>5 DEF Price
  <2>5. CASE reservation[k].state = "active"
    <3> DEFINE new == [reservation[k] EXCEPT !.state = "uncertain",
                         !.uncertain = reservation[k].reserved, !.record = record]
    <3>1. /\ new.state = "uncertain" /\ new.uncertain = MaxCost /\ new.actual = 0
          /\ new.released = 0 /\ new.reserved = MaxCost /\ new.run_id = reservation[k].run_id
          /\ new.reservation_id = reservation[k].reservation_id
      BY <1>4, <2>3, <2>5 DEF ReservationRow, RowOK
    <3>2. reservation' = [reservation EXCEPT ![k] = new]
      BY <2>2, <2>5
    <3> HIDE DEF new
    <3>3. /\ Len(reservation') = Len(reservation) /\ reservation'[k] = new
          /\ \A l \in 1..Len(reservation) : l # k => reservation'[l] = reservation[l]
      BY <2>3, <3>2
    <3>4. SettledAs(new, a) /\ RowOK(new)
      <4>1. ~ IsResponse(a) /\ MaxCost - Price(a) = 0
        BY <1>2, <1>5, <2>4
      <4>2. QED
        BY <1>5, <3>1, <4>1 DEF SettledAs, RowOK
    <3>5. QED
      BY <2>3, <3>1, <3>3, <3>4
  <2>6. CASE reservation[k].state = "uncertain" /\ UNCHANGED reservation
    <3>1. ~ IsResponse(a) /\ MaxCost - Price(a) = 0
      BY <1>2, <1>5, <2>4
    <3>2. /\ reservation[k].actual = 0 /\ reservation[k].uncertain = MaxCost
          /\ reservation[k].released = 0
      BY <1>4, <2>3, <2>6 DEF RowOK
    <3>3. SettledAs(reservation[k], a)
      BY <1>5, <2>6, <3>1, <3>2 DEF SettledAs
    <3>4. QED
      BY <1>4, <2>3, <2>6, <3>3
  <2>7. QED
    BY <2>2, <2>5, <2>6
<1>6. CASE a.kind # "uncertain"
  <2>1. Reconcile(id, cost, record)
    BY <1>6 DEF SettleLedger, ReservationId
  <2>2. PICK k \in RowOf(id) :
          \/ /\ reservation[k].state = "active"
             /\ reservation' = [reservation EXCEPT ![k] =
                  [@ EXCEPT !.state = "reconciled", !.actual = cost,
                            !.released = reservation[k].reserved - cost, !.record = record]]
          \/ /\ reservation[k].state = "reconciled" /\ reservation[k].actual = cost
             /\ UNCHANGED reservation
    BY <2>1 DEF Reconcile
  <2>3. k \in RowsWith(reservation, id) /\ k \in 1..Len(reservation)
    BY <1>1
  <2>4. Price(a) = cost
    BY <1>2, <1>6 DEF Price
  <2> HIDE DEF cost
  <2>5. CASE reservation[k].state = "active"
    <3> DEFINE new == [reservation[k] EXCEPT !.state = "reconciled", !.actual = cost,
                         !.released = reservation[k].reserved - cost, !.record = record]
    <3>1. /\ new.state = "reconciled" /\ new.uncertain = 0 /\ new.actual = cost
          /\ new.released = MaxCost - cost /\ new.reserved = MaxCost
          /\ new.run_id = reservation[k].run_id
          /\ new.reservation_id = reservation[k].reservation_id
      BY <1>4, <2>3, <2>5 DEF ReservationRow, RowOK
    <3>2. reservation' = [reservation EXCEPT ![k] = new]
      BY <2>2, <2>5
    <3> HIDE DEF new
    <3>3. /\ Len(reservation') = Len(reservation) /\ reservation'[k] = new
          /\ \A l \in 1..Len(reservation) : l # k => reservation'[l] = reservation[l]
      BY <2>3, <3>2
    <3>4. SettledAs(new, a) /\ RowOK(new)
      BY <1>2, <1>6, <2>4, <3>1 DEF SettledAs, RowOK
    <3>5. QED
      BY <2>3, <3>1, <3>3, <3>4
  <2>6. CASE /\ reservation[k].state = "reconciled" /\ reservation[k].actual = cost
             /\ UNCHANGED reservation
    <3>1. SettledAs(reservation[k], a)
      BY <1>2, <1>4, <1>6, <2>3, <2>4, <2>6 DEF SettledAs, RowOK
    <3>2. QED
      BY <1>4, <2>3, <2>6, <3>1
  <2>7. QED
    BY <2>2, <2>5, <2>6
<1>7. QED
  BY <1>5, <1>6

(* reconcile() or mark_uncertain(): what the provider charged stays covered. *)
LEMMA SettleMoney ==
  ASSUME Phase4Inv, MoneyInv, reservation \in Seq(ReservationRow),
         reservation' \in Seq(ReservationRow), NEW r \in Runs, OthersRest(r), Settle(r)
  PROVE  MoneyInv'
<1> DEFINE d == db[r]
           f == files[r]
           a == proc[r].answer
           q == proc'[r]
           R == reservation
           S == reservation'
           hash == LastRow(d).hash
<1>1. /\ db' = db /\ files' = files /\ calls' = calls /\ SettleLedger(r, a)
      /\ proc[r].pc = "settle" /\ proc[r] \in Process /\ proc \in [Runs -> Process]
      /\ Index(r) = Size(d) /\ Row(r) = LastRow(d) /\ Size(d) \in Nat
      /\ d.requests \in Seq(RequestRow)
  BY AtWork DEF Settle, At, Database
<1>2. AnsweringFits(d, f, proc[r]) /\ AmountsFit(R)
  BY <1>1, AtWork DEF PlaceFits, Answering, MoneyInv
<1>3. a \in Answers /\ Size(d) > 0 /\ Waiting(d)
  BY <1>1, <1>2 DEF AnsweringFits, Process, Waiting, LastIn
<1>4. q.pc \in {"store", "commit"} /\ q.answer = a
  <2>1. \A b : [proc[r] EXCEPT !.budget = b,
            !.pc = IF a.kind = "response" /\ Paid(r) THEN "store" ELSE "commit"].answer = a
    BY <1>1 DEF Process
  <2>2. \A b : [proc[r] EXCEPT !.budget = b,
            !.pc = IF a.kind = "response" /\ Paid(r) THEN "store" ELSE "commit"].pc
              \in {"store", "commit"}
    BY <1>1 DEF Process
  <2>3. QED
    BY <1>1, <2>1, <2>2 DEF Settle, Become
<1> HIDE DEF q
<1>5. /\ AnswerCovers(d, f, q, calls[r]) /\ SendHeld(r, d, q, S)
      /\ NoAnswerYet(d, f, q) /\ PrepareHeld(r, d, q, S)
  <2>1. AnswerCovers(d, f, q, calls[r])
    BY <1>1, <1>4, MoneyOf DEF AnswerCovers, Answering
  <2>2. ~ (LastIn(d, {"pending"}) /\ ~ LastRow(d).cache_hit)
    BY <1>2 DEF AnsweringFits, LastIn
  <2>3. QED
    BY <1>4, <2>1, <2>2 DEF SendHeld, NoAnswerYet, PrepareHeld
<1>6. CASE ~ Paid(r)
  <2>1. UNCHANGED reservation /\ LastRow(d).cache_hit
    BY <1>1, <1>6 DEF SettleLedger, ledgerVars, Paid
  <2>2. MoneyFits(r, d, f, q, calls[r], R)
    BY <1>5, <2>1, MoneyOf DEF MoneyFits, AnswerSettled
  <2>3. QED
    BY <1>1, <2>1, <2>2, LocalStep DEF q
<1>7. CASE Paid(r)
  <2>1. PICK k \in RowsWith(R, <<r, Size(d), hash>>) :
          /\ Len(S) = Len(R) /\ \A l \in 1..Len(R) : l # k => S[l] = R[l]
          /\ S[k].reservation_id = R[k].reservation_id /\ S[k].run_id = R[k].run_id
          /\ S[k].reserved = MaxCost /\ RowOK(S[k]) /\ SettledAs(S[k], a)
    BY <1>1, <1>2, <1>3, <1>7, SettleTable
  <2>2. /\ k \in 1..Len(R) /\ Len(R) \in Nat /\ R[k].reservation_id = <<r, Size(d), hash>>
        /\ LastRow(d).state = "dispatched" /\ ~ LastRow(d).cache_hit
        /\ R[k].reserved = MaxCost
    BY <1>1, <1>2, <1>3, <1>7, <2>1
    DEF RowsWith, AnsweringFits, Waiting, LastIn, Paid, AmountsFit
  <2> HIDE DEF S
  <2>3. ASSUME NEW i, NEW h
        PROVE  RowsWith(S, <<r, i, h>>) = RowsWith(R, <<r, i, h>>)
    BY <2>1, <2>2 DEF RowsWith
  <2>4. /\ \A i, h : \A l \in RowsWith(R, <<r, i, h>>) : l # k => S[l] = R[l]
        /\ \A i, h : k \in RowsWith(R, <<r, i, h>>) => i = Size(d)
    BY <2>1, <2>2 DEF RowsWith
  <2>5. RowsPaid(r, d, S)
    <3> SUFFICES ASSUME NEW i \in 1..Size(d), ~ d.requests[i].cache_hit
                 PROVE  \E l \in RowsWith(S, <<r, i, d.requests[i].hash>>) :
                          Agrees(S[l], d.requests[i])
      BY DEF RowsPaid
    <3>1. PICK l \in RowsWith(R, <<r, i, d.requests[i].hash>>) : Agrees(R[l], d.requests[i])
      BY MoneyOf DEF RowsPaid
    <3>2. CASE l # k
      BY <2>3, <2>4, <3>1, <3>2
    <3>3. CASE l = k
      <4>1. d.requests[i] = LastRow(d)
        BY <2>4, <3>1, <3>3 DEF LastRow
      <4>2. Agrees(S[k], d.requests[i])
        BY <2>1, <2>2, <3>1, <3>3, <4>1 DEF Agrees, Finalized
      <4>3. QED
        BY <2>3, <3>1, <3>3, <4>2
    <3>4. QED
      BY <3>2, <3>3
  <2>6. FutureHeld(r, d, S)
    <3> SUFFICES ASSUME NEW i \in 1..ModelRequestCap, NEW h \in Hashes, i > Size(d),
                        NEW l \in RowsWith(S, <<r, i, h>>)
                 PROVE  S[l].state = "active"
      BY DEF FutureHeld
    <3>1. l \in RowsWith(R, <<r, i, h>>) /\ l # k
      <4>1. l \in RowsWith(R, <<r, i, h>>)
        BY <2>3
      <4>2. i # Size(d)
        BY <1>1
      <4>3. QED
        BY <2>4, <4>1, <4>2
    <3>2. QED
      BY <2>4, <3>1, MoneyOf DEF FutureHeld
  <2>7. AnswerSettled(r, d, q, S)
    BY <1>4, <2>1, <2>3 DEF AnswerSettled
  <2>8. ChargesCovered(r, d, calls[r], S)
    <3> SUFFICES ASSUME NEW b \in 1..Len(calls[r])
                 PROVE  \E l \in RowsWith(S, <<r, calls[r][b].request,
                                               d.requests[calls[r][b].request].hash>>) :
                          S[l].run_id = r /\ calls[r][b].charge <= Exposure(S[l])
      BY DEF ChargesCovered
    <3>1. PICK l \in RowsWith(R, <<r, calls[r][b].request,
                                   d.requests[calls[r][b].request].hash>>) :
            R[l].run_id = r /\ calls[r][b].charge <= Exposure(R[l])
      BY MoneyOf DEF ChargesCovered
    <3>2. CASE l # k
      BY <2>3, <2>4, <3>1, <3>2
    <3>3. CASE l = k
      <4>1. calls[r][b].request = Size(d)
        BY <2>4, <3>1, <3>3
      <4>2. calls[r][b].charge <= Price(a)
        BY <1>1, <1>3, <4>1, MoneyOf DEF AnswerCovers, Answering
      <4>3. Exposure(S[k]) = Price(a)
        <5>1. /\ MaxCost \in Nat /\ (IsResponse(a) => CostOf[a.usage] \in 0..MaxCost)
              /\ a.kind = "uncertain" => ~ IsResponse(a)
          BY <1>3, AnswerCost
        <5>2. QED
          BY <2>1, <5>1 DEF SettledAs, Exposure, Price
      <4>4. QED
        BY <2>1, <2>3, <3>1, <3>3, <4>2, <4>3
    <3>4. QED
      BY <3>2, <3>3
  <2>9. MoneyFits(r, d, f, q, calls[r], S)
    BY <1>5, <2>5, <2>6, <2>7, <2>8 DEF MoneyFits
  <2>10. AmountsFit(S)
    <3>1. S[k].released = IF S[k].state = "reconciled" THEN MaxCost - S[k].actual ELSE 0
      <4>1. /\ MaxCost \in Nat /\ (IsResponse(a) => CostOf[a.usage] \in 0..MaxCost)
            /\ a.kind = "uncertain" => ~ IsResponse(a)
        BY <1>3, AnswerCost
      <4>2. QED
        BY <2>1, <4>1 DEF SettledAs, Price
    <3>2. QED
      BY <1>2, <2>1, <3>1 DEF AmountsFit, RowOK
  <2> DEFINE I == {<<r, Size(d), hash>>}
  <2>11. /\ Keeps(R, S, I) /\ \A s, i, h : <<s, i, h>> \in I => s = r
    <3>1. \A l \in 1..Len(R) : R[l].reservation_id \notin I => l # k
      BY <2>2
    <3>2. \A l \in 1..Len(R) : S[l].reservation_id = R[l].reservation_id
      BY <2>1
    <3>3. \A l \in 1..Len(S) : ~ (l > Len(R))
      BY <2>1, <2>2
    <3>4. Keeps(R, S, I)
      BY <2>1, <2>2, <3>1, <3>2, <3>3 DEF Keeps
    <3>5. QED
      BY <3>4
  <2> HIDE DEF I
  <2>12. QED
    BY <1>1, <2>9, <2>10, <2>11, MoneyStep DEF q, S
<1>8. QED
  BY <1>6, <1>7

-----------------------------------------------------------------------------
(* The invariant holds of every behaviour of the engine. *)

(* Initially nothing was asked and nothing is reserved.                      *)
LEMMA MoneyInit == Init => MoneyInv
<1> SUFFICES ASSUME Init PROVE MoneyInv
  OBVIOUS
<1>1. reservation = <<>> /\ AmountsFit(reservation)
  BY DEF Init, LedgerInit, AmountsFit
<1>2. ASSUME NEW r \in Runs
      PROVE  MoneyFits(r, db[r], files[r], proc[r], calls[r], reservation)
  <2>1. Size(db[r]) = 0 /\ calls[r] = <<>> /\ proc[r].pc = "none"
    BY DEF Init, NoProcess, Size
  <2>2. \A id : RowsWith(reservation, id) = {}
    BY <1>1 DEF RowsWith
  <2>3. QED
    BY <2>1, <2>2
    DEF MoneyFits, RowsPaid, FutureHeld, PrepareHeld, SendHeld, AnswerSettled, ChargesCovered,
        AnswerCovers, NoAnswerYet, LastIn, Answering
<1>3. QED
  BY <1>1, <1>2 DEF MoneyInv

(* Every step keeps it: one case for each action that a request depends on.  *)
LEMMA MoneyNext ==
  ASSUME Phase4Inv, MoneyInv, LedgerTypeOK, LedgerTypeOK', [Next]_vars
  PROVE  MoneyInv'
<1>1. reservation \in Seq(ReservationRow) /\ reservation' \in Seq(ReservationRow)
  BY DEF LedgerTypeOK
<1>2. CASE UNCHANGED vars
  <2>1. /\ db' = db /\ files' = files /\ proc' = proc /\ calls' = calls
        /\ reservation' = reservation
    BY <1>2 DEF vars
  <2>2. AmountsFit(reservation')
    BY <2>1 DEF MoneyInv
  <2>3. ASSUME NEW r \in Runs
        PROVE  MoneyFits(r, db'[r], files'[r], proc'[r], calls'[r], reservation')
    <3>1. MoneyFits(r, db[r], files[r], proc[r], calls[r], reservation)
      BY MoneyOf
    <3>2. QED
      BY <2>1, <3>1
  <2>4. QED
    BY <2>2, <2>3 DEF MoneyInv
<1>3. ASSUME NEW r \in Runs, Step(r)
      PROVE  MoneyInv'
  <2>1. OthersRest(r)
    BY <1>3, OneRunMoves
  <2>2. CASE \/ Interrupt(r) \/ Open(r) \/ (\E stop \in BOOLEAN : Initialize(r, stop))
             \/ Initialized(r) \/ Stop(r) \/ GiveUp(r) \/ Gate(r) \/ NextCall(r)
             \/ RefuseCost(r) \/ WriteReport(r) \/ WriteAccessLedger(r) \/ WriteResults(r)
             \/ Close(r)
    BY <1>1, <2>1, <2>2, NothingInHand, QuietMoney
  <2>3. ASSUME NEW stop \in BOOLEAN, Item(r, stop)
        PROVE  MoneyInv'
    BY <1>1, <2>1, <2>3, ItemMoney
  <2>4. CASE Recover(r)
    BY <1>1, <2>1, <2>4, RecoverMoney
  <2>5. CASE Attempt(r)
    BY <1>1, <2>1, <2>5, AttemptMoney
  <2>6. CASE ReserveCost(r)
    BY <1>1, <2>1, <2>6, ReserveMoney
  <2>7. CASE Prepare(r)
    BY <1>1, <2>1, <2>7, PrepareMoney
  <2>8. CASE Send(r)
    BY <1>1, <2>1, <2>8, SendMoney
  <2>9. ASSUME NEW answer \in Answer(proc[r].batch), NEW charge \in Charges(answer),
               Provider(r, answer, charge)
        PROVE  MoneyInv'
    BY <1>1, <2>1, <2>9, ProviderMoney
  <2>10. CASE Record(r)
    BY <1>1, <2>1, <2>10, RecordMoney
  <2>11. CASE Settle(r)
    BY <1>1, <2>1, <2>11, SettleMoney
  <2>12. CASE Store(r)
    BY <1>1, <2>1, <2>12, StoreMoney
  <2>13. CASE Commit(r)
    BY <1>1, <2>1, <2>13, CommitMoney
  <2>14. CASE Complete(r)
    BY <1>1, <2>1, <2>14, CompleteMoney
  <2>15. QED
    BY <1>3, <2>2, <2>3, <2>4, <2>5, <2>6, <2>7, <2>8, <2>9, <2>10, <2>11, <2>12, <2>13, <2>14
    DEF Step
<1>4. ASSUME NEW r \in Runs,
             Start(r) \/ Crash(r) \/ Raise(r) \/ \E online \in BOOLEAN : Resume(r, online)
      PROVE  MoneyInv'
  <2>1. OthersRest(r)
    BY <1>4, OneRunMoves
  <2>2. Untouched(r) /\ proc'[r].pc \notin InHand
    BY <1>4, NothingInHand
  <2>3. QED
    BY <1>1, <2>1, <2>2, QuietMoney
<1>5. QED
  BY <1>2, <1>3, <1>4 DEF Next

(* The requests of every run stand in the ledger as the invariant says,      *)
(* whoever dies between two of the durable effects.                          *)
THEOREM MoneyAccounted == Spec => []MoneyInv
<1>1. Phase4Inv /\ MoneyInv /\ LedgerTypeOK /\ LedgerTypeOK' /\ [Next]_vars => MoneyInv'
  BY MoneyNext
<1>2. Spec => []LedgerTypeOK
  BY EngineImplementsLedger, TypeCorrect, PTL
<1>3. QED
  BY MoneyInit, <1>1, <1>2, EngineConsistent, PTL DEF Spec

(* A finalized paid row and its reservation tell the same story, and an      *)
(* unfinished paid row has its reservation.                                  *)
THEOREM RowsAgreeWithLedger == Spec => []RowsMatchLedger
<1>1. Phase4Inv /\ MoneyInv => RowsMatchLedger
  <2> SUFFICES ASSUME Phase4Inv, MoneyInv, NEW r \in Runs, NEW i \in 1..Index(r),
                      ~ Requests(r)[i].cache_hit
               PROVE  \E k \in RowOf(ReservationId(r, i, Requests(r)[i].hash)) :
                        Agrees(reservation[k], Requests(r)[i])
    BY DEF RowsMatchLedger, Agrees
  <2>1. i \in 1..Size(db[r]) /\ Requests(r) = db[r].requests
    BY AtWork DEF Requests
  <2>2. PICK k \in RowsWith(reservation, <<r, i, Requests(r)[i].hash>>) :
          Agrees(reservation[k], Requests(r)[i])
    BY <2>1, MoneyOf DEF RowsPaid
  <2>3. QED
    BY <2>2 DEF RowsWith, RowOf, Rowids, ReservationId
<1>2. QED
  BY <1>1, MoneyAccounted, EngineConsistent, PTL

(* What the provider charges a run is at every moment within what the ledger *)
(* holds committed for it: each call is covered by a reservation of its own. *)
THEOREM SpendStaysCommitted == Spec => []SpendIsCommitted
<1>1. Phase4Inv /\ MoneyInv /\ LedgerTypeOK => SpendIsCommitted
  <2> SUFFICES ASSUME Phase4Inv, MoneyInv, LedgerTypeOK, NEW r \in Runs
               PROVE  RunningSum([k \in DOMAIN calls[r] |-> calls[r][k].charge])[Len(calls[r])]
                        <= Committed(ChildScope(r))
    BY DEF SpendIsCommitted
  <2> DEFINE c == calls[r]
             d == db[r]
             m == Len(c)
             n == Len(reservation)
             v == [k \in DOMAIN c |-> c[k].charge]
             w == ExposureColumn(ChildScope(r))
             covers(a, k) == reservation[k].run_id = r /\ c[a].charge <= Exposure(reservation[k])
             place(a) == RowsWith(reservation, <<r, c[a].request, d.requests[c[a].request].hash>>)
             f == [a \in 1..m |-> CHOOSE k \in place(a) : covers(a, k)]
  <2>1. /\ c \in Seq(Call) /\ CallsFit(d, c) /\ m \in Nat /\ n \in Nat /\ DOMAIN c = 1..m
        /\ \A a \in 1..m : c[a] \in Call
        /\ \A k \in 1..n : reservation[k] \in ReservationRow
    BY AtWork DEF LedgerTypeOK
  <2>2. v \in [1..m -> Nat]
    BY <2>1 DEF Call
  <2>3. w \in [1..n -> Nat]
    <3>1. \A k \in 1..n : Exposure(reservation[k]) \in Nat
      BY <2>1 DEF ReservationRow, Exposure
    <3>2. QED
      BY <3>1 DEF ExposureColumn, Rowids
  <2>4. ASSUME NEW a \in 1..m
        PROVE  f[a] \in place(a) /\ covers(a, f[a])
    <3>1. \E k \in place(a) : covers(a, k)
      BY MoneyOf DEF ChargesCovered
    <3> HIDE DEF place, covers
    <3>2. QED
      BY <3>1
  <2>5. \A a \in 1..m : f[a] \in 1..n /\ reservation[f[a]].reservation_id =
                          <<r, c[a].request, d.requests[c[a].request].hash>>
    BY <2>4 DEF RowsWith
  <2>6. \A a \in 1..m : v[a] <= w[f[a]]
    <3> SUFFICES ASSUME NEW a \in 1..m PROVE v[a] <= w[f[a]]
      OBVIOUS
    <3>1. covers(a, f[a]) /\ f[a] \in 1..n
      BY <2>4, <2>5
    <3> HIDE DEF f
    <3>2. <<reservation[f[a]].run_id, reservation[f[a]].stage>> \in ChildScope(r)
      BY <2>1, <3>1 DEF ChildScope, ReservationRow
    <3>3. w[f[a]] = Exposure(reservation[f[a]])
      BY <3>1, <3>2 DEF ExposureColumn, Rowids
    <3>4. QED
      BY <2>1, <3>1, <3>3
  <2> HIDE DEF place, covers, w, v
  <2>7. f \in [1..m -> 1..n]
    BY <2>5
  <2> HIDE DEF f
  <2>8. \A a, b \in 1..m : f[a] = f[b] => a = b
    <3> SUFFICES ASSUME NEW a \in 1..m, NEW b \in 1..m, f[a] = f[b] PROVE a = b
      OBVIOUS
    <3>1. c[a].request = c[b].request
      BY <2>5
    <3>2. QED
      BY <2>1, <3>1 DEF CallsFit
  <2>9. RunningSum(v)[m] <= RunningSum(w)[n]
    BY <2>1, <2>2, <2>3, <2>6, <2>7, <2>8, SumInjection
  <2>10. QED
    BY <2>9 DEF v, w, Committed, Total
<1>2. Spec => []LedgerTypeOK
  BY EngineImplementsLedger, TypeCorrect, PTL
<1>3. QED
  BY <1>1, <1>2, MoneyAccounted, EngineConsistent, PTL


-----------------------------------------------------------------------------
(* The counters: the invariant. *)

FirstRows(d) == {k \in 1..Size(d) : d.requests[k].retry = 0}
FinalRows(d) == {k \in 1..Size(d) : d.requests[k].state \in Finalized}
HitRows(d) == {k \in FinalRows(d) : d.requests[k].cache_hit}
RetryRows(d) == {k \in FinalRows(d) : d.requests[k].retry > 0}

(* The sum of a column of the table of requests. *)
Sum(d, column) == RunningSum(column)[Size(d)]
UsageOf(d) == [k \in 1..Size(d) |-> d.requests[k].usage]
ItemsOf(d) == [k \in 1..Size(d) |-> d.requests[k].next_item]
ActualOf(d) == [k \in 1..Size(d) |-> d.requests[k].actual]
UncertainOf(d) == [k \in 1..Size(d) |-> d.requests[k].uncertain]
ReleasedOf(d) == [k \in 1..Size(d) |-> d.requests[k].released]

TallyFits(d) ==
  /\ d.budget.logical = Cardinality(FirstRows(d))
  /\ d.budget.attempts = Cardinality(FinalRows(d))
  /\ d.budget.hits = Cardinality(HitRows(d))
  /\ d.budget.retries = Cardinality(RetryRows(d))
  /\ d.budget.tokens = Sum(d, UsageOf(d)) /\ d.budget.items = Sum(d, ItemsOf(d))
  /\ d.budget.actual = Sum(d, ActualOf(d)) /\ d.budget.uncertain = Sum(d, UncertainOf(d))
  /\ d.budget.released = Sum(d, ReleasedOf(d)) /\ d.budget.oracle = d.evaluations

(* A row that waits for its answer has cost nothing yet. *)
WaitingFree(d) ==
  Waiting(d) => /\ LastRow(d).usage = 0 /\ LastRow(d).actual = 0
                /\ LastRow(d).uncertain = 0 /\ LastRow(d).released = 0

CountInv == \A r \in Runs : TallyFits(db[r]) /\ WaitingFree(db[r])

(* What the invariant says of the counters is the property of the runs. *)
LEMMA CountersAgree == Phase4Inv /\ CountInv => BudgetMatchesRows
<1> SUFFICES ASSUME Phase4Inv, CountInv, NEW r \in Runs
             PROVE  LET b == db[r].budget
        final(row) == row.state \in Finalized
    IN  /\ b.logical = CountOver(r, LAMBDA row : row.retry = 0)
        /\ b.attempts = CountOver(r, final)
        /\ b.hits = CountOver(r, LAMBDA row : final(row) /\ row.cache_hit)
        /\ b.retries = CountOver(r, LAMBDA row : final(row) /\ row.retry > 0)
        /\ b.tokens = SumOver(r, LAMBDA row : row.usage)
        /\ b.items = SumOver(r, LAMBDA row : row.next_item)
        /\ b.actual = SumOver(r, LAMBDA row : row.actual)
        /\ b.uncertain = SumOver(r, LAMBDA row : row.uncertain)
        /\ b.released = SumOver(r, LAMBDA row : row.released)
        /\ b.oracle = db[r].evaluations
  BY DEF BudgetMatchesRows
<1>1. TallyFits(db[r]) /\ Index(r) = Size(db[r]) /\ Requests(r) = db[r].requests
  BY AtWork DEF CountInv, Requests
<1>2. QED
  BY <1>1 DEF TallyFits, CountOver, SumOver, FirstRows, FinalRows, HitRows, RetryRows,
    Sum, UsageOf, ItemsOf, ActualOf, UncertainOf, ReleasedOf

-----------------------------------------------------------------------------
(* What becomes of the sums and the counts when a row is added or rewritten. *)

(* The columns are sequences of naturals, and the sets are finite.           *)
LEMMA TallyTypes ==
  ASSUME NEW d, d.requests \in Seq(RequestRow)
  PROVE  /\ Size(d) \in Nat /\ \A k \in 1..Size(d) : d.requests[k] \in RequestRow
         /\ UsageOf(d) \in [1..Size(d) -> Int] /\ ItemsOf(d) \in [1..Size(d) -> Int]
         /\ ActualOf(d) \in [1..Size(d) -> Int] /\ UncertainOf(d) \in [1..Size(d) -> Int]
         /\ ReleasedOf(d) \in [1..Size(d) -> Int]
         /\ IsFiniteSet(FirstRows(d)) /\ IsFiniteSet(FinalRows(d))
         /\ IsFiniteSet(HitRows(d)) /\ IsFiniteSet(RetryRows(d))
<1>1. Size(d) \in Nat /\ \A k \in 1..Size(d) : d.requests[k] \in RequestRow
  BY DEF Size
<1>2. \A k \in 1..Size(d) :
        /\ d.requests[k].usage \in Nat /\ d.requests[k].next_item \in Nat
        /\ d.requests[k].actual \in Nat /\ d.requests[k].uncertain \in Nat
        /\ d.requests[k].released \in Nat
  BY <1>1 DEF RequestRow
<1>3. /\ UsageOf(d) \in [1..Size(d) -> Int] /\ ItemsOf(d) \in [1..Size(d) -> Int]
      /\ ActualOf(d) \in [1..Size(d) -> Int] /\ UncertainOf(d) \in [1..Size(d) -> Int]
      /\ ReleasedOf(d) \in [1..Size(d) -> Int]
  BY <1>2 DEF UsageOf, ItemsOf, ActualOf, UncertainOf, ReleasedOf
<1>4. IsFiniteSet(1..Size(d))
  BY <1>1, FS_Interval
<1>5. \A T \in SUBSET (1..Size(d)) : IsFiniteSet(T)
  BY <1>4, FS_Subset
<1>6. /\ FirstRows(d) \in SUBSET (1..Size(d)) /\ FinalRows(d) \in SUBSET (1..Size(d))
      /\ HitRows(d) \in SUBSET (1..Size(d)) /\ RetryRows(d) \in SUBSET (1..Size(d))
  BY DEF FirstRows, FinalRows, HitRows, RetryRows
<1>7. QED
  BY <1>1, <1>3, <1>5, <1>6

(* A set with or without one more element. *)
LEMMA CountOne ==
  ASSUME NEW S, NEW T, NEW x, NEW test \in BOOLEAN, IsFiniteSet(S), x \notin S,
         T = IF test THEN S \cup {x} ELSE S
  PROVE  Cardinality(T) = Cardinality(S) + (IF test THEN 1 ELSE 0)
<1>1. Cardinality(S \cup {x}) = Cardinality(S) + 1
  BY FS_AddElement
<1>2. Cardinality(S) \in Nat
  BY FS_CardinalityType
<1>3. QED
  BY <1>1, <1>2

(* A row that was prepared counts as a logical call, if it retries none.     *)
LEMMA TallyAppend ==
  ASSUME NEW d, NEW e, NEW row \in RequestRow, d.requests \in Seq(RequestRow),
         e.requests = Append(d.requests, row), row.state = "pending", row.usage = 0,
         row.next_item = 0, row.actual = 0, row.uncertain = 0, row.released = 0
  PROVE  /\ Cardinality(FirstRows(e)) =
              Cardinality(FirstRows(d)) + (IF row.retry = 0 THEN 1 ELSE 0)
         /\ FinalRows(e) = FinalRows(d) /\ HitRows(e) = HitRows(d) /\ RetryRows(e) = RetryRows(d)
         /\ Sum(e, UsageOf(e)) = Sum(d, UsageOf(d)) /\ Sum(e, ItemsOf(e)) = Sum(d, ItemsOf(d))
         /\ Sum(e, ActualOf(e)) = Sum(d, ActualOf(d))
         /\ Sum(e, UncertainOf(e)) = Sum(d, UncertainOf(d))
         /\ Sum(e, ReleasedOf(e)) = Sum(d, ReleasedOf(d))
<1> DEFINE n == Size(d)
<1>1. n \in Nat /\ e.requests \in Seq(RequestRow)
  BY DEF Size
<1>2. /\ Size(e) = n + 1 /\ e.requests[n + 1] = row
      /\ \A k \in 1..n : e.requests[k] = d.requests[k]
  BY DEF Size
<1> HIDE DEF n
<1>3. \A k : k \in 1..(n + 1) <=> k \in 1..n \/ k = n + 1
  BY <1>1
<1>4. n + 1 \notin 1..n
  BY <1>1
<1>5. Cardinality(FirstRows(e)) = Cardinality(FirstRows(d)) + (IF row.retry = 0 THEN 1 ELSE 0)
  <2>1. FirstRows(e) = IF row.retry = 0 THEN FirstRows(d) \cup {n + 1} ELSE FirstRows(d)
    BY <1>2, <1>3 DEF FirstRows, n
  <2>2. IsFiniteSet(FirstRows(d)) /\ n + 1 \notin FirstRows(d)
    BY <1>4, TallyTypes DEF FirstRows, n
  <2>3. QED
    BY <2>1, <2>2, CountOne
<1>6. FinalRows(e) = FinalRows(d)
  BY <1>2, <1>3 DEF FinalRows, Finalized, n
<1>7. HitRows(e) = HitRows(d) /\ RetryRows(e) = RetryRows(d)
  <2>1. \A k \in FinalRows(d) : k \in 1..n
    BY DEF FinalRows, n
  <2>2. QED
    BY <1>2, <1>6, <2>1 DEF HitRows, RetryRows
<1>8. /\ UsageOf(e)[n + 1] = 0 /\ \A k \in 1..n : UsageOf(e)[k] = UsageOf(d)[k]
      /\ ItemsOf(e)[n + 1] = 0 /\ \A k \in 1..n : ItemsOf(e)[k] = ItemsOf(d)[k]
      /\ ActualOf(e)[n + 1] = 0 /\ \A k \in 1..n : ActualOf(e)[k] = ActualOf(d)[k]
      /\ UncertainOf(e)[n + 1] = 0 /\ \A k \in 1..n : UncertainOf(e)[k] = UncertainOf(d)[k]
      /\ ReleasedOf(e)[n + 1] = 0 /\ \A k \in 1..n : ReleasedOf(e)[k] = ReleasedOf(d)[k]
  BY <1>2, <1>3 DEF UsageOf, ItemsOf, ActualOf, UncertainOf, ReleasedOf, n
<1>9. ASSUME NEW v \in [1..n -> Int], NEW w \in [1..(n + 1) -> Int],
             \A k \in 1..n : w[k] = v[k], w[n + 1] = 0
      PROVE  Sum(e, w) = Sum(d, v)
  <2>1. RunningSum(w)[n + 1] = RunningSum(v)[n] + w[n + 1]
    BY <1>1, <1>9, SumAppend
  <2>2. RunningSum(v)[n] \in Int
    BY <1>1, <1>9, TableIsColumn, RunningSumDef
  <2>3. QED
    BY <1>2, <1>9, <2>1, <2>2 DEF Sum, n
<1>10. /\ UsageOf(e) \in [1..(n + 1) -> Int] /\ ItemsOf(e) \in [1..(n + 1) -> Int]
       /\ ActualOf(e) \in [1..(n + 1) -> Int] /\ UncertainOf(e) \in [1..(n + 1) -> Int]
       /\ ReleasedOf(e) \in [1..(n + 1) -> Int]
  BY <1>1, <1>2, TallyTypes
<1>11. /\ UsageOf(d) \in [1..n -> Int] /\ ItemsOf(d) \in [1..n -> Int]
       /\ ActualOf(d) \in [1..n -> Int] /\ UncertainOf(d) \in [1..n -> Int]
       /\ ReleasedOf(d) \in [1..n -> Int]
  BY TallyTypes DEF n
<1>12. QED
  BY <1>5, <1>6, <1>7, <1>8, <1>9, <1>10, <1>11

(* A row becomes final when it gets its answer. *)
NewlyFinal(d, row) == LastRow(d).state \notin Finalized /\ row.state \in Finalized

(* A row that is written again counts when it becomes final, and moves the   *)
(* sums by what it moves itself.                                             *)
LEMMA TallyRewrite ==
  ASSUME NEW d, NEW e, NEW row \in RequestRow, Rewritten(d, e, row),
         row.retry = LastRow(d).retry, row.state \in Finalized \/ LastRow(d).state \notin Finalized
  PROVE  /\ FirstRows(e) = FirstRows(d)
         /\ Cardinality(FinalRows(e)) =
              Cardinality(FinalRows(d)) + (IF NewlyFinal(d, row) THEN 1 ELSE 0)
         /\ Cardinality(HitRows(e)) =
              Cardinality(HitRows(d)) + (IF NewlyFinal(d, row) /\ row.cache_hit THEN 1 ELSE 0)
         /\ Cardinality(RetryRows(e)) =
              Cardinality(RetryRows(d)) + (IF NewlyFinal(d, row) /\ row.retry > 0 THEN 1 ELSE 0)
         /\ Sum(e, UsageOf(e)) = Sum(d, UsageOf(d)) + (row.usage - LastRow(d).usage)
         /\ Sum(e, ItemsOf(e)) = Sum(d, ItemsOf(d)) + (row.next_item - LastRow(d).next_item)
         /\ Sum(e, ActualOf(e)) = Sum(d, ActualOf(d)) + (row.actual - LastRow(d).actual)
         /\ Sum(e, UncertainOf(e)) =
              Sum(d, UncertainOf(d)) + (row.uncertain - LastRow(d).uncertain)
         /\ Sum(e, ReleasedOf(e)) = Sum(d, ReleasedOf(d)) + (row.released - LastRow(d).released)
<1> DEFINE n == Size(d)
           old == LastRow(d)
<1>1. /\ n \in Nat /\ n \in 1..n /\ d.requests \in Seq(RequestRow) /\ d.requests[n] = old
      /\ e.requests \in Seq(RequestRow) /\ Size(e) = n /\ e.requests[n] = row
      /\ \A k \in 1..n : k # n => e.requests[k] = d.requests[k]
      /\ row.cache_hit = old.cache_hit /\ row.retry = old.retry /\ row.cache_hit \in BOOLEAN
  <2>1. /\ d.requests \in Seq(RequestRow) /\ Len(d.requests) \in Nat /\ Len(d.requests) > 0
        /\ e.requests = [d.requests EXCEPT ![Len(d.requests)] = row]
        /\ row.hash = old.hash /\ row.cache_hit = old.cache_hit
    BY DEF Rewritten, Size
  <2>2. row.cache_hit \in BOOLEAN
    BY DEF RequestRow
  <2>3. /\ Len(d.requests) \in 1..Len(d.requests) /\ e.requests \in Seq(RequestRow)
        /\ Len(e.requests) = Len(d.requests) /\ e.requests[Len(d.requests)] = row
        /\ \A k \in 1..Len(d.requests) : k # Len(d.requests) => e.requests[k] = d.requests[k]
    BY <2>1
  <2>4. QED
    BY <2>1, <2>2, <2>3 DEF Size, LastRow
<1>2. /\ IsFiniteSet(FinalRows(d)) /\ IsFiniteSet(HitRows(d)) /\ IsFiniteSet(RetryRows(d))
  BY <1>1, TallyTypes
<1> HIDE DEF n, old
<1>3. FirstRows(e) = FirstRows(d)
  BY <1>1 DEF FirstRows, n
<1>4. FinalRows(e) = IF NewlyFinal(d, row) THEN FinalRows(d) \cup {n} ELSE FinalRows(d)
  BY <1>1 DEF FinalRows, NewlyFinal, n, old
<1>5. /\ HitRows(e) = IF NewlyFinal(d, row) /\ row.cache_hit THEN HitRows(d) \cup {n}
                      ELSE HitRows(d)
      /\ RetryRows(e) = IF NewlyFinal(d, row) /\ row.retry > 0 THEN RetryRows(d) \cup {n}
                        ELSE RetryRows(d)
  BY <1>1, <1>4 DEF HitRows, RetryRows, FinalRows, n
<1>6. NewlyFinal(d, row) => n \notin FinalRows(d) /\ n \notin HitRows(d) /\ n \notin RetryRows(d)
  BY <1>1 DEF NewlyFinal, FinalRows, HitRows, RetryRows, n, old
<1>7. ASSUME NEW S, NEW T, NEW test \in BOOLEAN, IsFiniteSet(S), test => n \notin S,
             T = IF test THEN S \cup {n} ELSE S
      PROVE  Cardinality(T) = Cardinality(S) + (IF test THEN 1 ELSE 0)
  <2>1. CASE test
    BY <1>7, <2>1, CountOne
  <2>2. CASE ~ test
    BY <1>7, <2>2, FS_CardinalityType
  <2>3. QED
    BY <2>1, <2>2
<1>8. /\ UsageOf(e)[n] = row.usage /\ UsageOf(d)[n] = old.usage
      /\ \A k \in 1..n : k # n => UsageOf(e)[k] = UsageOf(d)[k]
  BY <1>1 DEF UsageOf, n
<1>9. /\ ItemsOf(e)[n] = row.next_item /\ ItemsOf(d)[n] = old.next_item
      /\ \A k \in 1..n : k # n => ItemsOf(e)[k] = ItemsOf(d)[k]
  BY <1>1 DEF ItemsOf, n
<1>10. /\ ActualOf(e)[n] = row.actual /\ ActualOf(d)[n] = old.actual
       /\ \A k \in 1..n : k # n => ActualOf(e)[k] = ActualOf(d)[k]
  BY <1>1 DEF ActualOf, n
<1>11. /\ UncertainOf(e)[n] = row.uncertain /\ UncertainOf(d)[n] = old.uncertain
       /\ \A k \in 1..n : k # n => UncertainOf(e)[k] = UncertainOf(d)[k]
  BY <1>1 DEF UncertainOf, n
<1>12. /\ ReleasedOf(e)[n] = row.released /\ ReleasedOf(d)[n] = old.released
       /\ \A k \in 1..n : k # n => ReleasedOf(e)[k] = ReleasedOf(d)[k]
  BY <1>1 DEF ReleasedOf, n
<1>13. ASSUME NEW v \in [1..n -> Int], NEW w \in [1..n -> Int],
              \A k \in 1..n : k # n => w[k] = v[k]
       PROVE  Sum(e, w) = Sum(d, v) + (w[n] - v[n])
  <2>1. RunningSum(w)[n] = RunningSum(v)[n] + (w[n] - v[n])
    BY <1>1, <1>13, SumReplace
  <2>2. QED
    BY <1>1, <2>1 DEF Sum, n
<1>14. /\ UsageOf(e) \in [1..n -> Int] /\ ItemsOf(e) \in [1..n -> Int]
       /\ ActualOf(e) \in [1..n -> Int] /\ UncertainOf(e) \in [1..n -> Int]
       /\ ReleasedOf(e) \in [1..n -> Int]
  BY <1>1, TallyTypes
<1>15. /\ UsageOf(d) \in [1..n -> Int] /\ ItemsOf(d) \in [1..n -> Int]
       /\ ActualOf(d) \in [1..n -> Int] /\ UncertainOf(d) \in [1..n -> Int]
       /\ ReleasedOf(d) \in [1..n -> Int]
  BY <1>1, TallyTypes DEF n
<1>16. /\ Cardinality(FinalRows(e)) =
            Cardinality(FinalRows(d)) + (IF NewlyFinal(d, row) THEN 1 ELSE 0)
       /\ Cardinality(HitRows(e)) =
            Cardinality(HitRows(d)) + (IF NewlyFinal(d, row) /\ row.cache_hit THEN 1 ELSE 0)
       /\ Cardinality(RetryRows(e)) =
            Cardinality(RetryRows(d)) + (IF NewlyFinal(d, row) /\ row.retry > 0 THEN 1 ELSE 0)
  <2>1. /\ NewlyFinal(d, row) \in BOOLEAN /\ (NewlyFinal(d, row) /\ row.cache_hit) \in BOOLEAN
        /\ (NewlyFinal(d, row) /\ row.retry > 0) \in BOOLEAN
    BY DEF NewlyFinal
  <2>2. QED
    BY <1>2, <1>4, <1>5, <1>6, <1>7, <2>1
<1>17. /\ Sum(e, UsageOf(e)) = Sum(d, UsageOf(d)) + (row.usage - old.usage)
       /\ Sum(e, ItemsOf(e)) = Sum(d, ItemsOf(d)) + (row.next_item - old.next_item)
       /\ Sum(e, ActualOf(e)) = Sum(d, ActualOf(d)) + (row.actual - old.actual)
       /\ Sum(e, UncertainOf(e)) = Sum(d, UncertainOf(d)) + (row.uncertain - old.uncertain)
       /\ Sum(e, ReleasedOf(e)) = Sum(d, ReleasedOf(d)) + (row.released - old.released)
  <2>1. Sum(e, UsageOf(e)) = Sum(d, UsageOf(d)) + (UsageOf(e)[n] - UsageOf(d)[n])
    BY <1>8, <1>13, <1>14, <1>15
  <2>2. Sum(e, ItemsOf(e)) = Sum(d, ItemsOf(d)) + (ItemsOf(e)[n] - ItemsOf(d)[n])
    BY <1>9, <1>13, <1>14, <1>15
  <2>3. Sum(e, ActualOf(e)) = Sum(d, ActualOf(d)) + (ActualOf(e)[n] - ActualOf(d)[n])
    BY <1>10, <1>13, <1>14, <1>15
  <2>4. Sum(e, UncertainOf(e)) = Sum(d, UncertainOf(d)) + (UncertainOf(e)[n] - UncertainOf(d)[n])
    BY <1>11, <1>13, <1>14, <1>15
  <2>5. Sum(e, ReleasedOf(e)) = Sum(d, ReleasedOf(d)) + (ReleasedOf(e)[n] - ReleasedOf(d)[n])
    BY <1>12, <1>13, <1>14, <1>15
  <2>6. QED
    BY <1>8, <1>9, <1>10, <1>11, <1>12, <2>1, <2>2, <2>3, <2>4, <2>5
<1>18. QED
  BY <1>3, <1>16, <1>17 DEF old

-----------------------------------------------------------------------------
(* The steps of a run. *)

(* It suffices to look at the run that moved. *)
LEMMA CountStep ==
  ASSUME CountInv, NEW r \in Runs, OthersRest(r), TallyFits(db'[r]), WaitingFree(db'[r])
  PROVE  CountInv'
<1>1. ASSUME NEW s \in Runs
      PROVE  TallyFits(db'[s]) /\ WaitingFree(db'[s])
  <2>1. CASE s = r
    BY <2>1
  <2>2. CASE s # r
    BY <2>2 DEF OthersRest, CountInv
  <2>3. QED
    BY <2>1, <2>2
<1>2. QED
  BY <1>1 DEF CountInv

(* The rows and the counters stay as they are. *)
SameRows(r) ==
  /\ db'[r].requests = db[r].requests /\ db'[r].budget = db[r].budget
  /\ db'[r].evaluations = db[r].evaluations

(* The same rows and counters still agree. *)
LEMMA SameRowsCount ==
  ASSUME CountInv, NEW r \in Runs, OthersRest(r), SameRows(r)
  PROVE  CountInv'
<1>1. TallyFits(db[r]) /\ WaitingFree(db[r])
  BY DEF CountInv
<1>2. TallyFits(db'[r])
  BY <1>1 DEF SameRows, TallyFits, FirstRows, FinalRows, HitRows, RetryRows, Sum, UsageOf,
    ItemsOf, ActualOf, UncertainOf, ReleasedOf, Size
<1>3. WaitingFree(db'[r])
  BY <1>1 DEF SameRows, WaitingFree, Waiting, LastIn, LastRow, Size
<1>4. QED
  BY <1>2, <1>3, CountStep

(* The actions that write neither a row nor the counters. *)
LEMMA KeepsRows ==
  ASSUME Phase4Inv, NEW r \in Runs,
         \/ Start(r) \/ Crash(r) \/ Raise(r) \/ \E online \in BOOLEAN : Resume(r, online)
         \/ Open(r) \/ Initialized(r) \/ Recover(r) \/ Interrupt(r) \/ Stop(r) \/ GiveUp(r)
         \/ Gate(r) \/ NextCall(r) \/ Attempt(r) \/ ReserveCost(r) \/ RefuseCost(r)
         \/ (\E answer \in Answer(proc[r].batch) :
               \E charge \in Charges(answer) : Provider(r, answer, charge))
         \/ Record(r) \/ Settle(r) \/ Store(r)
         \/ WriteReport(r) \/ WriteAccessLedger(r) \/ WriteResults(r) \/ Close(r)
  PROVE  SameRows(r)
<1>1. db \in [Runs -> Database] /\ db[r] \in Database
  BY AtWork
<1>2. \A status : LET d == [db[r] EXCEPT !.status = status]
                  IN  /\ d.requests = db[r].requests /\ d.budget = db[r].budget
                      /\ d.evaluations = db[r].evaluations
  BY <1>1 DEF Database
<1>3. db' = db \/ \E status : db' = [db EXCEPT ![r].status = status]
  BY DEF Start, Crash, Raise, Resume, Open, Initialized, Recover, Interrupt, Stop, GiveUp, Gate,
    NextCall, Attempt, NextHash, ReserveCost, RefuseCost, Provider, Record, Settle, Store, WriteReport,
    WriteAccessLedger, WriteResults, Close, SetStatus
<1>4. db' = db \/ \E status : db'[r] = [db[r] EXCEPT !.status = status]
  BY <1>1, <1>3
<1>5. QED
  BY <1>2, <1>4 DEF SameRows

(* The charged evaluation of a baseline. *)
LEMMA InitializeCount ==
  ASSUME Phase4Inv, CountInv, NEW r \in Runs, OthersRest(r), NEW stop \in BOOLEAN,
         Initialize(r, stop)
  PROVE  CountInv'
<1> DEFINE d == db[r]
           e == db'[r]
<1>1. db \in [Runs -> Database] /\ d \in Database /\ proc[r].budget = d.budget
  BY AtWork DEF Initialize, At, MemoryFits, InMemory
<1>2. db' = [db EXCEPT ![r].evaluations = @ + 1, ![r].budget = [d.budget EXCEPT !.oracle = @ + 1],
                       ![r].status = IF stop THEN "interrupted" ELSE @]
  BY <1>1 DEF Initialize
<1>3. /\ e.requests = d.requests /\ e.budget = [d.budget EXCEPT !.oracle = @ + 1]
      /\ e.evaluations = d.evaluations + 1 /\ d.budget \in BudgetState
  BY <1>1, <1>2 DEF Database
<1> HIDE DEF e
<1>4. /\ e.budget.oracle = d.budget.oracle + 1 /\ e.budget.logical = d.budget.logical
      /\ e.budget.attempts = d.budget.attempts /\ e.budget.hits = d.budget.hits
      /\ e.budget.retries = d.budget.retries /\ e.budget.tokens = d.budget.tokens
      /\ e.budget.items = d.budget.items /\ e.budget.actual = d.budget.actual
      /\ e.budget.uncertain = d.budget.uncertain /\ e.budget.released = d.budget.released
  BY <1>3, BudgetType
<1>5. TallyFits(d) /\ WaitingFree(d)
  BY DEF CountInv
<1>6. TallyFits(e)
  BY <1>3, <1>4, <1>5 DEF TallyFits, FirstRows, FinalRows, HitRows, RetryRows, Sum, UsageOf,
    ItemsOf, ActualOf, UncertainOf, ReleasedOf, Size
<1>7. WaitingFree(e)
  BY <1>3, <1>5 DEF WaitingFree, Waiting, LastIn, LastRow, Size
<1>8. QED
  BY <1>6, <1>7, CountStep DEF e

(* prepare_request(): a first attempt was counted as a logical call in memory. *)
LEMMA PrepareCount ==
  ASSUME Phase4Inv, CountInv, NEW r \in Runs, OthersRest(r), Prepare(r)
  PROVE  CountInv'
<1> DEFINE d == db[r]
           e == db'[r]
           row == NewRequest(r)
           p == proc[r]
<1>1. /\ e.requests = Append(d.requests, row) /\ e.budget = p.budget
      /\ e.evaluations = d.evaluations /\ p.pc = "prepare"
  BY PrepareShape
<1>2. /\ d.requests \in Seq(RequestRow) /\ d.budget \in BudgetState
      /\ p.budget = IF p.retry = 0 THEN [d.budget EXCEPT !.logical = @ + 1] ELSE d.budget
      /\ p \in Process
  BY <1>1, AtWork DEF MemoryFits, Asking, Database
<1>3. /\ row.state = "pending" /\ row.usage = 0 /\ row.next_item = 0 /\ row.actual = 0
      /\ row.uncertain = 0 /\ row.released = 0 /\ row.retry = p.retry
  BY DEF NewRequest
<1>4. row \in RequestRow
  <2>1. /\ p.logical \in 0..ModelRequestCap /\ p.logical \in Nat /\ p.retry \in 0..MaxRetries
        /\ p.batch \in 0..BatchSize /\ p.batch \in Nat /\ MaxCost \in Nat
    BY <1>2, Phase4Constants DEF Process
  <2>2. RequestHash[r, p.logical, p.batch] \in Hashes
    BY <2>1, Phase4Constants
  <2>3. QED
    BY <2>1, <2>2 DEF NewRequest, RequestRow
<1> HIDE DEF row, e
<1>5. /\ e.budget.logical = d.budget.logical + (IF row.retry = 0 THEN 1 ELSE 0)
      /\ e.budget.attempts = d.budget.attempts /\ e.budget.hits = d.budget.hits
      /\ e.budget.retries = d.budget.retries /\ e.budget.tokens = d.budget.tokens
      /\ e.budget.items = d.budget.items /\ e.budget.actual = d.budget.actual
      /\ e.budget.uncertain = d.budget.uncertain /\ e.budget.released = d.budget.released
      /\ e.budget.oracle = d.budget.oracle
  <2>1. CASE p.retry = 0
    BY <1>1, <1>2, <1>3, <2>1, BudgetType
  <2>2. CASE p.retry # 0
    BY <1>1, <1>2, <1>3, <2>2, BudgetType
  <2>3. QED
    BY <2>1, <2>2
<1>6. TallyFits(d)
  BY DEF CountInv
<1>7. /\ Cardinality(FirstRows(e)) =
           Cardinality(FirstRows(d)) + (IF row.retry = 0 THEN 1 ELSE 0)
      /\ FinalRows(e) = FinalRows(d) /\ HitRows(e) = HitRows(d) /\ RetryRows(e) = RetryRows(d)
      /\ Sum(e, UsageOf(e)) = Sum(d, UsageOf(d)) /\ Sum(e, ItemsOf(e)) = Sum(d, ItemsOf(d))
      /\ Sum(e, ActualOf(e)) = Sum(d, ActualOf(d))
      /\ Sum(e, UncertainOf(e)) = Sum(d, UncertainOf(d))
      /\ Sum(e, ReleasedOf(e)) = Sum(d, ReleasedOf(d))
  BY <1>1, <1>2, <1>3, <1>4, TallyAppend
<1>8. TallyFits(e)
  BY <1>1, <1>5, <1>6, <1>7 DEF TallyFits
<1>9. WaitingFree(e)
  <2>1. LastRow(e) = row
    BY <1>1, <1>2 DEF LastRow, Size
  <2>2. QED
    BY <1>3, <2>1 DEF WaitingFree
<1>10. QED
  BY <1>8, <1>9, CountStep DEF e

(* mark_dispatched() and complete_request(): the state of a row counts only  *)
(* when it gets its answer.                                                  *)
LEMMA StateCount ==
  ASSUME Phase4Inv, CountInv, NEW r \in Runs, OthersRest(r), NEW state,
         \/ state = "dispatched" /\ LastIn(db[r], {"pending"})
         \/ state = "completed" /\ LastIn(db[r], {"responded"}),
         db'[r].requests = [db[r].requests EXCEPT ![Size(db[r])] =
                              [LastRow(db[r]) EXCEPT !.state = state]],
         db'[r].budget = db[r].budget, db'[r].evaluations = db[r].evaluations
  PROVE  CountInv'
<1> DEFINE d == db[r]
           e == db'[r]
           old == LastRow(d)
           row == [old EXCEPT !.state = state]
<1>1. d.requests \in Seq(RequestRow) /\ Size(d) > 0 /\ old \in RequestRow
  BY AtWork DEF Database, LastIn
<1>2. /\ row \in RequestRow /\ row.state = state /\ row.retry = old.retry /\ row.hash = old.hash
      /\ row.cache_hit = old.cache_hit /\ row.usage = old.usage /\ row.next_item = old.next_item
      /\ row.actual = old.actual /\ row.uncertain = old.uncertain /\ row.released = old.released
  BY <1>1 DEF RequestRow, Finalized
<1>3. /\ state \in Finalized \/ old.state \notin Finalized
      /\ ~ NewlyFinal(d, row)
  BY <1>2 DEF NewlyFinal, LastIn, Finalized
<1> HIDE DEF row, e, old
<1>4. Rewritten(d, e, row)
  BY <1>1, <1>2 DEF Rewritten, e, row, old
<1>5. /\ row.usage \in Int /\ row.next_item \in Int /\ row.actual \in Int
      /\ row.uncertain \in Int /\ row.released \in Int
  BY <1>2 DEF RequestRow
<1>6. TallyFits(d) /\ WaitingFree(d) /\ d.budget \in BudgetState
  BY AtWork DEF CountInv, Database
<1>7. /\ FirstRows(e) = FirstRows(d)
      /\ Cardinality(FinalRows(e)) = Cardinality(FinalRows(d)) + 0
      /\ Cardinality(HitRows(e)) = Cardinality(HitRows(d)) + 0
      /\ Cardinality(RetryRows(e)) = Cardinality(RetryRows(d)) + 0
      /\ Sum(e, UsageOf(e)) = Sum(d, UsageOf(d)) + (row.usage - row.usage)
      /\ Sum(e, ItemsOf(e)) = Sum(d, ItemsOf(d)) + (row.next_item - row.next_item)
      /\ Sum(e, ActualOf(e)) = Sum(d, ActualOf(d)) + (row.actual - row.actual)
      /\ Sum(e, UncertainOf(e)) = Sum(d, UncertainOf(d)) + (row.uncertain - row.uncertain)
      /\ Sum(e, ReleasedOf(e)) = Sum(d, ReleasedOf(d)) + (row.released - row.released)
  BY <1>2, <1>3, <1>4, TallyRewrite DEF old
<1>8. TallyFits(e)
  <2>1. /\ d.budget.attempts \in Nat /\ d.budget.hits \in Nat /\ d.budget.retries \in Nat
        /\ d.budget.tokens \in Nat /\ d.budget.items \in Nat /\ d.budget.actual \in Nat
        /\ d.budget.uncertain \in Nat /\ d.budget.released \in Nat
    BY <1>6, BudgetType
  <2>2. e.budget = d.budget /\ e.evaluations = d.evaluations
    BY DEF e
  <2>3. QED
    BY <1>5, <1>6, <1>7, <2>1, <2>2 DEF TallyFits
<1>9. WaitingFree(e)
  <2>1. LastRow(e) = row
    BY <1>1 DEF LastRow, Size, e, row, old
  <2>2. state = "dispatched" => Waiting(d)
    BY DEF LastIn, Waiting
  <2>3. Waiting(e) => state = "dispatched"
    BY <1>2, <2>1 DEF Waiting, LastIn
  <2>4. QED
    BY <1>2, <1>6, <2>1, <2>2, <2>3 DEF WaitingFree, old
<1>10. QED
  BY <1>8, <1>9, CountStep DEF e

(* One item moves the row and its counters together. *)
LEMMA ItemCount ==
  ASSUME Phase4Inv, CountInv, NEW r \in Runs, OthersRest(r), NEW stop \in BOOLEAN, Item(r, stop)
  PROVE  CountInv'
<1> DEFINE d == db[r]
           e == db'[r]
           old == LastRow(d)
           row == [old EXCEPT !.next_item = @ + 1]
<1>1. PICK more \in {0, 1} :
        /\ e.requests = [d.requests EXCEPT ![Size(d)] = row]
        /\ e.budget = [d.budget EXCEPT !.items = @ + 1, !.oracle = @ + more]
        /\ e.evaluations = d.evaluations + more /\ proc[r].pc = "items"
  BY ItemShape
<1>2. /\ d.requests \in Seq(RequestRow) /\ Size(d) > 0 /\ old \in RequestRow
      /\ old.state = "responded" /\ d.budget \in BudgetState
  BY <1>1, AtWork DEF Database, LastIn, PlaceFits
<1>3. /\ row \in RequestRow /\ row.state = old.state /\ row.retry = old.retry
      /\ row.hash = old.hash /\ row.cache_hit = old.cache_hit /\ row.usage = old.usage
      /\ row.next_item = old.next_item + 1 /\ old.next_item \in Nat
      /\ row.actual = old.actual /\ row.uncertain = old.uncertain /\ row.released = old.released
  <2>1. old.next_item \in Nat
    BY <1>2 DEF RequestRow
  <2>2. old.next_item + 1 \in Nat
    BY <2>1
  <2> HIDE DEF old
  <2>3. QED
    BY <1>2, <2>1, <2>2 DEF RequestRow
<1>4. row.state \in Finalized /\ ~ NewlyFinal(d, row)
  BY <1>2, <1>3 DEF NewlyFinal, Finalized
<1> HIDE DEF row, e, old
<1>5. Rewritten(d, e, row)
  BY <1>1, <1>2, <1>3 DEF Rewritten, old
<1>6. /\ row.usage \in Int /\ row.actual \in Int /\ row.uncertain \in Int /\ row.released \in Int
  BY <1>3 DEF RequestRow
<1>7. TallyFits(d) /\ WaitingFree(d)
  BY DEF CountInv
<1>8. /\ FirstRows(e) = FirstRows(d)
      /\ Cardinality(FinalRows(e)) = Cardinality(FinalRows(d)) + 0
      /\ Cardinality(HitRows(e)) = Cardinality(HitRows(d)) + 0
      /\ Cardinality(RetryRows(e)) = Cardinality(RetryRows(d)) + 0
      /\ Sum(e, UsageOf(e)) = Sum(d, UsageOf(d)) + (row.usage - row.usage)
      /\ Sum(e, ItemsOf(e)) = Sum(d, ItemsOf(d)) + (row.next_item - old.next_item)
      /\ Sum(e, ActualOf(e)) = Sum(d, ActualOf(d)) + (row.actual - row.actual)
      /\ Sum(e, UncertainOf(e)) = Sum(d, UncertainOf(d)) + (row.uncertain - row.uncertain)
      /\ Sum(e, ReleasedOf(e)) = Sum(d, ReleasedOf(d)) + (row.released - row.released)
  BY <1>3, <1>4, <1>5, TallyRewrite DEF old
<1>9. TallyFits(e)
  <2>1. /\ d.budget.attempts \in Nat /\ d.budget.hits \in Nat /\ d.budget.retries \in Nat
        /\ d.budget.tokens \in Nat /\ d.budget.items \in Nat /\ d.budget.actual \in Nat
        /\ d.budget.uncertain \in Nat /\ d.budget.released \in Nat
    BY <1>2, BudgetType
  <2>2. /\ e.budget.oracle = d.budget.oracle + more /\ e.budget.logical = d.budget.logical
        /\ e.budget.attempts = d.budget.attempts /\ e.budget.hits = d.budget.hits
        /\ e.budget.retries = d.budget.retries /\ e.budget.tokens = d.budget.tokens
        /\ e.budget.items = d.budget.items + 1 /\ e.budget.actual = d.budget.actual
        /\ e.budget.uncertain = d.budget.uncertain /\ e.budget.released = d.budget.released
    BY <1>1, <1>2, BudgetType
  <2>3. QED
    BY <1>1, <1>3, <1>6, <1>7, <1>8, <2>1, <2>2 DEF TallyFits
<1>10. WaitingFree(e)
  <2>1. LastRow(e) = row
    BY <1>1, <1>2 DEF LastRow, Size
  <2>2. QED
    BY <1>2, <1>3, <2>1 DEF WaitingFree, Waiting, LastIn
<1>11. QED
  BY <1>9, <1>10, CountStep DEF e
(* finalize_request(): the answer of the last row was counted in memory.     *)
LEMMA CommitCount ==
  ASSUME Phase4Inv, CountInv, NEW r \in Runs, OthersRest(r), Commit(r)
  PROVE  CountInv'
<1> DEFINE d == db[r]
           e == db'[r]
           a == proc[r].answer
           old == LastRow(d)
           row == Answered(r)
           b == d.budget
<1>1. /\ e.requests = [d.requests EXCEPT ![Size(d)] = row] /\ e.budget = CountedIn(d, a)
      /\ e.evaluations = d.evaluations /\ proc[r].pc = "commit"
  BY CommitShape, AtWork DEF MemoryFits
<1>2. /\ AnsweringFits(d, files[r], proc[r]) /\ d.requests \in Seq(RequestRow)
      /\ proc[r] \in Process /\ Row(r) = old /\ b \in BudgetState
  BY <1>1, AtWork DEF PlaceFits, Answering, Database
<1>3. /\ a \in Answers /\ Size(d) > 0 /\ Waiting(d) /\ old.state \in {"pending", "dispatched"}
  BY <1>2 DEF AnsweringFits, Process, Waiting, LastIn
<1>4. /\ old \in RequestRow /\ old.reserved = IF old.cache_hit THEN 0 ELSE MaxCost
      /\ old.next_item \in Nat /\ old.retry \in 0..MaxRetries /\ old.cache_hit \in BOOLEAN
  <2>1. old \in RequestRow /\ old.reserved = IF old.cache_hit THEN 0 ELSE MaxCost
    BY <1>3, AtWork DEF RowFits
  <2>2. QED
    BY <2>1 DEF RequestRow
<1>5. /\ Actual(r, a) = IF ~ old.cache_hit /\ IsResponse(a) THEN CostOf[a.usage] ELSE 0
      /\ Uncertain(r, a) = IF ~ old.cache_hit /\ a.kind = "uncertain" THEN MaxCost ELSE 0
      /\ Released(r, a) = old.reserved - Actual(r, a) - Uncertain(r, a)
  BY <1>2 DEF Actual, Uncertain, Released, Paid
<1>6. Actual(r, a) \in Nat /\ Released(r, a) \in Nat /\ Uncertain(r, a) \in Nat
  <2>1. /\ MaxCost \in Nat /\ (IsResponse(a) => CostOf[a.usage] \in 0..MaxCost)
        /\ a.kind = "uncertain" => ~ IsResponse(a)
    BY <1>3, AnswerCost
  <2>2. QED
    BY <1>4, <1>5, <2>1
<1>7. /\ a.usage \in Nat /\ Len(a.items) \in Nat
      /\ FinalState(a) \in {"responded", "schema-failure", "failed", "usage-uncertain"}
  BY <1>3, AnswerShape, Phase4Constants DEF FinalState
<1>8. /\ row \in RequestRow /\ row.state = FinalState(a) /\ row.usage = a.usage
      /\ row.retry = old.retry /\ row.hash = old.hash /\ row.cache_hit = old.cache_hit
      /\ row.next_item = old.next_item /\ row.actual = Actual(r, a)
      /\ row.uncertain = Uncertain(r, a) /\ row.released = Released(r, a)
  <2> DEFINE x == [old EXCEPT !.state = FinalState(a), !.usage = a.usage,
                     !.actual = Actual(r, a), !.released = Released(r, a),
                     !.uncertain = Uncertain(r, a), !.item_count = Len(a.items)]
  <2>1. row = x
    BY DEF Answered
  <2> HIDE DEF old, a
  <2>2. /\ x \in RequestRow /\ x.state = FinalState(a) /\ x.usage = a.usage
        /\ x.retry = old.retry /\ x.hash = old.hash /\ x.cache_hit = old.cache_hit
        /\ x.next_item = old.next_item /\ x.actual = Actual(r, a)
        /\ x.uncertain = Uncertain(r, a) /\ x.released = Released(r, a)
    BY <1>4, <1>6, <1>7 DEF RequestRow, Finalized
  <2> HIDE DEF x
  <2>3. QED
    BY <2>1, <2>2
<1>9. /\ old.usage = 0 /\ old.actual = 0 /\ old.uncertain = 0 /\ old.released = 0
      /\ TallyFits(d)
  BY <1>3 DEF CountInv, WaitingFree
<1>10. NewlyFinal(d, row)
  BY <1>3, <1>7, <1>8 DEF NewlyFinal, Finalized
<1>11. /\ e.budget.logical = b.logical /\ e.budget.attempts = b.attempts + 1
       /\ e.budget.hits = b.hits + (IF row.cache_hit THEN 1 ELSE 0)
       /\ e.budget.retries = b.retries + (IF row.retry > 0 THEN 1 ELSE 0)
       /\ e.budget.tokens = b.tokens + row.usage /\ e.budget.items = b.items
       /\ e.budget.actual = b.actual + row.actual
       /\ e.budget.uncertain = b.uncertain + row.uncertain
       /\ e.budget.released = b.released + row.released /\ e.budget.oracle = b.oracle
  BY <1>1, <1>2, <1>5, <1>8, BudgetType DEF CountedIn
<1> HIDE DEF row, e, old, a
<1>12. Rewritten(d, e, row)
  BY <1>1, <1>2, <1>3, <1>8 DEF Rewritten, old
<1>13. /\ FirstRows(e) = FirstRows(d)
       /\ Cardinality(FinalRows(e)) = Cardinality(FinalRows(d)) + 1
       /\ Cardinality(HitRows(e)) = Cardinality(HitRows(d)) + (IF row.cache_hit THEN 1 ELSE 0)
       /\ Cardinality(RetryRows(e)) = Cardinality(RetryRows(d)) + (IF row.retry > 0 THEN 1 ELSE 0)
       /\ Sum(e, UsageOf(e)) = Sum(d, UsageOf(d)) + (row.usage - 0)
       /\ Sum(e, ItemsOf(e)) = Sum(d, ItemsOf(d)) + (row.next_item - row.next_item)
       /\ Sum(e, ActualOf(e)) = Sum(d, ActualOf(d)) + (row.actual - 0)
       /\ Sum(e, UncertainOf(e)) = Sum(d, UncertainOf(d)) + (row.uncertain - 0)
       /\ Sum(e, ReleasedOf(e)) = Sum(d, ReleasedOf(d)) + (row.released - 0)
  <2>1. row.state \in Finalized
    BY <1>10 DEF NewlyFinal
  <2>2. QED
    BY <1>8, <1>9, <1>10, <1>12, <2>1, TallyRewrite DEF old
<1>14. /\ row.usage \in Nat /\ row.next_item \in Nat /\ row.actual \in Nat
       /\ row.uncertain \in Nat /\ row.released \in Nat
  BY <1>4, <1>6, <1>7, <1>8
<1>15. TallyFits(e)
  <2>1. /\ b.tokens \in Nat /\ b.items \in Nat /\ b.actual \in Nat
        /\ b.uncertain \in Nat /\ b.released \in Nat
    BY <1>2, BudgetType
  <2>2. e.budget.logical = Cardinality(FirstRows(e)) /\ e.budget.oracle = e.evaluations
    BY <1>1, <1>9, <1>11, <1>13 DEF TallyFits
  <2>3. /\ e.budget.attempts = Cardinality(FinalRows(e)) /\ e.budget.hits = Cardinality(HitRows(e))
        /\ e.budget.retries = Cardinality(RetryRows(e))
    BY <1>9, <1>11, <1>13 DEF TallyFits
  <2>4. /\ e.budget.tokens = Sum(e, UsageOf(e)) /\ e.budget.items = Sum(e, ItemsOf(e))
        /\ e.budget.actual = Sum(e, ActualOf(e)) /\ e.budget.uncertain = Sum(e, UncertainOf(e))
        /\ e.budget.released = Sum(e, ReleasedOf(e))
    BY <1>9, <1>11, <1>13, <1>14, <2>1 DEF TallyFits
  <2>5. QED
    BY <2>2, <2>3, <2>4 DEF TallyFits
<1>16. WaitingFree(e)
  <2>1. LastRow(e) = row
    BY <1>1, <1>2, <1>3 DEF LastRow, Size
  <2>2. QED
    BY <1>7, <1>8, <2>1 DEF WaitingFree, Waiting, LastIn
<1>17. QED
  BY <1>15, <1>16, CountStep DEF e

-----------------------------------------------------------------------------
(* The counters are the sums in every behaviour of the engine. *)

(* Nothing is counted before there is a row. *)
LEMMA CountInit == Init => CountInv
<1> SUFFICES ASSUME Init, NEW r \in Runs PROVE TallyFits(db[r]) /\ WaitingFree(db[r])
  BY DEF CountInv
<1> DEFINE d == db[r]
<1>1. d.requests = <<>> /\ d.budget = EmptyBudget /\ d.evaluations = 0 /\ Size(d) = 0
  BY DEF Init, Size
<1>2. /\ FirstRows(d) = {} /\ FinalRows(d) = {}
  BY <1>1 DEF FirstRows, FinalRows
<1>3. HitRows(d) = {} /\ RetryRows(d) = {}
  BY <1>2 DEF HitRows, RetryRows
<1>4. \A v \in [1..0 -> Int] : Sum(d, v) = 0
  BY <1>1, TableIsColumn, RunningSumDef DEF Sum
<1>5. /\ UsageOf(d) \in [1..0 -> Int] /\ ItemsOf(d) \in [1..0 -> Int]
      /\ ActualOf(d) \in [1..0 -> Int] /\ UncertainOf(d) \in [1..0 -> Int]
      /\ ReleasedOf(d) \in [1..0 -> Int]
  <2>1. d.requests \in Seq(RequestRow)
    BY <1>1
  <2>2. QED
    BY <1>1, <2>1, TallyTypes
<1>6. TallyFits(d)
  BY <1>1, <1>2, <1>3, <1>4, <1>5, FS_EmptySet DEF TallyFits, EmptyBudget
<1>7. WaitingFree(d)
  BY <1>1 DEF WaitingFree, Waiting, LastIn
<1>8. QED
  BY <1>6, <1>7

(* Every step keeps the sums: one case for each action that writes a row or  *)
(* the counters.                                                             *)
LEMMA CountNext == Phase4Inv /\ CountInv /\ [Next]_vars => CountInv'
<1> SUFFICES ASSUME Phase4Inv, CountInv, [Next]_vars PROVE CountInv'
  OBVIOUS
<1>1. CASE UNCHANGED vars
  BY <1>1 DEF vars, CountInv
<1>2. ASSUME NEW r \in Runs, Step(r)
      PROVE  CountInv'
  <2>1. OthersRest(r)
    BY <1>2, OneRunMoves
  <2>2. CASE \/ Interrupt(r) \/ Open(r) \/ Initialized(r) \/ Recover(r) \/ Stop(r)
             \/ GiveUp(r) \/ Gate(r) \/ NextCall(r) \/ Attempt(r) \/ ReserveCost(r)
             \/ RefuseCost(r) \/ Record(r) \/ Settle(r) \/ Store(r)
             \/ WriteReport(r) \/ WriteAccessLedger(r) \/ WriteResults(r) \/ Close(r)
    BY <2>1, <2>2, KeepsRows, SameRowsCount
  <2>3. ASSUME NEW answer \in Answer(proc[r].batch), NEW charge \in Charges(answer),
               Provider(r, answer, charge)
        PROVE  CountInv'
    <3>1. \E an \in Answer(proc[r].batch) : \E ch \in Charges(an) : Provider(r, an, ch)
      BY <2>3
    <3>2. QED
      BY <2>1, <3>1, KeepsRows, SameRowsCount
  <2>4. ASSUME NEW stop \in BOOLEAN, Initialize(r, stop)
        PROVE  CountInv'
    BY <2>1, <2>4, InitializeCount
  <2>5. ASSUME NEW stop \in BOOLEAN, Item(r, stop)
        PROVE  CountInv'
    BY <2>1, <2>5, ItemCount
  <2>6. CASE Prepare(r)
    BY <2>1, <2>6, PrepareCount
  <2>7. CASE Send(r)
    <3>1. LastIn(db[r], {"pending"})
      BY <2>7, SendShape, AtWork DEF PlaceFits
    <3>2. /\ db'[r].requests = [db[r].requests EXCEPT ![Size(db[r])] =
                                  [LastRow(db[r]) EXCEPT !.state = "dispatched"]]
          /\ db'[r].budget = db[r].budget /\ db'[r].evaluations = db[r].evaluations
      BY <2>7, SendShape
    <3>3. QED
      BY <2>1, <3>1, <3>2, StateCount
  <2>8. CASE Commit(r)
    BY <2>1, <2>8, CommitCount
  <2>9. CASE Complete(r)
    <3>1. LastIn(db[r], {"responded"})
      BY <2>9, CompleteShape, AtWork DEF PlaceFits
    <3>2. /\ db'[r].requests = [db[r].requests EXCEPT ![Size(db[r])] =
                                  [LastRow(db[r]) EXCEPT !.state = "completed"]]
          /\ db'[r].budget = db[r].budget /\ db'[r].evaluations = db[r].evaluations
      BY <2>9, CompleteShape
    <3>3. QED
      BY <2>1, <3>1, <3>2, StateCount
  <2>10. QED
    BY <1>2, <2>2, <2>3, <2>4, <2>5, <2>6, <2>7, <2>8, <2>9 DEF Step
<1>3. ASSUME NEW r \in Runs,
             Start(r) \/ Crash(r) \/ Raise(r) \/ \E online \in BOOLEAN : Resume(r, online)
      PROVE  CountInv'
  <2>1. OthersRest(r)
    BY <1>3, OneRunMoves
  <2>2. QED
    BY <1>3, <2>1, KeepsRows, SameRowsCount
<1>4. QED
  BY <1>1, <1>2, <1>3 DEF Next

(* The sums hold whoever dies between counting in memory and storing. *)
LEMMA CountsHold == Spec => []CountInv
<1>1. Phase4Inv /\ CountInv /\ [Next]_vars => CountInv'
  BY CountNext
<1>2. QED
  BY CountInit, <1>1, EngineConsistent, PTL DEF Spec

(* At every moment, whichever process died between counting in memory and    *)
(* storing, each stored counter of a run is the number or the sum that its   *)
(* stored rows give.                                                         *)
THEOREM CountersAreSums == Spec => []BudgetMatchesRows
BY CountsHold, CountersAgree, EngineConsistent, PTL

=============================================================================
