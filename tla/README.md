# A verification development for executable-world-model-discovery

The repository searches for executable models of small worlds (elementary
cellular automata).  A *run* asks a proposer for candidate programs, has an
oracle score them, keeps the good ones in an archive and uses them as parents of
the next candidates.  From Phase 4 on the proposer is a paid language model: a
run must be able to die anywhere and be resumed without paying twice, without
losing an answer it paid for, and without all runs together spending more than
the budget.  Around the runs are experiments, which execute many of them in order
and publish an analysis, and a memory, which carries what one run found out into
the prompts of others.

The TLA+ modules here are written from the source under `src/`.  `PROJECT.json`
gives, for every definition that models code, the lines it stands for; it also
lists the hazards of the code with the properties about them, and for each property
a plausible bug that breaks it.

## 1. Inventory

| Component (under `src/src/world_model_search/`) | State | Operations | Interacts with | Hard part | What makes it correct |
|---|---|---|---|---|---|
| Project ledger, `model/ledger.py` | SQLite tables `reservation`, `usage_record`, `cash_checkpoint`, shared by all processes | `reserve`, `reconcile`, `mark_uncertain`, `append_cash_checkpoint`, `rebuild_project_ledger`, reads | every paying run; operators | interleaved runs, idempotent retries, checkpoints against moving rows, a lost ledger | caps bound the table, settled rows are final, checkpoints stay valid |
| Price and cap policy, `model/policy.py` | frozen configuration | `stage_cap`, `child_cap`, `maximum_cost`, `cost` | ledger, engine | two policies (project cap, reconciled cash) | worst case is an upper bound of every cost |
| Phase 4 engine, `search/phase4.py` | memory of a process | `start`, `resume`, `execute`, dispatch, recovery, finalize | run database, files, cache, ledger, provider | a crash between any two durable effects | no repeated paid call, counters equal rows, every run ends |
| Phase 4 run database, `persistence/phase4_database.py` | `run_state`, `model_request`, `budget_state`, items, candidates, events | one transaction per method | engine, replay | state machine of a request row | only legal transitions; row and counters move together |
| Exact response cache, `model/cache.py` | one immutable file per request hash | `get`, `put` | all runs of a namespace | two runs storing different answers | an answer is never contradicted |
| Immutable artifacts, `persistence/artifacts.py` | files | `write_content_artifact`, exclusive writes | everything | torn writes, collisions on resume | a file never changes |
| Model backends and schema, `model/backends.py`, `model/schema.py`, `model/types.py` | none | dispatch, classify errors, parse a batch | engine | ambiguous failures | what is ambiguous is never called free |
| Archive and incumbent, `search/archive.py` | cells with elites, reserves | `insert`, `restore` | search loops | order of insertions, restore from decisions | the elite of a cell is its best candidate |
| Uniform scheduler, `scheduler/uniform.py` | none (seed and counter) | `select` | search loops | determinism across resume | same state, same choice |
| Operators, `search/operators.py` | none | mutate, cross, finalize a program | Phase 3 search | what is refused and why | what comes out is canonical and within bounds |
| Phase 3 search, `search/phase3.py` | run database, mechanism | step, resume | archive, oracle | commit order of proposals and evaluations | memory agrees with the rows, whoever resumes |
| Phase 0/2 search, `search/loop.py`; run database `persistence/database.py`; manifest | `next_step`, events | start, step, interrupt, resume, finish | oracle, replay | signals between steps, two resumes | events are gapless, results frozen once |
| Replay, `replay.py` | read only | replay a run | all databases | code of its own for budget and flags | a completed run replays, one damaged in what it vouches for does not |
| Phase 3 experiment, `evaluation/phase3_experiment.py` | result directory | freeze, run children, analyse, publish | Phase 3 search | restarts must arrive at the same contents | nothing runs outside the freeze, equal budgets |
| Phase 4 benchmark, `evaluation/phase4_experiment.py` | child and output directories | dry run, run children in rotated order, analyse, publish | engine, ledger | children that stop early, directories that must not exist | rows, analysis and summary belong together |
| Reports and statistics, same files and `evaluation/` | none | differences, bootstrap, Holm step | experiments | thresholds in two loops | decisions agree with adjusted p-values |
| Phase 5 live experiment, `evaluation/phase5_live.py` | request, response, result and summary files | gates, canary, pilot, replay | ledger, cache, provider | the files are the only memory | paid once, covered by the ledger, replays |
| Experience memory, `memory/store.py`, `memory/experience.py`, `memory/retrieval.py` | SQLite store, snapshots | admit, link, transition, export, retrieve | engine, validation | decisions on what was read before the transaction | promotion is independent and without counterevidence; bounds kept |
| Experience lesson validation, `evaluation/phase5_experience_*.py` | stage directories | shallow, deep and confirmatory protocol | engine, memory | tasks that serve twice, children in parallel | each decision from fresh tasks, reproducible |
| Contextual memory, `memory/contextual*.py` | raw and annotated records, snapshots | record, annotate, import, retrieve, render, audit | engine | records written before their evaluation is committed | records agree with rows; what is shown is admissible and audited |
| Candidate language, `dsl/` | none | type, evaluate, canonicalize, encode | proposers, operators, oracle | algebraic rewriting | the canonical form means the same |
| Oracle, `oracle/` | none | score, locked rollout | search | two ways of judging a program | exact iff no error on any ring |
| Proposers, `proposer/` | enumeration position | propose | search | the observational quotient, the cap | no cheaper program is missed below the cap |
| Tasks and authority, `tasks.py`, `domain/types.py` | access list | open a task under an authority | experiments | sealed test split | no test task without authority |
| Configuration and command line | none | parse, dispatch | all | none | no state of its own |

## 2. Modules

What is external to `src/` (SQLite's transactions, the provider, the file system,
the random generator of the standard library) appears as the code uses it.  Modules
that compose others extend them and take their actions in their own.

| Module | What it is | Builds on |
|---|---|---|
| `RowSum` | the SQL aggregate `SUM(expression)` over rows, as a recursive function | |
| `Ledger` | reservations in rowid order, checkpoints and caps; one action per method, as one `BEGIN IMMEDIATE` transaction | `RowSum` |
| `SpendAccount`, `LedgerAccount` | abstract: money held and spent under one limit; and the refinement mapping from the ledger | `Ledger` |
| `LedgerReader` | a reader of the balance, query by query, beside the writers | `Ledger` |
| `LedgerRebuild` | loss and reconstruction of the ledger from the records of runs that die and resume | `Ledger` |
| `Phase4Forecast` | the dry run's own queries beside spending children | `Ledger` |
| `Phase4Run` | the paid engine with its database, files and cache | `Ledger` |
| `Phase5Live` | canary and pilot: children, requests and files, two processes at once | `Ledger`, `Artifacts` |
| `Artifacts` | absent, torn and whole files | |
| `SearchLoop` | the Phase 0 and Phase 2 engines, their database, files and replay | `Artifacts` |
| `Archive`, `ArchiveHistory` | both search mechanisms as operators; any history of insertions | |
| `Phase3Run` | the Phase 3 engine: schedule, attempt, commit, resume, analysis, replay | `Archive`, `Artifacts` |
| `Statistics`, `StatisticsHistory` | the paired analyses; every collection of rows | |
| `Phase3Experiment`, `Phase4Benchmark` | the two experiments that run children and publish | `Statistics`, `Artifacts` |
| `MemoryStore` | the store of Phase 5 memory, several processes on one file | |
| `MemoryRetrieval`, `ContextualRetrieval` | what a run is shown of a memory | |
| `ExperienceValidation` | the three validation protocols | |
| `ExperienceLineage` | records of one run, their annotation and later import | |
| `Language` | expressions, meaning, canonical form, prefix code | |
| `Mutation`, `Enumeration` | the operators with the oracle; the enumerator | `Language` |
| `MCLedger`, `MCPhase4Run` | the ledger and the engine on small instances | |
| `MCSearches`, `MCPaid`, `MCExperiments`, `MCMemory`, `MCEndings`, `Phase5Cases` | the other systems on small instances, several side by side | |
| `LedgerProofs`, `LedgerViewsProofs` | proofs about the ledger, its limits and a reader of it | |
| `Phase5LiveProofs` | proofs about the paid Phase 5 experiments, on top of `LedgerProofs` | |
| `Phase4RunProofs`, `Phase4EndProofs` | proofs about the engine, the second on top of the first | |
| `SearchLoopProofs` | proofs about the Phase 0 and Phase 2 engines and their replay | |
| `ArchiveProofs` | proofs about both search mechanisms | |
| `Phase3RunProofs` | proofs about the Phase 3 engine and its replay | |

**Ledger.** A row of `reservation` is a record with the columns the code compares
(`reserved`, `state`, `actual`, `uncertain`, `released`, the hash of its usage
record).  A method that raises is rolled back, so its action is not enabled;
`ReserveRefused` is the refusal (`BudgetExhaustedError`), which the engine reacts
to.  Amounts are natural numbers (the code uses unbounded Python integers in
nano-USD).  `observed` is not in the code: it holds the bill of the last accepted
`append_cash_checkpoint`, to compare with the table.

**LedgerReader.** The methods that write hold the database for a transaction;
`cash_balance()` and `status()` do not: a reader is a program counter and the sums it
has so far, and each query is a step (SQLite's autocommit).  `before` is history: the
table when reading began.

**LedgerRebuild.** A run is reduced to what the rebuild reads, its rows and the files
under `responses/`.  The ledger is lost once, while nothing executes; commands that
read it create it again; a rebuild takes the runs in path order, marks itself in
progress, and may die.  `origin` says which of these the present ledger is.  The
cash policy is the first one (the second refuses to rebuild), and the promises are
about a ledger that was not replaced while another process was reserving on it.

**Phase4Forecast.** The dry run reads the ledger once, with queries of its own, and compares
the exposure of the planned children with the whole cap of their stage.  Other runs
reserve in that stage before it, as a canary or a Phase 5 pilot does; then a benchmark
announced ready can be refused by the stage, by no more than they spent there, which
is what `ReadyPlanIsNotRefused` allows (`StageSpentByOthers`).  The cap of the phase is
not in the forecast; no property speaks about it.

**Phase4Run.** `proc[r]` is the process executing run `r`: its place in the code
(`pc`) and what it holds in memory (the counters, the answer just received, ...);
`db[r]`, `files[r]`, `cache` and the ledger survive it.  One action is one durable
effect with the control flow up to the next, so `Crash` falls between any two.  It also
falls inside one (`Tear`): `write_content_artifact` creates a file and writes it
afterwards, and `start_phase4_run` makes a directory before its manifest and database.
`torn[r]` and `tornCache` hold what a dead process left behind: a directory that no
start accepts and no resume can read, a prompt, an answer, a file of the analysis, an
empty `results.json` (with which a terminal run counts as finished), a cache entry.
Where the code reads such a file, or writes it again, it raises (`Obstructed`, `Raise`);
a run may also meet an entry that another run is just writing (`Overtaken`), and is then
repeated with success.

| `pc` | Code |
|---|---|
| open, initialize | head of `execute`: status, counters, charged baselines |
| recover | `_incomplete_request`, `_resume_response`: the last row decides |
| gate, loop | offline resumes stop; the main loop of `execute` |
| attempt, reserve, prepare | either retry loop, `cache.get`, `ledger.reserve`, `prepare_request` |
| send, wire, record | `mark_dispatched`, `backend.dispatch`, response or failure artifact |
| settle, store, commit | ledger, `cache.put`, `finalize_request` |
| items | `_process_items`, `complete_request` |
| stop, give-up, interrupt | the three ways a sequence ends without an answer |
| report, access, results, close | `_finalize` |

First sends and recoveries share the actions from *record* on, because the code of
`_finalize_recovered_response` and `_record_failure` does the same with the same
contents; they differ in where they go on, which `recovering` records.
Abstractions: a prompt is its hash, a function of run, logical call and batch size
(`RequestHash`; the hash covers the batch size, `model/types.py:209`); a batch is the
sequence of its items' acceptance; input and output tokens are one counter; the
provider is OpenAI, so every cache miss is paid; one process executes a run at a time.  `calls` is not in the code: it is what the
provider saw and charges.

**Artifacts, SearchLoop.** `write_content_artifact` opens with `O_EXCL` and writes
afterwards, so a file is absent, torn or whole; a writer accepts a file that holds
exactly its content and raises a collision otherwise.  `SearchLoop` has one program
counter per process and the database and files between them; a proposal, candidate,
evaluation and event are the number of their step, because the code derives them
from it.  The two engines differ in the order of status, analysis and
`results.json`, which is the constant `Phase`; `FirstExact` is the step that is exact
first, whose logical cost goes into the results.  Replay is a predicate of the stored
run; `Decay` changes any stored value of a completed run: a proposal, the analysis, its
manifest or the results, `next_step`, the task's row, any column of a candidate's row
or of an event.  Left out are the values nobody could compare (timestamps, run and
event ids, runtimes) and `manifest.json`, from which a replay takes its configuration.  With `AtomicFiles` files are never torn,
so that a question about the order of files is not answered by a torn one.

**Archive, Phase3Run.** Insertion and restoration are operators on cells; the rank and
the cell of a program are constants.  `Phase3Run` holds the mechanism in the memory
of a process and rebuilds it from the committed evaluations on a resume.  An
attempt's draws are a function of seed and attempt: `draws` remembers what was
chosen, so that an attempt made again after a crash draws the same.

**Statistics.** Every task has equally many seeds, so sums stand for means; the random
generator is a table, shared by all tests.  The operators are the paired and the
clustered bootstrap, interval, p-value and Holm's step of both experiments and the
AUC of Phase 2.

**Phase3Experiment, Phase4Benchmark.** A process begins (the import of the
code and the freeze are one step), takes its children in order and publishes file
by file; what survives it is the files.  A child has the states that a reader of
its directory can tell apart: what happens inside is `Phase3Run` and `Phase4Run`.  Among
them are those that nothing can repair: a directory without a manifest or database
("bare"), an unwritten file ("torn"), and a child that a dead process had analysed under
another purpose.  A benchmark takes a child that "failed" for an ended one, as the code
does; no engine sets that status.
Files written in several formats count once.  Edits of the source tree or of the
registry happen between any two steps; the registries accepted for one benchmark
name the same tasks and seeds.

**Phase5Live.** A request is its child, its index and the tree it was built from, which
stands for its hash and its reservation id.  The test for a request file, its
creation, the reservation, the dispatch and every later file are steps of their own.
The preflight reads the ledger in one step.

**MemoryStore.** A method that reads, decides and then writes in a transaction is two
steps (the reads before the transaction are one).  Evidence and records are content
addressed and are their own identities.  A promotion may carry a gate's verdict, which
becomes part of its event; only the caller with a primitive has one to give.

**ExperienceValidation.** A child keeps what the decisions read of it: exact AUC, local
AUC and how often each lesson was shown.  One generator family; AUCs are levels; a
task is solved iff its exact AUC is above 0; one command executes at a time;
thresholds and stage sizes are scaled down.  The deep protocol ends its children in
any order; canary replays repeat what children did and are left out.  A command that dies
can leave children no repetition completes (`Unusable`): one without a database, and one
that was killed in `_finalize` behind the access ledger or inside a file, which `_run_arm`
resumes and which raises for ever.  No two children of different stages or protocols
share a task (`StagesAreFresh`), with one exception, the code's: the confirmation takes
up the tasks of the deep protocol's bundle.  The property allows it, and only if the
deep screen promoted a lesson, for only then were there bundle children.

**ExperienceLineage.** A request is paid for and answered in one step (that is
`Phase4Run`), failing requests are left out, files are atomic (torn ones are in
`Phase4Run`).  `_finalize` is whole: experience summary, analysis with the access ledger,
results, status.  A run is out of reach when its first process died behind its access
ledger (`SealedByFirstProcess`).  The parents of a call are any deterministic function of the call and
the rows evaluated so far, fixed on its first use.  Features and syntax-tree
differences are opaque.  A child's outcome class counts later gains relative to the
child; `short_horizon_steps` of a configuration does not reach
`finalize_experience_artifacts`, which uses its default of 8: the model takes one
`Horizon` for both.  The field `evidence_timing`, by which an imported record says that
it is one, is left out.

**MemoryRetrieval, ContextualRetrieval.** The steps are the life of a memory: a record
more, a bound more, a freeze, a binding, a retrieval.  A block is as long as its
envelope and its items; `NothingTaken` is about the bound on items only, because a
greater bound on bytes can make room for a larger item in place of two smaller ones.
Similarities are in thousandths instead of millionths, a draw is the residue of its
hash.

**Language, Mutation, Enumeration.** An expression is `<<op, children..., field>>`.  The
order of commuted operands is that of their codes instead of class name and JSON:
any total order does.  `Mutation` makes every draw a choice; drawn syntax has depth 1
(3 in the code) and few constants.  `Enumeration` processes one kind at one cost per
step and remembers one expression for each meaning; of several new ones of equal
length it keeps a fixed one, the code the first in JSON order, which changes neither
the number of expressions examined nor the lengths found.  These modules use
`RECURSIVE` operators, as the Python code is recursive on syntax trees.

## 3. What TLC checks

| Run | Question | Result |
|---|---|---|
| `ledger_legacy` | do the caps bound the table, are settlements final, is a limit an account? | holds |
| `ledger_dual` | do checkpoints stay valid and does the cash bound count every reservation once? | holds |
| `phase4_crash` | does one run survive two crashes, interruptions and offline resumes, and end? | holds |
| `phase4_shared` | do two runs with one ledger, one cache and a crash keep money and counters straight? | holds |
| `searches` | is the language sound, the archive the best, and do the search loops keep their records? | holds |
| `paid` | do the Phase 5 experiments, a reader of the balance, the dry run and a rebuild of the ledger count the money right? | holds |
| `experiments` | is what the experiments publish frozen, sealed and rightly inferred? | holds |
| `memory` | is a promotion earned, retrieval the best there is, and the recorded experience true? | holds |
| `endings` | does everything that is started again come to its end? | holds |
| `ledger_observed`, `phase4_finish`, `phase4_cache` | three statements of the documents | violated, see below |

`ledger_*` and `phase4_*` instantiate one module each.  The other runs hold several
systems side by side that share no state: the variable `scenario` says which one a
behaviour is about, and the variables of the rest are `Unused`.  So a property of
such a run is a conjunction "in this scenario, these invariants of that module",
each of which stands in its own module with what it says of the code:

| Run | Scenarios | Modules |
|---|---|---|
| `searches` | mutation, enumeration, phase0, phase2, diverse, incumbent, archive | `Mutation`, `Enumeration`, `SearchLoop`, `Phase3Run`, `ArchiveHistory` |
| `paid` | pilot, shared, reader, dry run, rebuild | `Phase5Live`, `LedgerReader`, `Phase4Forecast`, `LedgerRebuild` |
| `experiments` | locked, two pairs, benchmark, analysis, shallow, deep, both, confirmation | `Phase3Experiment`, `Phase4Benchmark`, `StatisticsHistory`, `ExperienceValidation` |
| `memory` | contextual, store, shared store, primitive store, items, crashing, remembering | `ContextualRetrieval`, `MemoryStore`, `MemoryRetrieval`, `ExperienceLineage` |
| `endings` | search, diverse, locked, benchmark, pilot, validation, recorded | as above, with fairness |

Deadlock is not checked: a finished ledger, run, experiment or memory stops.

### Bounds, and why they are enough

* *Ledger*: three reservations; two runs in two stages (one in the dual run), one or two
  usage records; caps small enough that each of them refuses something; three
  reservations are the least with which a settled, an uncertain and an active row
  coexist.  The dual run has up to two checkpoints (`MaxCheckpoints`).
* *phase4_crash*: four requests, three items in batches of two (so the last batch is
  cut), one retry, two crashes over the run (`MaxCrashes`: a crash during the recovery
  from a crash is the longest dependency in the code, since every recovery starts
  from durable state only); each of the crashes may leave a file unwritten; the child cap
  is odd against an even price, so that a first attempt and a retry can each be refused.
  Interruptions and offline resumes are not bounded.  *phase4_shared*: two runs that build
  the same requests, one item each, one crash, which may leave an entry of the cache
  unwritten that both use; malformed answers are the ones retried.
* *searches*.  Phases 0 and 2: three steps, two processes, two faults (death or signal),
  one damaged value of any kind; `Limits` holds the values of `--interrupt-after`.  Phase 3: four
  attempts, of which three may be charged in the diverse search, so that the oracle
  cap and the attempt cap bind in turn; two processes, one of which may be killed in the
  incumbent search; programs of two meanings in two cells.  Archive: five insertions
  from a pool with ties of rank, lineage and program; the reserve holds two.  Mutation:
  four programs that hold every class of expression, two attempts in a row, every path,
  one drawn constant and one drawn mask; an elementary rule on a ring of four.
  Enumeration: the locked bounds of the code (36 bits, depth 8, 15 nodes; the last two
  never bind at 36 bits) under caps from 40 to 50000; all 29 529 expressions are
  examined, as DD-013 of the design decisions records.
* *paid*.  Phase 5: a canary and a pilot of one cell with two requests per child, one
  process, a crash and an edit of the tree; two processes at the canary only, because
  the pilot runs the same code.  Reader: two reservations (one counted, one missed) and
  one checkpoint.  Dry run: two planned children and one other run, which spends in the
  planned stage or another, two checkpoints.
  Rebuild: two runs of one request each and caps that hold both only after one has
  released money, one death; `Charges` and `Cost` make the worst case exceed what is
  charged.
* *experiments*: one or two tasks, one crash, up to two edits; a child is one step at a
  time, so two children suffice for an order, and three make one block of the Phase 4
  rotation.  Analysis: three tasks with one seed, every outcome of 0 or 1 per
  condition, 39 replicates, the least with which a two-sided p-value can fall below
  0.05, of the 27 possible draws (`MaxRepeats` rows are collected twice).  Validation:
  one or two lessons, one or two tasks a stage, two levels of AUC, one death or none; in
  *confirmation*, where two protocols follow one another, all children complete (`Ends`)
  and a lesson is shown to none or twice, so that the deep screen can promote it.
* *memory*: two facts of one or two tasks (five for a primitive), one or two records, two
  openings of the file, two processes in the shared store; all snapshots of five items
  and four lessons under all bounds up to two items, five bytes, four tokens; six
  contextual records under six configurations; recorded experience of four
  evaluations in two batches with two crashes, or five in a chain with none.
* *endings*: the same systems with one item fewer of each kind and one or two crashes.

Where a run holds several systems, the instances are those with which TLC finishes
in minutes; larger ones of the same modules (seven contextual records, six insertions,
three lessons, two cells of a pilot) differ in nothing the properties tell apart.

Symmetry is used in safety runs only, on runs, processes, ids or records that the
specification does not tell apart.

### Fairness

The operating system runs a live process: weak fairness of its `Step`, in `Spec` of
`Phase4Run` and, for each scenario, in `LiveSpec` of `MCEndings`.  Somebody starts and
resumes what is not finished:

* `Phase4Run`: weak fairness of `Start(r)`, strong fairness of `Resume(r, TRUE)`, the
  resume with the live opt-in (strong, because offline resumes and running processes
  disable it again and again).  A live process takes its next step or raises
  (`Step(r) \/ Raise(r)`).  Nothing is assumed of the provider but that it answers or
  fails, as the SDK's timeout guarantees.  `RunsFinish` excepts two kinds of runs: those
  whose first process died inside `_finalize` after `access-ledger.json`
  (`SealedByFirstProcess`, the disagreement `phase4_finish` below), and those in whose way
  is a file, directory or cache entry that was never written (`TornInWriting`).
* search and diverse: strong fairness of some start or resume of an unfinished run
  (running processes disable it).  Files are written atomically there, because nobody
  removes a torn one.
* locked and benchmark: weak fairness of `Begin`, the repeated command; pilot: of
  `Start(p, e)`; recorded: of `Resume`.  validation: strong fairness of `Begin`, because
  a running command disables it.
* What ends these is stated with its exceptions, each an obstacle no command removes:
  recorded, the run sealed by its first process; locked (`Blocked`), benchmark
  (`ChildBlocked`, `Wedged`) and validation (`Obstructed`), the children and files named
  above; pilot (`Blocked`), a request that may have been paid.

Crashes, edits and interruptions are never fair and are bounded.

### Disagreements between code and documents

Three are runs that TLC finds violated; `PROJECT.json` quotes the documents.

* `ledger_observed`: an observation identical to an earlier one is accepted but not
  appended (`model/ledger.py:488`).  Bill 3, authorised decrease to 1, bill 3 again:
  the bound goes on from 1.  `docs/dual_budget_policy.md:85` says observations are
  appended.
* `phase4_finish`: `access-ledger.json` contains the purpose the process declared, which
  differs between start and resume (`search/phase4.py:2114`, `:2203`, `:2325`).  After a
  crash of the first process between that file and the final status every resume
  raises a content collision.  `docs/design_decisions.md:469` says such a child is
  resumed.
* `phase4_cache`: two runs of one namespace ask the same question at once; the second
  `cache.put` collides after its answer is durable and paid for, in the process and
  in each resume (`search/phase4.py:1221`, `:1902`).  `docs/design_decisions.md:419`
  says a durable batch resumes.

Others were met while the modules were written.  They are visible in the actions of
the modules named; no property denies them, and no run is about them:

* `LedgerReader`: `cash_balance()` and `status()` send their queries without a transaction
  (`model/ledger.py:361`): a reservation that is settled between two of them is in no
  sum, and the upper bound reported can lie below all that held.
* `LedgerRebuild`: records that one ledger accepted are refused by the rebuild, which
  reserves their worst cases again in path order (`model/ledger.py:804`); an answer
  taken from the cache is a paid response without a reservation to it, refused as an
  orphan (`:850`); it settles a dispatched request under a record of its own, and the
  run that resumes writes another one and is refused for ever (`:833`); live use is
  refused on a missing ledger only if an answer of the provider is recorded
  (`search/phase4.py:504`).
* `Phase4Benchmark`: a crash between the output directory and the summary stops the
  benchmark for good (`evaluation/phase4_experiment.py:746`); the analysis says
  "completed-child-records-only" and has rows of children that did not complete (`:786`).
* `Phase4Run`: a process that dies between the creation of a file and its writing leaves a
  run that no resume can continue (`persistence/artifacts.py:51-58`,
  `search/phase4.py:1628`, `:2192`) or a cache entry that no run can read or replace
  (`model/cache.py:34-38`); one that dies inside `results.json` leaves it empty.
* `Phase4Forecast`: a benchmark announced ready can be refused by the cap of its stage
  (`evaluation/phase4_experiment.py:526-527`), in which others spend
  (`evaluation/phase5_live.py:1046`).
* `SearchLoop`: Phase 0 sets the status completed before it writes `results.json`, and no
  resume writes them (`search/loop.py:381`); an interrupted step may leave an empty
  proposal file, which no resume accepts (`persistence/artifacts.py:53`).
* `Phase3Run`: the analysis of a locked child holds the purpose of its process; a kill
  between that file and the status leaves a child that no resume completes
  (`search/phase3.py:884`).  `Phase3Experiment`: an experiment that passes its gate is
  published with the disposition of a negative one
  (`evaluation/phase3_experiment.py:1170`).
* `Phase5Live`: two processes at one experiment both pass the test for a request file and
  both send the request (`evaluation/phase5_live.py:1019`); a finished child is reused
  whatever tree it ran (`:893`); a registry whose input-token cap does not hold its
  plan is loaded (`:487`).
* `MemoryStore`: state and counterevidence are read before the transaction; two processes
  leave a promoted record with counterevidence (`memory/store.py:354`); a store is
  opened with another evidence catalog than the one it is bound to (`:160`).
* `ExperienceValidation`: a lesson with too little exposure is rejected instead of
  inconclusive when one exposed task is lost (`memory/experience.py:473`); the
  confirmation declares `prior_provider_children_on_these_bindings` to be 0 and looks in
  its own directory only (`evaluation/phase5_experience_confirmatory.py:81-107`), although
  it takes the tasks of the deep bundle, whose children exist as soon as the deep screen
  has promoted a lesson; a child killed behind its access ledger is resumed under
  another purpose and raises for ever (`evaluation/phase5_experience_live.py:276-287`).

Two further weaknesses TLC shows when `phase4_shared` is asked for
`NothingLeftHeld` and `ResultsDescribeRun`; no document claims otherwise, so they
are hazards and not findings: a reservation leaks when a process dies between
`reserve` and `prepare_request` and another run fills the cache, and `results.json`
can describe fewer requests than the run makes when a process dies after it and
another run frees money.

## 4. What is proved

TLAPS checks the theorems below for every value of the constants that satisfies the
named assumptions: any number of runs, stages, reservations, retries and crashes, any
caps and prices.

### The ledger (`LedgerProofs`, `LedgerViewsProofs`; assumption `LedgerConstants`)

* `TypeCorrect`, `CapsHold`, `CheckpointsHold`, `HalvesMeetAlways` (invariants of
  `LedgerSpec`), `SettlementsOnlyRelease`, `SettledStaysFinal`, `CeilingHolds`
  (action properties);
* `LedgerImplementsAccount`: for any scope with a cap that `reserve` checks, the
  ledger implements `SpendAccount`.

The inductive invariant is `LedgerInv == LedgerTypeOK /\ RowsOK /\ CapsRespected /\
CheckpointsStayValid`.  `RowsOK` is what the types do not say: an active row has no
actual or uncertain amount, a reconciled row at most its reservation, an uncertain
row exactly it; without it a settlement could raise a sum.  `CheckpointsStayValid`
needs that rows under a checkpoint are reconciled and that reconciled rows never
change, which `StepShape` gives: every step inserts one row at the end or settles
one active row.  The lemmas about `RunningSum` say what an insertion and a
replacement do to a sum, and that an injection into a table bounds a sum
(`SumInjection`); they rest on the definition of `RunningSum` for one index
(`RunningSumDef`, from the least-prefix argument of `PrefixExists`), so that no
induction theorem with an operator parameter is needed.

### The engine (`Phase4RunProofs`; also `Phase4Constants`, `Phase4Values`)

`Phase4Constants` is what the configuration checks and the price policy guarantee;
`Phase4Values` says that `None` is no answer and no status and that the ids and records
which the engine writes are ids and records of the ledger.

* `EngineConsistent`: the inductive invariant `Phase4Inv`.  It gives every state its type
  and relates, for each run, what a crash leaves behind (rows, counters, files, calls,
  the cache) to the place in the code: for each `pc`, in which state the last row is,
  what memory holds and what is already durable.  An invariant without this table
  is not inductive: that a row is sent once, for instance, holds because a process
  at *wire* has a dispatched row that was never called, and a process that recovers a
  dispatched row is never at *wire*.
* `EngineTypeCorrect`, `CalledOnce`, `RetriesAreChains`, `TerminalStaysFinal` follow from it.
* `EngineImplementsLedger`: all engines together implement `LedgerSpec`.  Every step takes
  one action of the ledger or leaves its variables alone, so the theorems of the
  ledger hold of the engines: `EngineRespectsCaps`, `EngineSettlesOnce`.

### The money of the engine (`Phase4RunProofs`)

* `MoneyAccounted`: the inductive invariant `MoneyInv` relates the rows of a run, its
  process and what the provider charges to the ledger's table: which reservation every
  paid row has and how it is settled, which one a process holds before it has a row,
  that an answer which was settled in the ledger but not in the row is still the
  answer that any recovery finds, and that every charge is covered by a reservation
  of its own.  `Keeps` says what the other runs' steps may do to the table.
* `RowsAgreeWithLedger` and `SpendStaysCommitted` follow from it, the second one through
  `SumInjection`: different calls have different rows and different reservations.

### The counters of the engine (`Phase4RunProofs`)

* `CountersAreSums`: each stored counter of a run is the number or the sum that its rows
  give.  The inductive invariant `CountInv` adds to `BudgetMatchesRows` that a row which
  waits for its answer has cost nothing yet; the process's own counters are those of
  `MemoryFits` in `Phase4Inv`.  What one row more or one row rewritten does to counts
  and sums is said once, in `TallyAppend` and `TallyRewrite`.

### The room below the caps (`Phase4EndProofs`)

* `ValidateNeverRaises`: the counters of a run, stored or in memory, are within every cap in
  every state, so that `validate()` never raises where the ledger is settled and the row
  is not.  None of the caps is checked where its counter grows; the argument is that room
  was made before.
* `RoomInv` is the invariant behind it.  Each row was asked for a batch that fits below the item
  and oracle caps with what the earlier rows brought, an answer in hand or in the cache has no
  more items than its batch, and what a process counts in memory is what is stored but for the
  new logical call or the answer in hand.  The batch belongs to the request: the
  invariant needs that equal hashes have equal batch sizes, which `model/types.py:209`
  gives (`Phase4Constants`); else the cache could return a larger batch.
* `OwnReservations` and `MoneyInv` give the cap on cost: each row's cost is within a reservation
  of its own, different rows have different ones, and the reservations of a run are within
  its child cap (`CapsRespected`, `SumInjection`).
* `EngineStaysSound` collects what is known of every reachable state: `EngineInv`.

### How a run ends (`Phase4EndProofs`)

A process that decides to end a run writes files from what it has in memory; if it dies, others
decide again, from the database, the ledger and the cache.

* `FinishedHoldsNothing`: a finished run has no active reservation, if no two runs build the same
  request (`Unshared`).  The invariant `HeldInv` says that a reservation without a row is
  the one of the very request that any process which takes up the run will make next, that
  it still wants it and that no cache answers it; every other reservation is that of a
  paid row, which `MoneyInv` relates to its settlement.
* `ResultsTellTheRun`: `results.json` says what the database says, at every moment from the
  first writer on, if there is one run (`Alone`).  `EndInv` says that the decision to end
  stands: with the stored rows, answers and counters no process decides otherwise, so none
  adds a row.
* `UnrefusedResultsTellTheRun`: with any number of runs the same holds of each run whose
  results do not say `cost-cap-exhausted`; only the ledger's refusal can be lifted by others.

The hypotheses are not weaker than needed: TLC shows both properties violated when two runs
share a request, or the ledger's cap (end of section 3).

`Phase4Inv`, `MoneyInv`, `CountInv`, `RoomInv`, `OwnReservations`, `HeldInv` and `EndInv` were
checked by TLC as invariants of the instances of `phase4_crash` and `phase4_shared` before they
were proved, the last two also with two runs that have requests of their own; so were
`ReaderInv` and `Phase5Inv` on the reader and the pilot of `paid`, and `SearchInv` on both
phases of `searches`.

### A reader of the ledger (`LedgerViewsProofs`)

* `ReaderNeverRefused`, `AnswerCountsOnce`, `AnswerMissesOnlyEnded`, together
  `BalanceIsSound`: what `cash_balance()` tells, read query by query without a transaction.
* `ReaderInv` keeps, for every place between two queries, what the sums read so far are
  compared with: the rows that were settled when reading began are in the sum of their state,
  a row that moves from active to settled after the first sums were read was read by
  neither, and the rows below the checkpoint that was read are still reconciled.  It
  rests on `StepShape`: rows are appended, an active one is settled once, and a
  settled one never changes.

### The paid Phase 5 experiments (`Phase5LiveProofs`; also `Phase5Constants`, `OneProcess`)

`Phase5Constants` is what loading the experiments checks and says that their children,
requests and records are names the ledger knows; TLC evaluates it on the instances of
`paid` and `endings`.  `OneProcess` says that processes follow one another.

* `OneProcessPaysOnce`, `NoChargeEscapes`, `Phase5TypeCorrect`, together
  `PaidOnceAndCoveredHolds`.
* The inductive invariant `Phase5Inv` is about the request file.  Every call has one, it is
  written before the call and never removed, and the head of the request loop goes on only
  where it is absent; so a process between that look and its dispatch (`BeforeCall`)
  knows that no request of its place was sent under any version (`Unsent`).  With two
  processes this is false: the second may send between the look and the dispatch.
* That no charge escapes needs more: a settled row was sent, rows have different ids
  and reserve the bound of one request, and the process that settles remembers the
  charge of the one call there was.  `PaidOnce` is part of the invariant, because a second
  call with the same reservation would be covered by nothing after the first is settled.

### The Phase 0 and Phase 2 searches (`SearchLoopProofs`; also `SearchConstants`)

For any number of processes, steps, kills, signals and decayed values, of which the runs take
two, three, two, two and one:

* `SearchEvidenceHolds`: the ledger of events has no gap and no repetition, its proposals are
  durable before it, and `results.json` describes every step; `SearchTypeCorrect`.
* `CompletedSearchReplays`: a completed Phase 2 run replays.
* `ReplayMissesNothing`: a completed run replays exactly while nothing has changed that a
  replay vouches for (`Untouched`), also when several values have decayed.  It vouches for
  proposals, candidates and results with their hashes; the sequence, payload, payload
  hash and (Phase 0) type of every event; Phase 2's evaluations; the event hashes, the
  analysis hash and the first exact cost in `results.json`; and the manifest of the
  analysis.  It does not compare Phase 0's evaluation rows, the logical costs other than
  the first exact one, Phase 2's event types, the source expressions and schema versions of
  candidates, `next_step`, the task's row and the files of the analysis beside their
  manifest (`replay.py:111-201`, `:533-643`): damage to those goes unseen, and the property
  says so.  That two damaged values could hide one another is what the proof excludes: a
  decayed value is recognisable wherever it is, since none of the values that count
  is compared with itself only.
* `OrphansStayIdempotent`: `docs/architecture_phase0.md:43` says that an interrupted transaction
  leaves only an idempotent orphan proposal.  So it is if no process dies between the creation
  of a file and its writing (`AtomicFiles`); without that the file stays empty and every
  resume raises a collision.

The inductive invariant `SearchInv` has two parts.  While nothing has decayed, `Sound` says
what is stored, step by step, and what each process relies on at its place in the code
(`Knows`): its step is not beyond the committed ones, the proposal it is about to commit is
written, and past the last step the analysis and the results are those of the whole run.
`KnowledgeKeeps` says that no other process takes such knowledge back, because the run only
grows (`Grows`); this is what lets any number of processes resume the same run.  After a
decay, `Decayed` says that the run is completed, that those who open it leave at once, and
that each stored value is the one written or a damaged one.

### The archive and the incumbent (`ArchiveProofs`; also `ArchiveConstants`, `PoolConstants`)

For any pool of candidates, any history of insertions, repeated ones included, and any size of
the reserve (`searches` takes five insertions into two cells):

* `BestSurvives`: the elite of a cell is the best candidate that belongs there and the
  incumbent the best of all; `ElitesAreMonotone`: no insertion takes back such a choice;
* `CellsStayDiverse`, `ArchiveTypeCorrect`: what a cell may hold beside its elite;
* `NothingLeavesUnrecorded`: the recorded decisions name every candidate that leaves.

The last two are about the cut of the sorted reserve.  A sorted reserve exists, by the
insertion of one member at a time (`CanBeSorted`, from the least prefix that cannot be sorted),
and is the only one in order (`OrderIsUnique`), as identifiers decide between equal ranks.
So a reserve that the cut leaves with the same members is the same reserve, which is what
`insert` compares to decide on a rejection, and at most one member makes room, the one
that `_evicted` names.  `Update` collects what an insertion makes of its cell; the
inductive invariant `ArchiveInv` is the conjunction of the properties with the order inside
the reserves, and was checked by TLC first.

### The Phase 3 run (`Phase3RunProofs`; also `Phase3Constants`)

For any number of processes, programs, attempts, kills and signals, and for either mechanism
(`searches` takes two processes, four attempts and one kill):

* `ResumesRestore`: the rows restore every decision they record, and whoever is about to make
  the next attempt, or to write the end of the run, holds what they restore;
* `CompletedRunsReplay`: a completed run passes the replay of its proposal files;
* `BudgetAddsUp`, `DuplicatesAreTrue`, `ResultsAreTrue`, `Phase3TypeCorrect`.

The invariant `Phase3Inv` says of the rows that each one is what an attempt makes of the
mechanism and the budget before it (`RowFits`, `RowsFit`), and of the processes what they rely on
(`Knows`): one that holds the first *k* rows has the mechanism of *k* rows, and the attempt
it is about to commit fits there.  Others may have overtaken it; then its attempt has an index
that is taken, which `append_phase3_step` refuses.  What the rows imply without any process,
the flags, the counters and the replay, is proved of every sequence of rows that fit, one row
more at a time from the least one that fails, since no induction theorem can be
instantiated here.  Nothing is assumed of the decisions of the mechanism, which are those of
`ArchiveProofs`.

### What is only model-checked

* Liveness (`RunsFinish`, `SearchesEnd`, `ExperimentsEnd`): fairness and `ENABLED` are out of
  the prover's reach.
* `ParentsWereHeld`, of the Phase 3 run: the order of the branches is a `SelectSeq`, which the
  provers do not know.
* The scenarios of `experiments` and `memory`, of `searches` the mutation and the enumeration, and of `paid` the dry run, the rebuild,
  two processes on one experiment, and what summaries report.  Modules with `RECURSIVE`
  operators (`Language`, `Mutation`, `Enumeration`, `ExperienceLineage`) have no proofs, and
  what a recursive definition computes for every input cannot be proved here.
* The disagreements are counterexamples and need no proof.

## 5. Plan

The model is complete along its plan; what is left is proof.

1. `Phase3Run`: `ParentsWereHeld`.

## 6. Not modelled, and why

* *Configuration, command line, tasks and authority*: checks of constants before anything
  starts; no state of their own.  Which split a command may open is a comparison with
  a list.
* *Prompts, reports, plots and the JSON form of programs*: text; hashes and opaque values
  stand for them.  The residual code of the oracle is arithmetic on the number of
  errors.
* *Rate arithmetic of the price policy*: pure multiplication and rounding up; its result
  enters as `MaxCost` and `CostOf`.
* *Extraction of the retrospective corpus, induction of lessons, the library of learned
  primitives*: single-process transformations of files; what they yield is the initial
  state of `ExperienceValidation` and `MemoryStore`.
* *Phase 5 smoke, contextual and transfer orchestration*: the same children, resumes and
  publications as `Phase4Benchmark` and `Phase5Live`; only what differs (records,
  snapshots, retrieval) is modelled.
* *What a stored value is worth that no code compares*: timestamps, run and event ids and
  runtimes are left out of the databases; `manifest.json` of a run is taken as given.
* *The random proposer*: draws from the grammar that `Mutation` draws from.
* *Two processes on one Phase 4 run*: the commands start a run's only process themselves
  and no document promises anything for two; the hazard is listed.
* *Runs of unpaid providers*: the steps of `Phase4Run` without the ledger.
