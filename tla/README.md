# Verification of the recording transcription service

The service takes audio uploads over HTTP, stores the files in a local directory and the
metadata in MySQL, and has a pool of workers transcribe and summarise each recording
asynchronously. MySQL is the queue, the lock manager and the only memory that survives the
process. This directory holds TLA+ models of the service, configurations for TLC and proofs
for TLAPS. Paths below are relative to the repository's root.

## 1. Inventory

| component | code | state | operations |
| --- | --- | --- | --- |
| Task domain | `internal/domain/recording/task.go`, `event.go` | status, attempt, event number of a task | the edges of the state machine, allocation of event numbers |
| Recording transactions | `internal/infrastructure/persistence/mysql/recording_tx.go` | tables `recordings`, `tasks`, `task_events`, `recording_hash_locks` | create or reuse by content hash, retry, mark as deleting, purge |
| Processing transactions | `.../mysql/processing_tx.go` | the same tables | claim, save transcription, complete, fail, audit, reset in flight |
| Queries | `.../mysql/query.go` | none | task, recording, list, recordings being deleted |
| Processing service | `internal/application/processing/process.go` | `halted`; per round: execution key, task context | one round: claim, register, recheck, transcribe, save, summarise, complete; failure, panic, halt |
| Start-up recovery | `internal/application/processing/recover.go` | none | audit, resume deletions, reset in flight, remove orphan files |
| Upload, delete, retry use cases | `internal/application/recording/*.go` | none | file then transaction then compensation; mark then cancel then erase then purge |
| Worker pool, cancel table, clean-up loop | `internal/infrastructure/worker/*.go` | wake channels, contexts, map from execution key to cancel function | start, notify, drain, stop; register, unregister, cancel; periodic scan |
| File store | `internal/infrastructure/filestore/local/store.go` | files, temporary and final | save, delete, list |
| Process life cycle | `bootstrap/wire.go`, `bootstrap/lifecycle.go` | ready flag, run / claim / clean-up contexts | start-up order, drain, two-phase shutdown |
| HTTP interface and event stream | `internal/interfaces/http/**` | per stream: last status sent | decoding, rendering, polling stream of one recording |
| LLM and ASR adapters | `internal/infrastructure/llm`, `asr/mock` | none | one external call |
| Migrations, configuration, logging, identifiers | `.../mysql/migrate.go`, `bootstrap/config.go`, `internal/infrastructure/logging`, `internal/pkg` | ledger of migrations | roll forward; parsing; output |

**How they interact.** HTTP handlers call use cases; use cases and workers call the
transactions, which are the only writers of the tables. Upload and retry wake the pool after
their commit (a full channel drops the wake-up, polling makes up for it). Delete reaches a
running round only through the cancel table, and everything else through the mark
`deleting_at` in the row. `ProcessService.OnHalt` starts the shutdown from inside a worker.
Start-up runs audit, resumed deletions, reset and orphan removal before workers and listener
exist; the container restarts the process whenever it ends (`compose.yaml:63`).

**What is hard.** Several workers, handlers, the clean-up loop and the shutdown work on one
row; between any two transactions of a round the row may be retried, marked, purged or
recovered. A commit's outcome may be unknown to its caller. Files and rows change in separate
steps. Transactions lock rows in two orders. The process may end anywhere, in the middle of a
migration too, and its shutdown must end whatever hangs. `PROJECT.json` lists the hazards, each
at its line and with the properties aimed at it, or with the reason why none is.

**What makes each component correct.**

- *Rounds*: one executor per (task, attempt); a result is written only by the round that is
  current and only while the recording is not being deleted; a row never mixes the products
  of two rounds; the events replay the row; whatever happens, the task settles.
- *Cancel table*: exactly the rounds between register and unregister; a deletion reaches
  every call in flight.
- *Deletion*: once marked never resurrected, and carried out in the end.
- *Recovery*: nothing in flight is forgotten, nothing is taken up twice.
- *Queries and stream*: no answer shows what at no moment was to be seen; the events of a stream
  are in order, end with the task's outcome, follow the task, and reach the client as they are
  written.
- *Row locks*: transactions that take their locks one by one act as if each were one step, and
  the queue moves on.
- *Migrations*: the service runs on the whole schema or not at all.
- *Process*: nobody works before recovery is over; a shutdown ends and closes the database last;
  every queued task is taken, with or without wake-ups.
- *Upload and files*: one live recording per content; a live recording has its file; files
  without a row come from failures only and the next start-up removes them.

## 2. Modules

| module | what it is | code |
| --- | --- | --- |
| `TaskDomain` | statuses and edges | `task.go` |
| `TaskLifecycle` | abstract specification: what readers of the task row may rely on | `task.go`, numbering rules |
| `Pipeline` | workers, transactions, retry, deletion, halt, shutdown, crash, recovery | `process.go`, `processing_tx.go`, `recording_tx.go`, `canceltable.go`, `pool.go`, `delete.go`, `lifecycle.go`, `wire.go` |
| `MCPipeline` | symmetry for TLC | |
| `PipelineProofs` | type correctness, with the lemmas about rows and keys | |
| `ExecutorProofs` | the inductive invariant and four theorems about executors and deletion | |
| `RowProofs` | the eleven ways a row moves; products, late results, owners, events, the refinement of `TaskLifecycle` | |
| `OwnerProofs` | the inductive invariant about who goes on with a task in flight | |
| `Uploads` | uploads against deletions, hash lock, files, orphan removal | `upload.go`, `store.go`, `recording_tx.go`, `delete.go`, `recover.go` |
| `UploadsProofs` | the inductive invariant and six theorems about recordings and files | |
| `MCUploads` | symmetry for TLC | |
| `Queries` | readers of two tables without a transaction, against writers; the event stream | `query.go` (persistence, use case, handler), `summary_stream.go` |
| `QueriesProofs` | the inductive invariant about readers and streams, and four theorems | |
| `RowWrites` | what each transaction asks of the rows and writes to them | `recording_tx.go`, `processing_tx.go` |
| `AtomicRows` | abstract specification: a transaction decides and writes in one step | the same |
| `RowLocks` | the transactions lock by lock, workers, requests and finalizers that issue them | the same |
| `RowLocksProofs` | the inductive invariant about locks and reads; the refinements of `AtomicRows` and `TaskLifecycle` | |
| `Schema` | the ledger and the files statement by statement | `migrate.go` |
| `Pool` | the workers' loop, wake channels, contexts | `pool.go` |
| `Service` | composes `Schema` and `Pool` with start-up, HTTP server, requests, clean-up, shutdown, crash and restart | `wire.go`, `lifecycle.go`, `main.go`, `cleanup.go`, `router.go`, `upload.go` |
| `MCService` | the list of the three SQL files | `migrations/*.sql` |
| `ServiceProofs` | the inductive invariant and five theorems about the process | |

They share the rows but not the questions: `Pipeline` sees creation as one step and ignores
files, `Uploads` ignores what workers do to the task row, `Queries` keeps of a row what a client
is shown, `RowLocks` leaves products and failures out and looks between two locks, `Service`
keeps of a row whether it is queued, in flight or settled.

### Pipeline

State and code:

- `rec`, `row`, `lastEvent`: the three tables, one aggregate per task; `row.transcript` and
  `row.summary` hold the *attempt* that produced the text, which is all the properties tell
  apart; `row.due` says whether `next_retry_at` has passed.
- `pc`, `exec`, `tries`, `cancelled`: the local state of `ProcessService.Process` in each
  worker: where it is, its execution key, the failed writes in `persist`, whether its
  `taskCtx` is cancelled.
- `cancels`: `CancelTable`; an entry records whose cancel function it is.
- `fin`: a DELETE handler, or a pass of the clean-up loop over one row.
- `phase`, `halted`: the process. `up` admits claims; `draining` is after `Lifecycle.Drain`;
  `stopped` is after `cancelRun`; `down` until the container starts it again; `resuming` and
  `resetting` are steps 4 and 5 of start-up.

A database transaction is one step. That this loses nothing but deadlocks is what `RowLocks` shows
and `RowLocksProofs` proves: the lock-by-lock transactions implement one-step ones. What the
caller *learns* is separate: with fault `commit` a transaction is applied and its caller sees an
error; with `write` it is rolled back. Between two transactions or calls a worker touches only its
own state, so that is one step too.

`SKIP LOCKED` passes over a candidate that another transaction holds, so any due task may be the
first one seen and `ClaimNext` chooses freely; order and head-of-line blocking are `RowLocks`'s.
`GetTask` and `GetDeleting` read recording and task in two statements; whatever changes in between
is something the next transaction checks again. When the read of the task row fails, `deletingOf`
swallows the error and the finalizer goes on without knowing its task (`known = FALSE`).

`InspectIntegrity` always passes in the model because rows are written and purged in pairs
(part of `TypeOK`, proved). An audit that cannot be read, which takes the same branch, is in
`Service`.

### Uploads

`disk`, `rec`, `content` are indexed by the request that made them: file names and recording
ids are fresh UUIDs. `lock` holds the owner of each row of `recording_hash_locks`
(`ensureHashLock` makes sure beforehand that the row exists). `req` and `del` are the uploads
and deletions with what they were answered; `answer` is what the client was told, `Lost` when
the process ended first. Transactions are several steps here, because the hash lock is the
subject: lock, look, commit. `Recover` is the start-up's deletions and orphan removal, which
run alone; it may be cut off at any point and start over.

### Queries

`rec` and `view` are what the two tables show; `view` is `TaskView` without times and texts:
`waits` for a set `next_retry_at`, `error` for a set `error_code`. Writers are the transactions of
`Pipeline` as a reader sees them (`Later`): committed at once, and refused once the recording is
marked. Readers write nothing, so one stands for all: `reader` is the request under way, with what
its first statement returned, `sent` what its handler has written, and `pushed` how much of that
has left the server. The handler of a stream never flushes: what it writes leaves when the buffers
of `net/http` happen to be full (pings fill them too) or when it returns, so `pushed` may lag
behind `sent` by any amount while the stream is open, and what has not left when the client goes
is lost. A stream is a detail request that opens it and then, at each tick, another. `StatusDue`
compares whole views, as the code compares rendered keys: the `%v` of a `*time.Time` prints the
time, not the pointer. `seen` is history: what could be seen, of any recording, since the reading
began. A restart of the process ends every reader, so `Queries` is about one life of the process.

### RowLocks

`tx[s]` is the transaction a session has open: its kind, its recording, how many locks of
`Plan` it has and what it has read under them. `key` is the round of each worker; `named` makes
the names of uploads fresh. A row is locked when some `tx` has reached it, so there is no lock
table besides. Every write follows the transaction's last lock, so writing and committing are one
step (`Commit`, `Insert`); a purge deletes row by row, but nothing reads what it has deleted until
it commits. `saw` is what the code reads into its structs: the next event number and attempt are
computed from it, while `Matches` tests the row as it is.

The isolation level is READ COMMITTED, without gap locks: a transaction that finds no row locks
nothing, and the insert of an upload is kept apart by the hash lock only. `task_events` has no
index on `recording_id` (`0001_init.sql:43`), so a purge's first DELETE scans the table and may
wait for a new event of another recording; the model has it wait for those of its own. An event
is inserted under its transaction's last lock, so whoever is waited for so goes on to commit, and
no circle of waits is left out. `ClaimNext` looks at the
oldest task it can lock (`SKIP LOCKED`) and gives up if that one is being deleted. A stage write
may be issued at any time of a round and repeated, as `persist` does. Deadlocks are broken by
InnoDB: the one that has written least is rolled back, and its caller gets an error, which for a
worker's write is a further try and for a request an answer.

### Service, Schema, Pool

`applied` is what the database has seen of each file, `ledger` the table `schema_migrations`,
`migrate` a run of `Migrate`. MySQL commits each DDL statement by itself, and none of the
statements in `migrations/` can be executed a second time (`CREATE TABLE`, `ALTER TABLE ... ADD`,
`CREATE INDEX`, all without `IF NOT EXISTS`); a statement whose connection breaks may have taken
effect or not.

`loop[w]` is where a worker is in `Pool.loop` and the task of its round, `wake[w]` its channel of
one, `claiming`, `running` the two contexts. A round is one action with the outcomes `Pipeline`
knows in detail: the task settles, is queued again, stays in flight because the round was dropped,
or the service halts.

`main` follows `NewApp` and `Run`; `shutdown` follows the body of `Lifecycle.Shutdown`, which
main's deferred call and the goroutine of `OnHalt` share through `sync.Once`. `budget` is
`SHUTDOWN_TIMEOUT`, counted from the drain; `gaveUp` says that a later bounded wait ended without
what it waited for. `req[t]` is the request that queues task `t`: an upload passes the gate once
and then reads its body for as long as its own timeouts allow, a retry commits at once; both wake
the pool after their commit. Neither hears of the shutdown: handlers run under the request's
context. What the database holds outlives `ProcessEnds`, nothing else does.

Time is left out: the ticker, the budget and each bounded wait may end at any moment, which
includes every order they can end in. That is also why "not ready while draining" is not claimed:
a halt between `pool.Start` and `ready.Store(true)` (`wire.go:157`) would have ready set during
the drain, which real timing all but excludes.

## 3. Runs

| run | instance | shows |
| --- | --- | --- |
| `round` | 1 task, 2 workers, 2 finalizers, limit 3, `reset`, all faults, attempts to 4 | all safety properties but `InFlightOwned`, and the implementation of `TaskLifecycle` |
| `interrupt` | 2 tasks, 2 workers, 1 finalizer, limit 2, `interrupt`, faults write, erase, stop, crash, attempts to 2 | products, audit trail and life cycle under the other recovery mode; no task in flight without a worker |
| `live` | 1 task, 2 workers, 2 finalizers, limit 2, faults write, erase, view, attempts to 2 | every task settles, every deletion completes |
| `files` | 3 uploads, 2 contents, 2 deletions, all faults | hash lock and files; a completed start-up leaves referenced files only |
| `stream` | 1 recording, limit 2, manual retry up to attempt 3, failing reads | the answers of all requests, and what the handler of a stream writes |
| `locks` | 2 recordings of 1 content, 1 worker, 1 request, 1 finalizer, limit 1, one manual retry | atomicity of transactions, event numbers, who can deadlock, the domain's state machine, the queue |
| `process` | 3 files of 3, 2 and 1 statements, 1 task, 2 workers, 2 signals or crashes | migration, start-up, pool, shutdown |
| `deleted` | 1 recording, failing reads | **expected violation**, see section 6 |
| `pushed` | 1 recording, limit 1, no faults | **expected violation**, see section 6 |
| `stuck` | 1 task, 1 worker, 1 finalizer, fault read, with fairness | **expected violation**, see section 6 |
| `unknown` | 1 task, 1 worker, fault commit | **expected violation**, see section 6 |
| `budget` | 1 task, 1 worker, no faults | **expected violation**, see section 6 |

**Bounds.** `MaxAttempt` is the only bound in a guard: a task with a higher attempt stays queued.
In `round` it is 4, one more than the limit of scheduled retries, so that scheduled, manual and
recovery retries all occur and follow one another; the actions do not otherwise depend on the
number. Two workers are enough for a round and its successor to overlap; a third would hold a
third key of the same task, related to each of them as they are to each other. Two finalizers race
on one recording. One task suffices where the property speaks of one row; `interrupt` has two for
what tasks share: recovery's batch update, the workers. In `locks` one session of each sort is
enough for a lock of every sort to be held by one and wanted by another, for both orders of task
and recording to meet, and for an upload to race with the deletion of what it would reuse; two
recordings make a queue with a head. A second worker there would only issue the same transactions
under the same locks, which the proof covers for any number. In `process` the two workers meet in
the wait for all of them, one task suffices since tasks are only counted off one by one, and two
stops let a crash in a migration or a round be followed by a signal, or a second crash; halts and
failing start-ups are not bounded. Three uploads allow a creator, a reuser and one that comes
after the deletion, and two contents show that locks of different contents do not mix. One
recording suffices in `Queries`: no statement there relates two of them, and a page fails as soon
as one of its members has no task. A stream sees three rounds, one scheduled and one manual retry
among them, so that it can miss whole rounds between two polls. `AutoRetryLimit` is 3 in the code
and in `round`; smaller in runs where only its existence matters. With limit 1
`locks` has a manual retry but no scheduled one; that edge, lock by lock, is covered by the theorem
`RowLocksImplementsLifecycle`, which holds for any limit. Workers, finalizers, requests,
contents and deleters are symmetric; symmetry is used in runs of safety properties only.

**Faults** are switched per run by `Faults`. `interrupt` leaves out `commit`, `read` and `panic`
because with them `InFlightOwned` is false, and the code knows it: a claim whose outcome is
unknown, a failed read in the recheck, and a panic whose one attempt to record it fails each leave
a task in flight until a restart. `stuck` shows what that means for the failed recheck: no restart
follows. `round` has these faults for the safety properties, `OnlyOwnersMove` among them: what
nobody holds stays as it is until start-up recovery. `live` leaves them out for the same reason,
and crashes because a process that crashes for ever settles nothing. The failures of external
calls are no fault and occur everywhere.

**Deadlock** is checked in all runs of `Pipeline` and `Queries`, where recurring polls, restarts
and requests never let the system stop. `Uploads` and `RowLocks` stop when their finitely many
uploads have been answered and nothing is left to do, and `Service` when a server without workers
has had its signals, hence `CHECK_DEADLOCK FALSE` there.

**Fairness** (`Fairness` in `Pipeline`), used by `live`:

- each worker goes on (weak): transcription is a timer, the LLM call has `LLM_TIMEOUT`, writes
  have `persistTimeout`, the pool polls; and a claim that is tried for ever succeeds
  (strong): the outage ends, and a candidate that is being deleted does not head the queue for ever;
- `next_retry_at` passes (weak): time does;
- a finalizer that began goes on (weak), and its removal of a file and rows succeeds if it is
  tried for ever (strong): the fault is an outage that ends, which "for ever" needs;
- the clean-up loop takes up a marked recording (strong): it is a goroutine with its own
  ticker and scans all of them; in the model it shares finalizers with DELETE requests,
  which come and go and would otherwise disable it again and again;
- a halted service drains, a draining one ends, a stopped one is booted (weak): `OnHalt` starts
  `Shutdown`, whose waits are bounded, and compose restarts the process;
- the reset at start-up succeeds if it is tried for ever (strong).

In `Queries` (`FairSpec`, used by `stream`) a reader's next statement and the ticker come (weak):
statements end with an answer or an error, though only the database and the connection see to
that, since the handlers set no deadline (section 6); the ticker's period is 500 ms. Writers owe
nothing, and nothing is assumed of the server's buffers.

In `RowLocks` (used by `locks`) a transaction goes on (strong: the database serves those that wait
for a row in turn) and deadlocks are broken (weak); workers come back to the queue (strong: a
claim may find nothing now and then) and end their stages (weak: calls have limits); the clean-up
loop comes back to every marked recording (strong: it shares its session with others). So
`QueueMovesOn` takes it that a purge succeeds in the end: a file that can never be removed would
keep its task at the head of the queue, and the tasks behind it waiting, for good.

In `Service` (used by `process`) main goes on, and a process that ended is started again (weak:
compose restarts it, and an operator one that ended by itself); reading the ledger, the reset and
listening succeed if they are tried for ever (strong: each failure ends the process, and outages
end); the shutdown goes on and its timers go off (weak); workers' loops and rounds that are not
cancelled go on (weak); a queue that is read again and again is read in the end (strong). Nothing
is assumed of requests, of a pass of the clean-up or of a cancelled round: `ShutdownEnds` holds
although each of them may hang.

`stuck` runs under the fairness of `live`: what it finds is not for want of a worker or a poll.

Nothing obliges users to upload, retry or delete, or a fault to occur.

## 4. Properties

`Pipeline`: `TypeOK`; `SingleExecutor`, `KeysBehindRows` (rounds and rows); `TableMatchesRounds`,
`CancelReaches` (deletion and calls); `ProductsOfThisRound`, `LateResultsDropped`, `AuditTrail`
(rows); `OnlyOwnersMove`, `InFlightOwned` (tasks in flight and their workers);
`ImplementsLifecycle` (refinement); `EveryTaskSettles`, `DeletionCompletes` (liveness). `Uploads`:
`TypeOK`, `OneLivePerContent`, `LiveHasFile`, `OnlyFailuresLeaveFiles`, `ReuseIsLive`,
`RecoverySweeps`. `Queries`: `TypeOK`, `AnswersWereTrue`, `StreamInOrder`, `StreamEndsAsSaid`,
`StreamFollows`. `RowLocks`: `TypeOK` (with: no row is locked twice), `EventsNumbered`,
`DeadlocksCrossOrders`, `Serial`, `ImplementsLifecycle` (refinements), `QueueMovesOn` (liveness).
`Service`: `TypeOK`, `ServesWholeSchema`, `RoundsOwnTheirTask`, `CutOffNeedsHands`,
`DatabaseClosedLast`, `ShutdownEnds`, `EveryTaskTaken` (liveness). Each is stated above its
definition. `StaleMeansSuperseded`, `BudgetOfThreeRounds`, `StuckMeansExit`, `DeletedMeansGone`
and `StreamPushes` state what documents say and the code does not keep (section 6).
`StreamFollows` and `StreamPushes` go together: the first is about what the handler writes, the
second about when that leaves the server. The operators commented "Mutant" are bugs someone could
well make; with each in place of the operator it mutates, TLC finds the property it belongs to
violated (`PROJECT.json`, "mutants").

## 5. Proofs

TLAPS proves, for all tasks, workers, finalizers, faults, retry limits and both recovery modes:

- `PipelineProofs!TypeCorrect`: `Spec => []TypeOK`. Type correctness carries two facts the rest
  leans on: `row[t] = NoRow <=> ~Exists(t)`, and `exec[w] = NoKey <=> pc[w] \notin Holding`.
  The lemmas `CreatedRow` ... show once that each row a transaction writes is a row; the
  invariant's four parts (rows, workers, finalizers, process) are preserved action by action.
- `ExecutorProofs`: `ExecutorInv` is the conjunction of `TypeOK`, `KeysBehindRows`,
  `SingleExecutor`, `TableMatchesRounds`, `MarkOutlivesFinalizer` and `CancelReaches`, and is
  inductive. The parts need each other:
  - `SingleExecutor` is not inductive: a claim of attempt n is safe only if nobody holds
    (t, n), which is `KeysBehindRows`: rows are ahead of every key held, strictly so while
    they are queued. Every writer that queues a task (failure, retry, recovery) therefore has
    to raise the attempt, and the purge has to leave no row.
  - `TableMatchesRounds` needs `SingleExecutor`: a worker that removes its key must not remove
    another's entry.
  - `CancelReaches` needs `TableMatchesRounds` (the table lists every call in flight) and
    `MarkOutlivesFinalizer` (once a finalizer has begun, its recording is never live again):
    the worker the table missed is stopped by its recheck, since `RoundIsCurrent` is false
    from the mark on.

  From it follow `RoundsNeverAhead`, `OneExecutorPerRound`, `TableIsExact` and
  `DeletionReachesCalls`.

- `RowProofs` reduces `Pipeline` to its rows: by `RowMoves` every step moves every task in one of
  eleven ways (kept, inserted, due, marked, purged, restarted, claimed, saved, completed, given
  up, retried), each with what the conditional update of its transaction has checked. Finding
  those conditions needs `ExecutorInv`: that a worker writes the task and the attempt it claimed.
  What remains are questions about a single row:
  - `ProductsAreOfTheRound`: `ProductsOfThisRound` is inductive over the moves.
  - `NoLateResults`: of the moves of a marked task only its purge and its restart are left, and
    the restart comes from recovery alone.
  - `NobodyElseMoves`: in flight a task is moved only by the worker that holds its round. Each
    write checks the attempt under the locks and moves its worker on, and the other actors leave
    tasks in flight alone short of a purge or a restart.
  - `EventsReplayTheTask`: the action property needs the invariant `EventsTell`, that the newest
    event leads to the row's status and attempt. An automatic retry is the exception it has to
    name: its event tells the attempt that failed while the row has the next one.
  - `PipelineImplementsLifecycle`: `life` maps the rows to `TaskLifecycle`, each move is one of
    its steps or a stutter, and other tasks stay as they are.
- `OwnerProofs!TasksInFlightHaveWorkers`: `InFlightOwned` under the hypothesis `ToldOfWrites`,
  that no commit's outcome is unknown, the recheck does not fail, and the write after a panic,
  which `process.go` tries once only, does not fail. The hypothesis is no convenience: with
  `commit`, with `read`, or with `panic` and `write` together TLC finds a task in flight without
  a worker, and the code leaves such a task to the next start-up; with all other faults, `panic`
  among them, the theorem holds. `InFlightOwned` is not inductive: it does not say that the owner
  goes on. `Manned` adds where in its round the owner is for each status of the row;
  `CancelledForCause` that a call is cancelled only for a deletion or a forced stop, so that a
  live task of a serving process never loses its owner that way; `PanicsAreFaults` which workers
  may be at the one write that is not repeated.
- `QueriesProofs`, for all recordings and rounds, all of the run `stream` that is safety:
  `ViewsCorrect`, `NothingHiddenIsShown`, `StreamsRunForward` and `StreamsEndOnce`. `QueriesInv`
  adds to them `ReaderPlaces` (which request is where, and what it can have sent by then),
  `HasSeen` (between its two statements a request has seen what the first one found, and what the
  second one can still find is either gone or was to be seen too) and `HasTold` (a stream has told
  only statuses of rounds that went on, and its task has not fallen behind them). `StreamInOrder`
  needs `HasTold`: the next status comes after the last one told because the row only moves
  forward, however many rounds lie between, and an equal one is not sent. `HasTold` in turn needs
  that an outcome ends the stream, since a manual retry takes a failed task back to its queue.

- `RowLocksProofs`, for all recordings, contents, workers, requests and finalizers: `SpecTypeOK`,
  `SpecEventsNumbered`, `SpecDeadlocksCrossOrders`, `RowLocksImplementsAtomicRows` and
  `RowLocksImplementsLifecycle`. The inductive invariant `IInv` says of each transaction which
  rows it has locked (`HasHash`, `HasEvents`, `HasTask`, `HasRec`, from its kind and its progress
  through `Plan`), that no two have the same (`Apart`), that what it read under a lock is still so
  (`Fresh`) and that it therefore still decides as it did (`Decided`); and of the rows that they
  come and go together (`RowsPaired`). `Fresh` needs `Apart`: a commit changes only rows it has
  locked. The delicate cases are the ones without a row to lock: a purge deletes events before it
  locks the task, which is safe because no transaction writes for a recording that is marked; and
  an insert finds no live recording of its content, which stays so because uploads of one content
  exclude each other by the hash lock. Then a `Commit` or `Insert` is a step of `AtomicRows`, and
  every other step leaves the rows alone. Both sides of this refinement take `Written` as it is;
  that `Written` keeps to the state machine of the domain is the second one, which goes from the
  steps of `AtomicRows` on and adds `RowsWhole`: a recording that is there has a task with a
  status, an attempt and an event, and nothing is left of any other. `DeadlocksCrossOrders`
  follows from `Apart` and `Plan`: two deletion requests or duplicate uploads would share a hash,
  and all others lock events, task and recording in this one order. With
  `PipelineImplementsLifecycle` the two models of the transactions, one lock by lock and one with
  failures and restarts, implement the same abstract specification.
- `ServiceProofs`, for any list of files, tasks, workers and number of stops: `SpecTypeOK`,
  `SpecServesWholeSchema`, `SpecCutOffNeedsHands`, `SpecRoundsOwnTheirTask` and
  `SpecDatabaseClosedLast`. `IInv` is `SchemaInv` (files in the ledger or counted as applied by
  the run of `Migrate` have all their statements, and the file it is at has at least those it
  ran), `MigratedFirst`, `ServiceTyped`, `OwnInv` (there is no worker before the pool is started,
  so the reset cannot take a task from under one) and `DownInv` (what each step of the shutdown
  has waited for is over or given up). It stays over since the listener is shut, a worker that is
  gone does not come back, and no pass of the clean-up begins during a shutdown.

- `UploadsProofs`, for all requests, contents, deleters and faults: all of the run `files`, namely
  `SpecTypeOK`, `SpecOneLivePerContent`, `SpecLiveHasFile`, `SpecOnlyFailuresLeaveFiles`,
  `SpecReuseIsLive` and `SpecRecoverySweeps`. `IInv` adds to the types and `LocksHeld` what each
  actor is entitled to at each step. `Request`: an upload has its file until it decides, its
  recording only once it answered, and a purged recording has no file. `Found`: what it saw
  under the hash lock is still so, a live recording of its content or none at all.
  `OneLivePerContent` needs the second half of `Found` at the insert and `ReuseIsLive` the first,
  and `Found` in turn needs `LocksHeld`: whoever marks or inserts a recording of that content
  holds the same lock row. `Deletion`: a purge is reached only for a recording that was marked,
  and without its file. `Quiet`: nothing is under way when start-up begins, so the orphans
  it finds are nobody's.

The proofs assume the named assumptions on the constants, and `TasksInFlightHaveWorkers` in
addition `ToldOfWrites`. They do not use `MaxAttempt`.

**Only model-checked**: liveness, which rests on fairness and on `ENABLED` and is out of TLAPS's
reach: `EveryTaskSettles`, `DeletionCompletes`, `StreamFollows`, `QueueMovesOn`, `ShutdownEnds`
and `EveryTaskTaken`. Every invariant and every action property of a passing run is proved.

## 6. Where code and documents disagree

- `unknown`: `docs/design/technical-design.md:456` wants the row looked at after an unknown
  commit, and the same attempt in the target status counted as success. `persist`
  (`process.go:191`) tries again instead; the second write finds the status advanced, is told
  the execution is stale and the round is dropped (`process.go:200`). The task stays
  `summarizing` until a restart.
- `budget`: `docs/design/retry-and-summary-stream.md:9` gives a manual retry three rounds from
  attempt 4. `FailTask` schedules a round only while `attempt < 3` (`processing_tx.go:401`), so
  attempt 4 is the only one; recovery's attempts use up the budget as well.
- `deleted`: `docs/design/retry-and-summary-stream.md:18` sends `deleted` when the recording is
  deleted or invisible. `HandleSummaryStream` sends it on any error of the query
  (`summary_stream.go:37`), so that a short outage of the database tells clients that their
  recording is gone.
- `pushed`: `README.md:16` promises stages in real time. `HandleSummaryStream` writes them with
  `c.SSEvent` and nothing flushes them (`summary_stream.go:48`), so a short stream arrives as a
  whole when it ends, and the client of a longer one lags by what `net/http` buffers, 2 KB and
  4 KB, which is some thirty events.
- `stuck`: `docs/design/architecture.md:246` has failures that last end the process, so that no
  task is stuck for ever while the service seems well. The write path does so; a read that fails
  in the recheck (`process.go:107`) makes the worker drop a task it has claimed, and nothing in
  the process looks for tasks in flight. One failure is enough, and no restart follows from it.

Seen while modelling, and not the subject of a violated property:

- `compose.yaml:37` leaves a failed migration to the restart policy. That heals a failed
  connection, but not a file that was cut off between its first statement and its entry in the
  ledger: `CutOffNeedsHands`.
- `technical-design.md:280` and `:313` have every writer lock tasks before recordings, "no
  deadlock". `MarkDeleting` locks the recording first (`recording_tx.go:274`, `:287`), and so may
  the joined query of an upload (`recording_tx.go:94`). `locks` has these deadlocks:
  `DeadlocksCrossOrders` says between whom, `Serial` that they cost nothing but an error for one.
- `technical-design.md:370` reserves 90004 for a recording without its task. `GetRecording` and
  `ListRecordings` answer it, and log an alert, when a purge falls between their two statements
  (`query.go:63`, `query.go:136`); `AnswersWereTrue` says that nothing else leads there.
- `README.md:14` has a deletion cancel what is under way. `deletingOf` takes every error of its
  read of the task for a task that is gone (`query.go:188`, whose comment thinks of that case
  only); the deletion is completed without cancelling, and the call goes on until it ends by
  itself. Its result is dropped (`LateResultsDropped`, with this failure in its run).
- An audit at start-up that cannot be read is treated as one that found inconsistent rows
  (`wire.go:134`), while `technical-design.md:502` has that branch for inconsistent rows only: the
  server stays up, never ready and without workers, until someone restarts it, and a queued task
  whose process crashed before its wake-up waits as long, against line 463. `EveryTaskTaken` is
  stated up to that state.
- `technical-design.md:270` has the shutdown close the remaining connections if need be. The code
  never calls `Server.Close`: an open event stream, which only ends with its client or its task,
  keeps the HTTP drain waiting for the whole budget, so that the workers have none left when
  `ForceStop` comes. `compose.yaml` sets no `stop_grace_period`, and its default of 10 s is
  shorter than the budget of 20 s.
- `technical-design.md:311` limits every transaction by `DB_QUERY_TIMEOUT`. It is parsed
  (`config.go:101`) and not used; the fairness assumed of statements rests on the database's own
  limits, except in `persist`, which sets one.

## 7. What is left

Not modelled, and why:

- the LLM and ASR adapters and their stand-ins: of a call only its outcome reaches the state, and
  `Pipeline` has all four; which code and text a failure gets is data;
- `ParseExtension`, `SanitizeFilename`, `ParseSummary`: string functions, of which a model would
  be a second copy, character by character;
- DTOs, error codes, middleware, logging, configuration, identifiers: they keep no state and
  decide nothing the properties speak of. Events are mirrored to the log after their commit, and
  may be missing there.

Worth proving next: the safety half of the liveness properties, as action properties that say
what goes down with every step of a fair actor (for `EveryTaskSettles` the attempts left and the
tries left, for `DeletionCompletes` the rows and the file that are left), so that only fairness
itself rests on TLC; and that the rounds of `Pool` are those of `Pipeline` with their calls and
writes left out.
