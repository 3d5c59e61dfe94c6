------------------------------- MODULE Service -------------------------------
(***************************************************************************)
(* The life of the process: main migrates, recovers, starts the pool, the  *)
(* clean-up loop and the HTTP server, and waits for a signal or for the    *)
(* server to end; Lifecycle.Shutdown, called by main or by a worker that   *)
(* halts the service, winds all of it up within bounds.  Composes Schema   *)
(* and Pool.  What the database holds outlives the process.                *)
(*                                                                         *)
(* Time is left out: a timer may go off at any moment after it was set.    *)
(***************************************************************************)
EXTENDS Schema, Pool

CONSTANT MaxStops   \* bound of the model: how many signals and crashes there are

ASSUME MaxStopsAssumption == MaxStops \in Nat

VARIABLES
  main,       \* where main is in NewApp and Run
  signal,     \* sigCtx is cancelled
  http,       \* the server: "closed", "open", "failed" or "shut"
  req,        \* the request for each task: "none", "reading" or "committed"
  ready,      \* what /readyz and the upload gate ask
  cleanup,    \* the clean-up loop: "none", "waiting", "working" or "gone"
  shutdown,   \* where the body of Shutdown is; it runs once
  budget,     \* SHUTDOWN_TIMEOUT, from the drain on: "unset", "left" or "spent"
  gaveUp,     \* a bounded wait ended without what it waited for
  db,         \* the connection pool is open
  stops       \* signals and crashes so far

mainVars == <<main, signal, http, req, ready>>
downVars == <<cleanup, shutdown, budget, gaveUp, db>>
vars == <<schemaVars, poolVars, mainVars, downVars, stops>>

Init ==
  /\ SchemaInit /\ PoolInit
  /\ main = "down" /\ signal = FALSE /\ http = "closed" /\ ready = FALSE
  /\ req = [t \in Tasks |-> "none"]
  /\ cleanup = "none" /\ shutdown = "off" /\ budget = "unset"
  /\ gaveUp = FALSE /\ db = FALSE /\ stops = 0

\* Nothing but the rows, the ledger and the tables outlives the process.
ProcessEnds ==
  /\ PoolEnds
  /\ migrate' = NotMigrating /\ UNCHANGED <<applied, ledger>>
  /\ main' = "down" /\ signal' = FALSE /\ http' = "closed" /\ ready' = FALSE
  /\ req' = [t \in Tasks |-> "none"]
  /\ cleanup' = "none" /\ shutdown' = "off" /\ budget' = "unset"
  /\ gaveUp' = FALSE /\ db' = FALSE

-----------------------------------------------------------------------------
\* NewApp

Start ==
  /\ main = "down"
  /\ main' = "migrate" /\ db' = TRUE
  /\ UNCHANGED <<schemaVars, poolVars, signal, http, req, ready, cleanup, shutdown,
                 budget, gaveUp, stops>>

Migrate ==
  /\ main = "migrate"
  /\ MigrationStep
  /\ UNCHANGED <<poolVars, mainVars, downVars, stops>>

\* A migration that fails ends the process.
Migrated ==
  /\ main = "migrate"
  /\ \/ /\ migrate.step = "done"
        /\ main' = "inspect"
        /\ UNCHANGED <<schemaVars, poolVars, signal, http, req, ready, downVars>>
     \/ /\ migrate.step = "failed"
        /\ ProcessEnds
  /\ UNCHANGED stops

\* NewApp goes on from one step to the next.
Continue(from, to) ==
  /\ main = from
  /\ main' = to
  /\ UNCHANGED <<schemaVars, signal, http, req, shutdown, budget, gaveUp, db, stops>>

\* An audit that fails, or cannot be made, leaves the server without a pool.
Inspect ==
  /\ Continue("inspect", "resume") \/ Continue("inspect", "listen")
  /\ UNCHANGED <<poolVars, ready, cleanup>>

\* Mutant: the pool is started before the tasks in flight are reset.
ResumeDeletionsWithPool ==
  Continue("resume", "reset") /\ StartPool /\ UNCHANGED <<ready, cleanup>>

ResumeDeletions ==
  Continue("resume", "reset") /\ UNCHANGED <<poolVars, ready, cleanup>>

\* One transaction; when it fails the process ends.
ResetInFlight ==
  /\ Continue("reset", "sweep")
  /\ task' = [t \in Tasks |-> IF task[t] = "inflight" THEN "pending" ELSE task[t]]
  /\ UNCHANGED <<wake, loop, contexts, halted, ready, cleanup>>

ResetFails ==
  /\ main = "reset"
  /\ ProcessEnds
  /\ UNCHANGED stops

RemoveOrphanFiles ==
  Continue("sweep", "pool") /\ UNCHANGED <<poolVars, ready, cleanup>>

BootPool == Continue("pool", "cleanup") /\ StartPool /\ UNCHANGED <<ready, cleanup>>

StartCleanup ==
  Continue("cleanup", "ready") /\ cleanup' = "waiting" /\ UNCHANGED <<poolVars, ready>>

BecomeReady ==
  Continue("ready", "listen") /\ ready' = TRUE /\ UNCHANGED <<poolVars, cleanup>>

-----------------------------------------------------------------------------
\* Run

Run == Continue("listen", "serve") /\ UNCHANGED <<poolVars, ready, cleanup>>

\* ListenAndServe, in a goroutine; the address may be taken.  After Shutdown it
\* returns at once.
Listen ==
  /\ main \in {"serve", "deferred"} /\ http = "closed"
  /\ http' \in {"open", "failed"}
  /\ UNCHANGED <<schemaVars, poolVars, main, signal, req, ready, downVars, stops>>

\* Mutant: when the server has ended main returns without waiting for Shutdown.
ReturnAtOnce ==
  /\ main = "serve"
  /\ IF http = "shut"
     THEN ProcessEnds /\ UNCHANGED stops
     ELSE (signal \/ http = "failed") /\ Continue("serve", "deferred")
            /\ UNCHANGED <<poolVars, ready, cleanup>>

\* The select of Run ends, and the deferred Shutdown is called.
Return ==
  /\ signal \/ http \in {"failed", "shut"}
  /\ Continue("serve", "deferred")
  /\ UNCHANGED <<poolVars, ready, cleanup>>

\* Shutdown has been carried out, by this call or by the one it waited for.
Exit ==
  /\ main = "deferred" /\ shutdown = "done"
  /\ ProcessEnds
  /\ UNCHANGED stops

-----------------------------------------------------------------------------
\* Requests: an upload queues a new task, a retry a settled one

\* The gate is asked once, then the body is read; neither waits for a shutdown.
OpenUpload(t) ==
  /\ http = "open" /\ ready
  /\ req[t] = "none" /\ task[t] = "none"
  /\ req' = [req EXCEPT ![t] = "reading"]
  /\ UNCHANGED <<schemaVars, poolVars, main, signal, http, ready, downVars, stops>>

\* Too large, no file, client gone, idle or over its time, or not to be stored.
BreakUpload(t) ==
  /\ req[t] = "reading"
  /\ req' = [req EXCEPT ![t] = "none"]
  /\ UNCHANGED <<schemaVars, poolVars, main, signal, http, ready, downVars, stops>>

CommitTask(t) ==
  /\ db
  /\ req[t] = "reading" \/ (http = "open" /\ req[t] = "none" /\ task[t] = "settled")
  /\ task' = [task EXCEPT ![t] = "pending"]
  /\ req' = [req EXCEPT ![t] = "committed"]
  /\ UNCHANGED <<schemaVars, wake, loop, contexts, halted, main, signal, http, ready,
                 downVars, stops>>

NotifyAndAnswer(t) ==
  /\ req[t] = "committed"
  /\ req' = [req EXCEPT ![t] = "none"]
  /\ Notify
  /\ UNCHANGED <<schemaVars, task, loop, contexts, halted, main, signal, http, ready,
                 downVars, stops>>

Work(w) ==
  /\ LoopStep(w) \/ RoundOver(w) \/ InterruptRound(w)
  /\ UNCHANGED <<schemaVars, mainVars, downVars, stops>>

\* A pass may take as long as the file system does; the loop ends with its context.
Cleanup ==
  /\ \/ cleanup = "waiting" /\ shutdown = "off" /\ cleanup' = "working"
     \/ cleanup = "waiting" /\ shutdown # "off" /\ cleanup' = "gone"
     \/ cleanup = "working" /\ cleanup' = "waiting"
  /\ UNCHANGED <<schemaVars, poolVars, mainVars, shutdown, budget, gaveUp, db, stops>>

-----------------------------------------------------------------------------
\* Shutdown

\* main's deferred call, or the goroutine OnHalt starts: the first one runs the body.
Drain ==
  /\ shutdown = "off"
  /\ main = "deferred" \/ halted
  /\ shutdown' = "http" /\ budget' = "left"
  /\ claiming' = FALSE /\ ready' = FALSE
  /\ UNCHANGED <<schemaVars, task, wake, loop, started, running, halted, main, signal,
                 http, req, cleanup, gaveUp, db, stops>>

\* The body goes on from one step to the next.
WindUp(from, to) ==
  /\ shutdown = from
  /\ shutdown' = to
  /\ UNCHANGED <<schemaVars, task, wake, loop, started, claiming, halted, main, signal, req,
                 ready, cleanup, budget, stops>>

\* Server.Shutdown: no more connections, then it waits for the requests.
CloseListener ==
  WindUp("http", "requests") /\ http' = "shut" /\ UNCHANGED <<running, gaveUp, db>>

SpendBudget ==
  /\ budget = "left"
  /\ budget' = "spent"
  /\ UNCHANGED <<schemaVars, poolVars, mainVars, cleanup, shutdown, gaveUp, db, stops>>

Answered == \A t \in Tasks : req[t] = "none"

RequestsOver ==
  /\ Answered \/ budget = "spent"
  /\ WindUp("requests", "tasks")
  /\ UNCHANGED <<http, running, gaveUp, db>>

\* A pool that was not started has nobody to wait for.
TasksOver ==
  /\ ~started \/ AllGone
  /\ WindUp("tasks", "cleanup")
  /\ UNCHANGED <<http, running, gaveUp, db>>

\* The budget is spent: runCtx is cancelled and the workers are waited for anew.
ForceStop ==
  /\ started /\ budget = "spent"
  /\ WindUp("tasks", "stop")
  /\ running' = FALSE
  /\ UNCHANGED <<http, gaveUp, db>>

\* Mutant: the wait for the workers has no bound.
StopWaitUnbounded ==
  AllGone /\ WindUp("stop", "cleanup") /\ UNCHANGED <<http, running, gaveUp, db>>

StopWait ==
  /\ WindUp("stop", "cleanup")
  /\ gaveUp' = ~AllGone
  /\ UNCHANGED <<http, running, db>>

CleanupOver == cleanup \in {"none", "gone"}

CleanupWait ==
  /\ WindUp("cleanup", "close")
  /\ gaveUp' = (gaveUp \/ ~CleanupOver)
  /\ UNCHANGED <<http, running, db>>

CloseDB ==
  WindUp("close", "done") /\ db' = FALSE /\ UNCHANGED <<http, running, gaveUp>>

WindUpStep ==
  CloseListener \/ RequestsOver \/ TasksOver \/ ForceStop \/ StopWait \/ CleanupWait \/ CloseDB

-----------------------------------------------------------------------------
\* What befalls the process

Signal ==
  /\ main # "down" /\ ~signal /\ stops < MaxStops
  /\ signal' = TRUE /\ stops' = stops + 1
  /\ UNCHANGED <<schemaVars, poolVars, main, http, req, ready, downVars>>

Crash ==
  /\ main # "down" /\ stops < MaxStops
  /\ ProcessEnds /\ stops' = stops + 1

-----------------------------------------------------------------------------
MainStep ==
  \/ Start \/ Migrate \/ Migrated \/ Inspect \/ ResumeDeletions \/ ResetInFlight \/ ResetFails
  \/ RemoveOrphanFiles \/ BootPool \/ StartCleanup \/ BecomeReady
  \/ Run \/ Return \/ Exit

RequestStep(t) == OpenUpload(t) \/ BreakUpload(t) \/ CommitTask(t) \/ NotifyAndAnswer(t)

Next ==
  \/ MainStep \/ Listen \/ Cleanup \/ Drain \/ WindUpStep \/ SpendBudget \/ Signal \/ Crash
  \/ \E w \in Workers : Work(w)
  \/ \E t \in Tasks : RequestStep(t)

Spec == Init /\ [][Next]_vars

\* The process is started again; a queue that is read again and again is read in the
\* end, a transaction tried at every start goes through once and the address is free
\* once; timers go off, goroutines run, and a round that is not cancelled ends, its
\* calls having limits.  Nothing is assumed of requests, of a pass of the clean-up, or
\* of a round that is cancelled.
Fairness ==
  /\ WF_vars(MainStep) /\ SF_vars(Listen /\ http' = "open")
  /\ SF_vars(Migrate /\ migrate'.step = "run") /\ SF_vars(ResetInFlight)
  /\ WF_vars(Drain) /\ WF_vars(WindUpStep) /\ WF_vars(SpendBudget)
  /\ \A w \in Workers : /\ WF_vars(Work(w) /\ LoopStep(w))
                        /\ WF_vars(running /\ Work(w) /\ RoundOver(w))
  /\ \A t \in Tasks : SF_vars(\E w \in Workers : Work(w) /\ Claim(w, t))

FairSpec == Spec /\ Fairness

-----------------------------------------------------------------------------
\* Properties

ServiceTyped ==
  /\ main \in { "down", "migrate", "inspect", "resume", "reset", "sweep", "pool", "cleanup",
                 "ready", "listen", "serve", "deferred" }
  /\ http \in {"closed", "open", "failed", "shut"}
  /\ req \in [Tasks -> {"none", "reading", "committed"}]
  /\ signal \in BOOLEAN /\ ready \in BOOLEAN /\ gaveUp \in BOOLEAN /\ db \in BOOLEAN
  /\ cleanup \in {"none", "waiting", "working", "gone"}
  /\ shutdown \in {"off", "http", "requests", "tasks", "stop", "cleanup", "close", "done"}
  /\ budget \in {"unset", "left", "spent"}
  /\ stops \in 0..MaxStops

\* Type invariant.
TypeOK == SchemaTyped /\ PoolTyped /\ ServiceTyped

\* Beyond Migrate, in a process that was cut off in it any number of times before,
\* every statement of every file has taken effect: no file is taken for applied
\* because it was begun.
ServesWholeSchema == main \notin {"down", "migrate"} => SchemaWhole

\* A file of which some statements took effect and that is not in the ledger stays so:
\* no number of restarts gets a later start past it, it takes an operator.
CutOffNeedsHands == [][CutOff => CutOff']_vars

\* Short of a crash the database is closed last, whoever began the shutdown: no worker
\* is left and no pass of the clean-up unless a bounded wait for them was given up,
\* and no request unless the budget was spent on waiting for it.
DatabaseClosedLast ==
  [][ db /\ ~db' /\ started /\ stops' = stops =>
        /\ (AllGone /\ cleanup # "working") \/ gaveUp
        /\ Answered \/ budget = "spent" ]_vars

\* A shutdown once begun ends the process, whatever requests, rounds and the clean-up do.
ShutdownEnds == shutdown # "off" ~> main = "down"

\* The audit at the start did not pass: the server runs without workers.
Blocked == main \in {"listen", "serve"} /\ ~started

\* A task that is queued is taken by a worker, though wake-ups are dropped, come before
\* the worker waits or are not sent at all, and through halts, signals and crashes;
\* unless an audit does not pass.
EveryTaskTaken == \A t \in Tasks : task[t] = "pending" ~> task[t] # "pending" \/ Blocked
=============================================================================
