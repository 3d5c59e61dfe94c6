------------------------------ MODULE Pipeline ------------------------------
(***************************************************************************)
(* The asynchronous pipeline: workers claim queued tasks from MySQL,       *)
(* transcribe, summarise and write each result back under the execution    *)
(* key (task, attempt); HTTP handlers retry and delete; finalizers carry   *)
(* deletions out; the process stops, crashes and recovers at start-up.     *)
(*                                                                         *)
(* A database transaction is one step: it locks the task row before it     *)
(* decides, so transactions on one task are serial (the locks themselves   *)
(* are RowLocks' subject).  What the caller LEARNS of a commit is modelled *)
(* apart from what the commit did.  Everything a worker does between two   *)
(* transactions or external calls is one step.                             *)
(***************************************************************************)
EXTENDS Integers, TaskDomain

CONSTANTS
  Tasks,          \* recordings with their task: one aggregate each
  Workers,        \* goroutines of the pool
  Finalizers,     \* DELETE handlers and the clean-up loop
  AutoRetryLimit, \* attempts FailTask may reach by itself (3 in the code)
  Interrupt,      \* TRUE for RECOVERY_MODE=interrupt, FALSE for reset
  Faults,         \* the failures the environment may produce
  MaxAttempt,     \* bound of the model: later rounds of a task stay queued
  None            \* no task

ASSUME NoneAssumption       == None \notin Tasks
ASSUME AutoRetryAssumption  == AutoRetryLimit \in Nat \ {0}
ASSUME InterruptAssumption  == Interrupt \in BOOLEAN
ASSUME MaxAttemptAssumption == MaxAttempt \in Nat
\* "write":  a transaction fails and is rolled back
\* "commit": a commit is applied but its outcome never reaches the caller
\* "read":   the recheck of a claimed task fails
\* "view":   a read of the clean-up fails
\* "panic":  an external call panics
\* "erase":  the file or the three-table purge cannot be removed yet
\* "stop":   SIGTERM, and a shutdown that outlives its budget
\* "crash":  the process dies
ASSUME FaultsAssumption ==
  Faults \subseteq {"write", "commit", "read", "view", "panic", "erase", "stop", "crash"}

PersistRetries == 2   \* len(persistRetryDelays)

VARIABLES
  rec,        \* recordings row: "none", "live", "deleting" (deleting_at) or "gone"
  row,        \* tasks row
  lastEvent,  \* newest task_events row of the task
  pc,         \* where each worker is in Process
  exec,       \* the execution key each worker holds
  tries,      \* failed writes of the stage being persisted
  cancelled,  \* the worker's taskCtx is cancelled
  cancels,    \* the cancel table: execution keys and the worker each one stops
  fin,        \* where each finalizer is in Delete / CleanupPending
  phase,      \* life of the process
  halted      \* ProcessService.halted

rows  == <<rec, row, lastEvent>>
procs == <<pc, exec, tries, cancelled, cancels>>
vars  == <<rec, row, lastEvent, pc, exec, tries, cancelled, cancels, fin, phase, halted>>

-----------------------------------------------------------------------------
\* Data

NoRow == [ status |-> "absent", attempt |-> 0, eventSeq |-> 0, transcript |-> 0,
           summary |-> 0, due |-> FALSE ]

\* transcript and summary hold the attempt that produced them, 0 when cleared;
\* due says that next_retry_at is null or has passed.
Row == [ status : Statuses, attempt : Nat \ {0}, eventSeq : Nat \ {0},
         transcript : Nat, summary : Nat, due : BOOLEAN ]

Kinds == {"task_created", "task_claimed", "transcription_completed",
          "task_completed", "task_failed", "task_auto_retry_scheduled",
          "task_retry_accepted", "task_recovered", "task_interrupted",
          "task_delete_requested"}
Event == [ kind : Kinds \cup {"none"}, attempt : Nat,
           from : Statuses \cup {"absent"}, to : Statuses \cup {"absent"} ]
NoEvent == [kind |-> "none", attempt |-> 0, from |-> "absent", to |-> "absent"]

NoKey == [task |-> None, attempt |-> 0]
Key   == [task : Tasks, attempt : Nat \ {0}]

Exists(t) == rec[t] \in {"live", "deleting"}

Calling == {"transcribing", "summarizing"}
Writing == {"saving", "completing", "failing"}
Listed  == {"rechecking", "leaving"} \cup Calling \cup Writing
Holding == {"registering", "recovering"} \cup Listed
WorkerPC == {"idle", "claiming"} \cup Holding

NoFin == [pc |-> "idle", task |-> None, known |-> FALSE]

Serving == phase \in {"up", "draining", "stopped"}

\* Appends the event of a change to the row of t, in the same transaction.
Log(t, kind, attempt, to) ==
  lastEvent' = [lastEvent EXCEPT ![t] =
    [kind |-> kind, attempt |-> attempt, from |-> row[t].status, to |-> to]]

Goto(w, l) == pc' = [pc EXCEPT ![w] = l]

-----------------------------------------------------------------------------
\* The rows each transaction writes

CreatedRow == [ status |-> "pending", attempt |-> 1, eventSeq |-> 1,
                transcript |-> 0, summary |-> 0, due |-> TRUE ]

\* The task goes on in its round, with the products given.
Advanced(r, status, transcript, summary) ==
  [ status |-> status, attempt |-> r.attempt, eventSeq |-> r.eventSeq + 1,
    transcript |-> transcript, summary |-> summary, due |-> TRUE ]

\* The round is over and its products are cleared.
Cleared(r, status, attempt, due) ==
  [ status |-> status, attempt |-> attempt, eventSeq |-> r.eventSeq + 1,
    transcript |-> 0, summary |-> 0, due |-> due ]

\* ClaimNext nulls next_retry_at, and no later write of the round sets it.
ClaimedRow(r)      == Advanced(r, "transcribing", r.transcript, r.summary)
SavedRow(r, k)     == Advanced(r, "summarizing", k.attempt, r.summary)
CompletedRow(r, k) == Advanced(r, "done", r.transcript, k.attempt)

AutoRetry(r) == r.attempt < AutoRetryLimit

\* Mutant: the next round keeps the number of the one that failed.
FailedRowSameAttempt(r) ==
  Cleared(r, IF AutoRetry(r) THEN "pending" ELSE "failed", r.attempt, ~AutoRetry(r))

\* Mutant: the transcript of the failed round is not cleared.
FailedRowKeepsProducts(r) ==
  [r EXCEPT !.status  = IF AutoRetry(r) THEN "pending" ELSE "failed",
            !.attempt = IF AutoRetry(r) THEN @ + 1 ELSE @,
            !.due = ~AutoRetry(r), !.eventSeq = @ + 1]

FailedRow(r) ==
  IF AutoRetry(r) THEN Cleared(r, "pending", r.attempt + 1, FALSE)
                  ELSE Cleared(r, "failed", r.attempt, TRUE)

\* Mutant: a manual retry runs under the old attempt number.
RetriedRowSameAttempt(r) == Cleared(r, "pending", r.attempt, TRUE)

\* Mutant: a manual retry relies on failed rows having no transcript.
RetriedRowKeepsProducts(r) ==
  [r EXCEPT !.status = "pending", !.attempt = @ + 1, !.eventSeq = @ + 1]

RetriedRow(r) == Cleared(r, "pending", r.attempt + 1, TRUE)

\* Mutant: the batch update forgets event_seq.
RecoveredRowUnnumbered(r) ==
  IF Interrupt THEN [r EXCEPT !.status = "failed"]
  ELSE [r EXCEPT !.status = "pending", !.attempt = @ + 1, !.transcript = 0, !.summary = 0]

\* Reset queues the task anew; interrupt fails it where it stands and keeps
\* whatever transcript it had.
RecoveredRow(r) ==
  IF Interrupt THEN Advanced(r, "failed", r.transcript, r.summary)
               ELSE Cleared(r, "pending", r.attempt + 1, TRUE)

-----------------------------------------------------------------------------
Init ==
  /\ rec = [t \in Tasks |-> "none"]
  /\ row = [t \in Tasks |-> NoRow]
  /\ lastEvent = [t \in Tasks |-> NoEvent]
  /\ pc = [w \in Workers |-> "idle"]
  /\ exec = [w \in Workers |-> NoKey]
  /\ tries = [w \in Workers |-> 0]
  /\ cancelled = [w \in Workers |-> FALSE]
  /\ cancels = {}
  /\ fin = [f \in Finalizers |-> NoFin]
  /\ phase = "down"
  /\ halted = FALSE

-----------------------------------------------------------------------------
\* HTTP handlers

\* The insertion of CreateOrReuseByContentHash: recording, task and event at once.
Create(t) ==
  /\ Serving
  /\ rec[t] = "none"
  /\ rec' = [rec EXCEPT ![t] = "live"]
  /\ row' = [row EXCEPT ![t] = CreatedRow]
  /\ Log(t, "task_created", 1, "pending")
  /\ UNCHANGED <<procs, fin, phase, halted>>

RetryTask(t) ==
  /\ Serving
  /\ rec[t] = "live"
  /\ row[t].status = "failed"
  /\ row' = [row EXCEPT ![t] = RetriedRow(@)]
  /\ Log(t, "task_retry_accepted", row[t].attempt + 1, "pending")
  /\ UNCHANGED <<rec, procs, fin, phase, halted>>

\* Time passes next_retry_at.
RetryDue(t) ==
  /\ Exists(t)
  /\ ~row[t].due
  /\ row' = [row EXCEPT ![t].due = TRUE]
  /\ UNCHANGED <<rec, lastEvent, procs, fin, phase, halted>>

-----------------------------------------------------------------------------
\* Deletion: mark, then (handler or clean-up loop) load, cancel, erase

\* Marking twice changes nothing and goes on.  A commit whose outcome is unknown
\* ends the request; the mark stays for the clean-up loop.
MarkDeleting(f, t) ==
  /\ Serving
  /\ fin[f].pc = "idle"
  /\ Exists(t)
  /\ \/ /\ rec[t] = "live"
        /\ rec' = [rec EXCEPT ![t] = "deleting"]
        /\ row' = [row EXCEPT ![t].eventSeq = @ + 1]
        /\ Log(t, "task_delete_requested", row[t].attempt, row[t].status)
     \/ /\ rec[t] = "deleting"
        /\ UNCHANGED rows
  /\ \/ fin' = [fin EXCEPT ![f] = [pc |-> "marked", task |-> t, known |-> FALSE]]
     \/ "commit" \in Faults /\ UNCHANGED fin
  /\ UNCHANGED <<procs, phase, halted>>

\* The clean-up view of t.  When the read of the task row fails the view has no
\* task id, and nothing will be cancelled.
DeletingView(f, t) ==
  \E known \in {TRUE} \cup (IF "view" \in Faults THEN {FALSE} ELSE {}) :
    fin' = [fin EXCEPT ![f] = [pc |-> "cancel", task |-> t, known |-> known]]

\* A concurrent finalizer may have purged the recording: then all is done.  When
\* the recording cannot be read the request ends, and the mark stays.
GetDeleting(f) ==
  /\ fin[f].pc = "marked"
  /\ \/ rec[fin[f].task] = "deleting" /\ DeletingView(f, fin[f].task)
     \/ /\ rec[fin[f].task] # "deleting" \/ "view" \in Faults
        /\ fin' = [fin EXCEPT ![f] = NoFin]
  /\ UNCHANGED <<rows, procs, phase, halted>>

\* Mutant: the loop leaves tasks in flight to their workers.
ListDeletingSettled(f, t) ==
  /\ phase = "up"
  /\ fin[f].pc = "idle"
  /\ rec[t] = "deleting"
  /\ row[t].status \notin InFlight
  /\ DeletingView(f, t)
  /\ UNCHANGED <<rows, procs, phase, halted>>

\* One row of the clean-up loop's scan.  The loop is cancelled with claiming.
ListDeleting(f, t) ==
  /\ phase = "up"
  /\ fin[f].pc = "idle"
  /\ rec[t] = "deleting"
  /\ DeletingView(f, t)
  /\ UNCHANGED <<rows, procs, phase, halted>>

\* Cancels every execution of the task found in the table.
CancelTask(f) ==
  /\ fin[f].pc = "cancel"
  /\ cancelled' = [w \in Workers |->
       \/ cancelled[w]
       \/ fin[f].known /\ \E c \in cancels : c.key.task = fin[f].task /\ c.worker = w]
  /\ fin' = [fin EXCEPT ![f].pc = "erase"]
  /\ UNCHANGED <<rows, pc, exec, tries, cancels, phase, halted>>

\* Removes the file and then the three tables' rows in one transaction.  Either
\* may fail and leave the mark; rows that are gone already are no error.
PurgeRecording(f) ==
  /\ fin[f].pc = "erase"
  /\ \/ /\ rec' = [rec EXCEPT ![fin[f].task] = "gone"]
        /\ row' = [row EXCEPT ![fin[f].task] = NoRow]
        /\ lastEvent' = [lastEvent EXCEPT ![fin[f].task] = NoEvent]
     \/ "erase" \in Faults /\ UNCHANGED rows
  /\ fin' = [fin EXCEPT ![f] = NoFin]
  /\ UNCHANGED <<procs, phase, halted>>

-----------------------------------------------------------------------------
\* One round of a worker (Process)

\* The halted flag is read before ClaimNext and not again.
StartRound(w) ==
  /\ phase = "up"
  /\ ~halted
  /\ pc[w] = "idle"
  /\ Goto(w, "claiming")
  /\ UNCHANGED <<rows, exec, tries, cancelled, cancels, fin, phase, halted>>

\* Retries and crashes may start rounds for ever; MaxAttempt is the model's bound.
Claimable(t) ==
  /\ rec[t] = "live"
  /\ row[t].status = "pending"
  /\ row[t].due
  /\ row[t].attempt <= MaxAttempt

\* SKIP LOCKED passes over a candidate another transaction holds, so any due task
\* may be the first one seen.  If the commit's outcome is unknown the worker
\* gives up a task that is now in flight.
ClaimNext(w, t) ==
  /\ phase = "up"
  /\ pc[w] = "claiming"
  /\ Claimable(t)
  /\ row' = [row EXCEPT ![t] = ClaimedRow(@)]
  /\ Log(t, "task_claimed", row[t].attempt, "transcribing")
  /\ \/ /\ Goto(w, "registering")
        /\ exec' = [exec EXCEPT ![w] = [task |-> t, attempt |-> row[t].attempt]]
     \/ "commit" \in Faults /\ Goto(w, "idle") /\ UNCHANGED exec
  /\ UNCHANGED <<rec, tries, cancelled, cancels, fin, phase, halted>>

\* No candidate, a candidate being deleted, an error, or claimCtx cancelled.
ClaimNothing(w) ==
  /\ pc[w] = "claiming"
  /\ \/ phase # "up"
     \/ "write" \in Faults
     \/ \A t \in Tasks : ~Claimable(t)
     \/ \E t \in Tasks : rec[t] = "deleting" /\ row[t].status = "pending" /\ row[t].due
  /\ Goto(w, "idle")
  /\ UNCHANGED <<rows, exec, tries, cancelled, cancels, fin, phase, halted>>

\* taskCtx is a child of runCtx: cancelled from birth once runCtx is.
Register(w) ==
  /\ pc[w] = "registering"
  /\ cancels' = {c \in cancels : c.key # exec[w]} \cup {[key |-> exec[w], worker |-> w]}
  /\ cancelled' = [cancelled EXCEPT ![w] = (phase = "stopped")]
  /\ Goto(w, "rechecking")
  /\ UNCHANGED <<rows, exec, tries, fin, phase, halted>>

\* Mutant: the recheck looks at the task only, not at deleting_at.
RoundIsCurrentUnmarked(w) ==
  LET k == exec[w] IN
  row[k.task].attempt = k.attempt /\ row[k.task].status = "transcribing"

\* What GetTask shows of the worker's task is still the round it claimed.
RoundIsCurrent(w) ==
  LET k == exec[w] IN
  /\ rec[k.task] = "live"
  /\ row[k.task].attempt = k.attempt
  /\ row[k.task].status = "transcribing"

Recheck(w) ==
  /\ pc[w] = "rechecking"
  /\ \/ phase # "stopped" /\ RoundIsCurrent(w) /\ Goto(w, "transcribing")
     \/ ~RoundIsCurrent(w) /\ Goto(w, "leaving")
     \/ (phase = "stopped" \/ "read" \in Faults) /\ Goto(w, "leaving")
  /\ UNCHANGED <<rows, exec, tries, cancelled, cancels, fin, phase, halted>>

\* An external call may still answer although its context is cancelled.
CallReturns(w) ==
  /\ \/ pc[w] = "transcribing" /\ Goto(w, "saving")
     \/ pc[w] = "summarizing" /\ Goto(w, "completing")
  /\ UNCHANGED <<rows, exec, tries, cancelled, cancels, fin, phase, halted>>

CallFails(w) ==
  /\ pc[w] \in Calling
  /\ Goto(w, "failing")
  /\ UNCHANGED <<rows, exec, tries, cancelled, cancels, fin, phase, halted>>

CallCancelled(w) ==
  /\ pc[w] \in Calling
  /\ cancelled[w]
  /\ Goto(w, "leaving")
  /\ UNCHANGED <<rows, exec, tries, cancelled, cancels, fin, phase, halted>>

\* Mutant: entries are removed by task, whatever the attempt.
UnlistedTask(w) == {c \in cancels : c.key.task # exec[w].task}

Unlisted(w) == {c \in cancels : c.key # exec[w]}

\* The deferred Unregister and cancel run before the deferred recover.
CallPanics(w) ==
  /\ "panic" \in Faults
  /\ pc[w] \in Calling
  /\ cancels' = Unlisted(w)
  /\ Goto(w, "recovering")
  /\ UNCHANGED <<rows, exec, tries, cancelled, fin, phase, halted>>

Leave(w) ==
  /\ pc[w] = "leaving"
  /\ cancels' = Unlisted(w)
  /\ Goto(w, "idle")
  /\ exec' = [exec EXCEPT ![w] = NoKey]
  /\ cancelled' = [cancelled EXCEPT ![w] = FALSE]
  /\ UNCHANGED <<rows, tries, fin, phase, halted>>

-----------------------------------------------------------------------------
\* Writing a stage's result back (persist and the transactions it runs)

\* Mutant: deleting_at is not looked at under the locks.
WritableUnmarked(w, expected) ==
  LET k == exec[w] IN
  row[k.task].attempt = k.attempt /\ row[k.task].status \in expected

\* Mutant: the attempt is not compared under the locks.
WritableAnyAttempt(w, expected) ==
  LET k == exec[w] IN
  rec[k.task] = "live" /\ row[k.task].status \in expected

\* The row still stands where the execution key claimed it, and is not being
\* deleted: what each transaction checks under the locks.
Writable(w, expected) ==
  LET k == exec[w] IN
  /\ rec[k.task] = "live"
  /\ row[k.task].attempt = k.attempt
  /\ row[k.task].status \in expected

Expected(l) == CASE l = "saving"     -> {"transcribing"}
                 [] l = "completing" -> {"summarizing"}
                 [] l = "failing"    -> InFlight

\* Mutant: the last try is followed by another.
TryAgainOnceMore(w) ==
  /\ phase # "stopped"
  /\ tries' = [tries EXCEPT ![w] = @ + 1]
  /\ UNCHANGED <<pc, halted>>

\* Mutant: the result is given up without halting the service.
TryAgainOrForget(w) ==
  /\ IF phase # "stopped" /\ tries[w] < PersistRetries
     THEN tries' = [tries EXCEPT ![w] = @ + 1] /\ UNCHANGED pc
     ELSE tries' = [tries EXCEPT ![w] = 0] /\ Goto(w, "leaving")
  /\ UNCHANGED halted

\* After an error: give up at once when runCtx is cancelled (halting all the same
\* if the error in hand is not the cancellation), else try again, and after the
\* last try halt the service.  Every error but ErrStaleExecution comes here,
\* ErrCommitUnknown among them.
TryAgain(w) ==
  \/ /\ phase = "stopped"
     /\ Goto(w, "leaving")
     /\ tries' = [tries EXCEPT ![w] = 0]
     /\ halted' \in {halted, TRUE}
  \/ /\ phase # "stopped"
     /\ tries[w] < PersistRetries
     /\ tries' = [tries EXCEPT ![w] = @ + 1]
     /\ UNCHANGED <<pc, halted>>
  \/ /\ phase # "stopped"
     /\ tries[w] = PersistRetries
     /\ Goto(w, "leaving")
     /\ tries' = [tries EXCEPT ![w] = 0]
     /\ halted' = TRUE

\* The write is applied: the worker is told so and moves on, or is not.
Acknowledge(w, next) ==
  \/ /\ phase # "stopped"
     /\ Goto(w, next)
     /\ tries' = [tries EXCEPT ![w] = 0]
     /\ UNCHANGED halted
  \/ "commit" \in Faults /\ TryAgain(w)

SaveTranscription(w) ==
  LET t == exec[w].task IN
  /\ pc[w] = "saving"
  /\ Writable(w, Expected("saving"))
  /\ row' = [row EXCEPT ![t] = SavedRow(@, exec[w])]
  /\ Log(t, "transcription_completed", exec[w].attempt, "summarizing")
  /\ Acknowledge(w, "summarizing")
  /\ UNCHANGED <<rec, exec, cancelled, cancels, fin, phase>>

CompleteTask(w) ==
  LET t == exec[w].task IN
  /\ pc[w] = "completing"
  /\ Writable(w, Expected("completing"))
  /\ row' = [row EXCEPT ![t] = CompletedRow(@, exec[w])]
  /\ Log(t, "task_completed", exec[w].attempt, "done")
  /\ Acknowledge(w, "leaving")
  /\ UNCHANGED <<rec, exec, cancelled, cancels, fin, phase>>

\* The event carries the attempt that failed, the row the one to come.
FailTask(w) ==
  LET t == exec[w].task IN
  /\ Writable(w, Expected("failing"))
  /\ row' = [row EXCEPT ![t] = FailedRow(@)]
  /\ Log(t, IF AutoRetry(row[t]) THEN "task_auto_retry_scheduled" ELSE "task_failed",
         exec[w].attempt, FailedRow(row[t]).status)

FailRound(w) ==
  /\ pc[w] = "failing"
  /\ FailTask(w)
  /\ Acknowledge(w, "leaving")
  /\ UNCHANGED <<rec, exec, cancelled, cancels, fin, phase>>

WriteFails(w) ==
  /\ pc[w] \in Writing
  /\ "write" \in Faults \/ phase = "stopped"
  /\ TryAgain(w)
  /\ UNCHANGED <<rows, exec, cancelled, cancels, fin, phase>>

DropStale(w) ==
  /\ pc[w] \in Writing
  /\ phase # "stopped"
  /\ ~Writable(w, Expected(pc[w]))
  /\ Goto(w, "leaving")
  /\ tries' = [tries EXCEPT ![w] = 0]
  /\ UNCHANGED <<rows, exec, cancelled, cancels, fin, phase, halted>>

\* After a panic FailTask is tried once, whatever comes of it.
RecoverRound(w) ==
  /\ pc[w] = "recovering"
  /\ \/ phase # "stopped" /\ FailTask(w)
     \/ ~Writable(w, Expected("failing")) /\ UNCHANGED <<row, lastEvent>>
     \/ (phase = "stopped" \/ "write" \in Faults) /\ UNCHANGED <<row, lastEvent>>
  /\ Goto(w, "idle")
  /\ exec' = [exec EXCEPT ![w] = NoKey]
  /\ cancelled' = [cancelled EXCEPT ![w] = FALSE]
  /\ UNCHANGED <<rec, tries, cancels, fin, phase, halted>>

-----------------------------------------------------------------------------
\* The life of the process

\* SIGTERM, or OnHalt: claiming and the clean-up loop stop, rounds go on.
Drain ==
  /\ phase = "up"
  /\ halted \/ "stop" \in Faults
  /\ phase' = "draining"
  /\ UNCHANGED <<rows, procs, fin, halted>>

\* The shutdown budget is spent with workers still busy: runCtx is cancelled and
\* with it the taskCtx of every round.
ForceStop ==
  /\ phase = "draining"
  /\ \E w \in Workers : pc[w] # "idle"
  /\ phase' = "stopped"
  /\ cancelled' = [w \in Workers |-> pc[w] \in Listed]
  /\ UNCHANGED <<rows, pc, exec, tries, cancels, fin, halted>>

\* Shutdown waits for the workers, after a forced stop only for so long; a crash
\* waits for nobody.  Only the database survives.
ProcessEnds ==
  /\ \/ phase = "draining" /\ \A w \in Workers : pc[w] = "idle"
     \/ phase = "stopped"
     \/ phase # "down" /\ "crash" \in Faults
  /\ phase' = "down"
  /\ pc' = [w \in Workers |-> "idle"]
  /\ exec' = [w \in Workers |-> NoKey]
  /\ tries' = [w \in Workers |-> 0]
  /\ cancelled' = [w \in Workers |-> FALSE]
  /\ cancels' = {}
  /\ fin' = [f \in Finalizers |-> NoFin]
  /\ halted' = FALSE
  /\ UNCHANGED rows

\* The association audit: a live recording has a task, a task has a recording.
InspectIntegrity ==
  \A t \in Tasks : /\ rec[t] = "live" => row[t] # NoRow
                   /\ row[t] # NoRow => Exists(t)

\* The container restarts and the audit passes.
Boot ==
  /\ phase = "down"
  /\ InspectIntegrity
  /\ phase' = "resuming"
  /\ UNCHANGED <<rows, procs, fin, halted>>

\* Recovery runs the clean-up once over all marked recordings.  What cannot be
\* removed stays marked and does not hold recovery up.
ResumeDeletions ==
  /\ phase = "resuming"
  /\ LET marked == {t \in Tasks : rec[t] = "deleting"} IN
     \E erased \in SUBSET marked :
       /\ erased # marked => "erase" \in Faults
       /\ rec' = [t \in Tasks |-> IF t \in erased THEN "gone" ELSE rec[t]]
       /\ row' = [t \in Tasks |-> IF t \in erased THEN NoRow ELSE row[t]]
       /\ lastEvent' = [t \in Tasks |-> IF t \in erased THEN NoEvent ELSE lastEvent[t]]
  /\ phase' = "resetting"
  /\ UNCHANGED <<procs, fin, halted>>

\* Mutant: only transcribing tasks are reset.
InterruptedTranscribing(t) == Exists(t) /\ row[t].status = "transcribing"

Interrupted(t) == Exists(t) /\ row[t].status \in InFlight

\* One transaction over every task in flight, those being deleted included.  An
\* error ends the start-up, whether or not the commit was applied.
ResetInFlight ==
  /\ phase = "resetting"
  /\ \/ /\ row' = [t \in Tasks |-> IF Interrupted(t) THEN RecoveredRow(row[t]) ELSE row[t]]
        /\ lastEvent' = [t \in Tasks |->
             IF Interrupted(t)
             THEN [ kind    |-> IF Interrupt THEN "task_interrupted" ELSE "task_recovered",
                    attempt |-> RecoveredRow(row[t]).attempt,
                    from    |-> row[t].status,
                    to      |-> RecoveredRow(row[t]).status ]
             ELSE lastEvent[t]]
        /\ \/ phase' = "up"
           \/ "commit" \in Faults /\ phase' = "down"
     \/ "write" \in Faults /\ phase' = "down" /\ UNCHANGED <<row, lastEvent>>
  /\ UNCHANGED <<rec, procs, fin, halted>>

-----------------------------------------------------------------------------
WorkerStep(w) ==
  \/ StartRound(w) \/ ClaimNothing(w) \/ \E t \in Tasks : ClaimNext(w, t)
  \/ Register(w) \/ Recheck(w)
  \/ CallReturns(w) \/ CallFails(w) \/ CallCancelled(w) \/ CallPanics(w)
  \/ SaveTranscription(w) \/ CompleteTask(w) \/ FailRound(w)
  \/ WriteFails(w) \/ DropStale(w) \/ RecoverRound(w) \/ Leave(w)

FinalizerStep(f) ==
  \/ GetDeleting(f) \/ CancelTask(f) \/ PurgeRecording(f)
  \/ \E t \in Tasks : MarkDeleting(f, t) \/ ListDeleting(f, t)

ProcessStep ==
  Drain \/ ForceStop \/ ProcessEnds \/ Boot \/ ResumeDeletions \/ ResetInFlight

Next ==
  \/ \E w \in Workers : WorkerStep(w)
  \/ \E f \in Finalizers : FinalizerStep(f)
  \/ \E t \in Tasks : Create(t) \/ RetryTask(t) \/ RetryDue(t)
  \/ ProcessStep

Spec == Init /\ [][Next]_vars

\* A round goes on: external calls end (a timer, LLM_TIMEOUT), the pool polls, the
\* clean-up loop scans every CLEANUP_INTERVAL, compose restarts the process, and
\* a claim, a removal or a recovery that is tried for ever succeeds some time (SF).
\* The loop is a goroutine of its own: DELETE requests that come and go cannot keep
\* it from its scan, though here they take the same finalizers (hence SF).
\* Nothing obliges users to upload, retry or delete, nor any fault to occur.
Fairness ==
  /\ \A w \in Workers :
       /\ WF_vars(WorkerStep(w))
       /\ SF_vars(\E t \in Tasks : ClaimNext(w, t))
  /\ \A t \in Tasks : WF_vars(RetryDue(t))
  /\ \A f \in Finalizers :
       /\ WF_vars(GetDeleting(f) \/ CancelTask(f) \/ PurgeRecording(f))
       /\ SF_vars(PurgeRecording(f) /\ rec' # rec)
       /\ \A t \in Tasks : SF_vars(ListDeleting(f, t))
  /\ WF_vars(halted /\ Drain)
  /\ WF_vars(phase # "up" /\ (ForceStop \/ ProcessEnds))
  /\ WF_vars(Boot \/ ResumeDeletions)
  /\ SF_vars(ResetInFlight /\ phase' = "up")

FairSpec == Spec /\ Fairness

-----------------------------------------------------------------------------
\* Properties

RowsTyped ==
  /\ rec \in [Tasks -> {"none", "live", "deleting", "gone"}]
  /\ row \in [Tasks -> Row \cup {NoRow}]
  /\ \A t \in Tasks : row[t] = NoRow <=> ~Exists(t)
  /\ lastEvent \in [Tasks -> Event]

WorkersTyped ==
  /\ pc \in [Workers -> WorkerPC]
  /\ exec \in [Workers -> Key \cup {NoKey}]
  /\ \A w \in Workers : exec[w] = NoKey <=> pc[w] \notin Holding
  /\ tries \in [Workers -> 0..PersistRetries]
  /\ cancelled \in [Workers -> BOOLEAN]
  /\ cancels \subseteq [key : Key, worker : Workers]

FinalizersTyped ==
  /\ fin \in [Finalizers -> [ pc : {"idle", "marked", "cancel", "erase"},
                             task : Tasks \cup {None}, known : BOOLEAN ]]
  /\ \A f \in Finalizers : fin[f].pc # "idle" => fin[f].task \in Tasks

ProcessTyped ==
  /\ phase \in {"down", "resuming", "resetting", "up", "draining", "stopped"}
  /\ halted \in BOOLEAN

\* Types; besides, a task row exists exactly while its recording does, a worker
\* holds a key exactly during a round, and failed writes stay within their bound.
TypeOK == RowsTyped /\ WorkersTyped /\ FinalizersTyped /\ ProcessTyped

\* One round of a task has one executor: no two workers ever hold the same
\* execution key, also not while one of them is on its way out of a round whose
\* failure is already committed (the single-writer invariant canceltable.go and
\* the conditional updates of processing_tx.go rely on).
SingleExecutor ==
  \A v, w \in Workers : exec[v] = exec[w] /\ exec[v] # NoKey => v = w

\* The row of k has not fallen behind it, and is not queued for it again.
BehindRow(k) ==
  /\ rec[k.task] # "none"
  /\ Exists(k.task) =>
       /\ k.attempt <= row[k.task].attempt
       /\ row[k.task].status = "pending" => k.attempt # row[k.task].attempt

\* A round never runs ahead of its row, and a task is queued only under a number no
\* worker still holds, on whatever way out of a round: retries, scheduled retries
\* and recovery each allocate that number by themselves, and a purge leaves no row.
KeysBehindRows ==
  \A w \in Workers : pc[w] \in Holding => BehindRow(exec[w])

\* The cancel table is exact: a round between Register and its end is found under
\* its own key, and no entry outlives its round on any way out of Process
\* (return, drop, panic, halt) or is lost to another round's Unregister.
TableMatchesRounds ==
  cancels = {[key |-> exec[w], worker |-> w] : w \in {v \in Workers : pc[v] \in Listed}}

\* No external call goes on unaware of a deletion: once a finalizer that knows the
\* task has passed CancelTask, a worker inside a call for it has been cancelled.
\* The table misses a worker that has not registered yet; the recheck between
\* Register and the first call must catch that one (process.go:104).
CancelReaches ==
  \A f \in Finalizers, w \in Workers :
    /\ fin[f].pc = "erase" /\ fin[f].known
    /\ exec[w].task = fin[f].task
    /\ pc[w] \in Calling
    => cancelled[w]

\* A marked recording is not resurrected: until it is purged no late result,
\* failure, retry or claim changes its task (start-up recovery excepted, which
\* requeues it but leaves it unclaimable), and nothing brings a purged one back.
LateResultsDropped ==
  [][\A t \in Tasks :
       /\ rec[t] = "deleting" /\ phase # "resetting" =>
            \/ rec'[t] = "gone"
            \/ rec'[t] = "deleting" /\ row'[t] = [row[t] EXCEPT !.due = row'[t].due]
       /\ rec[t] = "gone" => rec'[t] = "gone" /\ row'[t] = NoRow]_vars

\* A row never mixes rounds: whatever transcript or summary it shows was made by
\* its present attempt, and a done task shows both.  Writes retried after an
\* unknown commit, workers of an earlier round and recovery all could break it.
ProductsOfThisRound ==
  \A t \in Tasks : Exists(t) =>
    LET r == row[t] IN
    /\ r.transcript \in {0, r.attempt}
    /\ r.summary = (IF r.status = "done" THEN r.attempt ELSE 0)
    /\ r.status \in {"pending", "transcribing"} => r.transcript = 0
    /\ r.status \in {"summarizing", "done"} => r.transcript = r.attempt

\* The events alone replay the task: each new event starts from the status the
\* last one led to, the last one led to the row's status and tells its attempt
\* (a scheduled retry: the attempt before), and no change goes unrecorded.
AuditTrail ==
  [][\A t \in Tasks : Exists(t) /\ Exists(t)' =>
       /\ lastEvent[t].to = row[t].status
       /\ row[t].attempt = lastEvent[t].attempt
            + (IF lastEvent[t].kind = "task_auto_retry_scheduled" THEN 1 ELSE 0)
       /\ IF row'[t].eventSeq = row[t].eventSeq
          THEN /\ lastEvent'[t] = lastEvent[t]
               /\ row'[t].status = row[t].status /\ row'[t].attempt = row[t].attempt
          ELSE /\ row'[t].eventSeq = row[t].eventSeq + 1
               /\ lastEvent'[t].from = lastEvent[t].to]_vars

\* A task in flight has a worker: while the process serves, every live task in
\* transcribing or summarizing is some worker's round, through failed writes,
\* races with deletion, drains and crashes.  Nothing but a restart looks for a
\* task in flight without one.
InFlightOwned ==
  phase \in {"up", "draining"} /\ ~halted =>
    \A t \in Tasks : rec[t] = "live" /\ row[t].status \in InFlight =>
      \E w \in Workers : exec[w] = [task |-> t, attempt |-> row[t].attempt]

\* A task in flight is moved by the worker that holds its round and by nobody else:
\* no worker of an earlier round, told nothing of its commit and trying again, no
\* request and no deletion short of the purge.  A round nobody holds any more, as
\* after a recheck that failed (process.go:107), waits for start-up recovery.
OnlyOwnersMove ==
  [][\A t \in Tasks : Exists(t) /\ row[t].status \in InFlight /\ phase # "resetting" =>
       \/ rec'[t] = "gone"
       \/ row'[t].status = row[t].status /\ row'[t].attempt = row[t].attempt
       \/ \E w \in Workers :
            /\ exec[w] = [task |-> t, attempt |-> row[t].attempt]
            /\ <<pc[w], tries[w]>>' # <<pc[w], tries[w]>>]_vars

\* A worker drops its round as stale only when the round has been superseded.
\* technical-design.md section 5.5: after an unknown commit the row is looked at,
\* and the same attempt in the target status counts as success.
StaleMeansSuperseded ==
  [][\A w \in Workers : DropStale(w) => ~Writable(w, InFlight)]_vars

\* A manual retry opens a new budget of three rounds
\* (retry-and-summary-stream.md section 1).
BudgetOfThreeRounds ==
  [][\A t \in Tasks : row'[t].status = "failed" /\ row[t].status # "failed"
       => row[t].attempt % AutoRetryLimit = 0]_vars

\* Every uploaded recording is eventually summarised, given up or deleted, through
\* failed calls, scheduled retries and lost writes: none waits or stays in flight for
\* ever, since a service that cannot write halts and its successor resets the task.
EveryTaskSettles ==
  \A t \in Tasks :
    rec[t] = "live" ~> \/ rec[t] # "live"
                      \/ row[t].status \in {"done", "failed"}
                      \/ row[t].attempt > MaxAttempt

\* No task is stuck for ever while the service seems well: one in flight goes on, or
\* the process ends and the next start takes it up (architecture.md:246).
StuckMeansExit ==
  \A t \in Tasks :
    rec[t] = "live" /\ row[t].status \in InFlight ~>
      rec[t] # "live" \/ row[t].status \notin InFlight \/ phase # "up"

\* A deletion that was marked is carried out.
DeletionCompletes ==
  \A t \in Tasks : rec[t] = "deleting" ~> rec[t] = "gone"

\* The rows implement the domain's state machine.
Lifecycle == INSTANCE TaskLifecycle WITH
  life <- [t \in Tasks |->
             CASE rec[t] = "none" -> [status |-> "absent", attempt |-> 0, eventSeq |-> 0]
               [] rec[t] = "gone" -> [status |-> "purged", attempt |-> 0, eventSeq |-> 0]
               [] OTHER -> [ status   |-> row[t].status,
                             attempt  |-> row[t].attempt,
                             eventSeq |-> row[t].eventSeq ]]

\* Every behaviour of the pipeline is one the task life cycle allows.
ImplementsLifecycle == Lifecycle!Spec
=============================================================================
