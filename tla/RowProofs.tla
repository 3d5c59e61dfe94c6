------------------------------ MODULE RowProofs ------------------------------
(***************************************************************************)
(* What becomes of a task's row, its events and its recording: theorems    *)
(* about Pipeline for any tasks, workers and finalizers, either recovery   *)
(* mode and every choice of faults.                                        *)
(*                                                                         *)
(* The argument: whatever step is taken, each task moves in one of eleven  *)
(* ways (RowMoves), each of which is the work of one transaction.  The     *)
(* properties then speak of one row and one such move at a time.           *)
(***************************************************************************)
EXTENDS ExecutorProofs

-----------------------------------------------------------------------------
\* The ways a task moves

Kept(t) == rec'[t] = rec[t] /\ row'[t] = row[t] /\ lastEvent'[t] = lastEvent[t]

\* The row of t becomes r, which is recorded; the recording stays as it is.
Wrote(t, r, kind, attempt) ==
  /\ rec'[t] = rec[t]
  /\ row'[t] = r
  /\ lastEvent'[t] = [kind |-> kind, attempt |-> attempt, from |-> row[t].status, to |-> r.status]

Inserted(t) ==
  /\ rec[t] = "none" /\ rec'[t] = "live"
  /\ row'[t] = CreatedRow
  /\ lastEvent'[t] = [kind |-> "task_created", attempt |-> 1, from |-> "absent", to |-> "pending"]

FellDue(t) ==
  /\ Exists(t)
  /\ rec'[t] = rec[t] /\ lastEvent'[t] = lastEvent[t]
  /\ row'[t] = [row[t] EXCEPT !.due = TRUE]

Marked(t) ==
  /\ rec[t] = "live" /\ rec'[t] = "deleting"
  /\ row'[t] = [row[t] EXCEPT !.eventSeq = @ + 1]
  /\ lastEvent'[t] = [ kind |-> "task_delete_requested", attempt |-> row[t].attempt,
                       from |-> row[t].status, to |-> row[t].status ]

Purged(t) ==
  rec[t] \in {"deleting", "gone"} /\ rec'[t] = "gone" /\ row'[t] = NoRow

Restarted(t) ==
  /\ phase = "resetting"
  /\ Interrupted(t)
  /\ Wrote(t, RecoveredRow(row[t]),
           IF Interrupt THEN "task_interrupted" ELSE "task_recovered", RecoveredRow(row[t]).attempt)

Claimed(t) ==
  /\ rec[t] = "live" /\ row[t].status = "pending"
  /\ Wrote(t, ClaimedRow(row[t]), "task_claimed", row[t].attempt)

\* A worker writes under its key, which is the row's: the product is of the row's attempt.
Saved(t) ==
  /\ rec[t] = "live" /\ row[t].status = "transcribing"
  /\ Wrote(t, Advanced(row[t], "summarizing", row[t].attempt, row[t].summary),
           "transcription_completed", row[t].attempt)

Completed(t) ==
  /\ rec[t] = "live" /\ row[t].status = "summarizing"
  /\ Wrote(t, Advanced(row[t], "done", row[t].transcript, row[t].attempt),
           "task_completed", row[t].attempt)

GaveUp(t) ==
  /\ rec[t] = "live" /\ row[t].status \in InFlight
  /\ Wrote(t, FailedRow(row[t]),
           IF AutoRetry(row[t]) THEN "task_auto_retry_scheduled" ELSE "task_failed",
           row[t].attempt)

Retried(t) ==
  /\ rec[t] = "live" /\ row[t].status = "failed"
  /\ Wrote(t, RetriedRow(row[t]), "task_retry_accepted", row[t].attempt + 1)

RowMove(t) ==
  \/ Kept(t) \/ Inserted(t) \/ FellDue(t) \/ Marked(t) \/ Purged(t) \/ Restarted(t)
  \/ Claimed(t) \/ Saved(t) \/ Completed(t) \/ GaveUp(t) \/ Retried(t)

LEMMA Writes ==
  ASSUME TypeOK, NEW u \in Tasks, NEW r, NEW kind, NEW attempt, NEW to,
         rec' = rec, row' = [row EXCEPT ![u] = r], Log(u, kind, attempt, to), r.status = to
  PROVE  /\ Wrote(u, r, kind, attempt)
         /\ \A t \in Tasks : t # u => Kept(t)
BY DEF Wrote, Kept, Log, TypeOK, RowsTyped

LEMMA UntouchedRows == ASSUME UNCHANGED rows PROVE \A t \in Tasks : RowMove(t)
BY DEF rows, RowMove, Kept

LEMMA HandlersMove ==
  ASSUME TypeOK, NEW u \in Tasks, Create(u) \/ RetryTask(u) \/ RetryDue(u), NEW t \in Tasks
  PROVE  RowMove(t)
<1>1. CASE Create(u)
  <2>1. row[u] = NoRow
    BY <1>1 DEF Create, Exists, TypeOK, RowsTyped
  <2>2. t = u => Inserted(t)
    BY <1>1, <2>1 DEF Create, Log, Inserted, NoRow, TypeOK, RowsTyped
  <2>3. t # u => Kept(t)
    BY <1>1 DEF Create, Log, Kept, TypeOK, RowsTyped
  <2> QED BY <2>2, <2>3 DEF RowMove
<1>2. CASE RetryTask(u)
  <2>1. RetriedRow(row[u]).status = "pending"
    BY DEF RetriedRow, Cleared
  <2>2. /\ Wrote(u, RetriedRow(row[u]), "task_retry_accepted", row[u].attempt + 1)
        /\ t # u => Kept(t)
    BY <1>2, <2>1, Writes DEF RetryTask
  <2> QED BY <1>2, <2>2 DEF RetryTask, Retried, RowMove
<1>3. CASE RetryDue(u)
  <2>1. t = u => FellDue(t)
    BY <1>3 DEF RetryDue, FellDue, TypeOK, RowsTyped
  <2>2. t # u => Kept(t)
    BY <1>3 DEF RetryDue, Kept, TypeOK, RowsTyped
  <2> QED BY <2>1, <2>2 DEF RowMove
<1> QED BY <1>1, <1>2, <1>3

\* Finalizers remove nothing that is not marked.
LEMMA FinalizersMove ==
  ASSUME TypeOK, MarkOutlivesFinalizer, NEW f \in Finalizers, FinalizerStep(f), NEW t \in Tasks
  PROVE  RowMove(t)
<1>1. CASE UNCHANGED rows
  BY <1>1, UntouchedRows
<1>2. ASSUME NEW u \in Tasks, MarkDeleting(f, u), ~UNCHANGED rows
      PROVE  RowMove(t)
  <2>1. t = u => Marked(t)
    BY <1>2 DEF MarkDeleting, Log, Marked, TypeOK, RowsTyped
  <2>2. t # u => Kept(t)
    BY <1>2 DEF MarkDeleting, Log, Kept, TypeOK, RowsTyped
  <2> QED BY <2>1, <2>2 DEF RowMove
<1>3. ASSUME PurgeRecording(f), ~UNCHANGED rows
      PROVE  RowMove(t)
  <2>1. t = fin[f].task => Purged(t)
    BY <1>3 DEF PurgeRecording, Purged, MarkOutlivesFinalizer, TypeOK, RowsTyped
  <2>2. t # fin[f].task => Kept(t)
    BY <1>3 DEF PurgeRecording, Kept, TypeOK, RowsTyped
  <2> QED BY <2>1, <2>2 DEF RowMove
<1> QED
  BY <1>1, <1>2, <1>3 DEF FinalizerStep, GetDeleting, ListDeleting, CancelTask

LEMMA FailTaskMoves ==
  ASSUME TypeOK, NEW w \in Workers, pc[w] \in Holding, FailTask(w), rec' = rec, NEW t \in Tasks
  PROVE  RowMove(t)
<1> DEFINE u == exec[w].task
<1>1. /\ u \in Tasks /\ rec[u] = "live" /\ row[u].status \in InFlight
      /\ exec[w].attempt = row[u].attempt
  BY RoundsHaveKeys DEF FailTask, Writable, Expected
<1>2. /\ Wrote(u, FailedRow(row[u]),
               IF AutoRetry(row[u]) THEN "task_auto_retry_scheduled" ELSE "task_failed",
               row[u].attempt)
      /\ t # u => Kept(t)
  BY <1>1, Writes DEF FailTask
<1> QED BY <1>1, <1>2 DEF GaveUp, RowMove

LEMMA WorkersMove ==
  ASSUME TypeOK, NEW w \in Workers, WorkerStep(w), NEW t \in Tasks
  PROVE  RowMove(t)
<1> DEFINE u == exec[w].task
<1>1. CASE UNCHANGED rows
  BY <1>1, UntouchedRows
<1>2. ASSUME NEW v \in Tasks, ClaimNext(w, v)
      PROVE  RowMove(t)
  <2>1. ClaimedRow(row[v]).status = "transcribing"
    BY DEF ClaimedRow, Advanced
  <2>2. Wrote(v, ClaimedRow(row[v]), "task_claimed", row[v].attempt) /\ (t # v => Kept(t))
    BY <1>2, <2>1, Writes DEF ClaimNext
  <2> QED BY <1>2, <2>2 DEF ClaimNext, Claimable, Claimed, RowMove
<1>3. CASE SaveTranscription(w)
  <2>1. /\ u \in Tasks /\ rec[u] = "live" /\ row[u].status = "transcribing"
        /\ exec[w].attempt = row[u].attempt
    BY <1>3, RoundsHaveKeys, Places DEF SaveTranscription, Writable, Expected
  <2>2. /\ SavedRow(row[u], exec[w]) = Advanced(row[u], "summarizing", row[u].attempt, row[u].summary)
        /\ SavedRow(row[u], exec[w]).status = "summarizing"
    BY <2>1 DEF SavedRow, Advanced
  <2>3. /\ Wrote(u, SavedRow(row[u], exec[w]), "transcription_completed", row[u].attempt)
        /\ t # u => Kept(t)
    BY <1>3, <2>1, <2>2, Writes DEF SaveTranscription
  <2> QED BY <2>1, <2>2, <2>3 DEF Saved, RowMove
<1>4. CASE CompleteTask(w)
  <2>1. /\ u \in Tasks /\ rec[u] = "live" /\ row[u].status = "summarizing"
        /\ exec[w].attempt = row[u].attempt
    BY <1>4, RoundsHaveKeys, Places DEF CompleteTask, Writable, Expected
  <2>2. /\ CompletedRow(row[u], exec[w]) = Advanced(row[u], "done", row[u].transcript, row[u].attempt)
        /\ CompletedRow(row[u], exec[w]).status = "done"
    BY <2>1 DEF CompletedRow, Advanced
  <2>3. /\ Wrote(u, CompletedRow(row[u], exec[w]), "task_completed", row[u].attempt)
        /\ t # u => Kept(t)
    BY <1>4, <2>1, <2>2, Writes DEF CompleteTask
  <2> QED BY <2>1, <2>2, <2>3 DEF Completed, RowMove
<1>5. CASE FailRound(w) \/ RecoverRound(w)
  <2>1. pc[w] \in Holding /\ rec' = rec
    BY <1>5, Places DEF FailRound, RecoverRound
  <2> QED BY <1>1, <1>5, <2>1, FailTaskMoves DEF FailRound, RecoverRound, rows
<1> QED
  BY <1>1, <1>2, <1>3, <1>4, <1>5
     DEF WorkerStep, StartRound, ClaimNothing, Register, Recheck, CallReturns, CallFails,
         CallCancelled, CallPanics, WriteFails, DropStale, Leave

LEMMA ProcessMoves ==
  ASSUME TypeOK, ProcessStep, NEW t \in Tasks
  PROVE  RowMove(t)
<1>1. CASE UNCHANGED rows
  BY <1>1, UntouchedRows
<1>2. CASE ResumeDeletions
  <2>1. Kept(t) \/ Purged(t)
    BY <1>2 DEF ResumeDeletions, Kept, Purged
  <2> QED BY <2>1 DEF RowMove
<1>3. CASE ResetInFlight
  <2>1. CASE UNCHANGED <<row, lastEvent>>
    BY <1>1, <1>3, <2>1 DEF ResetInFlight, rows
  <2>2. CASE ~UNCHANGED <<row, lastEvent>>
    <3>1. Interrupted(t) => Restarted(t)
      BY <1>3, <2>2 DEF ResetInFlight, Restarted, Wrote
    <3>2. ~Interrupted(t) => Kept(t)
      BY <1>3, <2>2 DEF ResetInFlight, Kept
    <3> QED BY <3>1, <3>2 DEF RowMove
  <2> QED BY <2>1, <2>2
<1> QED
  BY <1>1, <1>2, <1>3 DEF ProcessStep, Drain, ForceStop, ProcessEnds, Boot

LEMMA RowMoves == ASSUME ExecutorInv, [Next]_vars PROVE \A t \in Tasks : RowMove(t)
<1>1. TypeOK /\ MarkOutlivesFinalizer
  BY DEF ExecutorInv
<1>2. CASE UNCHANGED vars
  BY <1>2, UntouchedRows DEF vars, rows
<1> QED
  BY <1>1, <1>2, HandlersMove, FinalizersMove, WorkersMove, ProcessMoves DEF Next

-----------------------------------------------------------------------------
\* Products

ProductsFit(r) ==
  /\ r.transcript \in {0, r.attempt}
  /\ r.summary = (IF r.status = "done" THEN r.attempt ELSE 0)
  /\ r.status \in {"pending", "transcribing"} => r.transcript = 0
  /\ r.status \in {"summarizing", "done"} => r.transcript = r.attempt

LEMMA ProductsByRow == ProductsOfThisRound <=> \A t \in Tasks : Exists(t) => ProductsFit(row[t])
BY DEF ProductsOfThisRound, ProductsFit

\* Every row a transaction may write fits when the one it read did.
LEMMA WrittenRowsFit ==
  ASSUME NEW r \in Row, ProductsFit(r)
  PROVE  /\ ProductsFit(CreatedRow)
         /\ ProductsFit([r EXCEPT !.due = TRUE])
         /\ ProductsFit([r EXCEPT !.eventSeq = @ + 1])
         /\ r.status = "pending" => ProductsFit(ClaimedRow(r))
         /\ r.status = "transcribing" =>
              ProductsFit(Advanced(r, "summarizing", r.attempt, r.summary))
         /\ r.status = "summarizing" =>
              ProductsFit(Advanced(r, "done", r.transcript, r.attempt))
         /\ r.status \in InFlight => ProductsFit(FailedRow(r)) /\ ProductsFit(RecoveredRow(r))
         /\ ProductsFit(RetriedRow(r))
<1>1. ProductsFit(CreatedRow)
  BY DEF ProductsFit, CreatedRow
<1>2. /\ ProductsFit([r EXCEPT !.due = TRUE])
      /\ ProductsFit([r EXCEPT !.eventSeq = @ + 1])
  BY DEF ProductsFit, Row
<1>3. /\ r.status = "pending" => ProductsFit(ClaimedRow(r))
      /\ r.status = "transcribing" =>
           ProductsFit(Advanced(r, "summarizing", r.attempt, r.summary))
      /\ r.status = "summarizing" =>
           ProductsFit(Advanced(r, "done", r.transcript, r.attempt))
  BY DEF ProductsFit, ClaimedRow, Advanced
<1>4. ASSUME r.status \in InFlight PROVE ProductsFit(RecoveredRow(r))
  BY <1>4 DEF ProductsFit, RecoveredRow, Advanced, Cleared, InFlight
<1>5. ProductsFit(FailedRow(r)) /\ ProductsFit(RetriedRow(r))
  BY DEF ProductsFit, FailedRow, RetriedRow, Cleared
<1> QED BY <1>1, <1>2, <1>3, <1>4, <1>5

LEMMA ProductsKept ==
  ASSUME TypeOK, ProductsOfThisRound, \A t \in Tasks : RowMove(t)
  PROVE  ProductsOfThisRound'
<1> SUFFICES ASSUME NEW t \in Tasks, Exists(t)' PROVE ProductsFit(row'[t])
  BY DEF ProductsOfThisRound, ProductsFit
<1>1. Exists(t) => row[t] \in Row /\ ProductsFit(row[t])
  BY ProductsByRow DEF TypeOK, RowsTyped
<1>2. CASE Inserted(t)
  BY <1>2 DEF Inserted, ProductsFit, CreatedRow
<1>3. CASE Kept(t) \/ FellDue(t) \/ Marked(t)
  <2>1. Exists(t)
    BY <1>3 DEF Kept, FellDue, Marked, Exists
  <2> QED BY <1>1, <1>3, <2>1, WrittenRowsFit DEF Kept, FellDue, Marked
<1>4. CASE Claimed(t) \/ Saved(t) \/ Completed(t) \/ GaveUp(t) \/ Retried(t) \/ Restarted(t)
  <2>1. Exists(t)
    BY <1>4 DEF Claimed, Saved, Completed, GaveUp, Retried, Restarted, Interrupted, Exists
  <2> QED
    BY <1>1, <1>4, <2>1, WrittenRowsFit
       DEF Claimed, Saved, Completed, GaveUp, Retried, Restarted, Interrupted, Wrote
<1>5. ~Purged(t)
  BY DEF Purged, Exists
<1> QED BY <1>2, <1>3, <1>4, <1>5 DEF RowMove

\* The transcript and the summary a row shows are its present attempt's, whatever
\* writes were retried, late or recovered from (processing_tx.go, recording_tx.go).
THEOREM ProductsAreOfTheRound == Spec => []ProductsOfThisRound
<1>1. Init => ProductsOfThisRound
  BY DEF Init, ProductsOfThisRound, Exists
<1>2. ExecutorInv /\ ProductsOfThisRound /\ [Next]_vars => ProductsOfThisRound'
  BY RowMoves, ProductsKept DEF ExecutorInv
<1> QED
  BY <1>1, <1>2, ExecutorInvariant, PTL DEF Spec

-----------------------------------------------------------------------------
\* Late results

\* Until a marked recording is purged nothing but recovery changes its task, and
\* nothing brings a purged one back (recording_tx.go, processing_tx.go).
THEOREM NoLateResults == Spec => LateResultsDropped
<1>1. ASSUME ExecutorInv, [Next]_vars, NEW t \in Tasks
      PROVE  /\ rec[t] = "deleting" /\ phase # "resetting" =>
                  \/ rec'[t] = "gone"
                  \/ rec'[t] = "deleting" /\ row'[t] = [row[t] EXCEPT !.due = row'[t].due]
             /\ rec[t] = "gone" => rec'[t] = "gone" /\ row'[t] = NoRow
  <2>1. RowMove(t) /\ TypeOK
    BY <1>1, RowMoves DEF ExecutorInv
  <2>2. /\ rec[t] = "deleting" => row[t] \in Row
        /\ rec[t] = "gone" => row[t] = NoRow
    BY <2>1 DEF TypeOK, RowsTyped, Exists
  <2>3. CASE Kept(t) \/ Purged(t)
    BY <2>2, <2>3 DEF Kept, Purged, Row
  <2>4. CASE FellDue(t)
    BY <2>2, <2>4 DEF FellDue, Exists, Row
  <2>5. CASE Restarted(t)
    BY <2>5 DEF Restarted, Interrupted, Exists
  <2> QED
    BY <2>1, <2>3, <2>4, <2>5
       DEF RowMove, Inserted, Marked, Claimed, Saved, Completed, GaveUp, Retried
<1>2. ExecutorInv /\ [Next]_vars =>
        [\A t \in Tasks :
           /\ rec[t] = "deleting" /\ phase # "resetting" =>
                \/ rec'[t] = "gone"
                \/ rec'[t] = "deleting" /\ row'[t] = [row[t] EXCEPT !.due = row'[t].due]
           /\ rec[t] = "gone" => rec'[t] = "gone" /\ row'[t] = NoRow]_vars
  BY <1>1
<1> QED
  BY <1>2, ExecutorInvariant, PTL DEF Spec, LateResultsDropped

-----------------------------------------------------------------------------
\* Owners

Halts(t) == row'[t].status = row[t].status /\ row'[t].attempt = row[t].attempt

\* w holds the round of t that is under way, and takes the step.
MovedBy(w, t) ==
  /\ exec[w] = [task |-> t, attempt |-> row[t].attempt]
  /\ <<pc[w], tries[w]>>' # <<pc[w], tries[w]>>

\* A write that is applied moves its worker, told of it or not.
LEMMA AppliedMoves ==
  ASSUME TypeOK, NEW w \in Workers, NEW next \in WorkerPC, Acknowledge(w, next),
         pc[w] \in Writing, next \notin Writing
  PROVE  <<pc[w], tries[w]>>' # <<pc[w], tries[w]>>
<1>1. pc \in [Workers -> WorkerPC] /\ tries \in [Workers -> 0..PersistRetries]
  BY DEF TypeOK, WorkersTyped
<1>2. CASE Goto(w, next)
  <2>1. pc'[w] = next
    BY <1>1, <1>2 DEF Goto
  <2> QED BY <2>1
<1>3. CASE TryAgain(w)
  <2>1. CASE Goto(w, "leaving")
    BY <1>1, <2>1 DEF Goto, Writing
  <2>2. CASE tries' = [tries EXCEPT ![w] = @ + 1]
    <3>1. tries'[w] = tries[w] + 1 /\ tries[w] \in Nat
      BY <1>1, <2>2 DEF PersistRetries
    <3> QED BY <3>1
  <2> QED BY <1>3, <2>1, <2>2 DEF TryAgain
<1> QED BY <1>2, <1>3 DEF Acknowledge

LEMMA WorkersMoveTheirOwn ==
  ASSUME TypeOK, NEW w \in Workers, WorkerStep(w), NEW t \in Tasks, row[t].status \in InFlight
  PROVE  Halts(t) \/ MovedBy(w, t)
<1> DEFINE u == exec[w].task
<1>1. /\ pc \in [Workers -> WorkerPC] /\ row \in [Tasks -> Row \cup {NoRow}]
      /\ pc[w] \in Holding => exec[w] \in Key
  BY RoundsHaveKeys DEF TypeOK, WorkersTyped, RowsTyped
<1>2. CASE UNCHANGED rows
  BY <1>2 DEF rows, Halts
<1>3. ASSUME NEW v \in Tasks, ClaimNext(w, v)
      PROVE  Halts(t)
  BY <1>1, <1>3 DEF ClaimNext, Claimable, InFlight, Halts
<1>4. ASSUME pc[w] \in Holding, NEW r, row' = [row EXCEPT ![u] = r],
             Writable(w, InFlight), <<pc[w], tries[w]>>' # <<pc[w], tries[w]>>
      PROVE  Halts(t) \/ MovedBy(w, t)
  <2>1. CASE t = u
    BY <1>1, <1>4, <2>1 DEF Key, Writable, MovedBy
  <2>2. CASE t # u
    BY <1>1, <1>4, <2>2 DEF Halts
  <2> QED BY <2>1, <2>2
<1>5. CASE SaveTranscription(w)
  <2>1. <<pc[w], tries[w]>>' # <<pc[w], tries[w]>>
    BY <1>5, AppliedMoves, Places DEF SaveTranscription, Writing
  <2> QED BY <1>4, <1>5, <2>1, Places DEF SaveTranscription, Writable, Expected, InFlight
<1>6. CASE CompleteTask(w)
  <2>1. <<pc[w], tries[w]>>' # <<pc[w], tries[w]>>
    BY <1>6, AppliedMoves, Places DEF CompleteTask, Writing
  <2> QED BY <1>4, <1>6, <2>1, Places DEF CompleteTask, Writable, Expected, InFlight
<1>7. CASE FailRound(w)
  <2>1. <<pc[w], tries[w]>>' # <<pc[w], tries[w]>>
    BY <1>7, AppliedMoves, Places DEF FailRound, Writing
  <2> QED BY <1>4, <1>7, <2>1, Places DEF FailRound, FailTask, Expected
<1>8. CASE RecoverRound(w)
  <2>1. pc'[w] = "idle" /\ pc[w] = "recovering"
    BY <1>1, <1>8 DEF RecoverRound, Goto
  <2>2. CASE row' = row
    BY <2>2 DEF Halts
  <2>3. CASE FailTask(w)
    BY <1>4, <2>1, <2>3, Places DEF FailTask, Expected
  <2> QED BY <1>8, <2>2, <2>3 DEF RecoverRound
<1> QED
  BY <1>2, <1>3, <1>5, <1>6, <1>7, <1>8
     DEF WorkerStep, StartRound, ClaimNothing, Register, Recheck, CallReturns, CallFails,
         CallCancelled, CallPanics, WriteFails, DropStale, Leave

\* Requests move no task in flight, finalizers only by a purge, and the process only
\* when it starts.
LEMMA OthersMoveNothing ==
  ASSUME ExecutorInv, NEW t \in Tasks, Exists(t), row[t].status \in InFlight,
         phase # "resetting",
         \/ \E u \in Tasks : Create(u) \/ RetryTask(u) \/ RetryDue(u)
         \/ \E f \in Finalizers : FinalizerStep(f)
         \/ ProcessStep
         \/ UNCHANGED vars
  PROVE  rec'[t] = "gone" \/ Halts(t)
<1>1. TypeOK /\ MarkOutlivesFinalizer /\ row[t] \in Row
  BY DEF ExecutorInv, TypeOK, RowsTyped, Exists
<1>2. ASSUME NEW u \in Tasks, Create(u) \/ RetryTask(u) \/ RetryDue(u)
      PROVE  Halts(t)
  <2>1. row \in [Tasks -> Row \cup {NoRow}]
    BY <1>1 DEF TypeOK, RowsTyped
  <2>2. CASE Create(u)
    BY <2>1, <2>2 DEF Create, Exists, Halts
  <2>3. CASE RetryTask(u)
    BY <2>1, <2>3 DEF RetryTask, InFlight, Halts
  <2>4. CASE RetryDue(u)
    BY <1>1, <2>1, <2>4 DEF RetryDue, Halts, Row
  <2> QED BY <1>2, <2>2, <2>3, <2>4
<1>3. ASSUME NEW f \in Finalizers, FinalizerStep(f)
      PROVE  rec'[t] = "gone" \/ Halts(t)
  <2>1. CASE UNCHANGED rows
    BY <2>1 DEF rows, Halts
  <2>2. ASSUME NEW u \in Tasks, MarkDeleting(f, u), ~UNCHANGED rows
        PROVE  Halts(t)
    BY <1>1, <2>2 DEF MarkDeleting, Halts, TypeOK, RowsTyped, Row
  <2>3. ASSUME PurgeRecording(f), ~UNCHANGED rows
        PROVE  rec'[t] = "gone" \/ Halts(t)
    BY <1>1, <2>3 DEF PurgeRecording, Halts, TypeOK, RowsTyped
  <2> QED
    BY <1>3, <2>1, <2>2, <2>3 DEF FinalizerStep, GetDeleting, ListDeleting, CancelTask
<1>4. CASE ProcessStep
  <2>1. CASE UNCHANGED row
    BY <2>1 DEF Halts
  <2>2. CASE ResumeDeletions
    BY <2>2 DEF ResumeDeletions, Halts
  <2>3. ~ResetInFlight
    BY DEF ResetInFlight
  <2> QED
    BY <1>4, <2>1, <2>2, <2>3 DEF ProcessStep, Drain, ForceStop, ProcessEnds, Boot, rows
<1>5. CASE UNCHANGED vars
  BY <1>5 DEF vars, rows, Halts
<1> QED BY <1>2, <1>3, <1>4, <1>5

\* Whatever commits, retries and rechecks go wrong, nobody moves a task in flight but
\* the worker that holds its round (processing_tx.go, process.go).
THEOREM NobodyElseMoves == Spec => OnlyOwnersMove
<1>1. ASSUME ExecutorInv, [Next]_vars, NEW t \in Tasks, Exists(t),
             row[t].status \in InFlight, phase # "resetting"
      PROVE  rec'[t] = "gone" \/ Halts(t) \/ \E w \in Workers : MovedBy(w, t)
  <2>1. TypeOK
    BY <1>1 DEF ExecutorInv
  <2>2. ASSUME NEW w \in Workers, WorkerStep(w) PROVE Halts(t) \/ MovedBy(w, t)
    BY <1>1, <2>1, <2>2, WorkersMoveTheirOwn
  <2> QED BY <1>1, <2>2, OthersMoveNothing DEF Next
<1>2. ExecutorInv /\ [Next]_vars =>
        [\A t \in Tasks : Exists(t) /\ row[t].status \in InFlight /\ phase # "resetting" =>
           \/ rec'[t] = "gone"
           \/ row'[t].status = row[t].status /\ row'[t].attempt = row[t].attempt
           \/ \E w \in Workers :
                /\ exec[w] = [task |-> t, attempt |-> row[t].attempt]
                /\ <<pc[w], tries[w]>>' # <<pc[w], tries[w]>>]_vars
  BY <1>1 DEF Halts, MovedBy
<1> QED
  BY <1>2, ExecutorInvariant, PTL DEF Spec, OnlyOwnersMove

-----------------------------------------------------------------------------
\* Events

\* The newest event of t leads to the row's status and tells its attempt.
EventTells(t) ==
  /\ lastEvent[t].to = row[t].status
  /\ row[t].attempt = lastEvent[t].attempt
       + (IF lastEvent[t].kind = "task_auto_retry_scheduled" THEN 1 ELSE 0)

EventsTell == \A t \in Tasks : Exists(t) => EventTells(t)

\* A move that leaves no event leaves status and attempt; every other one adds one
\* event, which starts from the status the row had.
EventFollows(t) ==
  IF row'[t].eventSeq = row[t].eventSeq
  THEN /\ lastEvent'[t] = lastEvent[t]
       /\ row'[t].status = row[t].status /\ row'[t].attempt = row[t].attempt
  ELSE /\ row'[t].eventSeq = row[t].eventSeq + 1
       /\ lastEvent'[t].from = row[t].status

\* A row that is written takes the next event number and a status of its own.
LEMMA WrittenRowsNumbered ==
  ASSUME NEW r \in Row
  PROVE  /\ \A s \in {ClaimedRow(r), Advanced(r, "summarizing", r.attempt, r.summary),
                       Advanced(r, "done", r.transcript, r.attempt), FailedRow(r),
                       RecoveredRow(r), RetriedRow(r)} : s.eventSeq = r.eventSeq + 1
         /\ ClaimedRow(r).attempt = r.attempt
         /\ \A to, tr, su : Advanced(r, to, tr, su).attempt = r.attempt
         /\ FailedRow(r).attempt = r.attempt + (IF AutoRetry(r) THEN 1 ELSE 0)
         /\ RetriedRow(r).attempt = r.attempt + 1
BY DEF ClaimedRow, Advanced, FailedRow, RecoveredRow, RetriedRow, Cleared, Row

\* What Wrote leaves behind, for the six transactions of the task's rounds.
LEMMA WriteRecorded ==
  ASSUME NEW t \in Tasks, Exists(t), row[t] \in Row,
         NEW s, NEW kind, NEW attempt, Wrote(t, s, kind, attempt),
         s.eventSeq = row[t].eventSeq + 1,
         s.attempt = attempt + (IF kind = "task_auto_retry_scheduled" THEN 1 ELSE 0)
  PROVE  EventFollows(t) /\ EventTells(t)'
<1>1. row'[t].eventSeq # row[t].eventSeq
  BY DEF Wrote, Row
<1> QED BY <1>1 DEF Wrote, EventFollows, EventTells

LEMMA EventsMove ==
  ASSUME TypeOK, NEW t \in Tasks, RowMove(t), Exists(t)', Exists(t) => EventTells(t)
  PROVE  /\ EventTells(t)'
         /\ Exists(t) => EventFollows(t)
<1>1. Exists(t) => row[t] \in Row
  BY DEF TypeOK, RowsTyped
<1>2. CASE Inserted(t)
  BY <1>2 DEF Inserted, EventTells, CreatedRow, Exists
<1>3. CASE Kept(t)
  BY <1>3 DEF Kept, EventTells, EventFollows, Exists
<1>4. CASE FellDue(t)
  BY <1>1, <1>4 DEF FellDue, EventTells, EventFollows, Row
<1>5. CASE Marked(t)
  <2>1. row[t] \in Row
    BY <1>1, <1>5 DEF Marked, Exists
  <2> QED BY <1>5, <2>1 DEF Marked, EventTells, EventFollows, Row
<1>6. ~Purged(t)
  BY DEF Purged, Exists
<1>7. CASE Claimed(t) \/ Saved(t) \/ Completed(t) \/ GaveUp(t) \/ Retried(t) \/ Restarted(t)
  <2>1. Exists(t) /\ row[t] \in Row
    BY <1>1, <1>7 DEF Claimed, Saved, Completed, GaveUp, Retried, Restarted, Interrupted, Exists
  <2>2. row[t].attempt \in Nat
    BY <2>1 DEF Row
  <2>3. CASE Claimed(t)
    BY <2>1, <2>2, <2>3, WrittenRowsNumbered, WriteRecorded DEF Claimed
  <2>4. CASE Saved(t)
    BY <2>1, <2>2, <2>4, WrittenRowsNumbered, WriteRecorded DEF Saved
  <2>5. CASE Completed(t)
    BY <2>1, <2>2, <2>5, WrittenRowsNumbered, WriteRecorded DEF Completed
  <2>6. CASE GaveUp(t)
    BY <2>1, <2>2, <2>6, WrittenRowsNumbered, WriteRecorded DEF GaveUp
  <2>7. CASE Retried(t)
    BY <2>1, <2>2, <2>7, WrittenRowsNumbered, WriteRecorded DEF Retried
  <2>8. CASE Restarted(t)
    <3>1. RecoveredRow(row[t]).attempt \in Nat
      BY <2>2 DEF RecoveredRow, Advanced, Cleared
    <3> QED BY <2>1, <2>8, <3>1, WrittenRowsNumbered, WriteRecorded DEF Restarted
  <2> QED BY <1>7, <2>3, <2>4, <2>5, <2>6, <2>7, <2>8
<1> QED BY <1>2, <1>3, <1>4, <1>5, <1>6, <1>7 DEF RowMove

LEMMA EventsInvariant == Spec => [](ExecutorInv /\ EventsTell)
<1>1. Init => EventsTell
  BY DEF Init, EventsTell, Exists
<1>2. ExecutorInv /\ EventsTell /\ [Next]_vars => EventsTell'
  <2> SUFFICES ASSUME ExecutorInv, EventsTell, [Next]_vars, NEW t \in Tasks, Exists(t)'
               PROVE  EventTells(t)'
    BY DEF EventsTell
  <2> QED BY RowMoves, EventsMove DEF EventsTell, ExecutorInv
<1> QED
  BY <1>1, <1>2, ExecutorInvariant, PTL DEF Spec

\* The events alone replay the task: no change of a row goes unrecorded, and each
\* event starts where the last one led (recording_tx.go, processing_tx.go).
THEOREM EventsReplayTheTask == Spec => AuditTrail
<1> DEFINE Replayed(t) ==
      Exists(t) /\ Exists(t)' =>
       /\ lastEvent[t].to = row[t].status
       /\ row[t].attempt = lastEvent[t].attempt
            + (IF lastEvent[t].kind = "task_auto_retry_scheduled" THEN 1 ELSE 0)
       /\ IF row'[t].eventSeq = row[t].eventSeq
          THEN /\ lastEvent'[t] = lastEvent[t]
               /\ row'[t].status = row[t].status /\ row'[t].attempt = row[t].attempt
          ELSE /\ row'[t].eventSeq = row[t].eventSeq + 1
               /\ lastEvent'[t].from = lastEvent[t].to
<1>1. ExecutorInv /\ EventsTell /\ [Next]_vars => [\A t \in Tasks : Replayed(t)]_vars
  <2> SUFFICES ASSUME ExecutorInv, EventsTell, [Next]_vars, NEW t \in Tasks,
                      Exists(t), Exists(t)'
               PROVE  Replayed(t)
    OBVIOUS
  <2>1. EventTells(t) /\ EventFollows(t)
    BY RowMoves, EventsMove DEF EventsTell, ExecutorInv
  <2> QED BY <2>1 DEF EventTells, EventFollows
<1> QED
  BY <1>1, EventsInvariant, PTL DEF Spec, AuditTrail

-----------------------------------------------------------------------------
\* The life cycle

\* What TaskLifecycle is told of the rows.
LifeOf(t) ==
  CASE rec[t] = "none" -> [status |-> "absent", attempt |-> 0, eventSeq |-> 0]
    [] rec[t] = "gone" -> [status |-> "purged", attempt |-> 0, eventSeq |-> 0]
    [] OTHER -> [ status   |-> row[t].status,
                  attempt  |-> row[t].attempt,
                  eventSeq |-> row[t].eventSeq ]

life == [t \in Tasks |-> LifeOf(t)]

\* TaskLifecycle brings the vocabulary along under its own name.
LEMMA SameVocabulary ==
  /\ Lifecycle!Statuses = Statuses
  /\ \A from, to : Lifecycle!CanTransition(from, to) <=> CanTransition(from, to)
BY DEF Lifecycle!Statuses, Lifecycle!InFlight, Statuses, InFlight,
       Lifecycle!CanTransition, Lifecycle!Transitions, CanTransition, Transitions

LEMMA LivesTyped == ASSUME TypeOK' PROVE life' \in [Tasks -> Lifecycle!Life]
<1> SUFFICES ASSUME NEW t \in Tasks PROVE LifeOf(t)' \in Lifecycle!Life
  BY DEF life
<1>1. CASE Exists(t)'
  <2>1. row'[t] \in Row /\ rec'[t] \notin {"none", "gone"}
    BY <1>1 DEF TypeOK, RowsTyped, Exists
  <2> QED BY <2>1, SameVocabulary DEF LifeOf, Lifecycle!Life, Row
<1>2. CASE ~Exists(t)'
  <2>1. rec'[t] \in {"none", "gone"}
    BY <1>2 DEF TypeOK, RowsTyped, Exists
  <2> QED BY <2>1 DEF LifeOf, Lifecycle!Life, Lifecycle!Absent, Lifecycle!Purged
<1> QED BY <1>1, <1>2

\* Every write of a round follows an edge of the domain and begins an attempt
\* exactly when it queues the task.
LEMMA WritesAdvance ==
  ASSUME TypeOK, NEW t \in Tasks, Exists(t), rec'[t] = rec[t],
         \/ Claimed(t) \/ Saved(t) \/ Completed(t) \/ GaveUp(t) \/ Retried(t) \/ Restarted(t)
  PROVE  Lifecycle!Advance(LifeOf(t), LifeOf(t)')
<1>1. row[t] \in Row /\ rec[t] \notin {"none", "gone"} /\ rec'[t] \notin {"none", "gone"}
  BY DEF TypeOK, RowsTyped, Exists
<1>2. LifeOf(t) = [ status |-> row[t].status, attempt |-> row[t].attempt,
                    eventSeq |-> row[t].eventSeq ]
  BY <1>1 DEF LifeOf
<1>3. LifeOf(t)' = [ status |-> row'[t].status, attempt |-> row'[t].attempt,
                     eventSeq |-> row'[t].eventSeq ]
  BY <1>1 DEF LifeOf
<1> DEFINE new == row'[t]
<1>4. /\ CanTransition(row[t].status, new.status)
      /\ new.attempt = IF new.status = "pending" THEN row[t].attempt + 1 ELSE row[t].attempt
      /\ new.eventSeq = row[t].eventSeq + 1
  <2> USE DEF CanTransition, Transitions, Wrote
  <2>1. CASE Claimed(t)
    BY <2>1 DEF Claimed, ClaimedRow, Advanced
  <2>2. CASE Saved(t)
    BY <2>2 DEF Saved, Advanced
  <2>3. CASE Completed(t)
    BY <2>3 DEF Completed, Advanced
  <2>4. CASE GaveUp(t)
    BY <2>4 DEF GaveUp, FailedRow, Cleared, InFlight
  <2>5. CASE Retried(t)
    BY <2>5 DEF Retried, RetriedRow, Cleared
  <2>6. CASE Restarted(t)
    BY <2>6 DEF Restarted, Interrupted, RecoveredRow, Advanced, Cleared, InFlight
  <2> QED BY <2>1, <2>2, <2>3, <2>4, <2>5, <2>6
<1>5. row[t].status \in Statuses
  BY <1>1 DEF Row
<1> QED BY <1>2, <1>3, <1>4, <1>5, SameVocabulary DEF Lifecycle!Advance

LEMMA LivesMove ==
  ASSUME TypeOK, NEW t \in Tasks, RowMove(t)
  PROVE  LifeOf(t)' = LifeOf(t) \/ Lifecycle!Step(LifeOf(t), LifeOf(t)')
<1>1. Exists(t) => row[t] \in Row /\ rec[t] \notin {"none", "gone"}
  BY DEF TypeOK, RowsTyped, Exists
<1>2. CASE Kept(t)
  BY <1>2 DEF Kept, LifeOf
<1>3. CASE FellDue(t)
  BY <1>1, <1>3 DEF FellDue, LifeOf, Row
<1>4. CASE Inserted(t)
  BY <1>4 DEF Inserted, CreatedRow, LifeOf, Lifecycle!Step, Lifecycle!Create, Lifecycle!Absent
<1>5. CASE Marked(t)
  <2>1. row[t] \in Row
    BY <1>1, <1>5 DEF Marked, Exists
  <2>2. Lifecycle!Note(LifeOf(t), LifeOf(t)')
    BY <1>5, <2>1, SameVocabulary DEF Marked, LifeOf, Row, Lifecycle!Note
  <2> QED BY <2>2 DEF Lifecycle!Step
<1>6. CASE Purged(t)
  <2>1. LifeOf(t)' = Lifecycle!Purged
    BY <1>6 DEF Purged, LifeOf, Lifecycle!Purged
  <2>2. CASE rec[t] = "deleting"
    <3>1. LifeOf(t).status \in Lifecycle!Statuses
      BY <1>1, <2>2, SameVocabulary DEF LifeOf, Exists, Row
    <3> QED BY <2>1, <3>1 DEF Lifecycle!Step, Lifecycle!Purge
  <2>3. CASE rec[t] = "gone"
    BY <2>1, <2>3 DEF LifeOf, Lifecycle!Purged
  <2> QED BY <1>6, <2>2, <2>3 DEF Purged
<1>7. CASE Claimed(t) \/ Saved(t) \/ Completed(t) \/ GaveUp(t) \/ Retried(t) \/ Restarted(t)
  <2>1. Exists(t) /\ rec'[t] = rec[t]
    BY <1>7
       DEF Claimed, Saved, Completed, GaveUp, Retried, Restarted, Interrupted, Wrote, Exists
  <2> QED BY <1>7, <2>1, WritesAdvance DEF Lifecycle!Step
<1> QED BY <1>2, <1>3, <1>4, <1>5, <1>6, <1>7 DEF RowMove

\* Whatever workers, finalizers, faults and restarts do, each task goes through the
\* state machine of the domain, one edge and one event at a time (task.go).
THEOREM PipelineImplementsLifecycle == Spec => ImplementsLifecycle
<1>1. Init => Lifecycle!Init
  BY DEF Init, Lifecycle!Init, Lifecycle!Absent
<1>2. ExecutorInv /\ [Next]_vars => [Lifecycle!Next]_life
  <2> SUFFICES ASSUME ExecutorInv, [Next]_vars PROVE Lifecycle!Next
    OBVIOUS
  <2>1. life' \in [Tasks -> Lifecycle!Life]
    BY TypePreserved, LivesTyped DEF ExecutorInv
  <2>2. \A t \in Tasks : life'[t] = life[t] \/ Lifecycle!Step(life[t], life'[t])
    BY RowMoves, LivesMove DEF life, ExecutorInv
  <2> QED BY <2>1, <2>2 DEF Lifecycle!Next, life, LifeOf
<1> QED
  BY <1>1, <1>2, ExecutorInvariant, PTL
     DEF Spec, ImplementsLifecycle, Lifecycle!Spec, life, LifeOf
=============================================================================
