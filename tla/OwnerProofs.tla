----------------------------- MODULE OwnerProofs -----------------------------
(***************************************************************************)
(* That a task in flight has a worker: a theorem about Pipeline for any    *)
(* tasks, workers and finalizers, where no fault leaves a worker in doubt. *)
(*                                                                         *)
(* The argument: the worker that moves a task on goes on with it (Manned   *)
(* says where in its round it then is); it leaves the round only when its  *)
(* write went through, when the task was marked or requeued, or when its   *)
(* call was cancelled, which happens for a deletion or at a forced stop    *)
(* alone (CancelledForCause); recovery takes every other task out of       *)
(* flight before the process serves again.                                 *)
(***************************************************************************)
EXTENDS RowProofs

\* No commit's outcome is lost, the recheck does not fail, and the one write that is
\* tried once only, after a panic, does not fail.  Without these a task does stay in
\* flight alone until the next start-up.
ToldOfWrites ==
  /\ Faults \cap {"commit", "read"} = {}
  /\ ~({"panic", "write"} \subseteq Faults)

-----------------------------------------------------------------------------
\* The inductive invariant

UnderWay(t) == rec[t] = "live" /\ row[t].status \in InFlight

\* Where the worker of a task in flight may be.
RoundPlaces(status) ==
  {"failing", "recovering"} \cup
    (IF status = "transcribing" THEN {"registering", "rechecking", "transcribing", "saving"}
                                ELSE {"summarizing", "completing"})

WorksOn(w, t) ==
  /\ exec[w] = [task |-> t, attempt |-> row[t].attempt]
  /\ pc[w] \in RoundPlaces(row[t].status)

Manned ==
  phase \in {"up", "draining"} /\ ~halted =>
    \A t \in Tasks : UnderWay(t) => \E w \in Workers : WorksOn(w, t)

CancelledForCause ==
  \A w \in Workers : cancelled[w] =>
    /\ pc[w] \in Holding \ {"registering"}
    /\ phase = "stopped" \/ rec[exec[w].task] \in {"deleting", "gone"}

PanicsAreFaults == \A w \in Workers : pc[w] = "recovering" => "panic" \in Faults

OwnerInv == Manned /\ CancelledForCause /\ PanicsAreFaults

LEMMA OwnerInit == Init => OwnerInv
BY Places DEF Init, OwnerInv, Manned, CancelledForCause, PanicsAreFaults

LEMMA OwnerStutter == ASSUME OwnerInv, UNCHANGED vars PROVE OwnerInv'
<1>1. Manned'
  BY DEF OwnerInv, vars, Manned, UnderWay, WorksOn
<1>2. CancelledForCause' /\ PanicsAreFaults'
  BY DEF OwnerInv, vars, CancelledForCause, PanicsAreFaults
<1> QED BY <1>1, <1>2 DEF OwnerInv

-----------------------------------------------------------------------------
\* Who moves

LEMMA OtherWorkers ==
  ASSUME TypeOK, NEW w \in Workers, WorkerStep(w), NEW v \in Workers, v # w
  PROVE  pc'[v] = pc[v] /\ exec'[v] = exec[v] /\ cancelled'[v] = cancelled[v]
<1> USE DEF TypeOK, WorkersTyped, Goto
<1>1. CASE \/ StartRound(w) \/ ClaimNothing(w) \/ (\E t \in Tasks : ClaimNext(w, t))
           \/ Register(w) \/ Recheck(w)
  BY <1>1 DEF StartRound, ClaimNothing, ClaimNext, Register, Recheck
<1>2. CASE CallReturns(w) \/ CallFails(w) \/ CallCancelled(w) \/ CallPanics(w)
  BY <1>2 DEF CallReturns, CallFails, CallCancelled, CallPanics
<1>3. CASE SaveTranscription(w) \/ CompleteTask(w) \/ FailRound(w) \/ WriteFails(w)
  BY <1>3 DEF SaveTranscription, CompleteTask, FailRound, WriteFails, Acknowledge, TryAgain
<1>4. CASE DropStale(w) \/ RecoverRound(w) \/ Leave(w)
  BY <1>4 DEF DropStale, RecoverRound, Leave
<1> QED BY <1>1, <1>2, <1>3, <1>4 DEF WorkerStep

\* Workers do not move the process on, and none takes a halt back.
LEMMA WorkersKeepPhase ==
  ASSUME NEW w \in Workers, WorkerStep(w)
  PROVE  phase' = phase /\ (halted => halted')
<1>1. CASE \/ StartRound(w) \/ ClaimNothing(w) \/ (\E t \in Tasks : ClaimNext(w, t))
           \/ Register(w) \/ Recheck(w) \/ RecoverRound(w) \/ Leave(w)
  BY <1>1 DEF StartRound, ClaimNothing, ClaimNext, Register, Recheck, RecoverRound, Leave
<1>2. CASE CallReturns(w) \/ CallFails(w) \/ CallCancelled(w) \/ CallPanics(w) \/ DropStale(w)
  BY <1>2 DEF CallReturns, CallFails, CallCancelled, CallPanics, DropStale
<1>3. CASE SaveTranscription(w) \/ CompleteTask(w) \/ FailRound(w) \/ WriteFails(w)
  <2>1. phase' = phase
    BY <1>3 DEF SaveTranscription, CompleteTask, FailRound, WriteFails
  <2>2. \/ halted' = halted
        \/ TryAgain(w)
    BY <1>3 DEF SaveTranscription, CompleteTask, FailRound, WriteFails, Acknowledge
  <2>3. TryAgain(w) => (halted => halted')
    BY DEF TryAgain
  <2> QED BY <2>1, <2>2, <2>3
<1> QED BY <1>1, <1>2, <1>3 DEF WorkerStep

LEMMA OthersKeepWorkers ==
  ASSUME \/ \E f \in Finalizers : FinalizerStep(f)
         \/ \E t \in Tasks : Create(t) \/ RetryTask(t) \/ RetryDue(t)
         \/ Drain \/ ForceStop \/ Boot \/ ResumeDeletions \/ ResetInFlight
  PROVE  pc' = pc /\ exec' = exec
BY DEF FinalizerStep, MarkDeleting, GetDeleting, ListDeleting, CancelTask, PurgeRecording, procs,
       Create, RetryTask, RetryDue, Drain, ForceStop, Boot, ResumeDeletions, ResetInFlight

\* A deletion is not taken back.
LEMMA MarksLast ==
  ASSUME ExecutorInv, Next, NEW t \in Tasks, rec[t] \in {"deleting", "gone"}
  PROVE  rec'[t] \in {"deleting", "gone"}
<1>1. RowMove(t)
  BY RowMoves
<1> QED
  BY <1>1 DEF RowMove, Kept, Inserted, FellDue, Marked, Purged, Restarted, Claimed, Saved,
              Completed, GaveUp, Retried, Wrote

-----------------------------------------------------------------------------
\* Panics and cancellations

LEMMA PanicsKept ==
  ASSUME TypeOK, PanicsAreFaults, Next
  PROVE  PanicsAreFaults'
<1> SUFFICES ASSUME NEW v \in Workers, pc'[v] = "recovering", pc[v] # "recovering"
             PROVE  "panic" \in Faults
  BY DEF PanicsAreFaults
<1>1. ASSUME NEW w \in Workers, WorkerStep(w) PROVE "panic" \in Faults
  <2>1. v = w
    BY <1>1, OtherWorkers
  <2>2. pc \in [Workers -> WorkerPC]
    BY DEF TypeOK, WorkersTyped
  <2> QED
    BY <1>1, <2>1, <2>2
       DEF WorkerStep, StartRound, ClaimNothing, ClaimNext, Register, Recheck, CallReturns,
           CallFails, CallCancelled, CallPanics, SaveTranscription, CompleteTask, FailRound,
           WriteFails, DropStale, RecoverRound, Leave, Goto, Acknowledge, TryAgain
<1>2. ~ProcessEnds
  BY DEF ProcessEnds
<1> QED BY <1>1, <1>2, OthersKeepWorkers DEF Next, ProcessStep

LEMMA CancelledByWorkers ==
  ASSUME TypeOK, CancelledForCause, NEW w \in Workers, WorkerStep(w), cancelled'[w]
  PROVE  /\ pc'[w] \in Holding \ {"registering"}
         /\ \/ phase' = "stopped"
            \/ rec[exec[w].task] \in {"deleting", "gone"} /\ exec'[w] = exec[w]
<1> DEFINE late == /\ pc[w] \in Holding \ {"registering"}
                   /\ phase = "stopped" \/ rec[exec[w].task] \in {"deleting", "gone"}
<1>1. cancelled[w] => late
  BY DEF CancelledForCause
<1>2. pc \in [Workers -> WorkerPC] /\ cancelled \in [Workers -> BOOLEAN]
  BY DEF TypeOK, WorkersTyped
<1>3. phase' = phase
  BY WorkersKeepPhase
<1>4. CASE Register(w)
  BY <1>2, <1>4, Places DEF Register, Goto
<1>5. CASE ~Register(w)
  <2>1. cancelled[w]
    <3>1. CASE RecoverRound(w) \/ Leave(w)
      BY <1>2, <3>1 DEF RecoverRound, Leave
    <3> QED
      BY <1>5, <3>1
         DEF WorkerStep, StartRound, ClaimNothing, ClaimNext, Recheck, CallReturns, CallFails,
             CallCancelled, CallPanics, SaveTranscription, CompleteTask, FailRound, WriteFails,
             DropStale
  <2>2. /\ exec'[w] = exec[w]
        /\ pc'[w] = pc[w] \/ pc'[w] \in Listed \cup {"recovering"}
    <3>1. CASE StartRound(w) \/ ClaimNothing(w) \/ (\E t \in Tasks : ClaimNext(w, t))
      BY <1>1, <2>1, <3>1, Places DEF StartRound, ClaimNothing, ClaimNext
    <3>2. CASE RecoverRound(w) \/ Leave(w)
      BY <1>2, <3>2 DEF RecoverRound, Leave
    <3>3. CASE Recheck(w) \/ CallReturns(w) \/ CallFails(w) \/ CallCancelled(w) \/ CallPanics(w)
      BY <1>2, <3>3, Places DEF Recheck, CallReturns, CallFails, CallCancelled, CallPanics, Goto
    <3>4. CASE \/ SaveTranscription(w) \/ CompleteTask(w) \/ FailRound(w) \/ WriteFails(w)
               \/ DropStale(w)
      BY <1>2, <3>4, Places
         DEF SaveTranscription, CompleteTask, FailRound, WriteFails, DropStale, Acknowledge,
             TryAgain, Goto
    <3> QED BY <1>5, <3>1, <3>2, <3>3, <3>4 DEF WorkerStep
  <2> QED BY <1>1, <1>3, <2>1, <2>2, Places
<1> QED BY <1>4, <1>5

LEMMA CancelledKept ==
  ASSUME ExecutorInv, ExecutorInv', CancelledForCause, Next
  PROVE  CancelledForCause'
<1> SUFFICES ASSUME NEW v \in Workers, cancelled'[v]
             PROVE  /\ pc'[v] \in Holding \ {"registering"}
                    /\ phase' = "stopped" \/ rec'[exec'[v].task] \in {"deleting", "gone"}
  BY DEF CancelledForCause
<1>1. TypeOK
  BY DEF ExecutorInv
<1>2. pc[v] \in Holding => exec[v].task \in Tasks
  BY <1>1, RoundsHaveKeys
<1>3. ASSUME cancelled[v], pc'[v] = pc[v], exec'[v] = exec[v], phase = "stopped" => phase' = "stopped"
      PROVE  /\ pc'[v] \in Holding \ {"registering"}
             /\ phase' = "stopped" \/ rec'[exec'[v].task] \in {"deleting", "gone"}
  BY <1>2, <1>3, MarksLast DEF CancelledForCause
<1>4. ASSUME NEW w \in Workers, WorkerStep(w)
      PROVE  /\ pc'[v] \in Holding \ {"registering"}
             /\ phase' = "stopped" \/ rec'[exec'[v].task] \in {"deleting", "gone"}
  <2>1. CASE v = w
    <3>1. \/ phase' = "stopped"
          \/ rec[exec[v].task] \in {"deleting", "gone"} /\ exec'[v] = exec[v]
      BY <1>1, <1>4, <2>1, CancelledByWorkers
    <3>2. pc'[v] \in Holding \ {"registering"}
      BY <1>1, <1>4, <2>1, CancelledByWorkers
    <3>3. exec'[v].task \in Tasks
      BY <3>2 DEF ExecutorInv, TypeOK, WorkersTyped, Key
    <3> QED BY <3>1, <3>2, <3>3, MarksLast
  <2>2. CASE v # w
    <3>1. pc'[v] = pc[v] /\ exec'[v] = exec[v] /\ cancelled[v]
      BY <1>1, <1>4, <2>2, OtherWorkers
    <3>2. phase' = phase
      BY <1>4, WorkersKeepPhase
    <3> QED BY <1>3, <3>1, <3>2
  <2> QED BY <2>1, <2>2
<1>5. ASSUME NEW f \in Finalizers, CancelTask(f), ~cancelled[v]
      PROVE  /\ pc'[v] \in Holding \ {"registering"}
             /\ phase' = "stopped" \/ rec'[exec'[v].task] \in {"deleting", "gone"}
  <2>1. PICK c \in cancels : c.key.task = fin[f].task /\ c.worker = v
    BY <1>5 DEF CancelTask
  <2>2. pc[v] \in Listed /\ exec[v].task = fin[f].task
    BY <2>1 DEF ExecutorInv, TableMatchesRounds
  <2>3. rec[fin[f].task] \in {"deleting", "gone"}
    BY <1>5 DEF CancelTask, ExecutorInv, MarkOutlivesFinalizer
  <2> QED BY <1>5, <2>2, <2>3, Places DEF CancelTask, rows
<1>6. CASE ForceStop
  BY <1>6, Places DEF ForceStop
<1>7. ~ProcessEnds
  BY DEF ProcessEnds
<1>8. ASSUME NEW f \in Finalizers, FinalizerStep(f)
      PROVE  phase' = phase /\ (CancelTask(f) \/ cancelled[v])
  BY <1>8
     DEF FinalizerStep, MarkDeleting, GetDeleting, ListDeleting, PurgeRecording, CancelTask, procs
<1>9. ASSUME \/ \E t \in Tasks : Create(t) \/ RetryTask(t) \/ RetryDue(t)
             \/ Drain \/ Boot \/ ResumeDeletions \/ ResetInFlight
      PROVE  (phase = "stopped" => phase' = "stopped") /\ cancelled[v]
  BY <1>9 DEF Create, RetryTask, RetryDue, Drain, Boot, ResumeDeletions, ResetInFlight, procs
<1> QED
  BY <1>3, <1>4, <1>5, <1>6, <1>7, <1>8, <1>9, OthersKeepWorkers DEF Next, ProcessStep

-----------------------------------------------------------------------------
\* Tasks in flight

\* The process serves on after the step.
Goes == phase \in {"up", "draining"} /\ ~halted

\* The row of t stands where it stood.
Stands(t) ==
  UnderWay(t) /\ row'[t].status = row[t].status /\ row'[t].attempt = row[t].attempt

\* A worker that writes nothing goes on with its task: the recheck finds the round,
\* its call is not cancelled, its write is not stale, and no try is the last one.
LEMMA WorkerGoesOn ==
  ASSUME TypeOK, ToldOfWrites, CancelledForCause, PanicsAreFaults,
         NEW w \in Workers, WorkerStep(w), NEW t \in Tasks, Stands(t), WorksOn(w, t), Goes'
  PROVE  WorksOn(w, t)'
<1>1. /\ pc \in [Workers -> WorkerPC] /\ exec[w].task = t /\ exec[w].attempt = row[t].attempt
      /\ pc[w] \in RoundPlaces(row[t].status)
      /\ rec[t] = "live" /\ row[t].status \in InFlight
  BY DEF TypeOK, WorkersTyped, WorksOn, Stands, UnderWay
<1>2. \A places : row[t].status \in places => Writable(w, places)
  BY <1>1 DEF Writable
<1>3. SUFFICES ASSUME exec' = exec => pc'[w] \notin RoundPlaces(row[t].status)
               PROVE  FALSE
  BY DEF WorksOn, Stands
<1>4. phase # "stopped" /\ phase' = phase
  BY WorkersKeepPhase DEF Goes
<1>5. CASE StartRound(w) \/ ClaimNothing(w) \/ (\E u \in Tasks : ClaimNext(w, u)) \/ Leave(w)
  BY <1>1, <1>5 DEF StartRound, ClaimNothing, ClaimNext, Leave, RoundPlaces
<1>6. CASE Register(w)
  BY <1>1, <1>3, <1>6 DEF Register, Goto, RoundPlaces
<1>7. CASE Recheck(w)
  <2>1. row[t].status = "transcribing"
    BY <1>1, <1>7 DEF Recheck, RoundPlaces
  <2>2. RoundIsCurrent(w) /\ "read" \notin Faults
    BY <1>1, <2>1 DEF RoundIsCurrent, ToldOfWrites
  <2> QED BY <1>1, <1>3, <1>4, <1>7, <2>1, <2>2 DEF Recheck, Goto, RoundPlaces
<1>8. CASE CallReturns(w) \/ CallFails(w) \/ CallPanics(w)
  BY <1>1, <1>3, <1>8 DEF CallReturns, CallFails, CallPanics, Calling, Goto, RoundPlaces
<1>9. CASE CallCancelled(w)
  BY <1>1, <1>4, <1>9 DEF CallCancelled, CancelledForCause
<1>10. CASE SaveTranscription(w) \/ CompleteTask(w)
  <2>1. row'[t].status \in {"summarizing", "done"} /\ row'[t].status # row[t].status
    BY <1>1, <1>10
       DEF SaveTranscription, CompleteTask, SavedRow, CompletedRow, Advanced, Writable, Expected,
           TypeOK, RowsTyped
  <2> QED BY <2>1 DEF Stands
<1>11. ASSUME FailTask(w) PROVE FALSE
  <2>1. row'[t].status \in {"pending", "failed"}
    BY <1>1, <1>11 DEF FailTask, FailedRow, Cleared, TypeOK, RowsTyped
  <2> QED BY <1>1, <2>1 DEF Stands, InFlight
<1>12. CASE WriteFails(w)
  <2>1. UNCHANGED <<pc, exec>>
    BY <1>4, <1>12 DEF WriteFails, TryAgain, Goes
  <2> QED BY <1>1, <1>3, <2>1
<1>13. CASE DropStale(w)
  <2>1. row[t].status \in Expected(pc[w])
    BY <1>1, <1>13 DEF DropStale, Writing, RoundPlaces, Expected, InFlight
  <2> QED BY <1>2, <1>13, <2>1 DEF DropStale
<1>14. CASE RecoverRound(w)
  <2>1. "write" \notin Faults
    BY <1>14 DEF RecoverRound, PanicsAreFaults, ToldOfWrites
  <2>2. Writable(w, Expected("failing"))
    BY <1>1, <1>2 DEF Expected
  <2> QED BY <1>4, <1>11, <1>14, <2>1, <2>2 DEF RecoverRound
<1> QED
  BY <1>5, <1>6, <1>7, <1>8, <1>9, <1>10, <1>11, <1>12, <1>13, <1>14
     DEF WorkerStep, FailRound

\* A task that a worker's step puts or moves on in flight is that worker's.
LEMMA WorkerTakes ==
  ASSUME TypeOK, ToldOfWrites,
         NEW w \in Workers, WorkerStep(w), NEW t \in Tasks, UnderWay(t)', ~Stands(t), Goes'
  PROVE  WorksOn(w, t)'
<1>1. /\ pc \in [Workers -> WorkerPC] /\ exec \in [Workers -> Key \cup {NoKey}]
      /\ "commit" \notin Faults
  BY DEF TypeOK, WorkersTyped, ToldOfWrites
<1>2. ~UNCHANGED rows
  BY DEF rows, Stands, UnderWay
<1>3. ASSUME NEW u \in Tasks, ClaimNext(w, u)
      PROVE  WorksOn(w, t)'
  <2>1. t = u
    BY <1>3 DEF ClaimNext, Stands, UnderWay, TypeOK, RowsTyped
  <2>2. row'[t].status = "transcribing" /\ row'[t].attempt = row[t].attempt
    BY <1>3, <2>1 DEF ClaimNext, ClaimedRow, Advanced, TypeOK, RowsTyped
  <2> QED BY <1>1, <1>3, <2>1, <2>2 DEF ClaimNext, Goto, WorksOn, RoundPlaces
<1>4. CASE SaveTranscription(w)
  <2>1. t = exec[w].task
    BY <1>4 DEF SaveTranscription, Stands, UnderWay, TypeOK, RowsTyped
  <2>2. exec[w] \in Key
    BY <1>4, RoundsHaveKeys, Places DEF SaveTranscription
  <2>3. row'[t].status = "summarizing" /\ row'[t].attempt = exec[w].attempt
    BY <1>4, <2>1 DEF SaveTranscription, SavedRow, Advanced, Writable, TypeOK, RowsTyped
  <2>4. pc'[w] = "summarizing" /\ exec' = exec
    BY <1>1, <1>4 DEF SaveTranscription, Acknowledge, Goto
  <2> QED BY <2>1, <2>2, <2>3, <2>4 DEF WorksOn, RoundPlaces, Key
<1>5. CASE CompleteTask(w)
  <2>1. t = exec[w].task
    BY <1>5 DEF CompleteTask, Stands, UnderWay, TypeOK, RowsTyped
  <2>2. row'[t].status = "done"
    BY <1>5, <2>1 DEF CompleteTask, CompletedRow, Advanced, TypeOK, RowsTyped
  <2> QED BY <2>2 DEF UnderWay, InFlight
<1>6. ASSUME FailTask(w), rec' = rec PROVE FALSE
  <2>1. t = exec[w].task
    BY <1>6 DEF FailTask, Stands, UnderWay, TypeOK, RowsTyped
  <2>2. row'[t].status \in {"pending", "failed"}
    BY <1>6, <2>1 DEF FailTask, FailedRow, Cleared, TypeOK, RowsTyped
  <2> QED BY <2>2 DEF UnderWay, InFlight
<1> QED
  BY <1>2, <1>3, <1>4, <1>5, <1>6
     DEF WorkerStep, StartRound, ClaimNothing, Register, Recheck, CallReturns, CallFails,
         CallCancelled, CallPanics, FailRound, WriteFails, DropStale, RecoverRound, Leave, rows

\* No other step puts a task in flight, and recovery leaves none there.
LEMMA OthersTakeNone ==
  ASSUME TypeOK, \/ \E f \in Finalizers : FinalizerStep(f)
                 \/ \E u \in Tasks : Create(u) \/ RetryTask(u) \/ RetryDue(u)
                 \/ ProcessStep,
         NEW t \in Tasks, UnderWay(t)', Goes'
  PROVE  Stands(t) /\ Goes
<1>1. row \in [Tasks -> Row \cup {NoRow}] /\ rec \in [Tasks -> {"none", "live", "deleting", "gone"}]
  BY DEF TypeOK, RowsTyped
<1>2. ASSUME NEW f \in Finalizers, FinalizerStep(f)
      PROVE  Stands(t) /\ Goes
  <2>1. UNCHANGED <<phase, halted>>
    BY <1>2 DEF FinalizerStep, MarkDeleting, GetDeleting, ListDeleting, CancelTask, PurgeRecording
  <2>2. rec'[t] = rec[t] /\ row'[t] = row[t]
    BY <1>1, <1>2
       DEF FinalizerStep, MarkDeleting, GetDeleting, ListDeleting, CancelTask, PurgeRecording,
           UnderWay, rows
  <2> QED BY <2>1, <2>2 DEF Goes, Stands, UnderWay
<1>3. ASSUME NEW u \in Tasks, Create(u) \/ RetryTask(u) \/ RetryDue(u)
      PROVE  Stands(t) /\ Goes
  <2>1. UNCHANGED <<phase, halted>>
    BY <1>3 DEF Create, RetryTask, RetryDue
  <2>2. CASE Create(u) \/ RetryTask(u)
    <3>1. t # u
      BY <1>1, <2>2 DEF Create, RetryTask, CreatedRow, RetriedRow, Cleared, UnderWay, InFlight
    <3> QED BY <1>1, <2>1, <2>2, <3>1 DEF Create, RetryTask, Goes, Stands, UnderWay
  <2>3. CASE RetryDue(u)
    <3>1. /\ rec' = rec /\ row'[t].status = row[t].status
          /\ row'[t].attempt = row[t].attempt
      BY <1>1, <2>3 DEF RetryDue, Row, NoRow
    <3> QED BY <2>1, <3>1 DEF Goes, Stands, UnderWay
  <2> QED BY <1>3, <2>2, <2>3
<1>4. CASE Drain
  BY <1>4 DEF Drain, Goes, Stands, UnderWay, rows
<1>5. ~(ForceStop \/ ProcessEnds \/ Boot \/ ResumeDeletions)
  BY DEF ForceStop, ProcessEnds, Boot, ResumeDeletions, Goes
<1>6. ~ResetInFlight
  <2> SUFFICES ASSUME ResetInFlight PROVE FALSE
    OBVIOUS
  <2>1. /\ rec' = rec
        /\ row' = [u \in Tasks |-> IF Interrupted(u) THEN RecoveredRow(row[u]) ELSE row[u]]
    BY DEF ResetInFlight, Goes
  <2>2. CASE Interrupted(t)
    <3>1. row'[t].status \in {"pending", "failed"}
      BY <2>1, <2>2 DEF RecoveredRow, Advanced, Cleared
    <3> QED BY <3>1 DEF UnderWay, InFlight
  <2>3. CASE ~Interrupted(t)
    BY <2>1, <2>3 DEF Interrupted, UnderWay, Exists
  <2> QED BY <2>2, <2>3
<1> QED BY <1>2, <1>3, <1>4, <1>5, <1>6 DEF ProcessStep

LEMMA MannedKept ==
  ASSUME TypeOK, ToldOfWrites, OwnerInv, Next
  PROVE  Manned'
<1> SUFFICES ASSUME Goes', NEW t \in Tasks, UnderWay(t)'
             PROVE  \E v \in Workers : WorksOn(v, t)'
  BY DEF Manned, Goes
<1>1. Goes /\ UnderWay(t) => \E v \in Workers : WorksOn(v, t)
  BY DEF OwnerInv, Manned, Goes
<1>2. ASSUME NEW w \in Workers, WorkerStep(w)
      PROVE  \E v \in Workers : WorksOn(v, t)'
  <2>1. CASE Stands(t)
    <3>1. Goes
      BY <1>2, WorkersKeepPhase DEF Goes
    <3>2. PICK v \in Workers : WorksOn(v, t)
      BY <1>1, <2>1, <3>1 DEF Stands
    <3>3. CASE v = w
      BY <1>2, <2>1, <3>2, <3>3, WorkerGoesOn DEF OwnerInv
    <3>4. CASE v # w
      BY <1>2, <2>1, <3>2, <3>4, OtherWorkers DEF WorksOn, Stands
    <3> QED BY <3>3, <3>4
  <2>2. CASE ~Stands(t)
    BY <1>2, <2>2, WorkerTakes
  <2> QED BY <2>1, <2>2
<1>3. CASE ~\E w \in Workers : WorkerStep(w)
  <2>1. Stands(t) /\ Goes
    BY <1>3, OthersTakeNone DEF Next
  <2>2. PICK v \in Workers : WorksOn(v, t)
    BY <1>1, <2>1 DEF Stands
  <2>3. pc' = pc /\ exec' = exec
    <3>1. ~ProcessEnds
      BY DEF ProcessEnds, Goes
    <3> QED BY <1>3, <3>1, OthersKeepWorkers DEF Next, ProcessStep
  <2> QED BY <2>1, <2>2, <2>3 DEF WorksOn, Stands
<1> QED BY <1>2, <1>3

\* Where workers are told of their writes, every live task in flight is some worker's
\* round while the process serves (process.go, processing_tx.go, recover.go).
THEOREM TasksInFlightHaveWorkers ==
  ASSUME ToldOfWrites
  PROVE  Spec => []InFlightOwned
<1>1. Init => OwnerInv
  BY OwnerInit
<1>2. ExecutorInv /\ ExecutorInv' /\ OwnerInv /\ [Next]_vars => OwnerInv'
  <2> SUFFICES ASSUME ExecutorInv, ExecutorInv', OwnerInv, [Next]_vars PROVE OwnerInv'
    OBVIOUS
  <2>1. CASE Next
    BY <2>1, MannedKept, CancelledKept, PanicsKept DEF OwnerInv, ExecutorInv
  <2> QED BY <2>1, OwnerStutter
<1>3. OwnerInv => InFlightOwned
  BY DEF OwnerInv, Manned, UnderWay, WorksOn, InFlightOwned
<1> QED
  BY <1>1, <1>2, <1>3, ExecutorInvariant, PTL DEF Spec
=============================================================================
