--------------------------- MODULE PipelineProofs ---------------------------
(***************************************************************************)
(* Theorems about Pipeline, for any tasks, workers, finalizers and bounds, *)
(* either recovery mode and every choice of faults.                        *)
(***************************************************************************)
EXTENDS Pipeline, TLAPS

-----------------------------------------------------------------------------
\* The rows the transactions write are rows.

LEMMA NoRowIsNoRow == NoRow \notin Row
BY DEF NoRow, Row, Statuses, InFlight

LEMMA RowsWritten ==
  ASSUME NEW r \in Row, NEW k \in Key
  PROVE  /\ CreatedRow \in Row
         /\ ClaimedRow(r) \in Row
         /\ SavedRow(r, k) \in Row
         /\ CompletedRow(r, k) \in Row
         /\ FailedRow(r) \in Row
         /\ RetriedRow(r) \in Row
         /\ RecoveredRow(r) \in Row
         /\ [r EXCEPT !.eventSeq = @ + 1] \in Row
         /\ [r EXCEPT !.due = TRUE] \in Row
<1>1. ASSUME NEW s \in Statuses, NEW tr \in Nat, NEW su \in Nat
      PROVE  Advanced(r, s, tr, su) \in Row
  BY DEF Advanced, Row
<1>2. ASSUME NEW s \in Statuses, NEW a \in Nat \ {0}, NEW d \in BOOLEAN
      PROVE  Cleared(r, s, a, d) \in Row
  BY DEF Cleared, Row
<1>3. /\ r.attempt \in Nat \ {0} /\ r.attempt + 1 \in Nat \ {0}
      /\ r.transcript \in Nat /\ r.summary \in Nat /\ k.attempt \in Nat
      /\ {"pending", "failed", "transcribing", "summarizing", "done"} \subseteq Statuses
  BY DEF Row, Key, Statuses, InFlight
<1>4. CreatedRow \in Row
  BY DEF CreatedRow, Row, Statuses
<1>5. ClaimedRow(r) \in Row /\ SavedRow(r, k) \in Row /\ CompletedRow(r, k) \in Row
  BY <1>1, <1>3 DEF ClaimedRow, SavedRow, CompletedRow
<1>6. FailedRow(r) \in Row /\ RetriedRow(r) \in Row
  BY <1>2, <1>3 DEF FailedRow, RetriedRow
<1>7. RecoveredRow(r) \in Row
  BY <1>1, <1>2, <1>3 DEF RecoveredRow
<1>8. [r EXCEPT !.eventSeq = @ + 1] \in Row
  BY DEF Row
<1>9. [r EXCEPT !.due = TRUE] \in Row
  BY DEF Row
<1> QED
  BY <1>4, <1>5, <1>6, <1>7, <1>8, <1>9

\* A worker in a round holds the key of a task, and a row it may write exists.
LEMMA RoundsHaveKeys ==
  ASSUME TypeOK, NEW w \in Workers, pc[w] \in Holding
  PROVE  /\ exec[w] \in Key
         /\ exec[w].task \in Tasks
         /\ rec[exec[w].task] = "live" => row[exec[w].task] \in Row
BY NoRowIsNoRow DEF TypeOK, RowsTyped, WorkersTyped, Key, Exists

-----------------------------------------------------------------------------
\* Type correctness

LEMMA TypeInit == Init => TypeOK
<1> SUFFICES ASSUME Init PROVE TypeOK
  OBVIOUS
<1>1. RowsTyped
  BY DEF Init, RowsTyped, Exists, Event, NoEvent
<1>2. WorkersTyped
  <2>1. \A l \in {"idle", "claiming"} : l \in WorkerPC /\ l \notin Holding
    BY DEF WorkerPC, Holding, Listed, Calling, Writing
  <2> QED
    BY <2>1 DEF Init, WorkersTyped, PersistRetries
<1>3. FinalizersTyped
  BY DEF Init, FinalizersTyped, NoFin
<1>4. ProcessTyped
  BY DEF Init, ProcessTyped
<1> QED
  BY <1>1, <1>2, <1>3, <1>4 DEF TypeOK

\* One row of the tasks table is rewritten and the event table stays an event table.
LEMMA RowRewritten ==
  ASSUME TypeOK, NEW t \in Tasks, Exists(t), NEW r \in Row,
         row' = [row EXCEPT ![t] = r], rec' = rec,
         lastEvent' \in [Tasks -> Event]
  PROVE  RowsTyped'
<1>1. row' \in [Tasks -> Row \cup {NoRow}]
  BY DEF TypeOK, RowsTyped
<1>2. \A u \in Tasks : row'[u] = NoRow <=> ~Exists(u)'
  BY NoRowIsNoRow DEF TypeOK, RowsTyped, Exists
<1> QED
  BY <1>1, <1>2 DEF TypeOK, RowsTyped

LEMMA EventLogged ==
  ASSUME TypeOK, NEW t \in Tasks, NEW kind \in Kinds, NEW attempt \in Nat,
         NEW to \in Statuses, Log(t, kind, attempt, to)
  PROVE  lastEvent' \in [Tasks -> Event]
<1>1. row[t].status \in Statuses \cup {"absent"}
  BY DEF TypeOK, RowsTyped, Row, NoRow
<1> QED
  BY <1>1 DEF TypeOK, RowsTyped, Log, Event

\* A worker that stays in its round keeps the workers typed.
LEMMA WorkerMoves ==
  ASSUME TypeOK, NEW w \in Workers, pc[w] \in Holding, NEW l \in Holding, Goto(w, l),
         exec' = exec, tries' \in [Workers -> 0..PersistRetries],
         cancelled' \in [Workers -> BOOLEAN], cancels' \subseteq [key : Key, worker : Workers]
  PROVE  WorkersTyped'
BY DEF TypeOK, WorkersTyped, Goto, WorkerPC

LEMMA TryAgainTyped ==
  ASSUME TypeOK, NEW w \in Workers, pc[w] \in Holding, TryAgain(w),
         UNCHANGED <<exec, cancelled, cancels, phase>>
  PROVE  WorkersTyped' /\ ProcessTyped'
<1>1. tries' \in [Workers -> 0..PersistRetries]
  <2>1. \/ tries' = [tries EXCEPT ![w] = 0]
        \/ tries[w] < PersistRetries /\ tries' = [tries EXCEPT ![w] = @ + 1]
    BY Zenon DEF TryAgain
  <2> QED
    BY <2>1 DEF TypeOK, WorkersTyped, PersistRetries
<1>2. Goto(w, "leaving") \/ pc' = pc
  BY DEF TryAgain
<1>3. "leaving" \in Holding
  BY DEF Holding, Listed
<1>4. WorkersTyped'
  BY <1>1, <1>2, <1>3, WorkerMoves DEF TypeOK, WorkersTyped
<1>5. ProcessTyped'
  <2>1. halted' \in BOOLEAN
    BY DEF TypeOK, ProcessTyped, TryAgain
  <2> QED
    BY <2>1 DEF TypeOK, ProcessTyped
<1> QED
  BY <1>4, <1>5

LEMMA AcknowledgeTyped ==
  ASSUME TypeOK, NEW w \in Workers, pc[w] \in Holding, NEW l \in Holding,
         Acknowledge(w, l), UNCHANGED <<exec, cancelled, cancels, phase>>
  PROVE  WorkersTyped' /\ ProcessTyped'
<1>1. CASE TryAgain(w)
  BY <1>1, TryAgainTyped
<1>2. CASE /\ Goto(w, l)
           /\ tries' = [tries EXCEPT ![w] = 0]
           /\ UNCHANGED halted
  <2>1. tries' \in [Workers -> 0..PersistRetries]
    BY <1>2 DEF TypeOK, WorkersTyped, PersistRetries
  <2>2. WorkersTyped'
    BY <1>2, <2>1, WorkerMoves DEF TypeOK, WorkersTyped
  <2> QED
    BY <1>2, <2>2 DEF TypeOK, ProcessTyped
<1> QED
  BY <1>1, <1>2 DEF Acknowledge

\* Where the steps of a worker lead.
LEMMA Places ==
  /\ Holding \subseteq WorkerPC /\ Listed \subseteq Holding
  /\ {"idle", "claiming"} \subseteq WorkerPC \ Holding
  /\ {"registering", "recovering"} \subseteq Holding \ Listed
  /\ {"rechecking", "leaving", "transcribing", "summarizing", "saving", "completing",
      "failing"} \subseteq Listed
  /\ Calling \subseteq Listed /\ Writing \subseteq Listed
BY DEF WorkerPC, Holding, Listed, Calling, Writing

\* What a step does not touch stays typed.
LEMMA PartsKept ==
  ASSUME TypeOK
  PROVE  /\ UNCHANGED rows => RowsTyped'
         /\ UNCHANGED procs => WorkersTyped'
         /\ UNCHANGED fin => FinalizersTyped'
         /\ UNCHANGED <<phase, halted>> => ProcessTyped'
<1>1. UNCHANGED rows => RowsTyped'
  BY DEF rows, TypeOK, RowsTyped, Exists
<1>2. UNCHANGED procs => WorkersTyped'
  BY DEF procs, TypeOK, WorkersTyped
<1>3. UNCHANGED fin => FinalizersTyped'
  BY DEF TypeOK, FinalizersTyped
<1>4. UNCHANGED <<phase, halted>> => ProcessTyped'
  BY DEF TypeOK, ProcessTyped
<1> QED
  BY <1>1, <1>2, <1>3, <1>4

LEMMA HandlersTyped ==
  ASSUME TypeOK, NEW t \in Tasks, Create(t) \/ RetryTask(t) \/ RetryDue(t)
  PROVE  TypeOK'
<1>1. WorkersTyped' /\ FinalizersTyped' /\ ProcessTyped'
  BY PartsKept DEF Create, RetryTask, RetryDue
<1>2. "pending" \in Statuses /\ {"task_created", "task_retry_accepted"} \subseteq Kinds
  BY DEF Statuses, Kinds
<1>3. CASE Create(t)
  <2>1. CreatedRow \in Row
    BY DEF CreatedRow, Row, Statuses
  <2>2. lastEvent' \in [Tasks -> Event]
    BY <1>2, <1>3, EventLogged DEF Create
  <2>3. RowsTyped'
    BY <1>3, <2>1, <2>2, NoRowIsNoRow DEF Create, TypeOK, RowsTyped, Exists
  <2> QED
    BY <1>1, <2>3 DEF TypeOK
<1>4. CASE RetryTask(t)
  <2>1. Exists(t) /\ row[t] \in Row /\ row[t].attempt \in Nat
    BY <1>4 DEF RetryTask, TypeOK, RowsTyped, Exists, Row
  <2>2. lastEvent' \in [Tasks -> Event]
    BY <1>2, <1>4, <2>1, EventLogged DEF RetryTask
  <2>3. RetriedRow(row[t]) \in Row
    BY <2>1 DEF RetriedRow, Cleared, Row, Statuses
  <2>4. RowsTyped'
    BY <1>4, <2>1, <2>2, <2>3, RowRewritten DEF RetryTask
  <2> QED
    BY <1>1, <2>4 DEF TypeOK
<1>5. CASE RetryDue(t)
  <2>1. Exists(t) /\ row[t] \in Row
    BY <1>5 DEF RetryDue, TypeOK, RowsTyped, Exists
  <2>2. [row[t] EXCEPT !.due = TRUE] \in Row
    BY <2>1 DEF Row
  <2>3. RowsTyped'
    BY <1>5, <2>1, <2>2, RowRewritten DEF RetryDue, TypeOK, RowsTyped
  <2> QED
    BY <1>1, <2>3 DEF TypeOK
<1> QED
  BY <1>3, <1>4, <1>5

LEMMA MarkTyped ==
  ASSUME TypeOK, NEW f \in Finalizers, NEW t \in Tasks, MarkDeleting(f, t)
  PROVE  TypeOK'
<1>1. row[t] \in Row /\ row[t].attempt \in Nat /\ row[t].status \in Statuses
  BY DEF MarkDeleting, TypeOK, RowsTyped, Row
<1>2. RowsTyped'
  <2>1. CASE UNCHANGED rows
    BY <2>1, PartsKept
  <2>2. CASE /\ rec[t] = "live"
             /\ rec' = [rec EXCEPT ![t] = "deleting"]
             /\ row' = [row EXCEPT ![t].eventSeq = @ + 1]
             /\ Log(t, "task_delete_requested", row[t].attempt, row[t].status)
    <3>1. [row[t] EXCEPT !.eventSeq = @ + 1] \in Row
      BY <1>1 DEF Row
    <3>2. lastEvent' \in [Tasks -> Event]
      BY <1>1, <2>2, EventLogged DEF Kinds
    <3> QED
      BY <2>2, <3>1, <3>2, NoRowIsNoRow DEF TypeOK, RowsTyped, Exists
  <2> QED
    BY <2>1, <2>2 DEF MarkDeleting
<1>3. FinalizersTyped'
  <2>1. [pc |-> "marked", task |-> t, known |-> FALSE]
          \in [ pc : {"idle", "marked", "cancel", "erase"},
                task : Tasks \cup {None}, known : BOOLEAN ]
    OBVIOUS
  <2> QED
    BY <2>1, ZenonT(40) DEF MarkDeleting, TypeOK, FinalizersTyped
<1> QED
  BY <1>2, <1>3, PartsKept DEF MarkDeleting, TypeOK

LEMMA ViewTyped ==
  ASSUME TypeOK, NEW f \in Finalizers, NEW t \in Tasks, DeletingView(f, t)
  PROVE  FinalizersTyped'
<1>1. PICK known \in BOOLEAN :
        fin' = [fin EXCEPT ![f] = [pc |-> "cancel", task |-> t, known |-> known]]
  BY DEF DeletingView
<1>2. [pc |-> "cancel", task |-> t, known |-> known]
        \in [ pc : {"idle", "marked", "cancel", "erase"},
              task : Tasks \cup {None}, known : BOOLEAN ]
  OBVIOUS
<1> QED
  BY <1>1, <1>2 DEF TypeOK, FinalizersTyped

LEMMA FinalizersTypeOK ==
  ASSUME TypeOK, NEW f \in Finalizers, FinalizerStep(f)
  PROVE  TypeOK'
<1>1. ASSUME NEW t \in Tasks, MarkDeleting(f, t)
      PROVE  TypeOK'
  BY <1>1, MarkTyped
<1>2. CASE GetDeleting(f)
  <2>1. fin[f].task \in Tasks
    BY <1>2 DEF GetDeleting, TypeOK, FinalizersTyped
  <2>2. FinalizersTyped'
    <3>1. CASE DeletingView(f, fin[f].task)
      BY <2>1, <3>1, ViewTyped
    <3>2. CASE fin' = [fin EXCEPT ![f] = NoFin]
      BY <3>2 DEF NoFin, TypeOK, FinalizersTyped
    <3> QED
      BY <1>2, <3>1, <3>2 DEF GetDeleting
  <2> QED
    BY <1>2, <2>2, PartsKept DEF GetDeleting, TypeOK
<1>3. ASSUME NEW t \in Tasks, ListDeleting(f, t)
      PROVE  TypeOK'
  BY <1>3, ViewTyped, PartsKept DEF ListDeleting, TypeOK
<1>4. CASE CancelTask(f)
  <2>1. cancelled' \in [Workers -> BOOLEAN]
    BY <1>4 DEF CancelTask, TypeOK, WorkersTyped
  <2>2. WorkersTyped'
    BY <1>4, <2>1 DEF CancelTask, TypeOK, WorkersTyped
  <2>3. FinalizersTyped'
    BY <1>4 DEF CancelTask, TypeOK, FinalizersTyped
  <2> QED
    BY <1>4, <2>2, <2>3, PartsKept DEF CancelTask, TypeOK
<1>5. CASE PurgeRecording(f)
  <2>1. fin[f].task \in Tasks
    BY <1>5 DEF PurgeRecording, TypeOK, FinalizersTyped
  <2>2. RowsTyped'
    <3>1. CASE UNCHANGED rows
      BY <3>1, PartsKept
    <3>2. CASE /\ rec' = [rec EXCEPT ![fin[f].task] = "gone"]
               /\ row' = [row EXCEPT ![fin[f].task] = NoRow]
               /\ lastEvent' = [lastEvent EXCEPT ![fin[f].task] = NoEvent]
      <4>1. NoEvent \in Event
        BY DEF NoEvent, Event
      <4> QED
        BY <2>1, <3>2, <4>1 DEF TypeOK, RowsTyped, Exists
    <3> QED
      BY <1>5, <3>1, <3>2 DEF PurgeRecording
  <2>3. FinalizersTyped'
    BY <1>5 DEF PurgeRecording, NoFin, TypeOK, FinalizersTyped
  <2> QED
    BY <1>5, <2>2, <2>3, PartsKept DEF PurgeRecording, TypeOK
<1> QED
  BY <1>1, <1>2, <1>3, <1>4, <1>5 DEF FinalizerStep

\* A worker that enters or leaves a round, or stays out of one.
LEMMA WorkerEnters ==
  ASSUME TypeOK, NEW w \in Workers, NEW l \in WorkerPC, Goto(w, l),
         NEW k \in Key \cup {NoKey}, exec' = [exec EXCEPT ![w] = k],
         k = NoKey <=> l \notin Holding,
         tries' \in [Workers -> 0..PersistRetries],
         cancelled' \in [Workers -> BOOLEAN], cancels' \subseteq [key : Key, worker : Workers]
  PROVE  WorkersTyped'
BY DEF TypeOK, WorkersTyped, Goto

LEMMA OutsideRoundsTyped ==
  ASSUME TypeOK, NEW w \in Workers, StartRound(w) \/ ClaimNothing(w)
  PROVE  TypeOK'
<1>1. PICK l \in {"idle", "claiming"} : Goto(w, l)
  BY DEF StartRound, ClaimNothing
<1>2. exec[w] = NoKey
  BY Places DEF StartRound, ClaimNothing, TypeOK, WorkersTyped
<1>3. exec' = [exec EXCEPT ![w] = NoKey]
  BY <1>2 DEF StartRound, ClaimNothing, TypeOK, WorkersTyped
<1>4. WorkersTyped'
  BY <1>1, <1>3, WorkerEnters, Places, ZenonT(40)
     DEF StartRound, ClaimNothing, TypeOK, WorkersTyped
<1> QED
  BY <1>4, PartsKept DEF StartRound, ClaimNothing, TypeOK

LEMMA ClaimTyped ==
  ASSUME TypeOK, NEW w \in Workers, NEW t \in Tasks, ClaimNext(w, t)
  PROVE  TypeOK'
<1>1. Exists(t) /\ row[t] \in Row /\ row[t].attempt \in Nat \ {0}
  BY DEF ClaimNext, Claimable, Exists, TypeOK, RowsTyped, Row
<1>2. RowsTyped'
  <2>1. ClaimedRow(row[t]) \in Row
    BY <1>1 DEF ClaimedRow, Advanced, Row, Statuses, InFlight
  <2>2. lastEvent' \in [Tasks -> Event]
    BY <1>1, EventLogged DEF ClaimNext, Kinds, Statuses, InFlight
  <2> QED
    BY <1>1, <2>1, <2>2, RowRewritten DEF ClaimNext
<1>3. WorkersTyped'
  <2>1. CASE Goto(w, "idle") /\ UNCHANGED exec
    <3>1. exec[w] = NoKey
      BY Places DEF ClaimNext, TypeOK, WorkersTyped
    <3>2. exec' = [exec EXCEPT ![w] = NoKey]
      BY <2>1, <3>1 DEF TypeOK, WorkersTyped
    <3> QED
      BY <2>1, <3>2, WorkerEnters, Places DEF ClaimNext, TypeOK, WorkersTyped
  <2>2. CASE /\ Goto(w, "registering")
             /\ exec' = [exec EXCEPT ![w] = [task |-> t, attempt |-> row[t].attempt]]
    <3>1. /\ [task |-> t, attempt |-> row[t].attempt] \in Key
          /\ [task |-> t, attempt |-> row[t].attempt] # NoKey
      BY <1>1 DEF Key, NoKey
    <3> QED
      BY <2>2, <3>1, WorkerEnters, Places DEF ClaimNext, TypeOK, WorkersTyped
  <2> QED
    BY <2>1, <2>2 DEF ClaimNext
<1> QED
  BY <1>2, <1>3, PartsKept DEF ClaimNext, TypeOK

\* The steps of a round that leave the database alone.
LEMMA RoundStepTyped ==
  ASSUME TypeOK, NEW w \in Workers,
         \/ Register(w) \/ Recheck(w) \/ CallReturns(w) \/ CallFails(w)
         \/ CallCancelled(w) \/ CallPanics(w) \/ DropStale(w)
  PROVE  TypeOK'
<1>1. pc[w] \in Holding
  BY Places DEF Register, Recheck, CallReturns, CallFails, CallCancelled, CallPanics, DropStale
<1>2. PICK l \in Holding : Goto(w, l)
  BY Places DEF Register, Recheck, CallReturns, CallFails, CallCancelled, CallPanics, DropStale
<1>3. cancelled' \in [Workers -> BOOLEAN]
  BY DEF Register, Recheck, CallReturns, CallFails, CallCancelled, CallPanics, DropStale,
         TypeOK, WorkersTyped
<1>4. cancels' \subseteq [key : Key, worker : Workers]
  <2>1. [key |-> exec[w], worker |-> w] \in [key : Key, worker : Workers]
    BY <1>1, RoundsHaveKeys
  <2> QED
    BY <2>1 DEF Register, Recheck, CallReturns, CallFails, CallCancelled, CallPanics,
                DropStale, Unlisted, TypeOK, WorkersTyped
<1>5. exec' = exec
  BY DEF Register, Recheck, CallReturns, CallFails, CallCancelled, CallPanics, DropStale
<1>6. tries' \in [Workers -> 0..PersistRetries]
  BY DEF Register, Recheck, CallReturns, CallFails, CallCancelled, CallPanics, DropStale,
         TypeOK, WorkersTyped, PersistRetries
<1>7. WorkersTyped'
  BY <1>1, <1>2, <1>3, <1>4, <1>5, <1>6, WorkerMoves
<1>8. UNCHANGED rows /\ UNCHANGED fin /\ UNCHANGED <<phase, halted>>
  BY DEF Register, Recheck, CallReturns, CallFails, CallCancelled, CallPanics, DropStale
<1> QED
  BY <1>7, <1>8, PartsKept DEF TypeOK

LEMMA FailTaskTyped ==
  ASSUME TypeOK, NEW w \in Workers, pc[w] \in Holding, FailTask(w), rec' = rec
  PROVE  RowsTyped'
<1> DEFINE t == exec[w].task
<1>1. t \in Tasks /\ Exists(t) /\ row[t] \in Row /\ exec[w].attempt \in Nat
  BY RoundsHaveKeys DEF FailTask, Writable, Exists, Key
<1>2. FailedRow(row[t]) \in Row /\ FailedRow(row[t]).status \in Statuses
  BY <1>1 DEF FailedRow, Cleared, Row, Statuses
<1>3. lastEvent' \in [Tasks -> Event]
  BY <1>1, <1>2, EventLogged DEF FailTask, Kinds
<1> QED
  BY <1>1, <1>2, <1>3, RowRewritten DEF FailTask

LEMMA WritesTyped ==
  ASSUME TypeOK, NEW w \in Workers,
         SaveTranscription(w) \/ CompleteTask(w) \/ FailRound(w) \/ WriteFails(w)
  PROVE  TypeOK'
<1> DEFINE t == exec[w].task
<1>1. pc[w] \in Holding
  BY Places DEF SaveTranscription, CompleteTask, FailRound, WriteFails
<1>2. exec[w] \in Key /\ exec[w].attempt \in Nat /\ t \in Tasks
  BY <1>1, RoundsHaveKeys DEF Key
<1>3. RowsTyped'
  <2>1. CASE SaveTranscription(w)
    <3>1. Exists(t) /\ row[t] \in Row
      BY <1>1, <2>1, RoundsHaveKeys DEF SaveTranscription, Writable, Exists
    <3>2. SavedRow(row[t], exec[w]) \in Row
      BY <1>2, <3>1, RowsWritten
    <3>3. lastEvent' \in [Tasks -> Event]
      BY <1>2, <2>1, EventLogged DEF SaveTranscription, Kinds, Statuses, InFlight
    <3> QED
      BY <1>2, <2>1, <3>1, <3>2, <3>3, RowRewritten DEF SaveTranscription
  <2>2. CASE CompleteTask(w)
    <3>1. Exists(t) /\ row[t] \in Row
      BY <1>1, <2>2, RoundsHaveKeys DEF CompleteTask, Writable, Exists
    <3>2. CompletedRow(row[t], exec[w]) \in Row
      BY <1>2, <3>1, RowsWritten
    <3>3. lastEvent' \in [Tasks -> Event]
      BY <1>2, <2>2, EventLogged DEF CompleteTask, Kinds, Statuses, InFlight
    <3> QED
      BY <1>2, <2>2, <3>1, <3>2, <3>3, RowRewritten DEF CompleteTask
  <2>3. CASE FailRound(w)
    BY <1>1, <2>3, FailTaskTyped DEF FailRound
  <2>4. CASE WriteFails(w)
    BY <2>4, PartsKept DEF WriteFails
  <2> QED
    BY <2>1, <2>2, <2>3, <2>4
<1>4. WorkersTyped' /\ ProcessTyped'
  BY <1>1, AcknowledgeTyped, TryAgainTyped, Places
     DEF SaveTranscription, CompleteTask, FailRound, WriteFails
<1>5. UNCHANGED fin
  BY DEF SaveTranscription, CompleteTask, FailRound, WriteFails
<1> QED
  BY <1>3, <1>4, <1>5, PartsKept DEF TypeOK

LEMMA EndOfRoundTyped ==
  ASSUME TypeOK, NEW w \in Workers, RecoverRound(w) \/ Leave(w)
  PROVE  TypeOK'
<1>1. pc[w] \in Holding /\ "idle" \in WorkerPC \ Holding
  BY Places DEF RecoverRound, Leave
<1>2. RowsTyped'
  <2>1. UNCHANGED rows => RowsTyped'
    BY PartsKept
  <2>2. FailTask(w) /\ rec' = rec => RowsTyped'
    BY <1>1, FailTaskTyped
  <2> QED
    BY <2>1, <2>2 DEF RecoverRound, Leave, rows
<1>3. cancels' \subseteq [key : Key, worker : Workers]
  BY DEF RecoverRound, Leave, Unlisted, TypeOK, WorkersTyped
<1>4. cancelled' \in [Workers -> BOOLEAN] /\ tries' \in [Workers -> 0..PersistRetries]
  BY DEF RecoverRound, Leave, TypeOK, WorkersTyped
<1>5. Goto(w, "idle") /\ exec' = [exec EXCEPT ![w] = NoKey]
  BY DEF RecoverRound, Leave
<1>6. WorkersTyped'
  BY <1>1, <1>3, <1>4, <1>5, WorkerEnters
<1> QED
  BY <1>2, <1>6, PartsKept DEF RecoverRound, Leave, TypeOK

LEMMA WorkersTypeOK ==
  ASSUME TypeOK, NEW w \in Workers, WorkerStep(w)
  PROVE  TypeOK'
BY OutsideRoundsTyped, ClaimTyped, RoundStepTyped, WritesTyped, EndOfRoundTyped
   DEF WorkerStep

LEMMA ProcessTypeOK ==
  ASSUME TypeOK, ProcessStep
  PROVE  TypeOK'
<1>1. CASE Drain
  BY <1>1, PartsKept DEF Drain, TypeOK, ProcessTyped
<1>2. CASE ForceStop
  <2>1. WorkersTyped'
    BY <1>2 DEF ForceStop, TypeOK, WorkersTyped
  <2>2. ProcessTyped'
    BY <1>2 DEF ForceStop, TypeOK, ProcessTyped
  <2> QED
    BY <1>2, <2>1, <2>2, PartsKept DEF ForceStop, TypeOK
<1>3. CASE ProcessEnds
  <2>1. WorkersTyped'
    BY <1>3, Places DEF ProcessEnds, WorkersTyped, PersistRetries
  <2>2. FinalizersTyped'
    BY <1>3 DEF ProcessEnds, FinalizersTyped, NoFin
  <2>3. ProcessTyped'
    BY <1>3 DEF ProcessEnds, ProcessTyped
  <2> QED
    BY <1>3, <2>1, <2>2, <2>3, PartsKept DEF ProcessEnds, TypeOK
<1>4. CASE Boot
  BY <1>4, PartsKept DEF Boot, TypeOK, ProcessTyped
<1>5. CASE ResumeDeletions
  <2>1. RowsTyped'
    <3>1. NoEvent \in Event
      BY DEF NoEvent, Event
    <3> QED
      BY <1>5, <3>1 DEF ResumeDeletions, TypeOK, RowsTyped, Exists
  <2>2. ProcessTyped'
    BY <1>5 DEF ResumeDeletions, TypeOK, ProcessTyped
  <2> QED
    BY <1>5, <2>1, <2>2, PartsKept DEF ResumeDeletions, TypeOK
<1>6. CASE ResetInFlight
  <2>1. \A t \in Tasks : Interrupted(t) =>
          row[t] \in Row /\ RecoveredRow(row[t]) \in Row /\ RecoveredRow(row[t]) # NoRow
    <3>1. \A t \in Tasks : [task |-> t, attempt |-> 1] \in Key
      BY DEF Key
    <3> QED
      BY <3>1, RowsWritten, NoRowIsNoRow DEF Interrupted, TypeOK, RowsTyped
  <2>2. RowsTyped'
    <3>1. CASE UNCHANGED <<row, lastEvent>>
      BY <1>6, <3>1, PartsKept DEF ResetInFlight, rows
    <3>2. CASE
          /\ row' = [t \in Tasks |-> IF Interrupted(t) THEN RecoveredRow(row[t]) ELSE row[t]]
          /\ lastEvent' = [t \in Tasks |->
               IF Interrupted(t)
               THEN [ kind    |-> IF Interrupt THEN "task_interrupted" ELSE "task_recovered",
                      attempt |-> RecoveredRow(row[t]).attempt,
                      from    |-> row[t].status,
                      to      |-> RecoveredRow(row[t]).status ]
               ELSE lastEvent[t]]
      <4>1. row' \in [Tasks -> Row \cup {NoRow}]
        BY <2>1, <3>2 DEF TypeOK, RowsTyped
      <4>2. \A t \in Tasks : row'[t] = NoRow <=> row[t] = NoRow
        BY <2>1, <3>2, NoRowIsNoRow
      <4>3. rec' = rec
        BY <1>6 DEF ResetInFlight
      <4>4. ASSUME NEW t \in Tasks, Interrupted(t)
            PROVE  [ kind    |-> IF Interrupt THEN "task_interrupted" ELSE "task_recovered",
                     attempt |-> RecoveredRow(row[t]).attempt,
                     from    |-> row[t].status,
                     to      |-> RecoveredRow(row[t]).status ] \in Event
        BY <2>1, <4>4 DEF Event, Kinds, Row
      <4>5. lastEvent' \in [Tasks -> Event]
        BY <3>2, <4>4 DEF TypeOK, RowsTyped
      <4> QED
        BY <4>1, <4>2, <4>3, <4>5 DEF TypeOK, RowsTyped, Exists
    <3> QED
      BY <1>6, <3>1, <3>2 DEF ResetInFlight
  <2>3. ProcessTyped'
    BY <1>6 DEF ResetInFlight, TypeOK, ProcessTyped
  <2> QED
    BY <1>6, <2>2, <2>3, PartsKept DEF ResetInFlight, TypeOK
<1> QED
  BY <1>1, <1>2, <1>3, <1>4, <1>5, <1>6 DEF ProcessStep

LEMMA TypePreserved == TypeOK /\ [Next]_vars => TypeOK'
<1> SUFFICES ASSUME TypeOK, [Next]_vars PROVE TypeOK'
  OBVIOUS
<1>1. CASE Next
  BY <1>1, WorkersTypeOK, FinalizersTypeOK, HandlersTyped, ProcessTypeOK DEF Next
<1>2. CASE UNCHANGED vars
  BY <1>2, PartsKept DEF vars, rows, procs, TypeOK
<1> QED
  BY <1>1, <1>2

\* Every reachable state is well typed: the rows and events the transactions write
\* are rows and events, a task row exists exactly while its recording does, a worker
\* holds a key exactly during a round, and persist never counts past its last retry.
THEOREM TypeCorrect == Spec => []TypeOK
<1>1. Init => TypeOK
  BY TypeInit
<1>2. TypeOK /\ [Next]_vars => TypeOK'
  BY TypePreserved
<1> QED
  BY <1>1, <1>2, PTL DEF Spec
=============================================================================
