--------------------------- MODULE ExecutorProofs ---------------------------
(***************************************************************************)
(* One executor per round, an exact cancel table, and the reach of a       *)
(* deletion: theorems about Pipeline for any tasks, workers and finalizers. *)
(*                                                                         *)
(* The argument: attempt numbers only grow, and a task is queued only under *)
(* a number no worker holds (KeysBehindRows), so a claim hands out a fresh *)
(* key (SingleExecutor); then Register and Unregister, which work by key,  *)
(* touch the entry of their own round only (TableMatchesRounds); then      *)
(* CancelTask misses no listed round, and no round of a marked recording   *)
(* enters a call after it (MarkOutlivesFinalizer), so CancelReaches holds. *)
(***************************************************************************)
EXTENDS PipelineProofs

\* A finalizer works on a recording that is marked, or purged by another one.
MarkOutlivesFinalizer ==
  \A f \in Finalizers : fin[f].pc # "idle" => rec[fin[f].task] \in {"deleting", "gone"}

ExecutorInv ==
  /\ TypeOK
  /\ KeysBehindRows
  /\ SingleExecutor
  /\ TableMatchesRounds
  /\ MarkOutlivesFinalizer
  /\ CancelReaches

-----------------------------------------------------------------------------
\* How rows move

\* The row of t keeps its attempt, or is queued under a later one.
Onward(t) ==
  rec[t] # "none" =>
    /\ rec'[t] # "none"
    /\ Exists(t)' =>
         /\ Exists(t)
         /\ \/ /\ row'[t].attempt = row[t].attempt
               /\ row'[t].status = "pending" => row[t].status = "pending"
            \/ row'[t].attempt = row[t].attempt + 1

LEMMA RowKeptOnward ==
  ASSUME NEW t \in Tasks, rec'[t] = rec[t], row'[t] = row[t]
  PROVE  Onward(t)
BY DEF Onward, Exists

LEMMA RowWrittenOnward ==
  ASSUME TypeOK, NEW u \in Tasks, Exists(u), NEW k \in Key, rec' = rec,
         \/ row' = [row EXCEPT ![u] = ClaimedRow(@)]
         \/ row' = [row EXCEPT ![u] = SavedRow(@, k)]
         \/ row' = [row EXCEPT ![u] = CompletedRow(@, k)]
         \/ row' = [row EXCEPT ![u] = FailedRow(@)]
         \/ row' = [row EXCEPT ![u] = RetriedRow(@)]
         \/ row' = [row EXCEPT ![u].due = TRUE]
  PROVE  \A t \in Tasks : Onward(t)
<1> TAKE t \in Tasks
<1>1. CASE t # u
  <2>1. row'[t] = row[t] /\ rec'[t] = rec[t]
    BY <1>1 DEF TypeOK, RowsTyped
  <2> QED
    BY <2>1, RowKeptOnward
<1>2. CASE t = u
  <2> DEFINE r == row[t]
  <2>1. r \in Row /\ Exists(t) /\ Exists(t)' /\ rec'[t] = rec[t]
    BY <1>2 DEF TypeOK, RowsTyped, Exists
  <2>2. row'[t] \in {ClaimedRow(r), SavedRow(r, k), CompletedRow(r, k), FailedRow(r),
                     RetriedRow(r), [r EXCEPT !.due = TRUE]}
    BY <1>2 DEF TypeOK, RowsTyped
  <2>3. ClaimedRow(r).attempt = r.attempt /\ ClaimedRow(r).status # "pending"
    BY DEF ClaimedRow, Advanced
  <2>4. SavedRow(r, k).attempt = r.attempt /\ SavedRow(r, k).status # "pending"
    BY DEF SavedRow, Advanced
  <2>5. CompletedRow(r, k).attempt = r.attempt /\ CompletedRow(r, k).status # "pending"
    BY DEF CompletedRow, Advanced
  <2>6. \/ FailedRow(r).attempt = r.attempt /\ FailedRow(r).status # "pending"
        \/ FailedRow(r).attempt = r.attempt + 1
    BY DEF FailedRow, Cleared
  <2>7. RetriedRow(r).attempt = r.attempt + 1
    BY DEF RetriedRow, Cleared
  <2>8. /\ [r EXCEPT !.due = TRUE].attempt = r.attempt
        /\ [r EXCEPT !.due = TRUE].status = r.status
    BY <2>1 DEF Row
  <2> QED
    BY <2>1, <2>2, <2>3, <2>4, <2>5, <2>6, <2>7, <2>8 DEF Onward
<1> QED
  BY <1>1, <1>2

LEMMA WorkersOnward ==
  ASSUME TypeOK, NEW w \in Workers, WorkerStep(w)
  PROVE  \A t \in Tasks : Onward(t)
<1>1. CASE UNCHANGED rows
  BY <1>1, RowKeptOnward DEF rows
<1>2. ASSUME NEW u \in Tasks, ClaimNext(w, u)
      PROVE  \A t \in Tasks : Onward(t)
  <2>1. Exists(u) /\ [task |-> u, attempt |-> 1] \in Key
    BY <1>2 DEF ClaimNext, Claimable, Exists, Key
  <2> QED
    BY <1>2, <2>1, RowWrittenOnward DEF ClaimNext
<1>3. ASSUME pc[w] \in Holding, NEW l, Writable(w, Expected(l))
      PROVE  exec[w] \in Key /\ exec[w].task \in Tasks /\ Exists(exec[w].task)
  BY <1>3, RoundsHaveKeys DEF Writable, Exists
<1>4. CASE SaveTranscription(w)
  BY <1>3, <1>4, Places, RowWrittenOnward DEF SaveTranscription
<1>5. CASE CompleteTask(w)
  BY <1>3, <1>5, Places, RowWrittenOnward DEF CompleteTask
<1>6. CASE FailTask(w) /\ pc[w] \in Holding /\ rec' = rec
  BY <1>3, <1>6, RowWrittenOnward DEF FailTask
<1>7. CASE FailRound(w)
  BY <1>6, <1>7, Places DEF FailRound
<1>8. CASE RecoverRound(w)
  BY <1>1, <1>6, <1>8, Places DEF RecoverRound, rows
<1> QED
  BY <1>1, <1>2, <1>4, <1>5, <1>7, <1>8
     DEF WorkerStep, StartRound, ClaimNothing, Register, Recheck, CallReturns, CallFails,
         CallCancelled, CallPanics, WriteFails, DropStale, Leave

LEMMA HandlersOnward ==
  ASSUME TypeOK, NEW u \in Tasks, Create(u) \/ RetryTask(u) \/ RetryDue(u)
  PROVE  \A t \in Tasks : Onward(t)
<1>1. [task |-> u, attempt |-> 1] \in Key
  BY DEF Key
<1>2. CASE Create(u)
  BY <1>2, RowKeptOnward DEF Create, Onward, TypeOK, RowsTyped
<1>3. CASE RetryTask(u)
  BY <1>1, <1>3, RowWrittenOnward DEF RetryTask, Exists
<1>4. CASE RetryDue(u)
  BY <1>1, <1>4, RowWrittenOnward DEF RetryDue
<1> QED
  BY <1>2, <1>3, <1>4

LEMMA FinalizersOnward ==
  ASSUME TypeOK, NEW f \in Finalizers, FinalizerStep(f)
  PROVE  \A t \in Tasks : Onward(t)
<1>1. CASE UNCHANGED rows
  BY <1>1, RowKeptOnward DEF rows
<1>2. ASSUME NEW u \in Tasks, rec[u] = "live", rec' = [rec EXCEPT ![u] = "deleting"],
             row' = [row EXCEPT ![u].eventSeq = @ + 1], NEW t \in Tasks
      PROVE  Onward(t)
  <2>1. row'[t] = row[t] \/ row'[t] = [row[t] EXCEPT !.eventSeq = @ + 1]
    BY <1>2 DEF TypeOK, RowsTyped
  <2>2. row'[t].attempt = row[t].attempt /\ row'[t].status = row[t].status
    BY <2>1 DEF TypeOK, RowsTyped, Row, NoRow
  <2> QED
    BY <1>2, <2>2 DEF Onward, Exists, TypeOK, RowsTyped
<1>3. ASSUME NEW u \in Tasks, MarkDeleting(f, u)
      PROVE  \A t \in Tasks : Onward(t)
  BY <1>1, <1>2, <1>3 DEF MarkDeleting
<1>4. CASE PurgeRecording(f)
  <2>1. CASE UNCHANGED rows
    BY <1>1, <2>1
  <2>2. CASE /\ rec' = [rec EXCEPT ![fin[f].task] = "gone"]
             /\ row' = [row EXCEPT ![fin[f].task] = NoRow]
    BY <2>2 DEF Onward, Exists, TypeOK, RowsTyped
  <2> QED
    BY <1>4, <2>1, <2>2 DEF PurgeRecording
<1> QED
  BY <1>1, <1>3, <1>4 DEF FinalizerStep, GetDeleting, ListDeleting, CancelTask

LEMMA ProcessOnward ==
  ASSUME TypeOK, ProcessStep
  PROVE  \A t \in Tasks : Onward(t)
<1>1. CASE UNCHANGED rows
  BY <1>1, RowKeptOnward DEF rows
<1>2. CASE ResumeDeletions
  BY <1>2 DEF ResumeDeletions, Onward, Exists
<1>3. CASE ResetInFlight
  <2> TAKE t \in Tasks
  <2>1. rec'[t] = rec[t] /\ row'[t] \in {row[t], RecoveredRow(row[t])}
    BY <1>3 DEF ResetInFlight
  <2>2. \/ /\ RecoveredRow(row[t]).attempt = row[t].attempt
           /\ RecoveredRow(row[t]).status # "pending"
        \/ RecoveredRow(row[t]).attempt = row[t].attempt + 1
    BY DEF RecoveredRow, Advanced, Cleared
  <2> QED
    BY <2>1, <2>2 DEF Onward, Exists
<1> QED
  BY <1>1, <1>2, <1>3 DEF ProcessStep, Drain, ForceStop, ProcessEnds, Boot

LEMMA RowsOnward ==
  ASSUME TypeOK, Next
  PROVE  \A t \in Tasks : Onward(t)
BY WorkersOnward, HandlersOnward, FinalizersOnward, ProcessOnward DEF Next

-----------------------------------------------------------------------------
\* How keys move

\* Worker w is handed the key of a queued task.
Claims(w, t) ==
  /\ Claimable(t)
  /\ rec' = rec
  /\ row'[t] = ClaimedRow(row[t])
  /\ exec' = [exec EXCEPT ![w] = [task |-> t, attempt |-> row[t].attempt]]

LEMMA KeysMove ==
  ASSUME TypeOK, Next
  PROVE  \/ \A w \in Workers : exec'[w] \in {exec[w], NoKey}
         \/ \E w \in Workers, t \in Tasks : Claims(w, t)
<1>1. CASE exec' = exec
  BY <1>1
<1>2. CASE \E w \in Workers : exec' = [exec EXCEPT ![w] = NoKey]
  BY <1>2 DEF TypeOK, WorkersTyped
<1>3. ASSUME NEW w \in Workers, NEW t \in Tasks, ClaimNext(w, t), exec' # exec
      PROVE  Claims(w, t)
  BY <1>3 DEF ClaimNext, Claims, TypeOK, RowsTyped
<1>4. CASE \E w \in Workers : WorkerStep(w)
  BY <1>1, <1>2, <1>3, <1>4
     DEF WorkerStep, StartRound, ClaimNothing, Register, Recheck, CallReturns, CallFails,
         CallCancelled, CallPanics, SaveTranscription, CompleteTask, FailRound, WriteFails,
         DropStale, RecoverRound, Leave
<1>5. CASE \E f \in Finalizers : FinalizerStep(f)
  BY <1>1, <1>5
     DEF FinalizerStep, MarkDeleting, GetDeleting, ListDeleting, CancelTask, PurgeRecording, procs
<1>6. CASE \E t \in Tasks : Create(t) \/ RetryTask(t) \/ RetryDue(t)
  BY <1>1, <1>6 DEF Create, RetryTask, RetryDue, procs
<1>7. CASE ProcessStep
  BY <1>1, <1>7
     DEF ProcessStep, Drain, ForceStop, ProcessEnds, Boot, ResumeDeletions, ResetInFlight, procs
<1> QED
  BY <1>4, <1>5, <1>6, <1>7 DEF Next

-----------------------------------------------------------------------------
\* The invariant is preserved

LEMMA KeysBehindRowsKept ==
  ASSUME TypeOK, TypeOK', KeysBehindRows, Next
  PROVE  KeysBehindRows'
<1> SUFFICES ASSUME NEW w \in Workers, pc'[w] \in Holding,
                    NEW k \in Key, exec'[w] = k
             PROVE  BehindRow(k)'
  BY DEF KeysBehindRows, TypeOK, WorkersTyped
<1>1. k # NoKey /\ k.task \in Tasks /\ k.attempt \in Nat
  BY DEF TypeOK, WorkersTyped, Key
<1>2. \A t \in Tasks : Onward(t)
  BY RowsOnward
<1>3. \A t \in Tasks : /\ Exists(t) => row[t].attempt \in Nat
                       /\ Exists(t)' => row'[t].attempt \in Nat
  BY NoRowIsNoRow DEF TypeOK, RowsTyped, Row
<1>4. CASE k = exec[w]
  <2>1. BehindRow(k)
    BY <1>1, <1>4 DEF KeysBehindRows, TypeOK, WorkersTyped
  <2>2. Onward(k.task)
    BY <1>1, <1>2
  <2> QED
    <3>1. rec'[k.task] # "none"
      BY <2>1, <2>2 DEF Onward, BehindRow
    <3>2. ASSUME Exists(k.task)'
          PROVE  /\ k.attempt <= row'[k.task].attempt
                 /\ row'[k.task].status = "pending" => k.attempt # row'[k.task].attempt
      <4>1. /\ k.attempt <= row[k.task].attempt
            /\ row[k.task].status = "pending" => k.attempt # row[k.task].attempt
        BY <2>1, <2>2, <3>2 DEF Onward, BehindRow
      <4>2. \/ /\ row'[k.task].attempt = row[k.task].attempt
               /\ row'[k.task].status = "pending" => row[k.task].status = "pending"
            \/ row'[k.task].attempt = row[k.task].attempt + 1
        BY <2>1, <2>2, <3>2 DEF Onward, BehindRow
      <4>3. row[k.task].attempt \in Nat /\ row'[k.task].attempt \in Nat
        BY <1>1, <1>3, <2>1, <2>2, <3>2 DEF Onward, BehindRow
      <4> QED
        BY <1>1, <4>1, <4>2, <4>3
    <3> QED
      BY <3>1, <3>2 DEF BehindRow
<1>5. ASSUME NEW v \in Workers, NEW t \in Tasks, Claims(v, t), k # exec[w]
      PROVE  BehindRow(k)'
  <2>1. k = [task |-> t, attempt |-> row[t].attempt]
    BY <1>5 DEF Claims, TypeOK, WorkersTyped
  <2>2. rec'[t] = "live" /\ row'[t].attempt = row[t].attempt /\ row'[t].status = "transcribing"
    BY <1>5 DEF Claims, Claimable, ClaimedRow, Advanced
  <2>3. k.task = t /\ k.attempt = row'[t].attempt
    BY <2>1, <2>2
  <2> QED
    BY <1>1, <2>2, <2>3 DEF BehindRow
<1> QED
  BY <1>1, <1>4, <1>5, KeysMove

LEMMA SingleExecutorKept ==
  ASSUME TypeOK, KeysBehindRows, SingleExecutor, Next
  PROVE  SingleExecutor'
<1>1. CASE \A w \in Workers : exec'[w] \in {exec[w], NoKey}
  BY <1>1 DEF SingleExecutor
<1>2. ASSUME NEW w \in Workers, NEW t \in Tasks, Claims(w, t)
      PROVE  SingleExecutor'
  <2> DEFINE k == [task |-> t, attempt |-> row[t].attempt]
  <2>1. \A v \in Workers : exec[v] # k
    <3> SUFFICES ASSUME NEW v \in Workers, exec[v] = k PROVE FALSE
      OBVIOUS
    <3>1. Exists(t) /\ row[t] \in Row /\ row[t].status = "pending"
      BY <1>2 DEF Claims, Claimable, Exists, TypeOK, RowsTyped
    <3>2. k # NoKey
      BY <3>1 DEF NoKey, Row
    <3>3. pc[v] \in Holding
      BY <3>2 DEF TypeOK, WorkersTyped
    <3> QED
      BY <3>1, <3>3 DEF KeysBehindRows, BehindRow
  <2>2. exec'[w] = k /\ \A v \in Workers : v # w => exec'[v] = exec[v]
    BY <1>2 DEF Claims, TypeOK, WorkersTyped
  <2> QED
    BY <2>1, <2>2 DEF SingleExecutor
<1> QED
  BY <1>1, <1>2, KeysMove

LEMMA MarkOutlivesFinalizerKept ==
  ASSUME TypeOK, MarkOutlivesFinalizer, Next
  PROVE  MarkOutlivesFinalizer'
<1>1. \A t \in Tasks : rec[t] \in {"deleting", "gone"} => rec'[t] \in {"deleting", "gone"}
  <2>1. CASE \E w \in Workers : WorkerStep(w)
    BY <2>1
       DEF WorkerStep, StartRound, ClaimNothing, ClaimNext, Register, Recheck, CallReturns,
           CallFails, CallCancelled, CallPanics, SaveTranscription, CompleteTask, FailRound,
           WriteFails, DropStale, RecoverRound, Leave, rows
  <2>2. CASE \E f \in Finalizers : FinalizerStep(f)
    BY <2>2
       DEF FinalizerStep, MarkDeleting, GetDeleting, ListDeleting, CancelTask, PurgeRecording,
           rows, TypeOK, RowsTyped
  <2>3. CASE \E t \in Tasks : Create(t) \/ RetryTask(t) \/ RetryDue(t)
    BY <2>3 DEF Create, RetryTask, RetryDue, TypeOK, RowsTyped
  <2>4. CASE ProcessStep
    BY <2>4
       DEF ProcessStep, Drain, ForceStop, ProcessEnds, Boot, ResumeDeletions, ResetInFlight, rows
  <2> QED
    BY <2>1, <2>2, <2>3, <2>4 DEF Next
<1>2. ASSUME NEW f \in Finalizers, fin'[f].pc # "idle", fin'[f].task # fin[f].task \/ fin[f].pc = "idle"
      PROVE  rec'[fin'[f].task] \in {"deleting", "gone"}
  <2>1. CASE UNCHANGED fin
    BY <1>2, <2>1
  <2>2. ASSUME NEW g \in Finalizers, FinalizerStep(g)
        PROVE  rec'[fin'[f].task] \in {"deleting", "gone"}
    <3>1. ASSUME NEW t \in Tasks, MarkDeleting(g, t)
          PROVE  rec'[fin'[f].task] \in {"deleting", "gone"}
      <4>1. rec'[t] = "deleting"
        BY <3>1 DEF MarkDeleting, rows, TypeOK, RowsTyped
      <4>2. fin'[f].task = t
        BY <1>2, <3>1 DEF MarkDeleting, TypeOK, FinalizersTyped
      <4> QED
        BY <4>1, <4>2
    <3>2. ASSUME NEW t \in Tasks, ListDeleting(g, t)
          PROVE  rec'[fin'[f].task] \in {"deleting", "gone"}
      <4>1. fin'[f].task = t
        BY <1>2, <3>2 DEF ListDeleting, DeletingView, TypeOK, FinalizersTyped
      <4> QED
        BY <3>2, <4>1 DEF ListDeleting, rows
    <3>3. ASSUME GetDeleting(g) \/ CancelTask(g) \/ PurgeRecording(g)
          PROVE  FALSE
      <4>1. fin[g].pc # "idle"
        BY <3>3 DEF GetDeleting, CancelTask, PurgeRecording
      <4>2. \A h \in Finalizers : h # g => fin'[h] = fin[h]
        BY <3>3 DEF GetDeleting, DeletingView, CancelTask, PurgeRecording, TypeOK, FinalizersTyped
      <4>3. fin'[g].pc = "idle" \/ fin'[g].task = fin[g].task
        <5>1. CASE DeletingView(g, fin[g].task)
          BY <5>1 DEF DeletingView, TypeOK, FinalizersTyped
        <5>2. CASE fin' = [fin EXCEPT ![g] = NoFin]
          BY <5>2 DEF NoFin, TypeOK, FinalizersTyped
        <5>3. CASE CancelTask(g)
          BY <5>3 DEF CancelTask, TypeOK, FinalizersTyped
        <5> QED
          BY <3>3, <5>1, <5>2, <5>3 DEF GetDeleting, PurgeRecording
      <4> QED
        BY <1>2, <4>1, <4>2, <4>3
    <3> QED
      BY <2>2, <3>1, <3>2, <3>3 DEF FinalizerStep
  <2>3. CASE ProcessEnds
    BY <1>2, <2>3 DEF ProcessEnds, NoFin
  <2> QED
    BY <2>1, <2>2, <2>3
       DEF Next, WorkerStep, StartRound, ClaimNothing, ClaimNext, Register, Recheck, CallReturns,
           CallFails, CallCancelled, CallPanics, SaveTranscription, CompleteTask, FailRound,
           WriteFails, DropStale, RecoverRound, Leave, Create, RetryTask, RetryDue,
           ProcessStep, Drain, ForceStop, Boot, ResumeDeletions, ResetInFlight
<1> QED
  BY <1>1, <1>2 DEF MarkOutlivesFinalizer, TypeOK, FinalizersTyped

\* The rounds the cancel table should hold, and steps that leave them as they are.
ListedRounds == {w \in Workers : pc[w] \in Listed}

LEMMA TableByRounds ==
  TableMatchesRounds <=> cancels = {[key |-> exec[w], worker |-> w] : w \in ListedRounds}
BY DEF TableMatchesRounds, ListedRounds

SameListing ==
  /\ cancels' = cancels
  /\ \A w \in Workers : /\ pc'[w] \in Listed <=> pc[w] \in Listed
                        /\ pc[w] \in Listed => exec'[w] = exec[w]

LEMMA OtherStepsSameListing ==
  ASSUME TypeOK, Next
  PROVE  \/ SameListing \/ ProcessEnds
         \/ \E w \in Workers : Register(w) \/ CallPanics(w) \/ Leave(w)
<1>1. cancels' = cancels /\ pc' = pc /\ exec' = exec => SameListing
  BY DEF SameListing
<1>2. ASSUME NEW w \in Workers, cancels' = cancels, NEW l, Goto(w, l),
             l \in Listed <=> pc[w] \in Listed,
             \A v \in Workers : v # w \/ l \in Listed => exec'[v] = exec[v]
      PROVE  SameListing
  BY <1>2 DEF SameListing, Goto, TypeOK, WorkersTyped
<1>3. ASSUME NEW w \in Workers, WorkerStep(w), ~(Register(w) \/ CallPanics(w) \/ Leave(w))
      PROVE  SameListing
  <2>1. CASE StartRound(w) \/ ClaimNothing(w)
    BY <1>2, <2>1, Places DEF StartRound, ClaimNothing
  <2>2. ASSUME NEW t \in Tasks, ClaimNext(w, t)
        PROVE  SameListing
    <3>1. PICK l \in {"idle", "registering"} : Goto(w, l)
      BY <2>2 DEF ClaimNext
    <3>2. \A v \in Workers : v # w => exec'[v] = exec[v]
      BY <2>2 DEF ClaimNext, TypeOK, WorkersTyped
    <3> QED
      BY <1>2, <2>2, <3>1, <3>2, Places DEF ClaimNext
  <2>3. CASE Recheck(w) \/ CallReturns(w) \/ CallFails(w) \/ CallCancelled(w) \/ DropStale(w)
    BY <1>2, <2>3, Places DEF Recheck, CallReturns, CallFails, CallCancelled, DropStale
  <2>4. CASE SaveTranscription(w) \/ CompleteTask(w) \/ FailRound(w) \/ WriteFails(w)
    <3>1. pc[w] \in Listed /\ exec' = exec /\ cancels' = cancels
      BY <2>4, Places DEF SaveTranscription, CompleteTask, FailRound, WriteFails
    <3>2. \/ pc' = pc
          \/ \E l \in {"summarizing", "leaving"} : Goto(w, l)
      BY <2>4 DEF SaveTranscription, CompleteTask, FailRound, WriteFails, Acknowledge, TryAgain
    <3> QED
      BY <1>1, <1>2, <3>1, <3>2, Places
  <2>5. CASE RecoverRound(w)
    BY <1>2, <2>5, Places DEF RecoverRound, TypeOK, WorkersTyped
  <2> QED
    BY <1>3, <2>1, <2>2, <2>3, <2>4, <2>5 DEF WorkerStep
<1>4. ASSUME NEW f \in Finalizers, FinalizerStep(f)
      PROVE  SameListing
  <2>1. cancels' = cancels /\ pc' = pc /\ exec' = exec
    BY <1>4
       DEF FinalizerStep, MarkDeleting, GetDeleting, ListDeleting, CancelTask, PurgeRecording, procs
  <2> QED
    BY <1>1, <2>1
<1>5. ASSUME NEW t \in Tasks, Create(t) \/ RetryTask(t) \/ RetryDue(t)
      PROVE  SameListing
  <2>1. cancels' = cancels /\ pc' = pc /\ exec' = exec
    BY <1>5 DEF Create, RetryTask, RetryDue, procs
  <2> QED
    BY <1>1, <2>1
<1>6. CASE ProcessStep
  BY <1>1, <1>6
     DEF ProcessStep, Drain, ForceStop, Boot, ResumeDeletions, ResetInFlight, procs
<1> QED
  BY <1>3, <1>4, <1>5, <1>6 DEF Next

LEMMA TableMatchesRoundsKept ==
  ASSUME TypeOK, SingleExecutor, TableMatchesRounds, Next
  PROVE  TableMatchesRounds'
<1> DEFINE entry(w) == [key |-> exec[w], worker |-> w]
<1>1. cancels = {entry(w) : w \in ListedRounds}
  BY TableByRounds
<1>2. \A v, w \in Workers : pc[v] \in Listed /\ exec[v] = exec[w] => v = w
  BY Places DEF SingleExecutor, TypeOK, WorkersTyped
<1>3. CASE SameListing
  BY <1>3, <1>1 DEF SameListing, ListedRounds, TableMatchesRounds
<1>4. CASE ProcessEnds
  BY <1>4, Places DEF ProcessEnds, TableMatchesRounds
<1>5. ASSUME NEW w \in Workers, Register(w)
      PROVE  TableMatchesRounds'
  <2>1. ListedRounds' = ListedRounds \cup {w} /\ exec' = exec
    BY <1>5, Places DEF ListedRounds, Register, Goto, TypeOK, WorkersTyped
  <2>2. \A v \in ListedRounds : exec[v] # exec[w]
    BY <1>2, <1>5, Places DEF ListedRounds, Register
  <2>3. cancels' = cancels \cup {entry(w)}
    BY <1>1, <1>5, <2>2 DEF Register
  <2>4. cancels' = {entry(v) : v \in ListedRounds \cup {w}}
    BY <1>1, <2>3
  <2> QED
    BY <2>1, <2>4 DEF TableMatchesRounds, ListedRounds
<1>6. ASSUME NEW w \in Workers, CallPanics(w) \/ Leave(w)
      PROVE  TableMatchesRounds'
  <2>1. pc[w] \in Listed /\ cancels' = Unlisted(w)
    BY <1>6, Places DEF CallPanics, Leave
  <2>2. ListedRounds' = ListedRounds \ {w}
    BY <1>6, Places DEF ListedRounds, CallPanics, Leave, Goto, TypeOK, WorkersTyped
  <2>3. \A v \in Workers : v # w => exec'[v] = exec[v]
    BY <1>6 DEF CallPanics, Leave, TypeOK, WorkersTyped
  <2>4. cancels' = {entry(v) : v \in ListedRounds \ {w}}
    BY <1>1, <1>2, <2>1 DEF Unlisted, ListedRounds
  <2>5. cancels' = {[key |-> exec'[v], worker |-> v] : v \in ListedRounds'}
    BY <2>2, <2>3, <2>4 DEF ListedRounds
  <2> QED
    BY <2>5 DEF TableMatchesRounds, ListedRounds
<1> QED
  BY <1>3, <1>4, <1>5, <1>6, OtherStepsSameListing

\* A worker enters an external call, or stays in one, only while its recording is
\* live; and a worker in a call stays cancelled once it is.
LEMMA CallsEnteredLive ==
  ASSUME TypeOK, Next, NEW w \in Workers, pc'[w] \in Calling
  PROVE  /\ exec'[w] = exec[w]
         /\ \/ rec'[exec[w].task] = "live"
            \/ pc[w] \in Calling /\ (cancelled[w] => cancelled'[w])
<1>1. CASE pc' = pc /\ exec' = exec /\ cancelled' = cancelled
  BY <1>1
<1>2. ASSUME NEW v \in Workers, WorkerStep(v), v # w
      PROVE  pc'[w] = pc[w] /\ exec'[w] = exec[w] /\ cancelled'[w] = cancelled[w]
  <2>2. pc'[w] = pc[w]
    BY <1>2
       DEF WorkerStep, StartRound, ClaimNothing, ClaimNext, Register, Recheck, CallReturns,
           CallFails, CallCancelled, CallPanics, SaveTranscription, CompleteTask, FailRound,
           WriteFails, DropStale, RecoverRound, Leave, Acknowledge, TryAgain, Goto,
           TypeOK, WorkersTyped
  <2>3. exec'[w] = exec[w]
    BY <1>2
       DEF WorkerStep, StartRound, ClaimNothing, ClaimNext, Register, Recheck, CallReturns,
           CallFails, CallCancelled, CallPanics, SaveTranscription, CompleteTask, FailRound,
           WriteFails, DropStale, RecoverRound, Leave, TypeOK, WorkersTyped
  <2>4. cancelled'[w] = cancelled[w]
    BY <1>2
       DEF WorkerStep, StartRound, ClaimNothing, ClaimNext, Register, Recheck, CallReturns,
           CallFails, CallCancelled, CallPanics, SaveTranscription, CompleteTask, FailRound,
           WriteFails, DropStale, RecoverRound, Leave, TypeOK, WorkersTyped
  <2> QED
    BY <2>2, <2>3, <2>4
<1>3. CASE WorkerStep(w)
  <2>1. \/ Recheck(w) /\ RoundIsCurrent(w)
        \/ SaveTranscription(w)
        \/ CompleteTask(w) \/ FailRound(w) \/ WriteFails(w)
    BY <1>3
       DEF WorkerStep, StartRound, ClaimNothing, ClaimNext, Register, Recheck, CallReturns,
           CallFails, CallCancelled, CallPanics, DropStale, RecoverRound, Leave, Goto, Calling,
           TypeOK, WorkersTyped
  <2> QED
    BY <2>1
       DEF Recheck, RoundIsCurrent, SaveTranscription, CompleteTask, FailRound, WriteFails,
           Writable, Acknowledge, TryAgain, Goto, rows, Writing, Calling, TypeOK, WorkersTyped
<1>4. ASSUME NEW f \in Finalizers, FinalizerStep(f)
      PROVE  pc' = pc /\ exec' = exec /\ (cancelled[w] => cancelled'[w])
  BY <1>4
     DEF FinalizerStep, MarkDeleting, GetDeleting, ListDeleting, CancelTask, PurgeRecording, procs
<1>5. ASSUME NEW t \in Tasks, Create(t) \/ RetryTask(t) \/ RetryDue(t)
      PROVE  pc' = pc /\ exec' = exec /\ cancelled' = cancelled
  BY <1>5 DEF Create, RetryTask, RetryDue, procs
<1>6. CASE ForceStop
  BY <1>6, Places DEF ForceStop
<1>7. CASE ProcessEnds
  BY <1>7 DEF ProcessEnds, Calling
<1>8. CASE Drain \/ Boot \/ ResumeDeletions \/ ResetInFlight
  BY <1>1, <1>8 DEF Drain, Boot, ResumeDeletions, ResetInFlight, procs
<1> QED
  BY <1>1, <1>2, <1>3, <1>4, <1>5, <1>6, <1>7, <1>8 DEF Next, ProcessStep

\* A finalizer arrives past CancelTask by cancelling every worker in a call.
LEMMA CancelTaskReaches ==
  ASSUME TypeOK, TableMatchesRounds, NEW f \in Finalizers, CancelTask(f), fin[f].known,
         NEW w \in Workers, pc[w] \in Calling, exec[w].task = fin[f].task
  PROVE  cancelled'[w]
<1>1. [key |-> exec[w], worker |-> w] \in cancels
  BY Places DEF TableMatchesRounds
<1>2. [key |-> exec[w], worker |-> w].key.task = fin[f].task
      /\ [key |-> exec[w], worker |-> w].worker = w
  OBVIOUS
<1> QED
  BY <1>1, <1>2, Zenon DEF CancelTask

\* Every finalizer past CancelTask was there before, or comes there by it.
LEMMA FinalizersPastCancel ==
  ASSUME TypeOK, Next, NEW f \in Finalizers, fin'[f].pc = "erase"
  PROVE  \/ fin'[f] = fin[f]
         \/ CancelTask(f) /\ fin'[f].known = fin[f].known /\ fin'[f].task = fin[f].task
<1>1. CASE UNCHANGED fin
  BY <1>1
<1>2. ASSUME NEW g \in Finalizers, FinalizerStep(g), ~CancelTask(g)
      PROVE  fin'[f] = fin[f]
  <2>1. CASE fin' = fin
    BY <2>1
  <2>2. CASE \E n \in {NoFin} \cup [pc : {"marked", "cancel"}, task : Tasks, known : BOOLEAN] :
               fin' = [fin EXCEPT ![g] = n]
    BY <2>2 DEF NoFin, TypeOK, FinalizersTyped
  <2>3. ASSUME NEW t \in Tasks, MarkDeleting(g, t)
        PROVE  fin'[f] = fin[f]
    <3>1. [pc |-> "marked", task |-> t, known |-> FALSE]
            \in [pc : {"marked", "cancel"}, task : Tasks, known : BOOLEAN]
      OBVIOUS
    <3> QED
      BY <2>1, <2>2, <2>3, <3>1 DEF MarkDeleting
  <2>4. ASSUME NEW t \in Tasks, DeletingView(g, t)
        PROVE  fin'[f] = fin[f]
    <3>1. \A known \in BOOLEAN : [pc |-> "cancel", task |-> t, known |-> known]
            \in [pc : {"marked", "cancel"}, task : Tasks, known : BOOLEAN]
      OBVIOUS
    <3>2. \E known \in BOOLEAN :
            fin' = [fin EXCEPT ![g] = [pc |-> "cancel", task |-> t, known |-> known]]
      BY <2>4 DEF DeletingView
    <3> QED
      BY <2>2, <3>1, <3>2
  <2>5. GetDeleting(g) => fin[g].task \in Tasks
    BY DEF GetDeleting, TypeOK, FinalizersTyped
  <2> QED
    BY <1>2, <2>2, <2>3, <2>4, <2>5 DEF FinalizerStep, GetDeleting, ListDeleting, PurgeRecording
<1>3. ASSUME NEW g \in Finalizers, CancelTask(g)
      PROVE  \/ fin'[f] = fin[f]
             \/ /\ CancelTask(f)
                /\ fin'[f].known = fin[f].known
                /\ fin'[f].task = fin[f].task
  BY <1>3 DEF CancelTask, TypeOK, FinalizersTyped
<1>4. CASE ProcessEnds
  BY <1>4 DEF ProcessEnds, NoFin
<1> QED
  BY <1>1, <1>2, <1>3, <1>4
     DEF Next, WorkerStep, StartRound, ClaimNothing, ClaimNext, Register, Recheck, CallReturns,
         CallFails, CallCancelled, CallPanics, SaveTranscription, CompleteTask, FailRound,
         WriteFails, DropStale, RecoverRound, Leave, Create, RetryTask, RetryDue,
         ProcessStep, Drain, ForceStop, Boot, ResumeDeletions, ResetInFlight

LEMMA CancelReachesKept ==
  ASSUME TypeOK, TableMatchesRounds, MarkOutlivesFinalizer, MarkOutlivesFinalizer',
         CancelReaches, Next
  PROVE  CancelReaches'
<1> SUFFICES ASSUME NEW f \in Finalizers, NEW w \in Workers,
                    fin'[f].pc = "erase", fin'[f].known,
                    exec'[w].task = fin'[f].task, pc'[w] \in Calling
             PROVE  cancelled'[w]
  BY DEF CancelReaches, Calling
<1>1. exec'[w] = exec[w] /\ rec'[exec[w].task] # "live"
  BY CallsEnteredLive DEF MarkOutlivesFinalizer
<1>2. pc[w] \in Calling /\ (cancelled[w] => cancelled'[w])
  BY <1>1, CallsEnteredLive
<1>3. CASE fin'[f] = fin[f]
  BY <1>1, <1>2, <1>3 DEF CancelReaches
<1>4. CASE CancelTask(f) /\ fin'[f].known = fin[f].known /\ fin'[f].task = fin[f].task
  BY <1>1, <1>2, <1>4, CancelTaskReaches
<1> QED
  BY <1>3, <1>4, FinalizersPastCancel

-----------------------------------------------------------------------------
\* The theorems

LEMMA ExecutorInit == Init => ExecutorInv
<1> SUFFICES ASSUME Init PROVE ExecutorInv
  OBVIOUS
<1>1. TypeOK
  BY TypeInit
<1>2. \A w \in Workers : pc[w] \notin Holding /\ pc[w] \notin Listed /\ pc[w] \notin Calling
  BY Places DEF Init
<1>3. KeysBehindRows /\ SingleExecutor /\ TableMatchesRounds /\ CancelReaches
  BY <1>2 DEF Init, KeysBehindRows, SingleExecutor, TableMatchesRounds, CancelReaches
<1>4. MarkOutlivesFinalizer
  BY DEF Init, MarkOutlivesFinalizer, NoFin
<1> QED
  BY <1>1, <1>3, <1>4 DEF ExecutorInv

LEMMA ExecutorStutter ==
  ASSUME ExecutorInv, UNCHANGED vars
  PROVE  ExecutorInv'
<1>1. TypeOK'
  BY TypePreserved DEF ExecutorInv
<1>2. KeysBehindRows'
  BY DEF ExecutorInv, KeysBehindRows, BehindRow, Exists, vars
<1>3. SingleExecutor' /\ TableMatchesRounds' /\ MarkOutlivesFinalizer'
  BY DEF ExecutorInv, SingleExecutor, TableMatchesRounds, MarkOutlivesFinalizer, vars
<1>4. CancelReaches'
  BY DEF ExecutorInv, CancelReaches, vars
<1> QED
  BY <1>1, <1>2, <1>3, <1>4 DEF ExecutorInv

LEMMA ExecutorPreserved == ExecutorInv /\ [Next]_vars => ExecutorInv'
<1> SUFFICES ASSUME ExecutorInv, [Next]_vars PROVE ExecutorInv'
  OBVIOUS
<1>1. CASE Next
  <2>1. TypeOK'
    BY TypePreserved DEF ExecutorInv
  <2>2. KeysBehindRows'
    BY <1>1, <2>1, KeysBehindRowsKept DEF ExecutorInv
  <2>3. SingleExecutor'
    BY <1>1, SingleExecutorKept DEF ExecutorInv
  <2>4. TableMatchesRounds'
    BY <1>1, TableMatchesRoundsKept DEF ExecutorInv
  <2>5. MarkOutlivesFinalizer'
    BY <1>1, MarkOutlivesFinalizerKept DEF ExecutorInv
  <2>6. CancelReaches'
    BY <1>1, <2>5, CancelReachesKept DEF ExecutorInv
  <2> QED
    BY <2>1, <2>2, <2>3, <2>4, <2>5, <2>6 DEF ExecutorInv
<1>2. CASE UNCHANGED vars
  BY <1>2, ExecutorStutter
<1> QED
  BY <1>1, <1>2

\* The conjunction is inductive, and each of the theorems below one of its parts.
LEMMA ExecutorInvariant == Spec => []ExecutorInv
<1>1. Init => ExecutorInv
  BY ExecutorInit
<1>2. ExecutorInv /\ [Next]_vars => ExecutorInv'
  BY ExecutorPreserved
<1> QED
  BY <1>1, <1>2, PTL DEF Spec

\* A task is queued only under an attempt number that no worker still holds, after
\* every retry, scheduled retry and recovery (processing_tx.go, recording_tx.go).
THEOREM RoundsNeverAhead == Spec => []KeysBehindRows
<1>1. ExecutorInv => KeysBehindRows
  BY DEF ExecutorInv
<1> QED
  BY <1>1, ExecutorInvariant, PTL

\* However many workers the pool has, no two of them hold the same execution key.
THEOREM OneExecutorPerRound == Spec => []SingleExecutor
<1>1. ExecutorInv => SingleExecutor
  BY DEF ExecutorInv
<1> QED
  BY <1>1, ExecutorInvariant, PTL

\* The cancel table holds exactly the registered rounds, each under its own key and
\* with its own worker, in every reachable state (canceltable.go, process.go:99).
THEOREM TableIsExact == Spec => []TableMatchesRounds
<1>1. ExecutorInv => TableMatchesRounds
  BY DEF ExecutorInv
<1> QED
  BY <1>1, ExecutorInvariant, PTL

\* Once a deletion that knows its task is past CancelTask, no external call for the
\* task runs with an uncancelled context, whatever the workers and other finalizers
\* do in the meantime (delete.go:91, process.go:104).
THEOREM DeletionReachesCalls == Spec => []CancelReaches
<1>1. ExecutorInv => CancelReaches
  BY DEF ExecutorInv
<1> QED
  BY <1>1, ExecutorInvariant, PTL
=============================================================================
