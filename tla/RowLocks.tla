------------------------------ MODULE RowLocks ------------------------------
(***************************************************************************)
(* The MySQL transactions statement by statement: each takes its row locks *)
(* one after another (SELECT ... FOR UPDATE, DELETE), checks what it reads *)
(* under them, writes and commits; a lock is kept until the transaction    *)
(* ends.  InnoDB ends a deadlock by rolling one transaction back, and its  *)
(* caller gets an error.  READ COMMITTED: there are no gap locks, and a    *)
(* row that is not there is not locked.                                    *)
(*                                                                         *)
(* Statements that write follow the last lock, so that they and the commit *)
(* are one step.  Failing statements and unknown commits are Pipeline's.   *)
(***************************************************************************)
EXTENDS RowWrites, Sequences

CONSTANTS
  Workers,     \* pool goroutines
  Handlers,    \* HTTP requests that upload, retry or delete
  Finalizers,  \* what carries deletions out
  Retried      \* bound of the model: the tasks retried by hand, each of them once

ASSUME RetriedAssumption == Retried \subseteq Ids
ASSUME SessionAssumption ==
  /\ Workers \cap Handlers = {}
  /\ Finalizers \cap (Workers \cup Handlers) = {}

VARIABLES
  row,      \* the committed rows of each recording
  content,  \* content_hash of each recording, known before it is inserted
  tx,       \* the transaction each session has open
  key,      \* the round each worker holds: recording, attempt and stage
  named     \* the names uploads have used: every upload has fresh ones

vars == <<row, content, tx, key, named>>

Sessions == Workers \cup Handlers \cup Finalizers

NoTx  == [kind |-> "none", id |-> 0, got |-> 0, saw |-> NoRow]
NoKey == [id |-> 0, attempt |-> 0, stage |-> "none"]

StageWrites == {"save", "complete", "fail"}

-----------------------------------------------------------------------------
\* Transactions and their locks

\* Mutant: the writes to a task do not lock its recording.
PlanWithoutRecording ==
  [ claim |-> <<"task">>, save |-> <<"task">>, complete |-> <<"task">>,
    fail |-> <<"task">>, retry |-> <<"task", "rec">>,
    mark |-> <<"hash", "rec", "task">>, purge |-> <<"events", "task", "rec">>,
    upload |-> <<"hash">>, insert |-> <<"hash">>,
    reuse |-> <<"hash", "rec", "task">>, none |-> <<>> ]

\* Mutant: FailTask locks the recording before the task.
PlanFailRecordingFirst ==
  [ claim |-> <<"task", "rec">>, save |-> <<"task", "rec">>, complete |-> <<"task", "rec">>,
    fail |-> <<"rec", "task">>, retry |-> <<"task", "rec">>,
    mark |-> <<"hash", "rec", "task">>, purge |-> <<"events", "task", "rec">>,
    upload |-> <<"hash">>, insert |-> <<"hash">>,
    reuse |-> <<"hash", "rec", "task">>, none |-> <<>> ]

\* The rows each transaction locks, in its order.  An upload goes on as a
\* "reuse" of the live recording of its content, or as an "insert" if there is none.
\* task_events has no index on recording_id, so the purge's DELETE scans the table and
\* may wait for another recording's new event as well; here it waits for its own only.
\* An event is inserted under the last lock of its transaction, which then waits for
\* nothing more, and scans go in one order: no circle is left out.
Plan ==
  [ claim |-> <<"task", "rec">>, save |-> <<"task", "rec">>, complete |-> <<"task", "rec">>,
    fail |-> <<"task", "rec">>, retry |-> <<"task", "rec">>,
    mark |-> <<"hash", "rec", "task">>, purge |-> <<"events", "task", "rec">>,
    upload |-> <<"hash">>, insert |-> <<"hash">>,
    reuse |-> <<"hash", "rec", "task">>, none |-> <<>> ]

LockOf(name, i) == IF name = "hash" THEN <<"hash", content[i]>> ELSE <<name, i>>

Holds(s, l) == \E n \in 1..tx[s].got : LockOf(Plan[tx[s].kind][n], tx[s].id) = l

Free(s, l) == \A o \in Sessions \ {s} : ~Holds(o, l)

Ready(s)   == tx[s].kind # "none" /\ tx[s].got = Len(Plan[tx[s].kind])
Locking(s) == tx[s].got < Len(Plan[tx[s].kind])
Name(s)    == Plan[tx[s].kind][tx[s].got + 1]
Wanted(s)  == LockOf(Name(s), tx[s].id)

\* s waits for o.  Who holds anything while it waits has its hash already, and waits
\* for the task or the recording of its own: a circle of waits is one of two.
WaitsFor(s, o) == Locking(s) /\ Holds(o, Wanted(s))
Deadlocked(s)  == \E o \in Sessions \ {s} : WaitsFor(s, o) /\ WaitsFor(o, s)

Open(s, k, i) == tx' = [tx EXCEPT ![s] = [NoTx EXCEPT !.kind = k, !.id = i]]
Close(s)      == tx' = [tx EXCEPT ![s] = NoTx]

\* What the statement that locks a row lets the transaction know of it.
Read(saw, name, r) ==
  CASE name = "task"   -> [saw EXCEPT !.status = r.status, !.attempt = r.attempt, !.seq = r.seq]
    [] name = "rec"    -> [saw EXCEPT !.rec = r.rec]
    [] name = "events" -> [saw EXCEPT !.events = r.events]
    [] OTHER           -> saw

Missing(name, r) ==
  \/ name = "task" /\ r.status = "absent"
  \/ name = "rec" /\ r.rec \in {"none", "gone"}
  \/ name = "events" /\ r.events = 0

\* The transaction ends here, having written nothing: the row is not there, the
\* round is over, the recording is being deleted, or it is marked already.
Refuses(s, name, saw) ==
  LET k == tx[s].kind IN
  \/ Missing(name, saw)
  \/ name = "rec" /\ k \in TaskWrites /\ saw.rec = "deleting"
  \/ name = "rec" /\ k = "retry" /\ saw.status \notin From[k]
  \/ name = "task" /\ k = "mark" /\ saw.rec = "deleting"
  \/ /\ name = "task" /\ k \in StageWrites
     /\ saw.status \notin From[k] \/ saw.attempt # key[s].attempt

-----------------------------------------------------------------------------
Init ==
  /\ row = [i \in Ids |-> NoRow]
  /\ content \in [Ids -> Contents]
  /\ tx = [s \in Sessions |-> NoTx]
  /\ key = [w \in Workers |-> NoKey]
  /\ named = {}

\* The next row is free: it is locked and read, ...
Lock(s) ==
  LET saw == Read(tx[s].saw, Name(s), row[tx[s].id]) IN
  /\ Locking(s)
  /\ Free(s, Wanted(s))
  /\ ~Refuses(s, Name(s), saw)
  /\ tx' = [tx EXCEPT ![s].got = @ + 1, ![s].saw = saw]
  /\ UNCHANGED <<row, content, key, named>>

\* ... or what it says ends the transaction; a stage write was stale.
Refuse(s) ==
  LET saw == Read(tx[s].saw, Name(s), row[tx[s].id]) IN
  /\ Locking(s)
  /\ Free(s, Wanted(s))
  /\ Refuses(s, Name(s), saw)
  /\ Close(s)
  /\ key' = IF tx[s].kind \in StageWrites THEN [key EXCEPT ![s] = NoKey] ELSE key
  /\ UNCHANGED <<row, content, named>>

\* InnoDB rolls back the member of a deadlock that has written least: a purge has
\* deleted rows, the others write only when they have all their locks.
Victim(s) ==
  /\ Deadlocked(s)
  /\ tx[s].kind # "purge"
  /\ Close(s)
  /\ UNCHANGED <<row, content, key, named>>

\* The WHERE of the update, on the rows as they are.
Matches(k, cur, saw) ==
  \/ k \in TaskWrites /\ cur.attempt = saw.attempt /\ cur.status = saw.status
  \/ k = "mark" /\ cur.rec = "live"
  \/ k = "purge"

KeyAfter(k, i, saw) ==
  CASE k = "claim" -> [id |-> i, attempt |-> saw.attempt, stage |-> "transcribing"]
    [] k = "save"  -> [id |-> i, attempt |-> saw.attempt, stage |-> "summarizing"]
    [] OTHER       -> NoKey

Commit(s) ==
  LET k == tx[s].kind
      i == tx[s].id
      saw == tx[s].saw
  IN
  /\ Ready(s)
  /\ k \in TaskWrites \cup {"mark", "purge"}
  /\ row' = IF Matches(k, row[i], saw) THEN [row EXCEPT ![i] = Written(k, @, saw)] ELSE row
  /\ key' = IF s \in Workers THEN [key EXCEPT ![s] = KeyAfter(k, i, saw)] ELSE key
  /\ Close(s)
  /\ UNCHANGED <<content, named>>

-----------------------------------------------------------------------------
\* A worker: ClaimNext, then the writes of its round

\* Mutant: two workers take the same task from the queue.
CandidatesLocked(w) == {i \in Ids : row[i].status = "pending"}

\* FOR UPDATE SKIP LOCKED passes over the tasks another transaction has locked.
Candidates(w) == {i \in Ids : row[i].status = "pending" /\ Free(w, <<"task", i>>)}

Claim(w) ==
  /\ tx[w] = NoTx /\ key[w] = NoKey
  /\ \E i \in Candidates(w) :
       /\ \A j \in Candidates(w) : i <= j
       /\ tx' = [tx EXCEPT ![w] =
            [kind |-> "claim", id |-> i, got |-> 1, saw |-> Read(NoRow, "task", row[i])]]
  /\ UNCHANGED <<row, content, key, named>>

\* The call of the stage answered, or failed; the write may be a second try.
EndStage(w) ==
  /\ tx[w] = NoTx /\ key[w] # NoKey
  /\ \/ Open(w, "fail", key[w].id)
     \/ key[w].stage = "transcribing" /\ Open(w, "save", key[w].id)
     \/ key[w].stage = "summarizing" /\ Open(w, "complete", key[w].id)
  /\ UNCHANGED <<row, content, key, named>>

\* The round is given up without a write: cancelled, or written in vain too often.
Drop(w) ==
  /\ tx[w] = NoTx /\ key[w] # NoKey
  /\ key' = [key EXCEPT ![w] = NoKey]
  /\ UNCHANGED <<row, content, tx, named>>

-----------------------------------------------------------------------------
\* HTTP requests

Upload(h, i) ==
  /\ tx[h] = NoTx
  /\ i \notin named
  /\ named' = named \cup {i}
  /\ Open(h, "upload", i)
  /\ UNCHANGED <<row, content, key>>

Reusable(i) == {j \in Ids : row[j].rec = "live" /\ content[j] = content[i]}

\* The joined query locks the recording it finds, then the task.
Reuse(h) ==
  /\ Ready(h) /\ tx[h].kind = "upload"
  /\ \E j \in Reusable(tx[h].id) :
       /\ Free(h, <<"rec", j>>)
       /\ tx' = [tx EXCEPT ![h] = [ kind |-> "reuse", id |-> j, got |-> 2,
                                    saw |-> Read(NoRow, "rec", row[j]) ]]
  /\ UNCHANGED <<row, content, key, named>>

FindNone(h) ==
  /\ Ready(h) /\ tx[h].kind = "upload"
  /\ Reusable(tx[h].id) = {}
  /\ tx' = [tx EXCEPT ![h].kind = "insert"]
  /\ UNCHANGED <<row, content, key, named>>

CommitReuse(h) ==
  /\ Ready(h) /\ tx[h].kind = "reuse"
  /\ Close(h)
  /\ UNCHANGED <<row, content, key, named>>

Insert(h) ==
  /\ Ready(h) /\ tx[h].kind = "insert"
  /\ row' = [row EXCEPT ![tx[h].id] = Written("insert", @, NoRow)]
  /\ Close(h)
  /\ UNCHANGED <<content, key, named>>

RetryTask(h, i) ==
  /\ tx[h] = NoTx
  /\ i \in Retried /\ row[i].attempt <= AutoRetryLimit
  /\ Open(h, "retry", i)
  /\ UNCHANGED <<row, content, key, named>>

\* The hash to lock, and the task, are read without a lock.
MarkDeleting(h, i) ==
  /\ tx[h] = NoTx
  /\ row[i].rec \in {"live", "deleting"}
  /\ Open(h, "mark", i)
  /\ UNCHANGED <<row, content, key, named>>

\* Mutant: the clean-up passes over recordings whose task is still queued.
PurgeUnlessQueued(f, i) ==
  /\ tx[f] = NoTx
  /\ row[i].rec = "deleting" /\ row[i].status # "pending"
  /\ Open(f, "purge", i)
  /\ UNCHANGED <<row, content, key, named>>

\* A finalizer found the recording marked, and its file is removed.
PurgeRecording(f, i) ==
  /\ tx[f] = NoTx
  /\ row[i].rec = "deleting"
  /\ Open(f, "purge", i)
  /\ UNCHANGED <<row, content, key, named>>

-----------------------------------------------------------------------------
Step(s) ==
  Lock(s) \/ Refuse(s) \/ Commit(s) \/ Reuse(s) \/ FindNone(s) \/ CommitReuse(s) \/ Insert(s)

Next ==
  \/ \E s \in Sessions : Step(s) \/ Victim(s)
  \/ \E w \in Workers : Claim(w) \/ EndStage(w) \/ Drop(w)
  \/ \E h \in Handlers, i \in Ids : Upload(h, i) \/ RetryTask(h, i) \/ MarkDeleting(h, i)
  \/ \E f \in Finalizers, i \in Ids : PurgeRecording(f, i)

\* The database goes on with every transaction, serves waiting ones in turn and
\* ends deadlocks; workers come back to the queue and to their rounds; the clean-up
\* loop comes back to every recording that is marked.
Fairness ==
  /\ \A s \in Sessions : SF_vars(Step(s))
  /\ WF_vars(\E s \in Sessions : Victim(s))
  /\ \A w \in Workers : SF_vars(Claim(w)) /\ WF_vars(EndStage(w))
  /\ \A f \in Finalizers, i \in Ids : SF_vars(PurgeRecording(f, i))

Spec == Init /\ [][Next]_vars
FairSpec == Spec /\ Fairness

-----------------------------------------------------------------------------
\* Properties

Kinds == TaskWrites \cup {"none", "mark", "purge", "upload", "reuse", "insert"}

\* Types; besides, no row is locked by two sessions.
TypeOK ==
  /\ row \in [Ids -> Row]
  /\ content \in [Ids -> Contents]
  /\ tx \in [Sessions -> [kind : Kinds, id : Ids \cup {0}, got : 0..3, saw : Row]]
  /\ key \in [Workers -> [ id : Ids \cup {0}, attempt : Nat,
                           stage : {"none", "transcribing", "summarizing"} ]]
  /\ named \subseteq Ids
  /\ \A s \in Sessions : \A n \in 1..tx[s].got :
       Free(s, LockOf(Plan[tx[s].kind][n], tx[s].id))

\* Locks are taken in two orders (recording_tx.go:274 and processing_tx.go:80): two
\* transactions wait for each other only if one is a deletion request or an upload
\* that found a duplicate, and the other a write of a worker, a retry or a purge.  No
\* two of either sort ever do, as a hash or the common order keeps them apart.
RecordingFirst == {"mark", "reuse"}
DeadlocksCrossOrders ==
  \A s, o \in Sessions :
    s # o /\ WaitsFor(s, o) /\ WaitsFor(o, s) =>
      (tx[s].kind \in RecordingFirst <=> tx[o].kind \notin RecordingFirst)

\* The number a task gives its next event is one more than the events it has: no
\* two transactions took the same number, and a purge leaves no event behind.
EventsNumbered == \A i \in Ids : row[i].events = row[i].seq

\* Every transaction decides and writes as if it had the rows to itself.
Atomic == INSTANCE AtomicRows
Serial == Atomic!Spec

\* Serial takes Written as it is; what the transactions write, one upon the other and
\* each from what it read, also has to be the state machine of the domain (task.go):
\* legal edges, one event number at a time, a new attempt exactly when queued.
Lifecycle == INSTANCE TaskLifecycle WITH
  Tasks <- Ids,
  life  <- [i \in Ids |->
              [ status   |-> IF row[i].rec = "gone" THEN "purged" ELSE row[i].status,
                attempt  |-> row[i].attempt,
                eventSeq |-> row[i].seq ]]
ImplementsLifecycle == Lifecycle!Spec

\* A queued task is claimed or its recording goes away, though each claim looks only
\* at the oldest task it can lock and gives up when that one is being deleted.
QueueMovesOn == \A i \in Ids : row[i].status = "pending" ~> row[i].status # "pending"
=============================================================================
