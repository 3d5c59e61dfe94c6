------------------------------ MODULE RowWrites ------------------------------
(***************************************************************************)
(* The rows of one recording and what each transaction of recording_tx.go  *)
(* and processing_tx.go writes to them, as columns set from the values the *)
(* transaction read.  next_retry_at, products and times are left to        *)
(* Pipeline; every queued task counts as due.                              *)
(***************************************************************************)
EXTENDS Integers, TaskDomain

CONSTANTS
  Ids,             \* recordings with their task, numbered by (created_at, id)
  Contents,        \* content hashes
  AutoRetryLimit   \* attempts FailTask may reach by itself (3 in the code)

ASSUME IdsAssumption       == Ids \subseteq Nat
ASSUME AutoRetryAssumption == AutoRetryLimit \in Nat \ {0}

\* rec: the recordings row, "deleting" once deleting_at is set; status, attempt and
\* seq: the tasks row; events: how many task_events rows there are.
Row == [ rec : {"none", "live", "deleting", "gone"},
         status : Statuses \cup {"absent"}, attempt : Nat, seq : Nat, events : Nat ]

NoRow == [rec |-> "none", status |-> "absent", attempt |-> 0, seq |-> 0, events |-> 0]

\* The statuses each write to a task asks for, in its check and its WHERE.
From == [ claim    |-> {"pending"},
          save     |-> {"transcribing"},
          complete |-> {"summarizing"},
          fail     |-> {"transcribing", "summarizing"},
          retry    |-> {"failed"} ]
TaskWrites == DOMAIN From

\* Where the write leaves a task that was in round n.
StatusAfter(k, n) ==
  CASE k = "claim"    -> "transcribing"
    [] k = "save"     -> "summarizing"
    [] k = "complete" -> "done"
    [] k = "fail"     -> IF n < AutoRetryLimit THEN "pending" ELSE "failed"
    [] k = "retry"    -> "pending"

\* Mutant: a manual retry runs in the attempt that failed.
AttemptAfterRound(k, n) == IF k = "fail" /\ StatusAfter(k, n) = "pending" THEN n + 1 ELSE n

AttemptAfter(k, n) == IF k # "claim" /\ StatusAfter(k, n) = "pending" THEN n + 1 ELSE n

Inserted == [rec |-> "live", status |-> "pending", attempt |-> 1, seq |-> 1, events |-> 1]

\* Mutant: the event of a deletion request takes no number of its own.
WrittenMarkUnnumbered(k, cur, saw) ==
  CASE k \in TaskWrites ->
         [cur EXCEPT !.status = StatusAfter(k, saw.attempt),
                     !.attempt = AttemptAfter(k, saw.attempt),
                     !.seq = saw.seq + 1, !.events = @ + 1]
    [] k = "mark"   -> [cur EXCEPT !.rec = "deleting", !.events = @ + 1]
    [] k = "purge"  -> [NoRow EXCEPT !.rec = "gone", !.events = cur.events - saw.events]
    [] k = "insert" -> Inserted

\* The rows after transaction k found them at cur when it wrote, and had read saw:
\* event_seq and attempt are computed by the program, the events are inserted or
\* deleted by the statement.
Written(k, cur, saw) ==
  CASE k \in TaskWrites ->
         [cur EXCEPT !.status = StatusAfter(k, saw.attempt),
                     !.attempt = AttemptAfter(k, saw.attempt),
                     !.seq = saw.seq + 1, !.events = @ + 1]
    [] k = "mark"   -> [cur EXCEPT !.rec = "deleting", !.seq = saw.seq + 1, !.events = @ + 1]
    [] k = "purge"  -> [NoRow EXCEPT !.rec = "gone", !.events = cur.events - saw.events]
    [] k = "insert" -> Inserted
=============================================================================
