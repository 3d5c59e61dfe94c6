---------------------------- MODULE TaskLifecycle ----------------------------
(***************************************************************************)
(* What the processing task promises to whoever reads its row: the state   *)
(* machine of internal/domain/recording/task.go, with the numbering of     *)
(* attempts and events, and nothing of workers, transactions or crashes.   *)
(* Pipeline and RowLocks are shown to implement it.                        *)
(***************************************************************************)
EXTENDS Integers, TaskDomain

CONSTANT Tasks

VARIABLE life   \* what is known of each task: its status, attempt, event number

Absent == [status |-> "absent", attempt |-> 0, eventSeq |-> 0]
Purged == [status |-> "purged", attempt |-> 0, eventSeq |-> 0]
Life == {Absent, Purged}
          \cup [status : Statuses, attempt : Nat \ {0}, eventSeq : Nat \ {0}]

-----------------------------------------------------------------------------
\* How one task may change; every change that keeps the row takes the next
\* event number, and a new attempt begins exactly when the task is queued anew.

Create(old, new) ==
  /\ old = Absent
  /\ new = [status |-> "pending", attempt |-> 1, eventSeq |-> 1]

Advance(old, new) ==
  /\ old.status \in Statuses
  /\ CanTransition(old.status, new.status)
  /\ new = [ status   |-> new.status,
             attempt  |-> IF new.status = "pending"
                          THEN old.attempt + 1 ELSE old.attempt,
             eventSeq |-> old.eventSeq + 1 ]

\* A deletion request is recorded as an event and leaves the status alone.
Note(old, new) ==
  /\ old.status \in Statuses
  /\ new = [old EXCEPT !.eventSeq = @ + 1]

Purge(old, new) ==
  /\ old.status \in Statuses
  /\ new = Purged

Step(old, new) ==
  Create(old, new) \/ Advance(old, new) \/ Note(old, new) \/ Purge(old, new)

-----------------------------------------------------------------------------
Init == life = [t \in Tasks |-> Absent]

\* Recovery resets every in-flight task in one transaction, so a step may move
\* several tasks; each of them moves by a legal edge.
Next ==
  /\ life' \in [Tasks -> Life]
  /\ \A t \in Tasks : life'[t] = life[t] \/ Step(life[t], life'[t])

Spec == Init /\ [][Next]_life
=============================================================================
