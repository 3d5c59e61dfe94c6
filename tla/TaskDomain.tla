----------------------------- MODULE TaskDomain -----------------------------
(***************************************************************************)
(* The vocabulary of a processing task (internal/domain/recording/task.go): *)
(* its statuses and the edges between them.                                *)
(***************************************************************************)

InFlight == {"transcribing", "summarizing"}
Statuses == {"pending", "done", "failed"} \cup InFlight

\* The edges of CanTransition.  "done" has none.
Transitions ==
  [ pending      |-> {"transcribing", "failed"},
    transcribing |-> {"summarizing", "failed", "pending"},
    summarizing  |-> {"done", "failed", "pending"},
    failed       |-> {"pending"},
    done         |-> {} ]

CanTransition(from, to) == to \in Transitions[from]

\* The edges start-up recovery may take (TransitionForRecovery).
TransitionForRecovery(from, to) ==
  from \in InFlight /\ to \in {"pending", "failed"}
=============================================================================
