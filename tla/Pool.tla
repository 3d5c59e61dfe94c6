-------------------------------- MODULE Pool --------------------------------
(***************************************************************************)
(* The worker pool: every worker has a channel of one wake-up and a ticker,*)
(* and comes back to the queue in the database after each.  What a round   *)
(* does in detail is Pipeline's subject; here it ends, is cut off or halts *)
(* the service.                                                            *)
(***************************************************************************)
EXTENDS Integers

CONSTANTS Tasks, Workers, None

ASSUME PoolAssumption == None \notin Tasks

VARIABLES
  task,      \* tasks row: "none", "pending", "inflight" or "settled"; outlives the process
  wake,      \* the wake channel of each worker is full
  loop,      \* where each worker is in loop, and the task of its round
  started,   \* Pool.started
  claiming,  \* claimCtx is live
  running,   \* runCtx is live
  halted     \* ProcessService.halted

contexts == <<started, claiming, running>>
poolVars == <<task, wake, loop, started, claiming, running, halted>>

At(l) == [pc |-> l, task |-> None]

PoolInit ==
  /\ task = [t \in Tasks |-> "none"]
  /\ wake = [w \in Workers |-> FALSE]
  /\ loop = [w \in Workers |-> At("none")]
  /\ started = FALSE /\ claiming = FALSE /\ running = FALSE /\ halted = FALSE

\* With the process the pool goes, and the rows stay.
PoolEnds ==
  /\ wake' = [w \in Workers |-> FALSE]
  /\ loop' = [w \in Workers |-> At("none")]
  /\ started' = FALSE /\ claiming' = FALSE /\ running' = FALSE /\ halted' = FALSE
  /\ UNCHANGED task

Goto(w, l) == loop' = [loop EXCEPT ![w] = At(l)]

AllGone == \A w \in Workers : loop[w].pc \in {"none", "gone"}

StartPool ==
  /\ loop' = [w \in Workers |-> At("top")]
  /\ started' = TRUE /\ claiming' = TRUE /\ running' = TRUE
  /\ UNCHANGED <<task, wake, halted>>

Check(w) ==
  /\ loop[w].pc = "top"
  /\ Goto(w, IF claiming /\ running THEN "claiming" ELSE "gone")
  /\ UNCHANGED <<task, wake, contexts, halted>>

Claim(w, t) ==
  /\ loop[w].pc = "claiming"
  /\ claiming /\ ~halted
  /\ task[t] = "pending"
  /\ task' = [task EXCEPT ![t] = "inflight"]
  /\ loop' = [loop EXCEPT ![w] = [pc |-> "round", task |-> t]]
  /\ UNCHANGED <<wake, contexts, halted>>

\* Nothing is due, nothing may be claimed any more, or the queue could not be read.
ClaimNothing(w) ==
  /\ loop[w].pc = "claiming"
  /\ Goto(w, "waiting")
  /\ UNCHANGED <<task, wake, contexts, halted>>

\* Mutant: the worker keeps the key of the round it has ended.
EndRoundKeyKept(w) ==
  /\ loop[w].pc = "round"
  /\ \E s \in {"settled", "pending", "inflight"} : task' = [task EXCEPT ![loop[w].task] = s]
  /\ loop' = [loop EXCEPT ![w].pc = "waiting"]
  /\ UNCHANGED <<wake, contexts, halted>>

\* The task is done or failed, or queued again for a scheduled retry, of which
\* nobody is notified; or the round is dropped because its recheck failed.  A commit
\* under way when runCtx is cancelled may still go through.
EndRound(w) ==
  /\ loop[w].pc = "round"
  /\ \E s \in {"settled", "pending", "inflight"} : task' = [task EXCEPT ![loop[w].task] = s]
  /\ Goto(w, "waiting")
  /\ UNCHANGED <<wake, contexts, halted>>

\* runCtx is cancelled: the call is interrupted and nothing is written.
InterruptRound(w) ==
  /\ loop[w].pc = "round" /\ ~running
  /\ Goto(w, "waiting")
  /\ UNCHANGED <<task, wake, contexts, halted>>

\* A result that could not be written too often: OnHalt.
Halt(w) ==
  /\ loop[w].pc = "round"
  /\ halted' = TRUE
  /\ Goto(w, "waiting")
  /\ UNCHANGED <<task, wake, contexts>>

\* Mutant: the worker waits for wake-ups only.
ResumeOnWake(w) ==
  /\ loop[w].pc = "waiting"
  /\ \/ wake[w] /\ wake' = [wake EXCEPT ![w] = FALSE] /\ Goto(w, "top")
     \/ ~(claiming /\ running) /\ UNCHANGED wake /\ Goto(w, "gone")
  /\ UNCHANGED <<task, contexts, halted>>

\* A wake-up, the ticker, or the end of a context, whichever select takes.
Resume(w) ==
  /\ loop[w].pc = "waiting"
  /\ \/ wake[w] /\ wake' = [wake EXCEPT ![w] = FALSE] /\ Goto(w, "top")
     \/ UNCHANGED wake /\ Goto(w, "top")
     \/ ~(claiming /\ running) /\ UNCHANGED wake /\ Goto(w, "gone")
  /\ UNCHANGED <<task, contexts, halted>>

\* A channel that is full keeps one wake-up for several.
Notify == wake' = [w \in Workers |-> TRUE]

LoopStep(w) ==
  Check(w) \/ (\E t \in Tasks : Claim(w, t)) \/ ClaimNothing(w) \/ Resume(w)

RoundOver(w) == EndRound(w) \/ Halt(w)

-----------------------------------------------------------------------------
PoolTyped ==
  /\ task \in [Tasks -> {"none", "pending", "inflight", "settled"}]
  /\ wake \in [Workers -> BOOLEAN]
  /\ loop \in [Workers -> [ pc : {"none", "top", "claiming", "round", "waiting", "gone"},
                            task : Tasks \cup {None} ]]
  /\ \A w \in Workers : loop[w].task # None <=> loop[w].pc = "round"
  /\ started \in BOOLEAN /\ claiming \in BOOLEAN /\ running \in BOOLEAN
  /\ halted \in BOOLEAN

\* A task a worker is at is in flight, and no other worker is at it: neither the
\* reset at start-up nor a request takes it from under the round.
RoundsOwnTheirTask ==
  \A w \in Workers : loop[w].pc = "round" =>
    /\ task[loop[w].task] = "inflight"
    /\ \A v \in Workers \ {w} : loop[v].task # loop[w].task
=============================================================================
