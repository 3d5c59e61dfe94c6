------------------------------ MODULE Queries ------------------------------
(***************************************************************************)
(* Reading while others write: the task query, the recording's detail, the *)
(* list, and the event stream that polls the detail.  Each reads two       *)
(* tables in two statements and no transaction, under READ COMMITTED.      *)
(*                                                                         *)
(* Readers write nothing and so do not meet one another: one stands for    *)
(* all.  The writers are those of Pipeline, reduced to what a reader sees. *)
(***************************************************************************)
EXTENDS Integers, FiniteSets, Sequences, TaskDomain

CONSTANTS
  Recordings,
  AutoRetryLimit, \* as in Pipeline
  MaxAttempt,     \* bound of the model: no manual retry from this attempt on
  Faults,         \* "read": a query fails
  None

ASSUME NoneAssumption    == None \notin Recordings
ASSUME BoundsAssumption  == AutoRetryLimit \in Nat \ {0} /\ MaxAttempt \in Nat
ASSUME FaultsAssumption  == Faults \subseteq {"read"}

VARIABLES
  rec,    \* recordings row: "none", "live", "deleting" or "gone"
  view,   \* TaskView of the tasks row
  reader, \* the request under way: operation, place, and what it has read
  sent,   \* what the handler of that request has written for its client, in order
  pushed, \* how many of those have left the server's buffers
  seen    \* what any reader could have seen since the reading began (history)

vars == <<rec, view, reader, sent, pushed, seen>>

-----------------------------------------------------------------------------
\* waits: next_retry_at is set.  error: error_code is set.
View == [status : Statuses, attempt : Nat \ {0}, waits : BOOLEAN, error : BOOLEAN]
NoView == [status |-> "absent", attempt |-> 0, waits |-> FALSE, error |-> FALSE]

HasTask(r) == rec[r] \in {"live", "deleting"}

CreatedView == [status |-> "pending", attempt |-> 1, waits |-> FALSE, error |-> FALSE]

\* Mutant: a claim leaves the error of the round before.
LaterKeepsError(v) ==
  CASE v.status = "pending" -> {[v EXCEPT !.status = "transcribing", !.waits = FALSE]}
    [] v.status \in InFlight ->
         { [v EXCEPT !.status = IF @ = "transcribing" THEN "summarizing" ELSE "done"],
           [v EXCEPT !.status = "pending", !.attempt = @ + 1, !.waits = TRUE, !.error = TRUE] }
    [] OTHER -> {}

\* What the next transaction of the task's round, or a manual retry, shows.
Later(v) ==
  CASE v.status = "pending" ->
         {[v EXCEPT !.status = "transcribing", !.waits = FALSE, !.error = FALSE]}
    [] v.status \in InFlight ->
         { [v EXCEPT !.status = IF @ = "transcribing" THEN "summarizing" ELSE "done"],
           IF v.attempt < AutoRetryLimit
           THEN [status |-> "pending", attempt |-> v.attempt + 1, waits |-> TRUE, error |-> TRUE]
           ELSE [v EXCEPT !.status = "failed", !.error = TRUE] }
    [] v.status = "failed" /\ v.attempt < MaxAttempt ->
         {[CreatedView EXCEPT !.attempt = v.attempt + 1]}
    [] OTHER -> {}

\* What clients may be shown of r: its view while it is live, else nothing.
Visible(r) == IF rec[r] = "live" THEN view[r] ELSE NoView

Snapshot == {<<r, Visible(r)>> : r \in Recordings}

Reading == {"first", "second"}
Watch == seen' = IF reader.pc \in Reading THEN seen \cup Snapshot' ELSE {}

NoReader == [op |-> "none", pc |-> "idle", target |-> None, task |-> NoView, page |-> {}]

Init ==
  /\ rec = [r \in Recordings |-> "none"]
  /\ view = [r \in Recordings |-> NoView]
  /\ reader = NoReader
  /\ sent = <<>>
  /\ pushed = 0
  /\ seen = {}

-----------------------------------------------------------------------------
\* The writers

Create(r) ==
  /\ rec[r] = "none"
  /\ rec' = [rec EXCEPT ![r] = "live"]
  /\ view' = [view EXCEPT ![r] = CreatedView]
  /\ Watch
  /\ UNCHANGED <<reader, sent, pushed>>

\* Transactions of workers and retries, which refuse a recording being deleted.
Advance(r) ==
  /\ rec[r] = "live"
  /\ \E v \in Later(view[r]) : view' = [view EXCEPT ![r] = v]
  /\ UNCHANGED <<rec, reader, sent, pushed>>
  /\ Watch

MarkDeleting(r) ==
  /\ rec[r] = "live"
  /\ rec' = [rec EXCEPT ![r] = "deleting"]
  /\ UNCHANGED <<view, reader, sent, pushed>>
  /\ Watch

PurgeRecording(r) ==
  /\ rec[r] = "deleting"
  /\ rec' = [rec EXCEPT ![r] = "gone"]
  /\ view' = [view EXCEPT ![r] = NoView]
  /\ Watch
  /\ UNCHANGED <<reader, sent, pushed>>

-----------------------------------------------------------------------------
\* Requests: what is read first, what second, and what the handler writes

Msg(kind, items) == [kind |-> kind, items |-> items]

Polling == reader.op = "stream"

Goto(l) == reader' = [reader EXCEPT !.pc = l]

Over ==
  /\ reader' = [reader EXCEPT !.pc = "idle", !.task = NoView, !.page = {}]
  /\ seen' = {}

\* The handler returns after msgs, and the server empties its buffers.
Finish(msgs) ==
  /\ sent' = sent \o msgs
  /\ pushed' = Len(sent')
  /\ Over

\* The stream takes whatever is wrong for a deletion.
Fail(kind) == Finish(<<Msg(IF Polling THEN "deleted" ELSE kind, {})>>)

\* GET of a task, of a recording, of the list, of a recording's stream; each may
\* be of an id that does not exist.
Ask(op, r) ==
  /\ reader.pc = "idle"
  /\ reader' = [NoReader EXCEPT !.op = op, !.pc = "first", !.target = r]
  /\ sent' = <<>>
  /\ pushed' = 0
  /\ seen' = Snapshot
  /\ UNCHANGED <<rec, view>>

\* The task first, then its recording's mark.
TaskRead ==
  /\ reader.op = "task"
  /\ reader.pc = "first"
  /\ \/ /\ HasTask(reader.target)
        /\ reader' = [reader EXCEPT !.pc = "second", !.task = view[reader.target]]
        /\ UNCHANGED <<sent, pushed, seen>>
     \/ ~HasTask(reader.target) /\ Fail("notfound")
  /\ UNCHANGED <<rec, view>>

\* Mutant: the recording is looked for, its mark is not.
StillLiveOrMarked(r) == rec[r] \in {"live", "deleting"}

StillLive(r) == rec[r] = "live"

TaskChecked ==
  /\ reader.op = "task"
  /\ reader.pc = "second"
  /\ \/ /\ StillLive(reader.target)
        /\ Finish(<<Msg("view", {<<reader.target, reader.task>>})>>)
     \/ ~StillLive(reader.target) /\ Fail("notfound")
  /\ UNCHANGED <<rec, view>>

\* Some page of the live recordings; an empty one needs no tasks.
PageRead ==
  /\ reader.op = "list"
  /\ reader.pc = "first"
  /\ \E page \in SUBSET {r \in Recordings : rec[r] = "live"} :
       \/ page = {} /\ Finish(<<Msg("view", {})>>)
       \/ /\ page # {}
          /\ reader' = [reader EXCEPT !.pc = "second", !.page = page]
          /\ UNCHANGED <<sent, pushed, seen>>
  /\ UNCHANGED <<rec, view>>

TasksRead ==
  /\ reader.op = "list"
  /\ reader.pc = "second"
  /\ \/ /\ \A r \in reader.page : HasTask(r)
        /\ Finish(<<Msg("view", {<<r, view[r]>> : r \in reader.page})>>)
     \/ (\E r \in reader.page : ~HasTask(r)) /\ Fail("inconsistent")
  /\ UNCHANGED <<rec, view>>

\* GetRecording, for a detail, for the opening of a stream and for each poll.
RecordingRead ==
  /\ reader.op \in {"detail", "open", "stream"}
  /\ reader.pc = "first"
  /\ \/ rec[reader.target] = "live" /\ Goto("second") /\ UNCHANGED <<sent, pushed, seen>>
     \/ rec[reader.target] # "live" /\ Fail("notfound")
  /\ UNCHANGED <<rec, view>>

\* Mutant: every poll sends the status.
StatusDueAlways(v) == TRUE

\* Mutant: only a change of the status counts.
StatusDueByStatus(v) ==
  sent = <<>> \/ \A item \in sent[Len(sent)].items : item[2].status # v.status

\* The view differs from the one written last.
StatusDue(v) == sent = <<>> \/ sent[Len(sent)].items # {<<reader.target, v>>}

Ending(v) ==
  CASE v.status = "done"   -> <<Msg("summary", {<<reader.target, v>>})>>
    [] v.status = "failed" -> <<Msg("failed", {<<reader.target, v>>})>>
    [] OTHER               -> <<>>

\* Mutant: the outcome is sent in place of the status.
EventsOutcomeFirst(v) ==
  IF Ending(v) # <<>> THEN Ending(v)
  ELSE IF StatusDue(v) THEN <<Msg("status", {<<reader.target, v>>})>> ELSE <<>>

\* What a poll writes that has seen v.
Events(v) ==
  (IF StatusDue(v) THEN <<Msg("status", {<<reader.target, v>>})>> ELSE <<>>) \o Ending(v)

\* A poll that goes on writes and does not flush: its events leave when the buffers
\* of net/http are full, which the pings fill too, or when the handler returns.
DetailRead ==
  LET v == view[reader.target] IN
  /\ reader.op \in {"detail", "open", "stream"}
  /\ reader.pc = "second"
  /\ \/ ~HasTask(reader.target) /\ Fail("inconsistent")
     \/ /\ HasTask(reader.target)
        /\ \/ /\ reader.op = "detail"
              /\ Finish(<<Msg("view", {<<reader.target, v>>})>>)
           \/ /\ reader.op = "open"
              /\ reader' = [reader EXCEPT !.op = "stream", !.pc = "first"]
              /\ seen' = Snapshot
              /\ UNCHANGED <<sent, pushed>>
           \/ /\ Polling /\ Ending(v) = <<>>
              /\ sent' = sent \o Events(v)
              /\ pushed' \in pushed..Len(sent')
              /\ seen' = {}
              /\ Goto("waiting")
           \/ Polling /\ Ending(v) # <<>> /\ Finish(Events(v))
  /\ UNCHANGED <<rec, view>>

\* The ticker.
Poll ==
  /\ reader.pc = "waiting"
  /\ Goto("first")
  /\ seen' = Snapshot
  /\ UNCHANGED <<rec, view, sent, pushed>>

ReadFails ==
  /\ "read" \in Faults
  /\ reader.pc \in Reading
  /\ Fail("unavailable")
  /\ UNCHANGED <<rec, view>>

\* The client of a stream goes away; what has not left by then is lost.
Disconnect ==
  /\ reader.pc = "waiting"
  /\ Over
  /\ UNCHANGED <<rec, view, sent, pushed>>

-----------------------------------------------------------------------------
WriterStep ==
  \E r \in Recordings : Create(r) \/ Advance(r) \/ MarkDeleting(r) \/ PurgeRecording(r)

ReaderStep ==
  \/ TaskRead \/ TaskChecked \/ PageRead \/ TasksRead
  \/ RecordingRead \/ DetailRead \/ ReadFails

Next ==
  \/ WriterStep \/ ReaderStep \/ Poll \/ Disconnect
  \/ Ask("list", None)
  \/ \E r \in Recordings, op \in {"task", "detail", "open"} : Ask(op, r)

Spec == Init /\ [][Next]_vars

\* The ticker ticks, and statements end: the handlers set them no deadline, the
\* database and the connection do.  Nothing is assumed of the buffers.
FairSpec == Spec /\ WF_vars(ReaderStep \/ Poll)

-----------------------------------------------------------------------------
\* Properties

Kinds == {"view", "status", "summary", "failed", "deleted", "notfound", "inconsistent",
          "unavailable"}

\* Types; besides, a view shows an error only when its task failed or waits for the
\* next round, and only a queued task waits.
TypeOK ==
  /\ rec \in [Recordings -> {"none", "live", "deleting", "gone"}]
  /\ view \in [Recordings -> View \cup {NoView}]
  /\ \A r \in Recordings :
       /\ view[r] = NoView <=> ~HasTask(r)
       /\ view[r].error <=> view[r].status = "failed" \/ view[r].waits
       /\ view[r].waits => view[r].status = "pending"
  /\ reader \in [ op : {"none", "task", "detail", "list", "open", "stream"},
                  pc : {"idle", "waiting"} \cup Reading,
                  target : Recordings \cup {None},
                  task : View \cup {NoView}, page : SUBSET Recordings ]
  /\ \A i \in DOMAIN sent : sent[i].kind \in Kinds /\ sent[i].items \subseteq Recordings \X View
  /\ pushed \in 0..Len(sent)
  /\ seen \subseteq Recordings \X (View \cup {NoView})

Asked == IF reader.op = "list" THEN reader.page ELSE {reader.target}

\* No request tells what was never so: each view in an answer or an event was the
\* recording's visible state at some moment of the reading, what is not found was at
\* some moment absent or hidden, and what is called inconsistent was purged meanwhile
\* (query.go:63, :136), although two tables are read one after the other while rounds,
\* marks and purges go on.
AnswersWereTrue ==
  [][\A i \in (Len(sent) + 1)..Len(sent') :
       /\ sent'[i].items \subseteq seen
       /\ sent'[i].kind = "notfound" => <<reader.target, NoView>> \in seen
       /\ sent'[i].kind = "inconsistent" => \E r \in Asked : rec[r] = "gone"]_<<sent, seen>>

Rank == [pending |-> 0, transcribing |-> 1, summarizing |-> 2, done |-> 3, failed |-> 3]
Before(v, w) ==
  v.attempt < w.attempt \/ (v.attempt = w.attempt /\ Rank[v.status] < Rank[w.status])

\* The statuses of a stream move forward through the rounds: none is repeated, and
\* none is older than one sent before.
StreamInOrder ==
  \A i, j \in DOMAIN sent :
    i < j /\ sent[i].kind = "status" /\ sent[j].kind = "status" =>
      \A p \in sent[i].items, q \in sent[j].items : Before(p[2], q[2])

\* A stream sends statuses and at most one outcome, last, and has sent the status
\* of the outcome just before it; while it is open it has told no outcome.
StreamEndsAsSaid ==
  Polling =>
    /\ \A i \in DOMAIN sent : i < Len(sent) => sent[i].kind = "status"
    /\ \A i \in DOMAIN sent : sent[i].kind \in {"summary", "failed"} =>
         i > 1 /\ sent[i - 1].items = sent[i].items
    /\ reader.pc # "idle" => \A i \in DOMAIN sent :
         \A item \in sent[i].items : item[2].status \notin {"done", "failed"}

\* The handler of an open stream catches up with its task, or ends: there is no change
\* of the task its comparison with the status written last would miss.  When that
\* reaches the client is StreamPushes' question.
StreamFollows ==
  \A r \in Recordings :
    Polling /\ reader.target = r /\ reader.pc = "waiting" ~>
      \/ reader.pc = "idle"
      \/ /\ rec[r] = "live"
         /\ sent # <<>> /\ sent[Len(sent)].items = {<<r, view[r]>>}

\* Stages are pushed in real time (README.md:16): when a stream writes the next one,
\* the one before has left for the client.
StreamPushes ==
  [][ Len(sent') > Len(sent) /\ sent'[Len(sent) + 1].kind = "status"
        => pushed = Len(sent) ]_<<sent, pushed>>

\* The stream says "deleted" only of a recording that is deleted or being deleted
\* (retry-and-summary-stream.md section 1: the resource is deleted or invisible).
DeletedMeansGone ==
  Len(sent) > 0 /\ sent[Len(sent)].kind = "deleted" => rec[reader.target] # "live"
=============================================================================
