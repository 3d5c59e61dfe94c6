---------------------------- MODULE QueriesProofs ----------------------------
(***************************************************************************)
(* Answers that were true and streams that run forward: theorems about     *)
(* Queries for any recordings, attempts and failures of reads.             *)
(*                                                                         *)
(* The argument: recordings are deleted one way and rows advance one way   *)
(* (WriterMoves).  So what a request has read first is still to be seen,   *)
(* or is hidden for good, when it reads second (HasSeen); and each status  *)
(* a stream has sent is the view of its recording or behind it, while the  *)
(* stream is open (HasTold).                                               *)
(***************************************************************************)
EXTENDS Queries, SequenceTheorems, TLAPS

-----------------------------------------------------------------------------
\* The inductive invariant

Message == [kind : Kinds, items : SUBSET (Recordings \X View)]

Typed == TypeOK /\ sent \in Seq(Message)

\* Which requests are where, and what they may have been sent by then.
ReaderPlaces ==
  /\ reader.op = "none" => reader.pc = "idle"
  /\ reader.pc = "waiting" => Polling
  /\ reader.op \in {"task", "detail", "open", "stream"} => reader.target \in Recordings
  /\ reader.op = "task" /\ reader.pc = "second" => reader.task \in View
  /\ reader.pc # "idle" /\ ~Polling => sent = <<>>
  /\ ~Polling => \A i \in 1..Len(sent) : sent[i].kind \notin {"status", "summary", "failed"}

\* What is to be read second of r was visible, if it is there at all.
StillSeen(r) ==
  rec[r] # "none" /\ (HasTask(r) => <<r, view[r]>> \in seen)

HasSeen ==
  /\ reader.pc \in Reading => Snapshot \subseteq seen
  /\ reader.pc = "second" =>
       /\ reader.op = "task" =>
            /\ rec[reader.target] # "none"
            /\ StillLive(reader.target) => <<reader.target, reader.task>> \in seen
       /\ reader.op = "list" => \A r \in reader.page : StillSeen(r)
       /\ reader.op \in {"detail", "open", "stream"} => StillSeen(reader.target)

\* m is a status of r, of a round that goes on, and r has not fallen behind it.
StatusOf(m, r) ==
  /\ m.kind = "status"
  /\ \E v \in View :
       /\ m.items = {<<r, v>>}
       /\ v.status \notin {"done", "failed"}
       /\ HasTask(r) => v = view[r] \/ Before(v, view[r])

HasTold ==
  Polling =>
    /\ rec[reader.target] # "none"
    /\ reader.pc # "idle" => \A i \in 1..Len(sent) : StatusOf(sent[i], reader.target)

QueriesInv ==
  Typed /\ ReaderPlaces /\ HasSeen /\ HasTold /\ StreamInOrder /\ StreamEndsAsSaid

-----------------------------------------------------------------------------
\* Views

LEMMA NoViewIsNoView == NoView \notin View
BY DEF NoView, View, Statuses, InFlight

\* An error is shown exactly of a task that failed or waits, and only a queued task waits.
ViewFits(v) ==
  /\ v.error <=> v.status = "failed" \/ v.waits
  /\ v.waits => v.status = "pending"

\* A round, and every retry, takes the view forward.
LEMMA LaterIsAfter ==
  ASSUME NEW v \in View, ViewFits(v), NEW w \in Later(v)
  PROVE  w \in View /\ ViewFits(w) /\ Before(v, w)
<1>1. /\ v.status \in Statuses /\ v.attempt \in Nat \ {0} /\ v.attempt + 1 \in Nat \ {0}
      /\ v.waits \in BOOLEAN /\ v.error \in BOOLEAN
  BY DEF View
<1>2. CASE v.status = "pending"
  <2>1. w = [v EXCEPT !.status = "transcribing", !.waits = FALSE, !.error = FALSE]
    BY <1>2 DEF Later, InFlight
  <2>2. w = [status |-> "transcribing", attempt |-> v.attempt, waits |-> FALSE, error |-> FALSE]
    BY <2>1 DEF View
  <2>3. w \in View
    BY <1>1, <2>2 DEF View, Statuses, InFlight
  <2>4. Before(v, w)
    BY <1>1, <1>2, <2>2 DEF Before, Rank
  <2> QED BY <2>2, <2>3, <2>4 DEF ViewFits
<1>3. CASE v.status \in InFlight
  <2>1. v.waits = FALSE /\ v.error = FALSE /\ v.status \in {"transcribing", "summarizing"}
    BY <1>1, <1>3 DEF ViewFits, InFlight
  <2>2. CASE w = [v EXCEPT !.status = IF @ = "transcribing" THEN "summarizing" ELSE "done"]
    <3>1. w = [ status |-> IF v.status = "transcribing" THEN "summarizing" ELSE "done",
                attempt |-> v.attempt, waits |-> FALSE, error |-> FALSE ]
      BY <2>1, <2>2 DEF View
    <3>2. w \in View
      BY <1>1, <3>1 DEF View, Statuses, InFlight
    <3>3. Before(v, w)
      BY <1>1, <2>1, <3>1 DEF Before, Rank
    <3> QED BY <3>1, <3>2, <3>3 DEF ViewFits
  <2>3. CASE w = [ status |-> "pending", attempt |-> v.attempt + 1, waits |-> TRUE,
                   error |-> TRUE ]
    <3>1. w \in View
      BY <1>1, <2>3 DEF View, Statuses, InFlight
    <3>2. Before(v, w)
      BY <1>1, <2>3 DEF Before
    <3> QED BY <2>3, <3>1, <3>2 DEF ViewFits
  <2>4. CASE w = [v EXCEPT !.status = "failed", !.error = TRUE]
    <3>1. w = [status |-> "failed", attempt |-> v.attempt, waits |-> FALSE, error |-> TRUE]
      BY <2>1, <2>4 DEF View
    <3>2. w \in View
      BY <1>1, <3>1 DEF View, Statuses, InFlight
    <3>3. Before(v, w)
      BY <1>1, <2>1, <3>1 DEF Before, Rank
    <3> QED BY <3>1, <3>2, <3>3 DEF ViewFits
  <2> QED BY <1>3, <2>2, <2>3, <2>4 DEF Later, InFlight
<1>4. CASE v.status = "failed"
  <2>1. w = [CreatedView EXCEPT !.attempt = v.attempt + 1]
    BY <1>4 DEF Later, InFlight
  <2>2. w = [status |-> "pending", attempt |-> v.attempt + 1, waits |-> FALSE, error |-> FALSE]
    BY <2>1 DEF CreatedView
  <2>3. w \in View
    BY <1>1, <2>2 DEF View, Statuses, InFlight
  <2>4. Before(v, w)
    BY <1>1, <2>2 DEF Before
  <2> QED BY <2>2, <2>3, <2>4 DEF ViewFits
<1>5. v.status # "done"
  BY DEF Later, InFlight
<1> QED BY <1>1, <1>2, <1>3, <1>4, <1>5 DEF Statuses

LEMMA BeforeTransitive ==
  ASSUME NEW u \in View, NEW v \in View, NEW w \in View, Before(u, v), Before(v, w)
  PROVE  Before(u, w)
<1>1. \A x \in View : Rank[x.status] \in Nat /\ x.attempt \in Nat
  BY DEF View, Statuses, InFlight, Rank
<1> QED BY <1>1 DEF Before

-----------------------------------------------------------------------------
\* Writers

\* How the writers' steps move a recording.
WriterMove(r) ==
  \/ rec'[r] = rec[r] /\ view'[r] = view[r]
  \/ rec[r] = "none" /\ rec'[r] = "live" /\ view'[r] = CreatedView
  \/ rec[r] = "live" /\ rec'[r] = "live" /\ view'[r] \in Later(view[r])
  \/ rec[r] = "live" /\ rec'[r] = "deleting" /\ view'[r] = view[r]
  \/ rec[r] = "deleting" /\ rec'[r] = "gone" /\ view'[r] = NoView

LEMMA WriterMoves ==
  ASSUME TypeOK, WriterStep
  PROVE  /\ \A r \in Recordings : WriterMove(r)
         /\ UNCHANGED <<reader, sent, pushed>> /\ Watch
         /\ rec' = [r \in Recordings |-> rec'[r]] /\ view' = [r \in Recordings |-> view'[r]]
<1> USE DEF TypeOK, WriterMove
<1> PICK u \in Recordings : Create(u) \/ Advance(u) \/ MarkDeleting(u) \/ PurgeRecording(u)
  BY DEF WriterStep
<1>1. CASE Create(u)
  BY <1>1 DEF Create
<1>2. CASE Advance(u)
  BY <1>2 DEF Advance
<1>3. CASE MarkDeleting(u)
  BY <1>3 DEF MarkDeleting
<1>4. CASE PurgeRecording(u)
  BY <1>4 DEF PurgeRecording
<1> QED BY <1>1, <1>2, <1>3, <1>4

LEMMA RecordingsTyped ==
  ASSUME TypeOK, WriterStep
  PROVE  /\ rec' \in [Recordings -> {"none", "live", "deleting", "gone"}]
         /\ view' \in [Recordings -> View \cup {NoView}]
         /\ \A r \in Recordings : (view'[r] = NoView <=> ~HasTask(r)') /\ ViewFits(view'[r])
<1>1. ASSUME NEW r \in Recordings
      PROVE  /\ rec'[r] \in {"none", "live", "deleting", "gone"}
             /\ view'[r] \in View \cup {NoView}
             /\ (view'[r] = NoView <=> ~HasTask(r)') /\ ViewFits(view'[r])
  <2>1. WriterMove(r)
    BY WriterMoves
  <2>2. /\ rec[r] \in {"none", "live", "deleting", "gone"}
        /\ view[r] \in View \cup {NoView}
        /\ (view[r] = NoView <=> ~HasTask(r)) /\ ViewFits(view[r])
    BY DEF TypeOK, ViewFits
  <2>3. CreatedView \in View /\ ViewFits(CreatedView) /\ ViewFits(NoView)
    BY DEF CreatedView, NoView, View, ViewFits, Statuses
  <2>4. rec[r] = "live" => \A w \in Later(view[r]) : w \in View /\ ViewFits(w)
    BY <2>2, LaterIsAfter DEF HasTask
  <2> QED BY <2>1, <2>2, <2>3, <2>4, NoViewIsNoView DEF WriterMove, HasTask
<1> QED BY <1>1, WriterMoves

LEMMA WriterTyped ==
  ASSUME Typed, WriterStep
  PROVE  Typed'
<1>1. /\ reader' = reader /\ sent' = sent /\ pushed' = pushed
      /\ seen' = IF reader.pc \in Reading THEN seen \cup Snapshot' ELSE {}
  BY WriterMoves DEF Typed, Watch
<1>2. Snapshot' \subseteq Recordings \X (View \cup {NoView})
  BY RecordingsTyped DEF Typed, Snapshot, Visible
<1>3. seen' \subseteq Recordings \X (View \cup {NoView})
  BY <1>1, <1>2 DEF Typed, TypeOK
<1> QED BY <1>1, <1>3, RecordingsTyped DEF Typed, TypeOK, ViewFits

\* What a writer does to a recording that exists: its view is kept, taken forward while
\* it is live, or removed with it.
LEMMA RecordingsOnward ==
  ASSUME Typed, WriterStep, NEW r \in Recordings, rec[r] # "none"
  PROVE  /\ rec'[r] # "none"
         /\ rec'[r] = "live" => rec[r] = "live"
         /\ HasTask(r)' => /\ HasTask(r)
                           /\ \/ view'[r] = view[r]
                              \/ /\ rec'[r] = "live" /\ view'[r] \in View
                                 /\ Before(view[r], view'[r])
<1>1. WriterMove(r)
  BY WriterMoves DEF Typed
<1>2. HasTask(r) => view[r] \in View /\ ViewFits(view[r])
  BY DEF Typed, TypeOK, ViewFits
<1>3. rec[r] = "live" => \A w \in Later(view[r]) : w \in View /\ Before(view[r], w)
  BY <1>2, LaterIsAfter DEF HasTask
<1> QED BY <1>1, <1>3 DEF WriterMove, HasTask

LEMMA WriterHasSeen ==
  ASSUME Typed, ReaderPlaces, HasSeen, WriterStep
  PROVE  HasSeen'
<1>1. reader' = reader /\ sent' = sent
  BY WriterMoves DEF Typed
<1>2. reader.pc \in Reading => seen' = seen \cup Snapshot'
  BY WriterMoves DEF Typed, Watch
<1>3. reader.pc = "second" => reader.pc \in Reading
  BY DEF Reading
<1>4. ASSUME reader.pc = "second", NEW r \in Recordings, StillSeen(r)
      PROVE  StillSeen(r)'
  <2>1. rec'[r] = "live" => <<r, view'[r]>> \in Snapshot'
    BY DEF Snapshot, Visible
  <2> QED BY <1>2, <1>3, <1>4, <2>1, RecordingsOnward DEF StillSeen
<1>5. ASSUME reader.pc = "second", reader.op = "task"
      PROVE  /\ rec'[reader.target] # "none"
             /\ StillLive(reader.target)' => <<reader.target, reader.task>> \in seen'
  BY <1>1, <1>2, <1>3, <1>5, RecordingsOnward DEF ReaderPlaces, HasSeen, StillLive
<1>6. reader.page \subseteq Recordings
  BY DEF Typed, TypeOK
<1> QED BY <1>1, <1>2, <1>3, <1>4, <1>5, <1>6 DEF HasSeen, ReaderPlaces

LEMMA WriterHasTold ==
  ASSUME Typed, ReaderPlaces, HasTold, WriterStep
  PROVE  HasTold'
<1>1. reader' = reader /\ sent' = sent
  BY WriterMoves DEF Typed
<1> SUFFICES ASSUME NEW r \in Recordings, Polling, r = reader.target, rec[r] # "none"
             PROVE  /\ rec'[r] # "none"
                    /\ reader.pc # "idle" => \A i \in 1..Len(sent) : StatusOf(sent[i], r)'
  BY <1>1 DEF HasTold, ReaderPlaces, Polling, StatusOf, HasTask
<1>2. HasTask(r) => view[r] \in View
  BY DEF Typed, TypeOK
<1>3. ASSUME NEW i \in 1..Len(sent), StatusOf(sent[i], r)
      PROVE  StatusOf(sent[i], r)'
  <2>1. PICK v \in View :
          /\ sent[i].items = {<<r, v>>}
          /\ v.status \notin {"done", "failed"}
          /\ HasTask(r) => v = view[r] \/ Before(v, view[r])
    BY <1>3 DEF StatusOf
  <2>2. ASSUME HasTask(r)' PROVE v = view'[r] \/ Before(v, view'[r])
    <3>1. /\ HasTask(r)
          /\ \/ view'[r] = view[r]
             \/ view'[r] \in View /\ Before(view[r], view'[r])
      BY <2>2, RecordingsOnward
    <3> QED BY <1>2, <2>1, <3>1, BeforeTransitive
  <2> QED BY <1>1, <1>3, <2>1, <2>2 DEF StatusOf
<1> QED BY <1>3, RecordingsOnward DEF HasTold

LEMMA WriterKeeps == ASSUME QueriesInv, WriterStep PROVE QueriesInv'
<1>1. reader' = reader /\ sent' = sent
  BY WriterMoves DEF QueriesInv, Typed
<1>2. ReaderPlaces' /\ StreamInOrder' /\ StreamEndsAsSaid'
  BY <1>1 DEF QueriesInv, ReaderPlaces, StreamInOrder, StreamEndsAsSaid, Polling
<1> QED
  BY <1>2, WriterTyped, WriterHasSeen, WriterHasTold DEF QueriesInv

-----------------------------------------------------------------------------
\* Messages

PurgedMeanwhile == \E r \in Asked : rec[r] = "gone"

\* The messages a step adds tell nothing that was not to be seen, and of nothing
\* inconsistent but what was purged.
TrueAnswers ==
  \A i \in (Len(sent) + 1)..Len(sent') :
    /\ sent'[i].items \subseteq seen
    /\ sent'[i].kind = "notfound" => <<reader.target, NoView>> \in seen
    /\ sent'[i].kind = "inconsistent" => PurgedMeanwhile

InOrder(s) ==
  \A i, j \in 1..Len(s) :
    i < j /\ s[i].kind = "status" /\ s[j].kind = "status" =>
      \A p \in s[i].items, q \in s[j].items : Before(p[2], q[2])

LEMMA MessagesTyped ==
  ASSUME NEW s \in Seq(Message)
  PROVE  /\ Len(s) \in Nat /\ DOMAIN s = 1..Len(s)
         /\ \A i \in 1..Len(s) :
              s[i].kind \in Kinds /\ s[i].items \subseteq Recordings \X View
<1>1. Len(s) \in Nat /\ DOMAIN s = 1..Len(s)
  BY LenProperties
<1>2. \A i \in 1..Len(s) : s[i] \in Message
  BY ElementOfSeq
<1> QED BY <1>1, <1>2 DEF Message

LEMMA SentInOrder == ASSUME sent' \in Seq(Message), InOrder(sent') PROVE StreamInOrder'
<1>1. DOMAIN sent' = 1..Len(sent')
  BY MessagesTyped
<1> QED BY <1>1 DEF StreamInOrder, InOrder

LEMMA Appended ==
  ASSUME NEW s \in Seq(Message), NEW m \in Message
  PROVE  /\ <<m>> \in Seq(Message)
         /\ s \o <<m>> \in Seq(Message)
         /\ Len(s) \in Nat /\ Len(s \o <<m>>) = Len(s) + 1
         /\ \A i \in 1..Len(s) : (s \o <<m>>)[i] = s[i]
         /\ (s \o <<m>>)[Len(s) + 1] = m
<1>1. <<m>> \in Seq(Message) /\ Len(<<m>>) = 1 /\ <<m>>[1] = m
  OBVIOUS
<1>2. Len(s) \in Nat
  BY LenProperties
<1>3. /\ s \o <<m>> \in Seq(Message) /\ Len(s \o <<m>>) = Len(s) + 1
      /\ \A i \in 1..(Len(s) + 1) :
           (s \o <<m>>)[i] = IF i <= Len(s) THEN s[i] ELSE <<m>>[i - Len(s)]
  BY <1>1, ConcatProperties
<1>4. (s \o <<m>>)[Len(s) + 1] = <<m>>[1]
  BY <1>2, <1>3
<1>5. \A i \in 1..Len(s) : (s \o <<m>>)[i] = s[i]
  BY <1>2, <1>3
<1> QED BY <1>1, <1>2, <1>3, <1>4, <1>5

\* Anything but a status may follow.
LEMMA OutcomeInOrder ==
  ASSUME NEW s \in Seq(Message), NEW m \in Message, InOrder(s), m.kind # "status"
  PROVE  InOrder(s \o <<m>>)
<1>1. \A i \in 1..Len(s \o <<m>>) : i \in 1..Len(s) \/ i = Len(s) + 1
  BY Appended
<1> QED BY <1>1, Appended DEF InOrder

\* A view that differs from the status sent last may follow it.
LEMMA StatusInOrder ==
  ASSUME NEW s \in Seq(Message), InOrder(s), NEW r \in Recordings, NEW v \in View,
         HasTask(r), v = view[r], \A i \in 1..Len(s) : StatusOf(s[i], r),
         s = <<>> \/ s[Len(s)].items # {<<r, v>>},
         NEW m \in Message, m.items = {<<r, v>>}
  PROVE  InOrder(s \o <<m>>)
<1>1. ASSUME NEW i \in 1..Len(s)
      PROVE  \E u \in View : s[i].items = {<<r, u>>} /\ Before(u, v)
  <2>1. PICK u \in View : s[i].items = {<<r, u>>} /\ (u = v \/ Before(u, v))
    BY DEF StatusOf
  <2>2. Len(s) \in 1..Len(s) /\ s[Len(s)].items # {<<r, v>>}
    BY EmptySeq, LenProperties
  <2>3. PICK l \in View : s[Len(s)].items = {<<r, l>>} /\ (l = v \/ Before(l, v))
    BY <2>2 DEF StatusOf
  <2>4. Before(l, v)
    BY <2>2, <2>3
  <2>5. CASE i = Len(s)
    BY <2>1, <2>3, <2>4, <2>5
  <2>6. CASE i # Len(s)
    <3>1. i < Len(s) /\ s[i].kind = "status" /\ s[Len(s)].kind = "status"
      BY <2>2, <2>6, LenProperties DEF StatusOf
    <3>2. \A p \in s[i].items, q \in s[Len(s)].items : Before(p[2], q[2])
      BY <2>2, <3>1 DEF InOrder
    <3>3. Before(u, l)
      BY <2>1, <2>3, <3>2
    <3> QED BY <2>1, <2>4, <3>3, BeforeTransitive
  <2> QED BY <2>5, <2>6
<1>2. \A i \in 1..Len(s \o <<m>>) : i \in 1..Len(s) \/ i = Len(s) + 1
  BY Appended
<1>3. ASSUME NEW i \in 1..Len(s \o <<m>>), NEW j \in 1..Len(s \o <<m>>), i < j,
             (s \o <<m>>)[i].kind = "status", (s \o <<m>>)[j].kind = "status",
             NEW p \in (s \o <<m>>)[i].items, NEW q \in (s \o <<m>>)[j].items
      PROVE  Before(p[2], q[2])
  <2>1. i \in 1..Len(s) /\ (s \o <<m>>)[i] = s[i]
    BY <1>2, <1>3, Appended
  <2>2. CASE j \in 1..Len(s)
    BY <1>3, <2>1, <2>2, Appended DEF InOrder
  <2>3. CASE j = Len(s) + 1
    <3>1. q = <<r, v>>
      BY <2>3, Appended
    <3> QED BY <1>1, <2>1, <3>1
  <2> QED BY <1>2, <2>2, <2>3
<1> QED BY <1>3 DEF InOrder

-----------------------------------------------------------------------------
\* Requests that end

LEMMA Parts ==
  ASSUME QueriesInv
  PROVE  /\ Typed /\ TypeOK /\ sent \in Seq(Message) /\ InOrder(sent)
         /\ Snapshot \subseteq Recordings \X (View \cup {NoView})
<1>1. Typed /\ TypeOK /\ sent \in Seq(Message)
  BY DEF QueriesInv, Typed
<1>2. InOrder(sent)
  BY <1>1, MessagesTyped DEF QueriesInv, StreamInOrder, InOrder
<1>3. Snapshot \subseteq Recordings \X (View \cup {NoView})
  BY <1>1 DEF TypeOK, Snapshot, Visible
<1> QED BY <1>1, <1>2, <1>3

LEMMA EndsWithMessage ==
  ASSUME QueriesInv, NEW m \in Message, Finish(<<m>>), UNCHANGED <<rec, view>>,
         reader.pc # "idle",
         m.items \subseteq seen, m.kind = "notfound" => <<reader.target, NoView>> \in seen,
         m.kind = "inconsistent" => PurgedMeanwhile,
         m.kind \notin {"status", "summary", "failed"}
  PROVE  QueriesInv' /\ TrueAnswers
<1> DEFINE n == Len(sent)
<1>1. /\ sent' \in Seq(Message) /\ n \in Nat /\ Len(sent') = n + 1
      /\ \A i \in 1..n : sent'[i] = sent[i]
      /\ sent'[n + 1] = m
  BY Parts, Appended DEF Finish
<1>2. /\ reader'.op = reader.op /\ reader'.target = reader.target /\ reader'.pc = "idle"
      /\ seen' = {} /\ pushed' = Len(sent')
      /\ reader' \in [ op : {"none", "task", "detail", "list", "open", "stream"},
                       pc : {"idle", "waiting"} \cup Reading,
                       target : Recordings \cup {None},
                       task : View \cup {NoView}, page : SUBSET Recordings ]
  BY Parts DEF Finish, Over, TypeOK
<1>3. /\ DOMAIN sent' = 1..Len(sent')
      /\ \A i \in 1..Len(sent') :
           sent'[i].kind \in Kinds /\ sent'[i].items \subseteq Recordings \X View
  BY <1>1, MessagesTyped
<1>4. Typed'
  BY <1>1, <1>2, <1>3, Parts DEF Typed, TypeOK, HasTask
<1>5. \A i \in 1..Len(sent') : i \in 1..n \/ i = n + 1
  BY <1>1
<1>6. ReaderPlaces'
  <2>1. ~Polling => \A i \in 1..Len(sent') : sent'[i].kind \notin {"status", "summary", "failed"}
    BY <1>1, <1>5 DEF QueriesInv, ReaderPlaces
  <2> QED BY <1>2, <2>1 DEF QueriesInv, ReaderPlaces, Polling
<1>7. HasSeen' /\ HasTold'
  BY <1>2 DEF QueriesInv, HasSeen, HasTold, Reading, Polling
<1>8. StreamInOrder'
  <2>1. InOrder(sent')
    BY Parts, OutcomeInOrder DEF Finish
  <2> QED BY <1>1, <2>1, SentInOrder
<1>9. StreamEndsAsSaid'
  <2> SUFFICES ASSUME Polling
               PROVE  \A i \in 1..Len(sent') :
                        /\ i < Len(sent') => sent'[i].kind = "status"
                        /\ sent'[i].kind \notin {"summary", "failed"}
    BY <1>2, <1>3 DEF StreamEndsAsSaid, Polling
  <2>1. \A i \in 1..n : sent[i].kind = "status"
    BY DEF QueriesInv, HasTold, StatusOf
  <2> QED BY <1>1, <1>5, <2>1
<1>10. TrueAnswers
  <2>1. \A i \in (n + 1)..Len(sent') : i = n + 1
    BY <1>1
  <2> QED BY <1>1, <2>1 DEF TrueAnswers
<1> QED BY <1>4, <1>6, <1>7, <1>8, <1>9, <1>10 DEF QueriesInv

LEMMA EndsInFailure ==
  ASSUME QueriesInv, NEW kind \in {"notfound", "inconsistent", "unavailable"}, Fail(kind),
         UNCHANGED <<rec, view>>, reader.pc # "idle",
         kind = "notfound" => <<reader.target, NoView>> \in seen,
         kind = "inconsistent" => PurgedMeanwhile
  PROVE  QueriesInv' /\ TrueAnswers
<1> DEFINE m == Msg(IF Polling THEN "deleted" ELSE kind, {})
<1>1. m \in Message
  BY DEF Msg, Message, Kinds
<1>2. /\ m.items = {} /\ m.kind \notin {"status", "summary", "failed"}
      /\ m.kind \in {"notfound", "inconsistent"} => m.kind = kind
  BY DEF Msg
<1> QED BY <1>1, <1>2, EndsWithMessage DEF Fail

-----------------------------------------------------------------------------
\* Requests that go on

\* A step of the reader that sends nothing, or begins anew with nothing sent.
LEMMA GoesOn ==
  ASSUME QueriesInv, UNCHANGED <<rec, view>>, sent' = sent \/ sent' = <<>>,
         NEW rd \in [ op : {"none", "task", "detail", "list", "open", "stream"},
                      pc : {"idle", "waiting"} \cup Reading,
                      target : Recordings \cup {None},
                      task : View \cup {NoView}, page : SUBSET Recordings ],
         reader' = rd, seen' \subseteq Recordings \X (View \cup {NoView}),
         pushed' \in 0..Len(sent'), ReaderPlaces', HasSeen',
         \/ sent' = <<>> /\ (rd.op = "stream" => rec[rd.target] # "none")
         \/ /\ sent' = sent /\ rd.op = reader.op /\ rd.target = reader.target
            /\ rd.pc = "idle" \/ reader.pc # "idle"
  PROVE  QueriesInv' /\ TrueAnswers
<1>1. <<>> \in Seq(Message) /\ Len(<<>>) = 0
  BY EmptySeq
<1>2. /\ sent' \in Seq(Message) /\ Len(sent') \in Nat /\ DOMAIN sent' = 1..Len(sent')
      /\ \A i \in 1..Len(sent') :
           sent'[i].kind \in Kinds /\ sent'[i].items \subseteq Recordings \X View
  BY <1>1, Parts, MessagesTyped
<1>3. Typed'
  BY <1>2, Parts DEF Typed, TypeOK, HasTask
<1>4. CASE sent' = <<>>
  <2>1. DOMAIN sent' = {} /\ 1..Len(sent') = {}
    BY <1>1, <1>2, <1>4
  <2>2. StreamInOrder' /\ StreamEndsAsSaid'
    BY <2>1 DEF StreamInOrder, StreamEndsAsSaid
  <2>3. HasTold'
    BY <2>1 DEF HasTold, Polling, QueriesInv
  <2>4. TrueAnswers
    BY <1>1, <1>4, Parts, MessagesTyped DEF TrueAnswers
  <2> QED BY <1>3, <2>2, <2>3, <2>4 DEF QueriesInv
<1>5. CASE /\ sent' = sent /\ rd.op = reader.op /\ rd.target = reader.target
           /\ rd.pc = "idle" \/ reader.pc # "idle"
  <2>1. StreamInOrder' /\ StreamEndsAsSaid'
    BY <1>5 DEF QueriesInv, StreamInOrder, StreamEndsAsSaid, Polling
  <2>2. HasTold'
    BY <1>5 DEF QueriesInv, HasTold, Polling, StatusOf, HasTask
  <2>3. TrueAnswers
    BY <1>5, Parts, MessagesTyped DEF TrueAnswers
  <2> QED BY <1>3, <2>1, <2>2, <2>3 DEF QueriesInv
<1> QED BY <1>4, <1>5

LEMMA AskKeeps ==
  ASSUME QueriesInv, NEW op, NEW r,
         \/ op = "list" /\ r = None
         \/ op \in {"task", "detail", "open"} /\ r \in Recordings,
         Ask(op, r)
  PROVE  QueriesInv' /\ TrueAnswers
<1> DEFINE rd == [op |-> op, pc |-> "first", target |-> r, task |-> NoView, page |-> {}]
<1>1. /\ reader' = rd /\ sent' = <<>> /\ seen' = Snapshot /\ UNCHANGED <<rec, view>>
      /\ rd \in [ op : {"none", "task", "detail", "list", "open", "stream"},
                  pc : {"idle", "waiting"} \cup Reading,
                  target : Recordings \cup {None},
                  task : View \cup {NoView}, page : SUBSET Recordings ]
  BY DEF Ask, NoReader, Reading
<1>2. pushed' \in 0..Len(sent')
  <2>1. pushed' = 0 /\ Len(sent') = 0
    BY <1>1, EmptySeq DEF Ask
  <2> QED BY <2>1
<1>3. ReaderPlaces'
  <2>1. 1..Len(sent') = {}
    BY <1>1, EmptySeq
  <2> QED BY <1>1, <2>1 DEF ReaderPlaces, Polling
<1>4. Snapshot' = Snapshot
  BY <1>1 DEF Snapshot, Visible
<1>5. HasSeen'
  BY <1>1, <1>4 DEF HasSeen
<1> QED BY <1>1, <1>2, <1>3, <1>5, Parts, GoesOn

\* What is shown of a recording, and what is hidden of it, when it is looked at.
LEMMA Looked ==
  ASSUME QueriesInv, reader.pc \in Reading, NEW r \in Recordings
  PROVE  /\ rec[r] = "live" => <<r, view[r]>> \in seen
         /\ rec[r] # "live" => <<r, NoView>> \in seen
         /\ HasTask(r) => view[r] \in View /\ rec[r] # "none"
<1>1. <<r, Visible(r)>> \in seen
  BY DEF QueriesInv, HasSeen, Snapshot
<1>2. HasTask(r) => view[r] \in View /\ rec[r] # "none"
  BY Parts DEF TypeOK, HasTask
<1> QED BY <1>1, <1>2 DEF Visible

\* What was there and has no task any more has been purged.
LEMMA GoneWithoutTask ==
  ASSUME QueriesInv, NEW r \in Recordings, rec[r] # "none", ~HasTask(r)
  PROVE  rec[r] = "gone"
<1>1. rec[r] \in {"none", "live", "deleting", "gone"}
  BY Parts DEF TypeOK
<1> QED BY <1>1 DEF HasTask

\* The second statement of a request comes next.
LEMMA SecondIsNext ==
  ASSUME QueriesInv, UNCHANGED <<rec, view, sent, pushed, seen>>, reader.pc = "first",
         NEW task \in View \cup {NoView}, NEW page \in SUBSET Recordings,
         reader' = [reader EXCEPT !.pc = "second", !.task = task, !.page = page],
         reader.op = "task" =>
           /\ task \in View /\ rec[reader.target] # "none"
           /\ StillLive(reader.target) => <<reader.target, task>> \in seen,
         reader.op = "list" => \A r \in page : StillSeen(r),
         reader.op \in {"detail", "open", "stream"} => StillSeen(reader.target)
  PROVE  QueriesInv' /\ TrueAnswers
<1> DEFINE rd == [reader EXCEPT !.pc = "second", !.task = task, !.page = page]
<1>1. /\ rd \in [ op : {"none", "task", "detail", "list", "open", "stream"},
                  pc : {"idle", "waiting"} \cup Reading,
                  target : Recordings \cup {None},
                  task : View \cup {NoView}, page : SUBSET Recordings ]
      /\ rd.op = reader.op /\ rd.target = reader.target /\ rd.pc = "second"
      /\ rd.task = task /\ rd.page = page
  BY Parts DEF TypeOK, Reading
<1>2. ReaderPlaces'
  BY <1>1 DEF QueriesInv, ReaderPlaces, Polling
<1>3. HasSeen'
  <2>1. Snapshot' = Snapshot /\ (Snapshot \subseteq seen)
    BY DEF Snapshot, Visible, QueriesInv, HasSeen, Reading
  <2> QED BY <1>1, <2>1 DEF HasSeen, StillSeen, StillLive, HasTask
<1> QED BY <1>1, <1>2, <1>3, Parts, GoesOn DEF TypeOK

LEMMA TaskQueryKeeps ==
  ASSUME QueriesInv, TaskRead \/ TaskChecked
  PROVE  QueriesInv' /\ TrueAnswers
<1> DEFINE r == reader.target
<1>1. /\ reader.op = "task" /\ reader.pc \in Reading /\ reader.pc # "idle"
      /\ r \in Recordings /\ ~Polling /\ UNCHANGED <<rec, view>>
  BY DEF TaskRead, TaskChecked, Reading, QueriesInv, ReaderPlaces, Polling
<1>2. \/ rec[r] = "live" /\ <<r, view[r]>> \in seen
      \/ rec[r] # "live" /\ <<r, NoView>> \in seen
  BY <1>1, Looked
<1>3. CASE Fail("notfound") /\ ~StillLive(r)
  BY <1>1, <1>2, <1>3, EndsInFailure DEF StillLive
<1>4. CASE TaskRead /\ HasTask(r)
  <2>1. view[r] \in View /\ rec[r] # "none"
    BY <1>1, <1>4, Looked
  <2>2. reader.page \in SUBSET Recordings
    BY Parts DEF TypeOK
  <2>3. reader' = [reader EXCEPT !.pc = "second", !.task = view[r], !.page = reader.page]
    BY <1>4, Parts DEF TaskRead, TypeOK
  <2> QED BY <1>1, <1>2, <1>4, <2>1, <2>2, <2>3, SecondIsNext DEF TaskRead, StillLive
<1>5. CASE TaskChecked /\ StillLive(r)
  <2> DEFINE m == Msg("view", {<<r, reader.task>>})
  <2>1. reader.task \in View /\ <<r, reader.task>> \in seen
    BY <1>1, <1>5 DEF TaskChecked, QueriesInv, ReaderPlaces, HasSeen
  <2>2. m \in Message /\ m.kind = "view" /\ m.items = {<<r, reader.task>>}
    BY <1>1, <2>1 DEF Msg, Message, Kinds
  <2> QED BY <1>1, <1>5, <2>1, <2>2, EndsWithMessage DEF TaskChecked
<1> QED BY <1>3, <1>4, <1>5 DEF TaskRead, TaskChecked, StillLive, HasTask

LEMMA ListKeeps ==
  ASSUME QueriesInv, PageRead \/ TasksRead
  PROVE  QueriesInv' /\ TrueAnswers
<1>1. /\ reader.op = "list" /\ reader.pc \in Reading /\ reader.pc # "idle"
      /\ ~Polling /\ UNCHANGED <<rec, view>>
  BY DEF PageRead, TasksRead, Reading, Polling
<1>2. ASSUME Finish(<<Msg("view", {})>>)
      PROVE  QueriesInv' /\ TrueAnswers
  <2>1. Msg("view", {}) \in Message /\ Msg("view", {}).kind = "view" /\ Msg("view", {}).items = {}
    BY DEF Msg, Message, Kinds
  <2> QED BY <1>1, <1>2, <2>1, EndsWithMessage
<1>3. ASSUME PageRead, NEW page \in SUBSET {r \in Recordings : rec[r] = "live"},
             reader' = [reader EXCEPT !.pc = "second", !.page = page], UNCHANGED <<sent, pushed, seen>>
      PROVE  QueriesInv' /\ TrueAnswers
  <2>1. \A r \in page : StillSeen(r)
    BY <1>1, Looked DEF StillSeen
  <2>2. /\ reader.task \in View \cup {NoView} /\ page \in SUBSET Recordings
        /\ reader' = [reader EXCEPT !.pc = "second", !.task = reader.task, !.page = page]
    BY <1>3, Parts DEF TypeOK
  <2> QED BY <1>1, <1>3, <2>1, <2>2, SecondIsNext DEF PageRead
<1>4. CASE TasksRead /\ \A r \in reader.page : HasTask(r)
  <2> DEFINE m == Msg("view", {<<r, view[r]>> : r \in reader.page})
  <2>1. \A r \in reader.page : r \in Recordings /\ view[r] \in View /\ <<r, view[r]>> \in seen
    <3>1. reader.page \subseteq Recordings
      BY Parts DEF TypeOK
    <3> QED BY <1>1, <1>4, <3>1, Looked DEF TasksRead, QueriesInv, HasSeen, StillSeen
  <2>2. m \in Message /\ m.kind = "view" /\ m.items \subseteq seen
    BY <2>1 DEF Msg, Message, Kinds
  <2> QED BY <1>1, <1>4, <2>2, EndsWithMessage DEF TasksRead
<1>5. CASE /\ TasksRead /\ Fail("inconsistent")
           /\ \E r \in reader.page : ~HasTask(r)
  <2>1. reader.page \subseteq Recordings /\ \A r \in reader.page : StillSeen(r)
    BY <1>1, <1>5, Parts DEF TasksRead, TypeOK, QueriesInv, HasSeen
  <2>2. PurgedMeanwhile
    BY <1>1, <1>5, <2>1, GoneWithoutTask DEF PurgedMeanwhile, Asked, StillSeen
  <2> QED BY <1>1, <1>5, <2>2, EndsInFailure
<1> QED BY <1>2, <1>3, <1>4, <1>5 DEF PageRead, TasksRead

LEMMA RecordingReadKeeps ==
  ASSUME QueriesInv, RecordingRead
  PROVE  QueriesInv' /\ TrueAnswers
<1> DEFINE r == reader.target
<1>1. /\ reader.op \in {"detail", "open", "stream"} /\ reader.pc = "first"
      /\ reader.pc \in Reading /\ r \in Recordings /\ UNCHANGED <<rec, view>>
  BY DEF RecordingRead, Reading, QueriesInv, ReaderPlaces
<1>2. CASE rec[r] = "live" /\ Goto("second") /\ UNCHANGED <<sent, pushed, seen>>
  <2>1. StillSeen(r)
    BY <1>1, <1>2, Looked DEF StillSeen
  <2>2. reader.task \in View \cup {NoView} /\ reader.page \in SUBSET Recordings
    BY Parts DEF TypeOK
  <2>3. reader' = [reader EXCEPT !.pc = "second", !.task = reader.task, !.page = reader.page]
    BY <1>2, Parts DEF Goto, TypeOK
  <2> QED BY <1>1, <1>2, <2>1, <2>2, <2>3, SecondIsNext
<1>3. CASE rec[r] # "live" /\ Fail("notfound")
  BY <1>1, <1>3, Looked, EndsInFailure
<1> QED BY <1>2, <1>3 DEF RecordingRead

LEMMA PollAndLeaveKeep ==
  ASSUME QueriesInv, Poll \/ Disconnect
  PROVE  QueriesInv' /\ TrueAnswers
<1>1. reader.pc = "waiting" /\ reader.pc # "idle" /\ Polling /\ UNCHANGED <<rec, view>>
  BY DEF Poll, Disconnect, QueriesInv, ReaderPlaces
<1>2. CASE Poll
  <2> DEFINE rd == [reader EXCEPT !.pc = "first"]
  <2>1. /\ rd \in [ op : {"none", "task", "detail", "list", "open", "stream"},
                    pc : {"idle", "waiting"} \cup Reading,
                    target : Recordings \cup {None},
                    task : View \cup {NoView}, page : SUBSET Recordings ]
        /\ rd.op = reader.op /\ rd.target = reader.target /\ rd.pc = "first"
        /\ reader' = rd /\ sent' = sent /\ seen' = Snapshot
        /\ pushed' \in 0..Len(sent')
    BY <1>2, Parts DEF Poll, Goto, TypeOK, Reading
  <2>2. ReaderPlaces'
    BY <1>1, <2>1 DEF QueriesInv, ReaderPlaces, Polling
  <2>3. HasSeen'
    BY <1>1, <2>1 DEF HasSeen, Snapshot, Visible
  <2> QED BY <1>1, <2>1, <2>2, <2>3, Parts, GoesOn
<1>3. CASE Disconnect
  <2> DEFINE rd == [reader EXCEPT !.pc = "idle", !.task = NoView, !.page = {}]
  <2>1. /\ rd \in [ op : {"none", "task", "detail", "list", "open", "stream"},
                    pc : {"idle", "waiting"} \cup Reading,
                    target : Recordings \cup {None},
                    task : View \cup {NoView}, page : SUBSET Recordings ]
        /\ rd.op = reader.op /\ rd.target = reader.target /\ rd.pc = "idle"
        /\ reader' = rd /\ sent' = sent /\ seen' = {}
        /\ pushed' \in 0..Len(sent')
    BY <1>3, Parts DEF Disconnect, Over, TypeOK
  <2>2. ReaderPlaces'
    BY <1>1, <2>1 DEF QueriesInv, ReaderPlaces, Polling
  <2>3. HasSeen'
    BY <2>1 DEF HasSeen, Reading
  <2> QED BY <1>1, <2>1, <2>2, <2>3, GoesOn
<1> QED BY <1>2, <1>3

-----------------------------------------------------------------------------
\* What a poll writes

\* What has been written once the status of v is, if it is due.
Told(r, v) ==
  IF StatusDue(v) THEN sent \o <<Msg("status", {<<r, v>>})>> ELSE sent

LEMMA EventsFollow ==
  ASSUME sent \in Seq(Message), NEW v \in View, reader.target \in Recordings
  PROVE  /\ Ending(v) \in Seq(Message)
         /\ sent \o Events(v) = Told(reader.target, v) \o Ending(v)
<1> DEFINE S == Msg("status", {<<reader.target, v>>})
<1>1. /\ S \in Message
      /\ Msg("summary", {<<reader.target, v>>}) \in Message
      /\ Msg("failed", {<<reader.target, v>>}) \in Message
  BY DEF Msg, Message, Kinds
<1>2. <<S>> \in Seq(Message) /\ <<>> \in Seq(Message)
  BY <1>1, Appended, EmptySeq
<1>3. Ending(v) \in Seq(Message)
  BY <1>1, <1>2, Appended DEF Ending
<1>4. CASE StatusDue(v)
  <2>1. (sent \o <<S>>) \o Ending(v) = sent \o (<<S>> \o Ending(v))
    BY <1>2, <1>3, ConcatAssociative
  <2> QED BY <1>3, <1>4, <2>1 DEF Events, Told
<1>5. CASE ~StatusDue(v)
  <2>1. <<>> \o Ending(v) = Ending(v)
    BY <1>3, ConcatEmptySeq
  <2> QED BY <1>3, <1>5, <2>1 DEF Events, Told
<1> QED BY <1>4, <1>5

\* A poll that has seen v leaves a stream of statuses in order, v the last.
LEMMA ToldInOrder ==
  ASSUME QueriesInv, Polling, reader.pc # "idle", NEW r \in Recordings, r = reader.target,
         NEW v \in View, HasTask(r), v = view[r]
  PROVE  /\ Told(r, v) \in Seq(Message) /\ InOrder(Told(r, v))
         /\ Len(Told(r, v)) \in Nat \ {0} /\ Len(sent) \in Nat /\ Len(sent) <= Len(Told(r, v))
         /\ Told(r, v)[Len(Told(r, v))].items = {<<r, v>>}
         /\ \A i \in 1..Len(Told(r, v)) :
              /\ Told(r, v)[i].kind = "status"
              /\ v.status \notin {"done", "failed"} => StatusOf(Told(r, v)[i], r)
              /\ i > Len(sent) => Told(r, v)[i].items = {<<r, v>>}
<1> DEFINE m == Msg("status", {<<r, v>>})
           n == Len(sent)
<1>1. /\ sent \in Seq(Message) /\ InOrder(sent) /\ n \in Nat /\ (sent = <<>> <=> n = 0)
      /\ \A i \in 1..n : StatusOf(sent[i], r)
  BY Parts, LenProperties, EmptySeq DEF QueriesInv, HasTold
<1>2. m \in Message /\ m.kind = "status" /\ m.items = {<<r, v>>}
  BY DEF Msg, Message, Kinds
<1>3. CASE StatusDue(v)
  <2>1. /\ Told(r, v) = sent \o <<m>> /\ Told(r, v) \in Seq(Message)
        /\ Len(Told(r, v)) = n + 1 /\ Told(r, v)[n + 1] = m
        /\ \A i \in 1..n : Told(r, v)[i] = sent[i]
    <3>1. Told(r, v) = sent \o <<m>>
      BY <1>3 DEF Told
    <3> HIDE DEF m
    <3> QED BY <1>1, <1>2, <3>1, Appended
  <2>2. InOrder(Told(r, v))
    <3>1. sent = <<>> \/ sent[Len(sent)].items # {<<r, v>>}
      BY <1>3 DEF StatusDue
    <3> HIDE DEF m
    <3>2. InOrder(sent \o <<m>>)
      BY <1>1, <1>2, <3>1, StatusInOrder
    <3> QED BY <2>1, <3>2
  <2>3. v.status \notin {"done", "failed"} => StatusOf(m, r)
    BY <1>2 DEF StatusOf
  <2>4. \A i \in 1..Len(Told(r, v)) : i \in 1..n \/ i = n + 1
    BY <1>1, <2>1
  <2>5. \A i \in 1..n : sent[i].kind = "status"
    BY <1>1 DEF StatusOf
  <2>6. ASSUME NEW i \in 1..Len(Told(r, v))
        PROVE  /\ Told(r, v)[i].kind = "status"
               /\ v.status \notin {"done", "failed"} => StatusOf(Told(r, v)[i], r)
               /\ i > n => Told(r, v)[i].items = {<<r, v>>}
    <3>1. CASE i \in 1..n
      BY <1>1, <2>1, <2>5, <3>1
    <3>2. CASE i = n + 1
      BY <1>2, <2>1, <2>3, <3>2
    <3> QED BY <2>4, <3>1, <3>2
  <2>7. /\ Len(Told(r, v)) \in Nat \ {0} /\ n <= Len(Told(r, v))
        /\ Told(r, v)[Len(Told(r, v))].items = {<<r, v>>}
    <3>1. Told(r, v)[Len(Told(r, v))] = m
      BY <2>1
    <3>2. n + 1 \in Nat \ {0} /\ n <= n + 1
      BY <1>1
    <3> QED BY <1>2, <2>1, <3>1, <3>2
  <2> QED BY <1>1, <2>1, <2>2, <2>6, <2>7
<1>4. CASE ~StatusDue(v)
  <2>1. Told(r, v) = sent
    BY <1>4 DEF Told
  <2>2. n \in Nat \ {0} /\ sent[n].items = {<<r, v>>}
    BY <1>1, <1>4 DEF StatusDue
  <2>3. \A i \in 1..n : sent[i].kind = "status"
    BY <1>1 DEF StatusOf
  <2> QED BY <1>1, <2>1, <2>2, <2>3
<1> QED BY <1>3, <1>4

\* A task that goes on: the stream waits for the next poll.
LEMMA StatusSent ==
  ASSUME QueriesInv, Polling, reader.pc = "second", NEW r \in Recordings, r = reader.target,
         NEW v \in View, HasTask(r), v = view[r], <<r, v>> \in seen, Ending(v) = <<>>,
         sent' = sent \o Events(v), pushed' \in pushed..Len(sent'), seen' = {},
         Goto("waiting"), UNCHANGED <<rec, view>>
  PROVE  QueriesInv' /\ TrueAnswers
<1>1. v.status \notin {"done", "failed"}
  BY DEF Ending
<1>2. PICK s \in Seq(Message) : s = Told(r, v) /\ sent' = s
  <2>1. Told(r, v) \in Seq(Message)
    BY ToldInOrder
  <2>2. Told(r, v) \o <<>> = Told(r, v)
    BY <2>1, ConcatEmptySeq
  <2>3. sent' = Told(r, v) \o Ending(v)
    BY Parts, EventsFollow
  <2> QED BY <2>1, <2>2, <2>3
<1>3. /\ InOrder(s) /\ Len(sent) \in Nat /\ Len(s) \in Nat
      /\ \A i \in 1..Len(s) :
           StatusOf(s[i], r) /\ (i > Len(sent) => s[i].items = {<<r, v>>})
  BY <1>1, <1>2, ToldInOrder
<1>4. /\ reader' \in [ op : {"none", "task", "detail", "list", "open", "stream"},
                       pc : {"idle", "waiting"} \cup Reading,
                       target : Recordings \cup {None},
                       task : View \cup {NoView}, page : SUBSET Recordings ]
      /\ reader'.op = reader.op /\ reader'.target = reader.target /\ reader'.pc = "waiting"
  BY Parts DEF Goto, TypeOK
<1>5. /\ DOMAIN sent' = 1..Len(sent')
      /\ \A i \in 1..Len(sent') :
           sent'[i].kind \in Kinds /\ sent'[i].items \subseteq Recordings \X View
  BY <1>2, MessagesTyped
<1>6. Typed'
  <2>1. pushed' \in 0..Len(sent')
    BY <1>2, <1>3, Parts DEF TypeOK
  <2> QED BY <1>2, <1>4, <1>5, <2>1, Parts DEF Typed, TypeOK, HasTask
<1>7. ReaderPlaces' /\ HasSeen'
  BY <1>4 DEF QueriesInv, ReaderPlaces, Polling, HasSeen, Reading
<1>8. HasTold'
  <2>1. \A i \in 1..Len(s) : StatusOf(s[i], r)'
    BY <1>3 DEF StatusOf, HasTask
  <2> QED BY <1>2, <1>4, <2>1 DEF QueriesInv, HasTold, Polling, StatusOf, HasTask
<1>9. StreamInOrder'
  BY <1>2, <1>3, SentInOrder
<1>10. StreamEndsAsSaid'
  <2>1. \A i \in 1..Len(sent') :
          /\ sent'[i].kind = "status"
          /\ \A item \in sent'[i].items : item[2].status \notin {"done", "failed"}
    BY <1>2, <1>3 DEF StatusOf
  <2> QED BY <1>5, <2>1 DEF StreamEndsAsSaid
<1>11. TrueAnswers
  <2>1. ASSUME NEW i \in (Len(sent) + 1)..Len(s)
        PROVE  s[i].items = {<<r, v>>} /\ s[i].kind = "status"
    <3>1. i \in 1..Len(s) /\ i > Len(sent)
      BY <1>3
    <3> QED BY <1>3, <3>1 DEF StatusOf
  <2> QED BY <1>2, <2>1 DEF TrueAnswers
<1> QED BY <1>6, <1>7, <1>8, <1>9, <1>10, <1>11 DEF QueriesInv

\* A task that is over: its status, unless that has been sent, and its outcome.
LEMMA OutcomeSent ==
  ASSUME QueriesInv, Polling, reader.pc = "second", NEW r \in Recordings, r = reader.target,
         NEW v \in View, HasTask(r), v = view[r], <<r, v>> \in seen, Ending(v) # <<>>,
         Finish(Events(v)), UNCHANGED <<rec, view>>
  PROVE  QueriesInv' /\ TrueAnswers
<1> DEFINE s == Told(r, v)
           n == Len(s)
<1>1. PICK m \in Message : /\ Ending(v) = <<m>> /\ m.items = {<<r, v>>}
                          /\ m.kind \in {"summary", "failed"}
  <2>1. /\ Msg("summary", {<<r, v>>}) \in Message /\ Msg("failed", {<<r, v>>}) \in Message
        /\ \A kind, items : Msg(kind, items).kind = kind /\ Msg(kind, items).items = items
    BY DEF Msg, Message, Kinds
  <2> QED BY <2>1 DEF Ending
<1>2. /\ s \in Seq(Message) /\ InOrder(s) /\ n \in Nat \ {0} /\ Len(sent) \in Nat /\ Len(sent) <= n
      /\ s[n].items = {<<r, v>>}
      /\ \A i \in 1..n : s[i].kind = "status" /\ (i > Len(sent) => s[i].items = {<<r, v>>})
  BY ToldInOrder
<1>3. sent' = s \o <<m>>
  BY <1>1, Parts, EventsFollow DEF Finish
<1>4. /\ sent' \in Seq(Message) /\ Len(sent') = n + 1 /\ sent'[n + 1] = m
      /\ \A i \in 1..n : sent'[i] = s[i]
  BY <1>2, <1>3, Appended
<1>5. /\ reader' \in [ op : {"none", "task", "detail", "list", "open", "stream"},
                       pc : {"idle", "waiting"} \cup Reading,
                       target : Recordings \cup {None},
                       task : View \cup {NoView}, page : SUBSET Recordings ]
      /\ reader'.op = reader.op /\ reader'.target = reader.target /\ reader'.pc = "idle"
      /\ seen' = {} /\ pushed' = Len(sent')
  BY Parts DEF Finish, Over, TypeOK
<1>6. /\ DOMAIN sent' = 1..Len(sent')
      /\ \A i \in 1..Len(sent') :
           sent'[i].kind \in Kinds /\ sent'[i].items \subseteq Recordings \X View
  BY <1>4, MessagesTyped
<1>7. Typed'
  BY <1>4, <1>5, <1>6, Parts DEF Typed, TypeOK, HasTask
<1>8. ReaderPlaces' /\ HasSeen' /\ HasTold'
  BY <1>5 DEF QueriesInv, ReaderPlaces, Polling, HasSeen, HasTold, Reading
<1>9. StreamInOrder'
  <2>1. InOrder(sent')
    BY <1>1, <1>2, <1>3, OutcomeInOrder
  <2> QED BY <1>4, <2>1, SentInOrder
<1>10. \A i \in 1..Len(sent') : i \in 1..n \/ i = n + 1
  BY <1>2, <1>4
<1>11. StreamEndsAsSaid'
  <2>1. ASSUME NEW i \in 1..Len(sent')
        PROVE  /\ i < Len(sent') => sent'[i].kind = "status"
               /\ sent'[i].kind \in {"summary", "failed"} =>
                    i > 1 /\ sent'[i - 1].items = sent'[i].items
    <3>1. CASE i \in 1..n
      BY <1>2, <1>4, <3>1
    <3>2. CASE i = n + 1
      <4>1. i - 1 = n /\ i > 1 /\ ~(i < Len(sent'))
        BY <1>2, <1>4, <3>2
      <4>2. sent'[i].items = {<<r, v>>} /\ sent'[n].items = {<<r, v>>}
        BY <1>1, <1>2, <1>4, <3>2
      <4> QED BY <4>1, <4>2
    <3> QED BY <1>10, <3>1, <3>2
  <2> QED BY <1>5, <1>6, <2>1 DEF StreamEndsAsSaid
<1>12. TrueAnswers
  <2>1. ASSUME NEW i \in (Len(sent) + 1)..Len(sent')
        PROVE  /\ sent'[i].items = {<<r, v>>}
               /\ sent'[i].kind \notin {"notfound", "inconsistent"}
    <3>1. i \in 1..Len(sent') /\ i > Len(sent)
      BY <1>2, <1>4
    <3>2. CASE i \in 1..n
      BY <1>2, <1>4, <3>1, <3>2
    <3>3. CASE i = n + 1
      BY <1>1, <1>4, <3>3
    <3> QED BY <1>10, <3>1, <3>2, <3>3
  <2> QED BY <2>1 DEF TrueAnswers
<1> QED BY <1>7, <1>8, <1>9, <1>11, <1>12 DEF QueriesInv

LEMMA DetailReadKeeps ==
  ASSUME QueriesInv, DetailRead
  PROVE  QueriesInv' /\ TrueAnswers
<1> PICK r \in Recordings : r = reader.target
  BY DEF DetailRead, QueriesInv, ReaderPlaces
<1> DEFINE v == view[r]
<1>1. /\ reader.op \in {"detail", "open", "stream"} /\ reader.pc = "second"
      /\ reader.pc # "idle" /\ reader.pc \in Reading /\ UNCHANGED <<rec, view>>
  BY DEF DetailRead, Reading
<1>2. HasTask(r) => v \in View /\ rec[r] # "none" /\ <<r, v>> \in seen
  BY <1>1, Looked DEF QueriesInv, HasSeen, StillSeen
<1>3. CASE ~HasTask(r) /\ Fail("inconsistent")
  <2>1. rec[r] # "none"
    BY <1>1 DEF QueriesInv, HasSeen, StillSeen
  <2>2. PurgedMeanwhile
    BY <1>1, <1>3, <2>1, GoneWithoutTask DEF PurgedMeanwhile, Asked
  <2> QED BY <1>1, <1>3, <2>2, EndsInFailure
<1>4. CASE HasTask(r) /\ reader.op = "detail" /\ Finish(<<Msg("view", {<<r, v>>})>>)
  <2> DEFINE m == Msg("view", {<<r, v>>})
  <2>1. m \in Message /\ m.kind = "view" /\ m.items \subseteq seen
    BY <1>2, <1>4 DEF Msg, Message, Kinds
  <2> QED BY <1>1, <1>4, <2>1, EndsWithMessage
<1>5. CASE /\ HasTask(r) /\ reader.op = "open" /\ UNCHANGED <<sent, pushed>> /\ seen' = Snapshot
           /\ reader' = [reader EXCEPT !.op = "stream", !.pc = "first"]
  <2> DEFINE rd == [reader EXCEPT !.op = "stream", !.pc = "first"]
  <2>1. /\ rd \in [ op : {"none", "task", "detail", "list", "open", "stream"},
                    pc : {"idle", "waiting"} \cup Reading,
                    target : Recordings \cup {None},
                    task : View \cup {NoView}, page : SUBSET Recordings ]
        /\ rd.op = "stream" /\ rd.target = r /\ rd.pc = "first"
        /\ pushed' \in 0..Len(sent')
    BY <1>5, Parts DEF TypeOK, Reading
  <2>2. sent = <<>>
    BY <1>1, <1>5 DEF QueriesInv, ReaderPlaces, Polling
  <2>3. ReaderPlaces'
    BY <1>5, <2>1 DEF ReaderPlaces, Polling
  <2>4. HasSeen'
    BY <1>1, <1>5, <2>1 DEF HasSeen, Snapshot, Visible
  <2> QED BY <1>1, <1>2, <1>5, <2>1, <2>2, <2>3, <2>4, Parts, GoesOn
<1>6. CASE /\ HasTask(r) /\ Polling /\ Ending(v) = <<>>
           /\ sent' = sent \o Events(v) /\ pushed' \in pushed..Len(sent')
           /\ seen' = {} /\ Goto("waiting")
  BY <1>1, <1>2, <1>6, StatusSent
<1>7. CASE HasTask(r) /\ Polling /\ Ending(v) # <<>> /\ Finish(Events(v))
  BY <1>1, <1>2, <1>7, OutcomeSent
<1> QED BY <1>3, <1>4, <1>5, <1>6, <1>7 DEF DetailRead

-----------------------------------------------------------------------------
\* The theorems

LEMMA QueriesInit == Init => QueriesInv
<1> SUFFICES ASSUME Init PROVE QueriesInv
  OBVIOUS
<1>1. sent = <<>> /\ sent \in Seq(Message) /\ Len(sent) = 0 /\ DOMAIN sent = {}
  BY EmptySeq, MessagesTyped DEF Init
<1>2. reader = [op |-> "none", pc |-> "idle", target |-> None, task |-> NoView, page |-> {}]
  BY DEF Init, NoReader
<1>3. Typed
  BY <1>1, <1>2 DEF Init, Typed, TypeOK, NoView, HasTask
<1>4. ReaderPlaces /\ HasSeen /\ HasTold
  BY <1>1, <1>2 DEF ReaderPlaces, HasSeen, HasTold, Polling, Reading
<1>5. StreamInOrder /\ StreamEndsAsSaid
  BY <1>1 DEF StreamInOrder, StreamEndsAsSaid
<1> QED BY <1>3, <1>4, <1>5 DEF QueriesInv

LEMMA QueriesStep ==
  ASSUME QueriesInv, Next
  PROVE  QueriesInv' /\ TrueAnswers
<1>1. CASE WriterStep
  <2>1. sent' = sent
    BY <1>1, Parts, WriterMoves
  <2>2. TrueAnswers
    BY <2>1, Parts, MessagesTyped DEF TrueAnswers
  <2> QED BY <1>1, <2>2, WriterKeeps
<1>2. CASE ReadFails
  BY <1>2, EndsInFailure DEF ReadFails, Reading
<1>3. CASE Ask("list", None)
  BY <1>3, AskKeeps
<1>4. ASSUME NEW r \in Recordings, NEW op \in {"task", "detail", "open"}, Ask(op, r)
      PROVE  QueriesInv' /\ TrueAnswers
  BY <1>4, AskKeeps
<1> QED
  BY <1>1, <1>2, <1>3, <1>4, TaskQueryKeeps, ListKeeps, RecordingReadKeeps, DetailReadKeeps,
     PollAndLeaveKeep
     DEF Next, ReaderStep

LEMMA QueriesInvariant == Spec => []QueriesInv
<1>1. QueriesInv /\ UNCHANGED vars => QueriesInv'
  <2> SUFFICES ASSUME QueriesInv, UNCHANGED vars PROVE QueriesInv'
    OBVIOUS
  <2> USE DEF vars
  <2>1. Typed' /\ ReaderPlaces'
    BY DEF QueriesInv, Typed, TypeOK, HasTask, ReaderPlaces, Polling
  <2>2. HasSeen'
    BY DEF QueriesInv, HasSeen, Snapshot, Visible, StillSeen, StillLive, HasTask
  <2>3. HasTold'
    BY DEF QueriesInv, HasTold, Polling, StatusOf, HasTask
  <2>4. StreamInOrder' /\ StreamEndsAsSaid'
    BY DEF QueriesInv, StreamInOrder, StreamEndsAsSaid, Polling
  <2> QED BY <2>1, <2>2, <2>3, <2>4 DEF QueriesInv
<1>2. QueriesInv /\ [Next]_vars => QueriesInv'
  BY <1>1, QueriesStep
<1> QED
  BY <1>2, QueriesInit, PTL DEF Spec

\* Types, and that a view shows an error exactly of a task that failed or waits
\* (NewTaskBody in dto/query.go, and the updates of processing_tx.go).
THEOREM ViewsCorrect == Spec => []TypeOK
<1>1. QueriesInv => TypeOK
  BY DEF QueriesInv, Typed
<1> QED
  BY <1>1, QueriesInvariant, PTL

\* Whatever is written between the two statements of a request, what it answers was
\* to be seen at some moment of the reading, and only what was purged in between is
\* called inconsistent (mysql/query.go).
THEOREM NothingHiddenIsShown == Spec => AnswersWereTrue
<1>1. QueriesInv /\ [Next]_vars =>
        [\A i \in (Len(sent) + 1)..Len(sent') :
           /\ sent'[i].items \subseteq seen
           /\ sent'[i].kind = "notfound" => <<reader.target, NoView>> \in seen
           /\ sent'[i].kind = "inconsistent" => \E r \in Asked : rec[r] = "gone"]_<<sent, seen>>
  BY QueriesStep DEF TrueAnswers, PurgedMeanwhile, vars
<1> QED
  BY <1>1, QueriesInvariant, PTL DEF Spec, AnswersWereTrue

\* However slowly a client polls, the statuses of its stream run forward through the
\* rounds and none comes twice (summary_stream.go:41).
THEOREM StreamsRunForward == Spec => []StreamInOrder
<1>1. QueriesInv => StreamInOrder
  BY DEF QueriesInv
<1> QED
  BY <1>1, QueriesInvariant, PTL

\* A stream tells at most one outcome, last and after its status, whatever becomes of
\* the recording between two polls (summary_stream.go:51).
THEOREM StreamsEndOnce == Spec => []StreamEndsAsSaid
<1>1. QueriesInv => StreamEndsAsSaid
  BY DEF QueriesInv
<1> QED
  BY <1>1, QueriesInvariant, PTL
=============================================================================
