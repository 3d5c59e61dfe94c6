---------------------------- MODULE RowLocksProofs ----------------------------
(***************************************************************************)
(* That the transactions, statement by statement under their row locks,    *)
(* implement transactions of one step, for any recordings, contents and    *)
(* sessions.                                                               *)
(***************************************************************************)
EXTENDS RowLocks, TLAPS

-----------------------------------------------------------------------------
\* The inductive invariant

\* Which rows a transaction has locked, by its kind and by how far it is.
HasHash(t)   == t.kind \in {"mark", "upload", "insert", "reuse"} /\ t.got >= 1
HasEvents(t) == t.kind = "purge" /\ t.got >= 1
HasTask(t) ==
  \/ t.kind \in TaskWrites /\ t.got >= 1
  \/ t.kind = "purge" /\ t.got >= 2
  \/ t.kind \in {"mark", "reuse"} /\ t.got = 3
HasRec(t) ==
  \/ t.kind \in TaskWrites /\ t.got = 2
  \/ t.kind = "purge" /\ t.got = 3
  \/ t.kind \in {"mark", "reuse"} /\ t.got >= 2

Tx == [kind : Kinds, id : Ids \cup {0}, got : 0..3, saw : Row]

\* A transaction locks rows of a recording, and no more than its plan says.
Shaped(t) ==
  /\ t.kind # "none" => t.id \in Ids
  /\ t.kind = "none" => t.got = 0
  /\ t.kind \in TaskWrites => t.got <= 2
  /\ t.kind = "upload" => t.got <= 1
  /\ t.kind = "insert" => t.got = 1
  /\ t.kind = "claim" => t.got >= 1

\* No row is locked by two.
Apart(t, u) ==
  /\ HasHash(t) /\ HasHash(u) => content[t.id] # content[u.id]
  /\ HasEvents(t) /\ HasEvents(u) => t.id # u.id
  /\ HasTask(t) /\ HasTask(u) => t.id # u.id
  /\ HasRec(t) /\ HasRec(u) => t.id # u.id
  /\ t.kind \in {"upload", "insert"} /\ u.kind \in {"upload", "insert"} => t.id # u.id

\* What a transaction has read under its locks is still so, ...
Fresh(t) ==
  /\ HasTask(t) => /\ row[t.id].rec \in {"live", "deleting"}
                   /\ t.saw.status = row[t.id].status
                   /\ t.saw.attempt = row[t.id].attempt
                   /\ t.saw.seq = row[t.id].seq
  /\ HasRec(t) => /\ row[t.id].rec \in {"live", "deleting"}
                  /\ t.saw.rec = row[t.id].rec
  /\ HasEvents(t) => row[t.id].rec = "deleting" /\ t.saw.events = row[t.id].events

\* ... and so is what it decided by.
Decided(t) ==
  /\ t.kind \in TaskWrites \ {"retry"} /\ t.got >= 1 => t.saw.status \in From[t.kind]
  /\ t.kind \in TaskWrites /\ t.got = 2 => t.saw.rec = "live" /\ t.saw.status \in From[t.kind]
  /\ t.kind = "mark" /\ t.got = 3 => t.saw.rec = "live"
  /\ t.kind = "purge" => row[t.id].rec \in {"deleting", "gone"}
  /\ t.kind \in {"upload", "insert"} => row[t.id].rec = "none" /\ t.id \in named
  /\ t.kind = "insert" => Reusable(t.id) = {}

\* The rows of a recording come and go together, and its events are numbered.
RowsPaired ==
  \A i \in Ids :
    /\ row[i].rec \in {"none", "gone"} => row[i].status = "absent" /\ row[i].events = 0
    /\ row[i].rec # "none" => i \in named
    /\ row[i].events = row[i].seq

KeysTyped ==
  /\ key \in [Workers -> [ id : Ids \cup {0}, attempt : Nat,
                           stage : {"none", "transcribing", "summarizing"} ]]
  /\ \A w \in Workers : key[w] # NoKey => key[w].id \in Ids

Typed ==
  /\ row \in [Ids -> Row]
  /\ content \in [Ids -> Contents]
  /\ tx \in [Sessions -> Tx]
  /\ KeysTyped
  /\ named \subseteq Ids

IInv ==
  /\ Typed
  /\ RowsPaired
  /\ \A s \in Sessions : Shaped(tx[s]) /\ Fresh(tx[s]) /\ Decided(tx[s])
  /\ \A s, o \in Sessions : s # o => Apart(tx[s], tx[o])

-----------------------------------------------------------------------------
\* Plans and locks

LEMMA TaskWritesAre == TaskWrites = {"claim", "save", "complete", "fail", "retry"}
BY DEF TaskWrites, From

LEMMA PlansAre ==
  /\ \A k \in TaskWrites : Plan[k] = <<"task", "rec">>
  /\ Plan["mark"] = <<"hash", "rec", "task">>
  /\ Plan["reuse"] = <<"hash", "rec", "task">>
  /\ Plan["purge"] = <<"events", "task", "rec">>
  /\ Plan["upload"] = <<"hash">>
  /\ Plan["insert"] = <<"hash">>
  /\ Plan["none"] = <<>>
BY TaskWritesAre DEF Plan

LEMMA PlansEnd ==
  /\ \A k \in TaskWrites : Len(Plan[k]) = 2
  /\ Len(Plan["mark"]) = 3 /\ Len(Plan["reuse"]) = 3 /\ Len(Plan["purge"]) = 3
  /\ Len(Plan["upload"]) = 1 /\ Len(Plan["insert"]) = 1
  /\ Len(Plan["none"]) = 0
<1>1. /\ Len(<<"task", "rec">>) = 2 /\ Len(<<"hash">>) = 1
      /\ Len(<<"hash", "rec", "task">>) = 3 /\ Len(<<"events", "task", "rec">>) = 3
  OBVIOUS
<1>2. Len(<<>>) = 0
  OBVIOUS
<1>3. \A k \in TaskWrites : Len(Plan[k]) = 2
  <2> TAKE k \in TaskWrites
  <2>1. Plan[k] = <<"task", "rec">>
    BY PlansAre
  <2> QED
    BY <2>1
<1> QED
  BY <1>1, <1>2, <1>3, PlansAre

\* A transaction that has a row holds the lock of it.
LEMMA LocksHeld ==
  ASSUME Typed, NEW s \in Sessions
  PROVE  /\ HasHash(tx[s]) => Holds(s, <<"hash", content[tx[s].id]>>)
         /\ HasEvents(tx[s]) => Holds(s, <<"events", tx[s].id>>)
         /\ HasTask(tx[s]) => Holds(s, <<"task", tx[s].id>>)
         /\ HasRec(tx[s]) => Holds(s, <<"rec", tx[s].id>>)
<1>1. tx[s].got \in 0..3
  BY DEF Typed, Tx
<1>2. ASSUME NEW n \in 1..3, n <= tx[s].got
      PROVE  Holds(s, LockOf(Plan[tx[s].kind][n], tx[s].id))
  BY <1>1, <1>2 DEF Holds
<1>3. ASSUME HasHash(tx[s]) PROVE Holds(s, <<"hash", content[tx[s].id]>>)
  <2>1. Plan[tx[s].kind][1] = "hash" /\ 1 <= tx[s].got
    BY <1>1, <1>3, PlansAre DEF HasHash
  <2> QED
    BY <2>1, <1>2 DEF LockOf
<1>4. ASSUME HasEvents(tx[s]) PROVE Holds(s, <<"events", tx[s].id>>)
  <2>1. Plan[tx[s].kind][1] = "events" /\ 1 <= tx[s].got
    BY <1>1, <1>4, PlansAre DEF HasEvents
  <2> QED
    BY <2>1, <1>2 DEF LockOf
<1>5. ASSUME HasTask(tx[s]) PROVE Holds(s, <<"task", tx[s].id>>)
  <2>1. \E n \in 1..3 : Plan[tx[s].kind][n] = "task" /\ n <= tx[s].got
    BY <1>1, <1>5, PlansAre DEF HasTask
  <2> QED
    BY <2>1, <1>2 DEF LockOf
<1>6. ASSUME HasRec(tx[s]) PROVE Holds(s, <<"rec", tx[s].id>>)
  <2>1. \E n \in 1..3 : Plan[tx[s].kind][n] = "rec" /\ n <= tx[s].got
    BY <1>1, <1>6, PlansAre DEF HasRec
  <2> QED
    BY <2>1, <1>2 DEF LockOf
<1> QED
  BY <1>3, <1>4, <1>5, <1>6

\* With its next lock a transaction has one row more.
LEMMA OneMore ==
  ASSUME Typed, NEW s \in Sessions, Shaped(tx[s]), Locking(s), NEW saw \in Row,
         NEW t, t = [tx[s] EXCEPT !.got = @ + 1, !.saw = saw]
  PROVE  /\ t \in Tx /\ Shaped(t) /\ t.kind # "none"
         /\ HasHash(t) => HasHash(tx[s]) \/ Name(s) = "hash"
         /\ HasEvents(t) => HasEvents(tx[s]) \/ Name(s) = "events"
         /\ HasTask(t) => HasTask(tx[s]) \/ Name(s) = "task"
         /\ HasRec(t) => HasRec(tx[s]) \/ Name(s) = "rec"
<1>1. /\ tx[s] \in Tx
      /\ tx[s].kind \in Kinds /\ tx[s].got \in 0..3
      /\ tx[s].got < Len(Plan[tx[s].kind])
  BY DEF Typed, Tx, Locking
<1>2. t.kind = tx[s].kind /\ t.id = tx[s].id /\ t.got = tx[s].got + 1 /\ t.saw = saw
  BY <1>1 DEF Tx
<1>3. /\ tx[s].kind \in TaskWrites => tx[s].got < 2
      /\ tx[s].kind \in {"upload", "insert"} => tx[s].got < 1
      /\ tx[s].got < 3 /\ tx[s].kind # "none"
  <2>1. CASE tx[s].kind \in TaskWrites
    <3>1. Len(Plan[tx[s].kind]) = 2
      BY <2>1, PlansEnd
    <3>2. tx[s].kind \notin {"upload", "insert", "none"}
      BY <2>1, TaskWritesAre
    <3> QED
      BY <1>1, <3>1, <3>2
  <2>2. CASE tx[s].kind \in {"mark", "reuse", "purge"}
    BY <1>1, <2>2, PlansEnd, TaskWritesAre
  <2>3. CASE tx[s].kind \in {"upload", "insert"}
    <3>1. Len(Plan[tx[s].kind]) = 1
      BY <2>3, PlansEnd
    <3>2. tx[s].kind \notin TaskWrites
      BY <2>3, TaskWritesAre
    <3> QED
      BY <1>1, <2>3, <3>1, <3>2
  <2>4. CASE tx[s].kind = "none"
    BY <1>1, <2>4, PlansEnd
  <2> QED
    BY <1>1, <2>1, <2>2, <2>3, <2>4 DEF Kinds
<1>4. t \in Tx
  <2>1. t.got \in 0..3
    BY <1>1, <1>2, <1>3
  <2>2. t = [kind |-> t.kind, id |-> t.id, got |-> t.got, saw |-> t.saw]
    BY <1>1 DEF Tx
  <2> QED
    BY <1>1, <1>2, <2>1, <2>2 DEF Tx
<1>5. t.kind # "none" /\ t.kind # "insert" /\ Shaped(t)
  BY <1>1, <1>2, <1>3 DEF Shaped
<1>6. HasHash(t) => HasHash(tx[s]) \/ Name(s) = "hash"
  BY <1>1, <1>2, PlansAre DEF HasHash, Name
<1>7. HasEvents(t) => HasEvents(tx[s]) \/ Name(s) = "events"
  BY <1>1, <1>2, PlansAre DEF HasEvents, Name
<1>8. HasTask(t) => HasTask(tx[s]) \/ Name(s) = "task"
  BY <1>1, <1>2, PlansAre, TaskWritesAre DEF HasTask, Name
<1>9. HasRec(t) => HasRec(tx[s]) \/ Name(s) = "rec"
  BY <1>1, <1>2, PlansAre, TaskWritesAre DEF HasRec, Name
<1> QED
  BY <1>4, <1>5, <1>6, <1>7, <1>8, <1>9

-----------------------------------------------------------------------------
\* Steps that leave the rows alone

HasName(t, n) ==
  CASE n = "hash"   -> HasHash(t)
    [] n = "events" -> HasEvents(t)
    [] n = "task"   -> HasTask(t)
    [] n = "rec"    -> HasRec(t)

LEMMA HasNamed ==
  ASSUME IInv, NEW s \in Sessions, NEW n \in 1..tx[s].got
  PROVE  /\ HasName(tx[s], Plan[tx[s].kind][n])
         /\ Plan[tx[s].kind][n] \in {"hash", "events", "task", "rec"}
<1>1. /\ tx[s].kind \in Kinds /\ tx[s].got \in 0..3 /\ Shaped(tx[s]) /\ n \in {1, 2, 3}
      /\ n <= tx[s].got
  BY DEF IInv, Typed, Tx
<1>2. CASE tx[s].kind \in TaskWrites
  <2>1. tx[s].got <= 2 /\ Plan[tx[s].kind] = <<"task", "rec">>
    BY <1>1, <1>2, PlansAre DEF Shaped
  <2>2. CASE n = 1
    BY <1>1, <1>2, <2>1, <2>2 DEF HasName, HasTask
  <2>3. CASE n = 2
    BY <1>1, <1>2, <2>1, <2>3 DEF HasName, HasRec
  <2> QED
    BY <1>1, <2>1, <2>2, <2>3
<1>3. CASE tx[s].kind \in {"mark", "reuse"}
  <2>1. Plan[tx[s].kind] = <<"hash", "rec", "task">>
    BY <1>3, PlansAre
  <2>2. CASE n = 1
    BY <1>1, <1>3, <2>1, <2>2 DEF HasName, HasHash
  <2>3. CASE n = 2
    BY <1>1, <1>3, <2>1, <2>3 DEF HasName, HasRec
  <2>4. CASE n = 3
    <3>1. tx[s].got = 3
      BY <1>1, <2>4
    <3> QED
      BY <1>3, <2>1, <2>4, <3>1 DEF HasName, HasTask
  <2> QED
    BY <1>1, <2>2, <2>3, <2>4
<1>4. CASE tx[s].kind = "purge"
  <2>1. Plan[tx[s].kind] = <<"events", "task", "rec">>
    BY <1>4, PlansAre
  <2>2. CASE n = 1
    BY <1>1, <1>4, <2>1, <2>2 DEF HasName, HasEvents
  <2>3. CASE n = 2
    BY <1>1, <1>4, <2>1, <2>3 DEF HasName, HasTask
  <2>4. CASE n = 3
    <3>1. tx[s].got = 3
      BY <1>1, <2>4
    <3> QED
      BY <1>4, <2>1, <2>4, <3>1 DEF HasName, HasRec
  <2> QED
    BY <1>1, <2>2, <2>3, <2>4
<1>6. CASE tx[s].kind \in {"upload", "insert"}
  <2>1. Plan[tx[s].kind] = <<"hash">> /\ tx[s].got <= 1 /\ n = 1
    BY <1>1, <1>6, PlansAre DEF Shaped
  <2> QED
    BY <1>1, <1>6, <2>1 DEF HasName, HasHash
<1>5. CASE tx[s].kind = "none"
  BY <1>1, <1>5 DEF Shaped
<1> QED
  BY <1>1, <1>2, <1>3, <1>4, <1>5, <1>6 DEF Kinds

LEMMA ApartBothWays == \A t, u : Apart(t, u) => Apart(u, t)
BY DEF Apart

LEMMA SessionMoves ==
  ASSUME IInv, NEW s \in Sessions, NEW t \in Tx,
         tx' = [tx EXCEPT ![s] = t], row' = row, content' = content,
         KeysTyped', named \subseteq named', named' \subseteq Ids,
         Shaped(t), Fresh(t), Decided(t)',
         \A o \in Sessions \ {s} : Apart(t, tx[o])
  PROVE  IInv'
<1>1. \A o \in Sessions : tx'[o] = IF o = s THEN t ELSE tx[o]
  BY DEF IInv, Typed
<1>2. Typed'
  BY <1>1 DEF IInv, Typed
<1>3. RowsPaired'
  BY DEF IInv, RowsPaired
<1>4. ASSUME NEW o \in Sessions PROVE (Shaped(tx[o]) /\ Fresh(tx[o]) /\ Decided(tx[o]))'
  <2>1. CASE o = s
    <3>1. tx'[o] = t
      BY <1>1, <2>1
    <3> QED
      BY <3>1 DEF Shaped, Fresh, Decided, HasHash, HasEvents, HasTask, HasRec, Reusable
  <2>2. CASE o # s
    <3>1. tx'[o] = tx[o]
      BY <1>1, <2>2
    <3>2. Shaped(tx[o]) /\ Fresh(tx[o]) /\ Decided(tx[o])
      BY DEF IInv
    <3> QED
      BY <3>1, <3>2 DEF Shaped, Fresh, Decided, HasHash, HasEvents, HasTask, HasRec, Reusable
  <2> QED
    BY <2>1, <2>2
<1>5. ASSUME NEW o \in Sessions, NEW p \in Sessions, o # p PROVE Apart(tx[o], tx[p])'
  <2>1. Apart(tx'[o], tx'[p])
    BY <1>1, <1>5, ApartBothWays DEF IInv
  <2> QED
    BY <2>1 DEF Apart, HasHash, HasEvents, HasTask, HasRec
<1> QED
  BY <1>2, <1>3, <1>4, <1>5 DEF IInv

LEMMA NoTxTyped == NoRow \in Row /\ NoTx \in Tx
BY DEF NoRow, NoTx, Row, Tx, Kinds

\* A transaction that has locked nothing is apart from all others, as long as it
\* does not upload under a name in use.
LEMMA SessionOpens ==
  ASSUME IInv, NEW s \in Sessions, NEW k \in Kinds \ {"none", "insert", "claim"}, NEW i \in Ids, Open(s, k, i),
         row' = row, content' = content, KeysTyped',
         named \subseteq named', named' \subseteq Ids,
         k = "purge" => row[i].rec = "deleting",
         k = "upload" => i \notin named /\ i \in named'
  PROVE  IInv'
<1> PICK t : t = [NoTx EXCEPT !.kind = k, !.id = i]
  OBVIOUS
<1>1. t.kind = k /\ t.id = i /\ t.got = 0 /\ t.saw = NoRow
  BY DEF NoTx
<1>2. t \in Tx
  BY NoTxTyped DEF NoTx, Tx
<1>3. tx' = [tx EXCEPT ![s] = t]
  BY DEF Open
<1>4. ~HasHash(t) /\ ~HasEvents(t) /\ ~HasTask(t) /\ ~HasRec(t)
  BY <1>1 DEF HasHash, HasEvents, HasTask, HasRec
<1>5. Shaped(t) /\ Fresh(t)
  BY <1>1, <1>4 DEF Shaped, Fresh
<1>6. Decided(t)'
  BY <1>1 DEF Decided, IInv, RowsPaired, Typed, Row
<1>7. ASSUME NEW o \in Sessions \ {s} PROVE Apart(t, tx[o])
  BY <1>1, <1>4 DEF Apart, IInv, Decided
<1> QED
  BY <1>2, <1>3, <1>5, <1>6, <1>7, SessionMoves

LEMMA SessionCloses ==
  ASSUME IInv, NEW s \in Sessions, Close(s), row' = row, content' = content,
         KeysTyped', named' = named
  PROVE  IInv'
<1> PICK t : t = NoTx
  OBVIOUS
<1>1. t.kind = "none" /\ t.got = 0
  BY DEF NoTx
<1>2. ~HasHash(t) /\ ~HasEvents(t) /\ ~HasTask(t) /\ ~HasRec(t)
  BY <1>1, TaskWritesAre DEF HasHash, HasEvents, HasTask, HasRec
<1>3. t \in Tx /\ Shaped(t) /\ Fresh(t) /\ Decided(t)'
  BY <1>1, <1>2, NoTxTyped, TaskWritesAre DEF Shaped, Fresh, Decided
<1>4. ASSUME NEW o \in Sessions \ {s} PROVE Apart(t, tx[o])
  BY <1>1, <1>2 DEF Apart
<1>5. tx' = [tx EXCEPT ![s] = t]
  BY DEF Close
<1>6. named \subseteq named' /\ named' \subseteq Ids
  BY DEF IInv, Typed
<1> QED
  BY <1>3, <1>4, <1>5, <1>6, SessionMoves

-----------------------------------------------------------------------------
\* Steps that lock a row

LEMMA ReadTyped ==
  ASSUME NEW saw \in Row, NEW r \in Row, NEW n
  PROVE  /\ Read(saw, n, r) \in Row
         /\ n # "task" => /\ Read(saw, n, r).status = saw.status
                          /\ Read(saw, n, r).attempt = saw.attempt
                          /\ Read(saw, n, r).seq = saw.seq
         /\ n # "rec" => Read(saw, n, r).rec = saw.rec
         /\ n # "events" => Read(saw, n, r).events = saw.events
         /\ n = "task" => /\ Read(saw, n, r).status = r.status
                          /\ Read(saw, n, r).attempt = r.attempt
                          /\ Read(saw, n, r).seq = r.seq
         /\ n = "rec" => Read(saw, n, r).rec = r.rec
         /\ n = "events" => Read(saw, n, r).events = r.events
<1>1. CASE n = "task"
  BY <1>1 DEF Read, Row
<1>2. CASE n = "rec"
  BY <1>2 DEF Read, Row
<1>3. CASE n = "events"
  BY <1>3 DEF Read, Row
<1>4. CASE n \notin {"task", "rec", "events"}
  BY <1>4 DEF Read, Row
<1> QED
  BY <1>1, <1>2, <1>3, <1>4

\* A row of which no other session holds the lock is apart from theirs.
LEMMA FreeIsApart ==
  ASSUME IInv, NEW s \in Sessions, NEW o \in Sessions \ {s}, NEW i \in Ids, tx[o].id = i
  PROVE  /\ Free(s, <<"hash", content[i]>>) => ~HasHash(tx[o])
         /\ Free(s, <<"events", i>>) => ~HasEvents(tx[o])
         /\ Free(s, <<"task", i>>) => ~HasTask(tx[o])
         /\ Free(s, <<"rec", i>>) => ~HasRec(tx[o])
BY LocksHeld DEF IInv, Free

LEMMA FreeHash ==
  ASSUME IInv, NEW s \in Sessions, NEW o \in Sessions \ {s}, NEW i \in Ids,
         Free(s, <<"hash", content[i]>>), HasHash(tx[o])
  PROVE  content[tx[o].id] # content[i]
BY LocksHeld DEF IInv, Free

LEMMA LockKeeps ==
  ASSUME IInv, NEW s \in Sessions, Lock(s)
  PROVE  IInv'
<1> DEFINE i == tx[s].id
           n == Name(s)
           saw == Read(tx[s].saw, n, row[i])
<1>1. /\ Typed /\ Shaped(tx[s]) /\ Fresh(tx[s]) /\ Decided(tx[s]) /\ RowsPaired
      /\ Locking(s) /\ tx[s] \in Tx /\ KeysTyped
  BY DEF IInv, Lock, Typed
<1> PICK t : t = [tx[s] EXCEPT !.got = @ + 1, !.saw = saw]
  OBVIOUS
<1>2. i \in Ids /\ row[i] \in Row /\ tx[s].saw \in Row /\ tx[s].kind # "none"
  <2>1. tx[s].kind # "none"
    BY <1>1, PlansEnd DEF Shaped, Locking
  <2> QED
    BY <1>1, <2>1 DEF Shaped, Typed, Tx
<1>3. saw \in Row
  BY <1>2, ReadTyped
<1>4. /\ t \in Tx /\ Shaped(t) /\ t.kind # "none"
      /\ HasHash(t) => HasHash(tx[s]) \/ n = "hash"
      /\ HasEvents(t) => HasEvents(tx[s]) \/ n = "events"
      /\ HasTask(t) => HasTask(tx[s]) \/ n = "task"
      /\ HasRec(t) => HasRec(tx[s]) \/ n = "rec"
  BY <1>1, <1>3, OneMore
<1>5. t.kind = tx[s].kind /\ t.id = i /\ t.got = tx[s].got + 1 /\ t.saw = saw
  BY <1>1 DEF Tx
<1>6. ~Missing(n, saw) /\ ~Refuses(s, n, saw)
  BY DEF Lock, Refuses
<1>7. Fresh(t)
  <2>1. HasTask(t) => /\ row[i].rec \in {"live", "deleting"} /\ saw.status = row[i].status
                      /\ saw.attempt = row[i].attempt /\ saw.seq = row[i].seq
    <3>1. CASE n = "task"
      BY <1>1, <1>2, <1>6, <3>1, ReadTyped DEF Missing, RowsPaired, Row
    <3>2. CASE n # "task"
      BY <1>1, <1>2, <1>4, <3>2, ReadTyped DEF Fresh
    <3> QED
      BY <3>1, <3>2
  <2>2. HasRec(t) => row[i].rec \in {"live", "deleting"} /\ saw.rec = row[i].rec
    <3>1. CASE n = "rec"
      BY <1>2, <1>6, <3>1, ReadTyped DEF Missing, Row
    <3>2. CASE n # "rec"
      BY <1>1, <1>2, <1>4, <3>2, ReadTyped DEF Fresh
    <3> QED
      BY <3>1, <3>2
  <2>3. HasEvents(t) => row[i].rec = "deleting" /\ saw.events = row[i].events
    <3>1. CASE n = "events"
      <4>1. HasEvents(t) => row[i].rec \in {"deleting", "gone"}
        BY <1>1, <1>5 DEF HasEvents, Decided
      <4> QED
        BY <1>1, <1>2, <1>6, <3>1, <4>1, ReadTyped DEF Missing, RowsPaired
    <3>2. CASE n # "events"
      BY <1>1, <1>2, <1>4, <3>2, ReadTyped DEF Fresh
    <3> QED
      BY <3>1, <3>2
  <2> QED
    BY <1>5, <2>1, <2>2, <2>3 DEF Fresh
<1>8. Decided(t)
  <2>1. tx[s].got \in 0..3
    BY <1>1 DEF Tx
  <2>2. CASE t.kind \in TaskWrites
    <3>1. \/ tx[s].got = 0 /\ n = "task"
          \/ tx[s].got = 1 /\ n = "rec"
      <4>1. tx[s].got \in {0, 1}
        BY <1>4, <1>5, <2>1, <2>2 DEF Shaped
      <4>2. Plan[tx[s].kind] = <<"task", "rec">>
        BY <1>5, <2>2, PlansAre
      <4> QED
        BY <4>1, <4>2 DEF Name
    <3>2. CASE tx[s].got = 0 /\ n = "task"
      <4>1. t.kind \in StageWrites => saw.status \in From[t.kind]
        BY <1>5, <1>6, <3>2 DEF Refuses
      <4>2. t.kind \in StageWrites \cup {"claim", "retry"}
        BY <2>2, TaskWritesAre DEF StageWrites
      <4>3. t.kind # "claim"
        BY <1>1, <1>5, <3>2 DEF Shaped
      <4> QED
        BY <1>5, <2>2, <3>2, <4>1, <4>2, <4>3, TaskWritesAre DEF Decided
    <3>3. CASE tx[s].got = 1 /\ n = "rec"
      <4>1. saw.status = tx[s].saw.status /\ saw.rec \in {"live", "deleting"} /\ saw.rec # "deleting"
        BY <1>2, <1>5, <1>6, <2>2, <3>3, <1>3, ReadTyped DEF Refuses, Missing, Row
      <4>2. t.kind = "retry" => saw.status \in From[t.kind]
        BY <1>5, <1>6, <3>3 DEF Refuses
      <4>3. t.kind \in TaskWrites \ {"retry"} => saw.status \in From[t.kind]
        BY <1>1, <1>5, <3>3, <4>1 DEF Decided
      <4> QED
        BY <1>5, <2>2, <3>3, <4>1, <4>2, <4>3, TaskWritesAre DEF Decided
    <3> QED
      BY <3>1, <3>2, <3>3
  <2>3. CASE t.kind = "mark"
    <3>1. t.got = 3 => n = "task" /\ HasRec(tx[s])
      BY <1>5, <2>1, <2>3, PlansAre DEF Name, HasRec
    <3>2. t.got = 3 => saw.rec = "live"
      BY <1>1, <1>2, <1>5, <1>6, <2>3, <3>1, ReadTyped DEF Refuses, Fresh
    <3> QED
      BY <1>5, <2>3, <3>2, TaskWritesAre DEF Decided
  <2>4. CASE t.kind \in {"purge", "upload"}
    BY <1>1, <1>5, <2>4, TaskWritesAre DEF Decided
  <2>5. CASE t.kind = "reuse"
    BY <2>5, TaskWritesAre DEF Decided
  <2>6. t.kind # "insert"
    <3> SUFFICES ASSUME tx[s].kind = "insert" PROVE FALSE
      BY <1>5
    <3>1. Len(Plan[tx[s].kind]) = 1
      BY PlansEnd
    <3> QED
      BY <1>1, <2>1, <3>1 DEF Shaped, Locking
  <2> QED
    BY <1>4, <2>2, <2>3, <2>4, <2>5, <2>6 DEF Tx, Kinds
<1>9. ASSUME NEW o \in Sessions \ {s} PROVE Apart(t, tx[o])
  <2>1. Apart(tx[s], tx[o])
    BY DEF IInv
  <2>2. Free(s, LockOf(n, i))
    BY DEF Lock, Wanted
  <2>3. HasHash(t) /\ HasHash(tx[o]) => content[i] # content[tx[o].id]
    <3>1. CASE n = "hash"
      BY <1>2, <2>2, <3>1, FreeHash DEF LockOf
    <3>2. CASE n # "hash"
      BY <1>4, <1>5, <2>1, <3>2 DEF Apart
    <3> QED
      BY <3>1, <3>2
  <2>4. HasEvents(t) /\ HasEvents(tx[o]) => i # tx[o].id
    <3>1. CASE n = "events"
      BY <1>2, <2>2, <3>1, FreeIsApart DEF LockOf
    <3>2. CASE n # "events"
      BY <1>4, <1>5, <2>1, <3>2 DEF Apart
    <3> QED
      BY <3>1, <3>2
  <2>5. HasTask(t) /\ HasTask(tx[o]) => i # tx[o].id
    <3>1. CASE n = "task"
      BY <1>2, <2>2, <3>1, FreeIsApart DEF LockOf
    <3>2. CASE n # "task"
      BY <1>4, <1>5, <2>1, <3>2 DEF Apart
    <3> QED
      BY <3>1, <3>2
  <2>6. HasRec(t) /\ HasRec(tx[o]) => i # tx[o].id
    <3>1. CASE n = "rec"
      BY <1>2, <2>2, <3>1, FreeIsApart DEF LockOf
    <3>2. CASE n # "rec"
      BY <1>4, <1>5, <2>1, <3>2 DEF Apart
    <3> QED
      BY <3>1, <3>2
  <2> QED
    BY <1>5, <2>1, <2>3, <2>4, <2>5, <2>6 DEF Apart
<1>10. /\ tx' = [tx EXCEPT ![s] = t] /\ row' = row /\ content' = content
       /\ KeysTyped' /\ named' = named /\ named \subseteq Ids
  BY <1>1 DEF Lock, KeysTyped, Typed
<1>11. Decided(t)'
  BY <1>8, <1>10 DEF Decided, Reusable
<1> QED
  BY <1>4, <1>7, <1>9, <1>10, <1>11, SessionMoves

LEMMA ClaimKeeps ==
  ASSUME IInv, NEW w \in Workers, Claim(w)
  PROVE  IInv'
<1>1. w \in Sessions /\ Typed /\ RowsPaired
  BY DEF IInv, Sessions
<1>2. PICK i \in Candidates(w) :
        tx' = [tx EXCEPT ![w] =
          [kind |-> "claim", id |-> i, got |-> 1, saw |-> Read(NoRow, "task", row[i])]]
  BY DEF Claim
<1>3. i \in Ids /\ row[i] \in Row /\ row[i].status = "pending" /\ Free(w, <<"task", i>>)
  BY <1>1, <1>2 DEF Candidates, Typed
<1> PICK t : t = [kind |-> "claim", id |-> i, got |-> 1, saw |-> Read(NoRow, "task", row[i])]
  OBVIOUS
<1>4. /\ t.kind = "claim" /\ t.id = i /\ t.got = 1 /\ t.saw \in Row
      /\ t.saw.status = "pending" /\ t.saw.attempt = row[i].attempt /\ t.saw.seq = row[i].seq
  BY <1>3, ReadTyped, NoTxTyped
<1>5. ~HasHash(t) /\ ~HasEvents(t) /\ ~HasRec(t) /\ "claim" \in TaskWrites
  BY <1>4, TaskWritesAre DEF HasHash, HasEvents, HasRec
<1>6. t \in Tx /\ Shaped(t)
  BY <1>3, <1>4, <1>5 DEF Tx, Shaped, Kinds
<1>7. row[i].rec \in {"live", "deleting"}
  BY <1>1, <1>3 DEF RowsPaired, Row
<1>8. Fresh(t)
  BY <1>3, <1>4, <1>5, <1>7 DEF Fresh
<1>9. From["claim"] = {"pending"}
  BY DEF From
<1>10. Decided(t)'
  BY <1>4, <1>9 DEF Decided
<1>11. ASSUME NEW o \in Sessions \ {w} PROVE Apart(t, tx[o])
  BY <1>1, <1>3, <1>4, <1>5, FreeIsApart DEF Apart
<1>12. /\ row' = row /\ content' = content /\ named' = named /\ named \subseteq Ids
       /\ KeysTyped'
  BY <1>1 DEF Claim, Typed, KeysTyped
<1> QED
  BY <1>1, <1>2, <1>6, <1>8, <1>10, <1>11, <1>12, SessionMoves

LEMMA ReuseKeeps ==
  ASSUME IInv, NEW h \in Sessions, Reuse(h)
  PROVE  IInv'
<1>1. /\ Typed /\ RowsPaired /\ tx[h] \in Tx /\ tx[h].kind = "upload" /\ Shaped(tx[h])
      /\ tx[h].id \in Ids
  BY DEF IInv, Typed, Reuse, Shaped
<1>2. PICK j \in Reusable(tx[h].id) :
        /\ Free(h, <<"rec", j>>)
        /\ tx' = [tx EXCEPT ![h] = [ kind |-> "reuse", id |-> j, got |-> 2,
                                     saw |-> Read(NoRow, "rec", row[j]) ]]
  BY DEF Reuse
<1>3. /\ j \in Ids /\ row[j] \in Row /\ row[j].rec = "live"
      /\ content[j] = content[tx[h].id]
  BY <1>1, <1>2 DEF Reusable, Typed
<1> PICK t : t = [kind |-> "reuse", id |-> j, got |-> 2, saw |-> Read(NoRow, "rec", row[j])]
  OBVIOUS
<1>4. t.kind = "reuse" /\ t.id = j /\ t.got = 2 /\ t.saw \in Row /\ t.saw.rec = row[j].rec
  BY <1>3, ReadTyped, NoTxTyped
<1>5. ~HasEvents(t) /\ ~HasTask(t) /\ t.kind \notin TaskWrites
  BY <1>4, TaskWritesAre DEF HasEvents, HasTask
<1>6. t \in Tx /\ Shaped(t) /\ Fresh(t)
  BY <1>3, <1>4, <1>5 DEF Tx, Shaped, Kinds, Fresh
<1>7. Decided(t)'
  BY <1>4, <1>5 DEF Decided
<1>8. HasHash(tx[h])
  <2>1. Len(Plan[tx[h].kind]) = 1
    BY <1>1, PlansEnd
  <2> QED
    BY <1>1, <2>1 DEF Reuse, Ready, HasHash
<1>9. ASSUME NEW o \in Sessions \ {h} PROVE Apart(t, tx[o])
  <2>1. Apart(tx[h], tx[o])
    BY DEF IInv
  <2> QED
    BY <1>2, <1>3, <1>4, <1>5, <1>8, <2>1, FreeIsApart DEF Apart
<1>10. /\ row' = row /\ content' = content /\ named' = named /\ named \subseteq Ids
       /\ KeysTyped'
  BY <1>1 DEF Reuse, Typed, KeysTyped
<1> QED
  BY <1>2, <1>6, <1>7, <1>9, <1>10, SessionMoves

LEMMA FindNoneKeeps ==
  ASSUME IInv, NEW h \in Sessions, FindNone(h)
  PROVE  IInv'
<1>1. /\ Typed /\ RowsPaired /\ tx[h] \in Tx /\ tx[h].kind = "upload" /\ Shaped(tx[h])
      /\ Decided(tx[h]) /\ tx[h].id \in Ids
  BY DEF IInv, Typed, FindNone, Shaped
<1> PICK t : t = [tx[h] EXCEPT !.kind = "insert"]
  OBVIOUS
<1>2. t.kind = "insert" /\ t.id = tx[h].id /\ t.got = tx[h].got /\ t.saw = tx[h].saw
  BY <1>1 DEF Tx
<1>3. t.got = 1
  <2>1. Len(Plan[tx[h].kind]) = 1
    BY <1>1, PlansEnd
  <2> QED
    BY <1>2, <2>1 DEF FindNone, Ready
<1>4. t \in Tx
  <2>1. t = [kind |-> t.kind, id |-> t.id, got |-> t.got, saw |-> t.saw]
    BY <1>1 DEF Tx
  <2> QED
    BY <1>1, <1>2, <2>1 DEF Tx, Kinds
<1>5. /\ ~HasEvents(t) /\ ~HasTask(t) /\ ~HasRec(t) /\ t.kind \notin TaskWrites
      /\ HasHash(tx[h])
  BY <1>1, <1>2, <1>3, TaskWritesAre DEF HasEvents, HasTask, HasRec, HasHash
<1>6. Shaped(t) /\ Fresh(t)
  BY <1>1, <1>2, <1>3, <1>5 DEF Shaped, Fresh
<1>7. /\ row' = row /\ content' = content /\ named' = named /\ named \subseteq Ids
      /\ KeysTyped' /\ tx' = [tx EXCEPT ![h] = t]
  BY <1>1 DEF FindNone, Typed, KeysTyped
<1>8. Decided(t)'
  BY <1>1, <1>2, <1>5, <1>7 DEF Decided, FindNone, Reusable
<1>9. ASSUME NEW o \in Sessions \ {h} PROVE Apart(t, tx[o])
  <2>1. Apart(tx[h], tx[o])
    BY DEF IInv
  <2> QED
    BY <1>1, <1>2, <1>5, <2>1 DEF Apart
<1> QED
  BY <1>4, <1>6, <1>7, <1>8, <1>9, SessionMoves

-----------------------------------------------------------------------------
\* Steps that write rows

LEMMA WrittenTyped ==
  ASSUME NEW r \in Row, NEW k \in TaskWrites \cup {"mark", "purge", "insert"}
  PROVE  /\ Written(k, r, r) \in Row
         /\ k \in TaskWrites => Written(k, r, r).rec = r.rec
         /\ k = "mark" => Written(k, r, r).rec = "deleting"
         /\ k = "purge" => Written(k, r, r).rec = "gone" /\ Written(k, r, r).status = "absent"
                           /\ Written(k, r, r).events = 0
         /\ k = "insert" => Written(k, r, r) = Inserted
         /\ r.events = r.seq => Written(k, r, r).events = Written(k, r, r).seq
<1> DEFINE w == Written(k, r, r)
<1>1. /\ r.rec \in {"none", "live", "deleting", "gone"} /\ r.status \in Statuses \cup {"absent"}
      /\ r.attempt \in Nat /\ r.seq \in Nat /\ r.events \in Nat
      /\ r = [ rec |-> r.rec, status |-> r.status, attempt |-> r.attempt,
               seq |-> r.seq, events |-> r.events ]
  BY DEF Row
<1>2. r.seq + 1 \in Nat /\ r.events + 1 \in Nat /\ r.events - r.events = 0
  BY <1>1
<1>3. ASSUME NEW a \in {"none", "live", "deleting", "gone"}, NEW b \in Statuses \cup {"absent"},
             NEW c \in Nat, NEW d \in Nat, NEW e \in Nat
      PROVE  [rec |-> a, status |-> b, attempt |-> c, seq |-> d, events |-> e] \in Row
  BY DEF Row
<1>4. CASE k \in TaskWrites
  <2>1. StatusAfter(k, r.attempt) \in Statuses
    BY <1>4, TaskWritesAre DEF StatusAfter, Statuses, InFlight
  <2>2. AttemptAfter(k, r.attempt) \in Nat
    BY <1>1 DEF AttemptAfter
  <2>3. k \notin {"mark", "purge", "insert"}
    BY <1>4, TaskWritesAre
  <2>4. w = [r EXCEPT !.status = StatusAfter(k, r.attempt),
                      !.attempt = AttemptAfter(k, r.attempt),
                      !.seq = r.seq + 1, !.events = @ + 1]
    BY <1>4, <2>3 DEF Written
  <2>5. w = [ rec |-> r.rec, status |-> StatusAfter(k, r.attempt),
              attempt |-> AttemptAfter(k, r.attempt), seq |-> r.seq + 1,
              events |-> r.events + 1 ]
    BY <1>1, <2>4
  <2>6. w \in Row
    BY <1>1, <1>2, <1>3, <2>1, <2>2, <2>5
  <2>7. w.rec = r.rec /\ w.seq = r.seq + 1 /\ w.events = r.events + 1
    BY <2>5
  <2> QED
    BY <2>3, <2>6, <2>7
<1>5. CASE k = "mark"
  <2>1. w = [r EXCEPT !.rec = "deleting", !.seq = r.seq + 1, !.events = @ + 1]
    BY <1>5, TaskWritesAre DEF Written
  <2>2. w = [ rec |-> "deleting", status |-> r.status, attempt |-> r.attempt,
              seq |-> r.seq + 1, events |-> r.events + 1 ]
    BY <1>1, <2>1
  <2>3. w \in Row
    BY <1>1, <1>2, <1>3, <2>2
  <2>4. w.rec = "deleting" /\ w.seq = r.seq + 1 /\ w.events = r.events + 1
    BY <2>2
  <2> QED
    BY <1>5, <2>3, <2>4, TaskWritesAre
<1>6. CASE k = "purge"
  <2>1. w = [NoRow EXCEPT !.rec = "gone", !.events = r.events - r.events]
    BY <1>6, TaskWritesAre DEF Written
  <2>2. w = [rec |-> "gone", status |-> "absent", attempt |-> 0, seq |-> 0, events |-> 0]
    BY <1>2, <2>1 DEF NoRow
  <2>3. w \in Row
    BY <1>3, <2>2
  <2>4. w.rec = "gone" /\ w.status = "absent" /\ w.events = 0 /\ w.seq = 0
    BY <2>2
  <2> QED
    BY <1>6, <2>3, <2>4, TaskWritesAre
<1>7. CASE k = "insert"
  <2>1. w = Inserted
    BY <1>7, TaskWritesAre DEF Written
  <2>2. "pending" \in Statuses
    BY DEF Statuses
  <2>3. w \in Row
    BY <1>3, <2>1, <2>2 DEF Inserted
  <2>4. w.events = w.seq
    BY <2>1 DEF Inserted
  <2> QED
    BY <1>7, <2>1, <2>3, <2>4, TaskWritesAre
<1> QED
  BY <1>4, <1>5, <1>6, <1>7

\* The rows of one recording change, and nobody else has locked any of them, or
\* decided by them.
LEMMA RowsWritten ==
  ASSUME IInv, NEW s \in Sessions, NEW i \in Ids, NEW r \in Row,
         row' = [row EXCEPT ![i] = r], content' = content, named' = named,
         Close(s), KeysTyped', i \in named,
         r.rec \in {"none", "gone"} => r.status = "absent" /\ r.events = 0,
         r.events = r.seq,
         \A o \in Sessions \ {s} : tx[o].id = i =>
            /\ ~HasTask(tx[o]) /\ ~HasRec(tx[o]) /\ ~HasEvents(tx[o])
            /\ tx[o].kind \notin {"upload", "insert"}
            /\ tx[o].kind = "purge" => r.rec \in {"deleting", "gone"},
         \A o \in Sessions \ {s} : tx[o].kind = "insert" /\ r.rec = "live" =>
            row[i].rec = "live" \/ content[tx[o].id] # content[i]
  PROVE  IInv'
<1>1. \A o \in Sessions : tx'[o] = IF o = s THEN NoTx ELSE tx[o]
  BY DEF IInv, Typed, Close
<1>2. \A j \in Ids : row'[j] = IF j = i THEN r ELSE row[j]
  BY DEF IInv, Typed
<1>3. Typed'
  <2>1. row' \in [Ids -> Row]
    BY DEF IInv, Typed
  <2>2. tx' \in [Sessions -> Tx]
    BY NoTxTyped DEF IInv, Typed, Close
  <2> QED
    BY <2>1, <2>2 DEF IInv, Typed
<1>4. RowsPaired'
  BY <1>2 DEF IInv, RowsPaired
<1>5. /\ ~HasHash(NoTx) /\ ~HasEvents(NoTx) /\ ~HasTask(NoTx) /\ ~HasRec(NoTx)
      /\ NoTx.kind = "none" /\ NoTx.got = 0
  BY TaskWritesAre DEF HasHash, HasEvents, HasTask, HasRec, NoTx
<1>6. ASSUME NEW o \in Sessions PROVE (Shaped(tx[o]) /\ Fresh(tx[o]) /\ Decided(tx[o]))'
  <2>1. CASE o = s
    <3>1. tx'[o] = NoTx
      BY <1>1, <2>1
    <3>2. (Shaped(tx[o]))'
      BY <1>5, <3>1, TaskWritesAre DEF Shaped
    <3>3. (Fresh(tx[o]))'
      BY <1>5, <3>1 DEF Fresh, HasEvents, HasTask, HasRec
    <3>4. (Decided(tx[o]))'
      BY <1>5, <3>1, TaskWritesAre DEF Decided
    <3> QED
      BY <3>2, <3>3, <3>4
  <2>2. CASE o # s
    <3>1. tx'[o] = tx[o]
      BY <1>1, <2>2
    <3>2. Shaped(tx[o]) /\ Fresh(tx[o]) /\ Decided(tx[o])
      BY DEF IInv
    <3>3. tx[o].kind # "none" => tx[o].id \in Ids
      BY <3>2 DEF Shaped
    <3>4. (Shaped(tx[o]))'
      BY <3>1, <3>2 DEF Shaped
    <3>5. (Fresh(tx[o]))'
      <4>1. HasTask(tx[o]) \/ HasRec(tx[o]) \/ HasEvents(tx[o]) =>
              tx[o].id # i /\ tx[o].id \in Ids
        BY <2>2, <3>3, TaskWritesAre DEF HasTask, HasRec, HasEvents
      <4> QED
        BY <1>2, <3>1, <3>2, <4>1 DEF Fresh, HasTask, HasRec, HasEvents
    <3>6. (Decided(tx[o]))'
      <4>1. tx[o].kind \in {"upload", "insert"} => tx[o].id # i
        BY <2>2
      <4>2. tx[o].kind = "purge" => row'[tx[o].id].rec \in {"deleting", "gone"}
        BY <1>2, <2>2, <3>2, <3>3 DEF Decided
      <4>3. tx[o].kind = "insert" => (Reusable(tx[o].id))' = {}
        <5>1. SUFFICES ASSUME tx[o].kind = "insert", NEW j \in Ids,
                              row'[j].rec = "live", content[j] = content[tx[o].id]
                       PROVE  FALSE
          BY <3>1 DEF Reusable
        <5>2. row[j].rec # "live"
          BY <3>2, <5>1 DEF Decided, Reusable
        <5> QED
          BY <1>2, <2>2, <5>1, <5>2
      <4> QED
        BY <1>2, <3>1, <3>2, <3>3, <4>1, <4>2, <4>3 DEF Decided
    <3> QED
      BY <3>4, <3>5, <3>6
  <2> QED
    BY <2>1, <2>2
<1>7. ASSUME NEW o \in Sessions, NEW p \in Sessions, o # p PROVE Apart(tx[o], tx[p])'
  <2>1. Apart(tx'[o], tx'[p])
    <3>1. CASE o = s \/ p = s
      BY <1>1, <1>5, <3>1 DEF Apart
    <3>2. CASE o # s /\ p # s
      BY <1>1, <1>7, <3>2 DEF IInv
    <3> QED
      BY <3>1, <3>2
  <2> QED
    BY <2>1 DEF Apart, HasHash, HasEvents, HasTask, HasRec
<1> QED
  BY <1>3, <1>4, <1>6, <1>7 DEF IInv

\* What a transaction about to commit writes is what it would write now, and it may.
LEMMA CommitIsAtomic ==
  ASSUME IInv, NEW s \in Sessions, Commit(s)
  PROVE  /\ tx[s].id \in Ids /\ HasTask(tx[s]) /\ HasRec(tx[s])
         /\ row[tx[s].id].rec \in {"live", "deleting"}
         /\ tx[s].kind \in TaskWrites \cup {"mark", "purge"}
         /\ tx[s].kind = "purge" => HasEvents(tx[s]) /\ row[tx[s].id].rec = "deleting"
         /\ tx[s].kind # "purge" => row[tx[s].id].rec = "live"
         /\ tx[s].kind \in TaskWrites => row[tx[s].id].status \in From[tx[s].kind]
         /\ row' = [row EXCEPT ![tx[s].id] = Written(tx[s].kind, @, @)]
<1> DEFINE k == tx[s].kind
           i == tx[s].id
           saw == tx[s].saw
<1>1. /\ tx[s] \in Tx /\ k \in TaskWrites \cup {"mark", "purge"} /\ k # "none"
      /\ tx[s].got = Len(Plan[k]) /\ i \in Ids /\ row[i] \in Row /\ saw \in Row
      /\ Fresh(tx[s]) /\ Decided(tx[s])
  <2>1. k # "none" /\ k \in TaskWrites \cup {"mark", "purge"} /\ tx[s].got = Len(Plan[k])
    BY DEF Commit, Ready
  <2> QED
    BY <2>1 DEF IInv, Typed, Shaped, Tx
<1>2. HasTask(tx[s]) /\ HasRec(tx[s]) /\ (k = "purge" => HasEvents(tx[s]))
  <2>1. CASE k \in TaskWrites
    <3>1. tx[s].got = 2
      BY <1>1, <2>1, PlansEnd
    <3> QED
      BY <2>1, <3>1, TaskWritesAre DEF HasTask, HasRec
  <2>2. CASE k \in {"mark", "purge"}
    <3>1. tx[s].got = 3
      BY <1>1, <2>2, PlansEnd
    <3> QED
      BY <2>2, <3>1 DEF HasTask, HasRec, HasEvents
  <2> QED
    BY <1>1, <2>1, <2>2
<1>3. /\ row[i].rec \in {"live", "deleting"} /\ saw.rec = row[i].rec
      /\ saw.status = row[i].status /\ saw.attempt = row[i].attempt /\ saw.seq = row[i].seq
      /\ k = "purge" => row[i].rec = "deleting" /\ saw.events = row[i].events
  BY <1>1, <1>2 DEF Fresh
<1>4. CASE k \in TaskWrites
  <2>1. tx[s].got = 2 /\ k # "purge" /\ k # "mark"
    BY <1>1, <1>4, PlansEnd, TaskWritesAre
  <2>2. saw.rec = "live" /\ saw.status \in From[k]
    BY <1>1, <1>4, <2>1 DEF Decided
  <2>3. Matches(k, row[i], saw)
    BY <1>3, <1>4 DEF Matches
  <2>4. Written(k, row[i], saw) = Written(k, row[i], row[i])
    BY <1>3, <1>4 DEF Written
  <2> QED
    BY <1>1, <1>2, <1>3, <1>4, <2>1, <2>2, <2>3, <2>4 DEF Commit
<1>5. CASE k = "mark"
  <2>1. saw.rec = "live"
    BY <1>1, <1>5, PlansEnd DEF Decided
  <2>2. Matches(k, row[i], saw)
    BY <1>3, <1>5, <2>1 DEF Matches
  <2>3. Written(k, row[i], saw) = Written(k, row[i], row[i])
    BY <1>3, <1>5, TaskWritesAre DEF Written
  <2> QED
    BY <1>1, <1>2, <1>3, <1>5, <2>1, <2>2, <2>3, TaskWritesAre DEF Commit
<1>6. CASE k = "purge"
  <2>1. Matches(k, row[i], saw)
    BY <1>6 DEF Matches
  <2>2. Written(k, row[i], saw) = Written(k, row[i], row[i])
    BY <1>3, <1>6, TaskWritesAre DEF Written
  <2> QED
    BY <1>1, <1>2, <1>3, <1>6, <2>1, <2>2, TaskWritesAre DEF Commit
<1> QED
  BY <1>1, <1>4, <1>5, <1>6

LEMMA CommitKeeps ==
  ASSUME IInv, NEW s \in Sessions, Commit(s)
  PROVE  IInv'
<1> DEFINE k == tx[s].kind
           i == tx[s].id
           r == Written(k, row[i], row[i])
<1>1. /\ i \in Ids /\ row[i] \in Row /\ HasTask(tx[s]) /\ HasRec(tx[s])
      /\ k \in TaskWrites \cup {"mark", "purge"}
      /\ k = "purge" => HasEvents(tx[s]) /\ row[i].rec = "deleting"
      /\ k # "purge" => row[i].rec = "live"
      /\ row' = [row EXCEPT ![i] = r]
      /\ row[i].events = row[i].seq
  BY CommitIsAtomic DEF IInv, Typed, RowsPaired
<1>2. r \in Row
  BY <1>1, WrittenTyped
<1>3. /\ k \in TaskWrites => r.rec = "live"
      /\ k = "mark" => r.rec = "deleting"
      /\ k = "purge" => r.rec = "gone" /\ r.status = "absent" /\ r.events = 0
      /\ r.events = r.seq
  BY <1>1, WrittenTyped, TaskWritesAre
<1>4. Close(s) /\ content' = content /\ named' = named
  BY DEF Commit
<1>5. KeysTyped'
  <2>1. CASE s \in Workers
    <3>1. key' = [key EXCEPT ![s] = KeyAfter(k, i, tx[s].saw)] /\ tx[s].saw.attempt \in Nat
      BY <2>1 DEF Commit, IInv, Typed, Tx, Row
    <3> DEFINE new == KeyAfter(k, i, tx[s].saw)
    <3>2. new \in [ id : Ids \cup {0}, attempt : Nat,
                    stage : {"none", "transcribing", "summarizing"} ]
      BY <1>1, <3>1 DEF KeyAfter, NoKey
    <3>3. new # NoKey => new.id \in Ids
      BY <1>1 DEF KeyAfter
    <3> QED
      BY <2>1, <3>1, <3>2, <3>3 DEF IInv, Typed, KeysTyped
  <2>2. CASE s \notin Workers
    BY <2>2 DEF Commit, IInv, Typed, KeysTyped
  <2> QED
    BY <2>1, <2>2
<1>6. i \in named
  BY <1>1 DEF IInv, RowsPaired
<1>7. ASSUME NEW o \in Sessions \ {s}, tx[o].id = i
      PROVE  /\ ~HasTask(tx[o]) /\ ~HasRec(tx[o]) /\ ~HasEvents(tx[o])
             /\ tx[o].kind \notin {"upload", "insert"}
             /\ tx[o].kind = "purge" => r.rec \in {"deleting", "gone"}
  <2>1. Apart(tx[s], tx[o]) /\ Fresh(tx[o]) /\ Decided(tx[o])
    BY DEF IInv
  <2>2. ~HasTask(tx[o]) /\ ~HasRec(tx[o])
    BY <1>1, <1>7, <2>1 DEF Apart
  <2>3. tx[o].kind \notin {"upload", "insert"}
    BY <1>1, <1>7, <2>1 DEF Decided
  <2>4. tx[o].kind = "purge" => k = "purge"
    BY <1>1, <1>7, <2>1 DEF Decided
  <2>5. ~HasEvents(tx[o])
    BY <1>1, <1>7, <2>1, <2>4 DEF Apart, HasEvents
  <2> QED
    BY <1>3, <2>2, <2>3, <2>4, <2>5
<1>8. r.rec = "live" => row[i].rec = "live"
  BY <1>1, <1>3
<1> QED
  BY <1>1, <1>2, <1>3, <1>4, <1>5, <1>6, <1>7, <1>8, RowsWritten, TaskWritesAre

LEMMA InsertKeeps ==
  ASSUME IInv, NEW h \in Sessions, Insert(h)
  PROVE  /\ IInv'
         /\ tx[h].id \in Ids /\ row[tx[h].id].rec = "none" /\ Reusable(tx[h].id) = {}
         /\ row' = [row EXCEPT ![tx[h].id] = Inserted]
<1> DEFINE i == tx[h].id
<1>1. /\ tx[h] \in Tx /\ tx[h].kind = "insert" /\ tx[h].got = 1 /\ i \in Ids
      /\ row[i].rec = "none" /\ i \in named /\ Reusable(i) = {} /\ HasHash(tx[h])
      /\ row[i] \in Row
  BY DEF IInv, Insert, Typed, Shaped, Decided, HasHash
<1>2. row' = [row EXCEPT ![i] = Inserted]
  BY TaskWritesAre DEF Insert, Written
<1>3. /\ Inserted \in Row /\ Inserted.rec = "live" /\ Inserted.events = Inserted.seq
  <2>1. "insert" \in TaskWrites \cup {"mark", "purge", "insert"}
    OBVIOUS
  <2>2. Written("insert", row[i], row[i]) = Inserted /\ Written("insert", row[i], row[i]) \in Row
    BY <1>1, <2>1, WrittenTyped
  <2>3. Inserted.rec = "live" /\ Inserted.events = Inserted.seq
    BY DEF Inserted
  <2> QED
    BY <2>2, <2>3
<1>4. Close(h) /\ content' = content /\ named' = named /\ KeysTyped'
  BY DEF Insert, IInv, Typed, KeysTyped
<1>5. ASSUME NEW o \in Sessions \ {h}, tx[o].id = i
      PROVE  /\ ~HasTask(tx[o]) /\ ~HasRec(tx[o]) /\ ~HasEvents(tx[o])
             /\ tx[o].kind \notin {"upload", "insert", "purge"}
  <2>1. Apart(tx[h], tx[o]) /\ Fresh(tx[o]) /\ Decided(tx[o])
    BY DEF IInv
  <2> QED
    BY <1>1, <1>5, <2>1 DEF Apart, Fresh, Decided
<1>6. ASSUME NEW o \in Sessions \ {h}, tx[o].kind = "insert"
      PROVE  content[tx[o].id] # content[i]
  <2>1. HasHash(tx[o]) /\ Apart(tx[h], tx[o])
    BY <1>6 DEF IInv, Shaped, HasHash
  <2> QED
    BY <1>1, <2>1 DEF Apart
<1>7. IInv'
  <2> PICK r \in Row : r = Inserted
    BY <1>3
  <2>1. /\ row' = [row EXCEPT ![i] = r] /\ r.rec = "live" /\ r.events = r.seq
        /\ r.rec \in {"none", "gone"} => r.status = "absent" /\ r.events = 0
    BY <1>2, <1>3
  <2>2. \A o \in Sessions \ {h} : tx[o].id = i =>
          /\ ~HasTask(tx[o]) /\ ~HasRec(tx[o]) /\ ~HasEvents(tx[o])
          /\ tx[o].kind \notin {"upload", "insert"}
          /\ tx[o].kind = "purge" => r.rec \in {"deleting", "gone"}
    BY <1>5
  <2>3. \A o \in Sessions \ {h} : tx[o].kind = "insert" /\ r.rec = "live" =>
          row[i].rec = "live" \/ content[tx[o].id] # content[i]
    BY <1>6
  <2> HIDE DEF i
  <2> QED
    BY <1>1, <1>4, <2>1, <2>2, <2>3, RowsWritten
<1> QED
  BY <1>1, <1>2, <1>7

-----------------------------------------------------------------------------
\* The steps that begin and end transactions

LEMMA EndsKeep ==
  ASSUME IInv, NEW s \in Sessions, Refuse(s) \/ Victim(s) \/ CommitReuse(s)
  PROVE  IInv'
<1>1. Close(s) /\ row' = row /\ content' = content /\ named' = named
  BY DEF Refuse, Victim, CommitReuse
<1>2. key' = key \/ key' = [key EXCEPT ![s] = NoKey]
  BY DEF Refuse, Victim, CommitReuse
<1>3. KeysTyped'
  BY <1>2 DEF IInv, Typed, KeysTyped, NoKey
<1> QED
  BY <1>1, <1>3, SessionCloses

LEMMA DropKeeps ==
  ASSUME IInv, NEW w \in Workers, Drop(w)
  PROVE  IInv'
<1>1. w \in Sessions
  BY DEF Sessions
<1>2. /\ tx[w] \in Tx /\ Shaped(tx[w]) /\ Fresh(tx[w]) /\ Decided(tx[w])
      /\ tx = [tx EXCEPT ![w] = tx[w]]
      /\ \A o \in Sessions \ {w} : Apart(tx[w], tx[o])
  BY <1>1 DEF IInv, Typed
<1>3. /\ tx' = tx /\ row' = row /\ content' = content /\ named' = named /\ named \subseteq Ids
      /\ KeysTyped'
  BY DEF Drop, IInv, Typed, KeysTyped, NoKey
<1> PICK t : t = tx[w]
  OBVIOUS
<1>4. Decided(t)'
  BY <1>2, <1>3 DEF Decided, Reusable
<1>5. tx' = [tx EXCEPT ![w] = t]
  BY <1>2, <1>3
<1> QED
  BY <1>1, <1>2, <1>3, <1>4, <1>5, SessionMoves

LEMMA EndStageKeeps ==
  ASSUME IInv, NEW w \in Workers, EndStage(w)
  PROVE  IInv'
<1>1. w \in Sessions /\ key[w].id \in Ids
  BY DEF Sessions, EndStage, IInv, Typed, KeysTyped
<1>2. PICK k \in {"fail", "save", "complete"} : Open(w, k, key[w].id)
  BY DEF EndStage
<1>3. k \in Kinds \ {"none", "insert", "claim"} /\ k # "purge" /\ k # "upload"
  BY <1>2, TaskWritesAre DEF Kinds
<1>4. /\ row' = row /\ content' = content /\ named' = named /\ named \subseteq Ids
      /\ KeysTyped'
  BY DEF EndStage, IInv, Typed, KeysTyped
<1> QED
  BY <1>1, <1>2, <1>3, <1>4, SessionOpens

LEMMA RequestKeeps ==
  ASSUME IInv, NEW s \in Sessions, NEW i \in Ids,
         Upload(s, i) \/ RetryTask(s, i) \/ MarkDeleting(s, i) \/ PurgeRecording(s, i)
  PROVE  IInv'
<1>1. /\ row' = row /\ content' = content /\ KeysTyped'
      /\ named \subseteq named' /\ named' \subseteq Ids
  BY DEF Upload, RetryTask, MarkDeleting, PurgeRecording, IInv, Typed, KeysTyped
<1>2. {"upload", "retry", "mark", "purge"} \subseteq Kinds \ {"none", "insert", "claim"}
  BY TaskWritesAre DEF Kinds
<1>3. CASE Upload(s, i)
  BY <1>1, <1>2, <1>3, SessionOpens DEF Upload
<1>4. CASE RetryTask(s, i)
  BY <1>1, <1>2, <1>4, SessionOpens DEF RetryTask
<1>5. CASE MarkDeleting(s, i)
  BY <1>1, <1>2, <1>5, SessionOpens DEF MarkDeleting
<1>6. CASE PurgeRecording(s, i)
  BY <1>1, <1>2, <1>6, SessionOpens DEF PurgeRecording
<1> QED
  BY <1>3, <1>4, <1>5, <1>6

-----------------------------------------------------------------------------
\* The invariant holds throughout

LEMMA InitInv == Init => IInv
<1> SUFFICES ASSUME Init PROVE IInv
  OBVIOUS
<1>1. \A s \in Sessions : tx[s] = NoTx
  BY DEF Init
<1>2. /\ ~HasHash(NoTx) /\ ~HasEvents(NoTx) /\ ~HasTask(NoTx) /\ ~HasRec(NoTx)
      /\ NoTx.kind = "none" /\ NoTx.got = 0
  BY TaskWritesAre DEF HasHash, HasEvents, HasTask, HasRec, NoTx
<1>3. Typed
  BY NoTxTyped DEF Init, Typed, KeysTyped, NoKey
<1>4. RowsPaired
  BY DEF Init, RowsPaired, NoRow
<1>5. Shaped(NoTx) /\ Fresh(NoTx) /\ Decided(NoTx) /\ Apart(NoTx, NoTx)
  BY <1>2, TaskWritesAre DEF Shaped, Fresh, Decided, Apart
<1> QED
  BY <1>1, <1>3, <1>4, <1>5 DEF IInv

LEMMA StepKeepsInv == IInv /\ [Next]_vars => IInv'
<1> SUFFICES ASSUME IInv, [Next]_vars PROVE IInv'
  OBVIOUS
<1>1. ASSUME NEW s \in Sessions, Step(s) \/ Victim(s) PROVE IInv'
  <2>1. CASE Lock(s)
    BY <2>1, LockKeeps
  <2>2. CASE Refuse(s) \/ Victim(s) \/ CommitReuse(s)
    BY <2>2, EndsKeep
  <2>3. CASE Commit(s)
    BY <2>3, CommitKeeps
  <2>4. CASE Reuse(s)
    BY <2>4, ReuseKeeps
  <2>5. CASE FindNone(s)
    BY <2>5, FindNoneKeeps
  <2>6. CASE Insert(s)
    BY <2>6, InsertKeeps
  <2> QED
    BY <1>1, <2>1, <2>2, <2>3, <2>4, <2>5, <2>6 DEF Step
<1>2. ASSUME NEW w \in Workers, Claim(w) \/ EndStage(w) \/ Drop(w) PROVE IInv'
  BY <1>2, ClaimKeeps, EndStageKeeps, DropKeeps
<1>3. ASSUME NEW h \in Handlers, NEW i \in Ids,
             Upload(h, i) \/ RetryTask(h, i) \/ MarkDeleting(h, i)
      PROVE  IInv'
  <2>1. h \in Sessions
    BY DEF Sessions
  <2> QED
    BY <1>3, <2>1, RequestKeeps
<1>4. ASSUME NEW f \in Finalizers, NEW i \in Ids, PurgeRecording(f, i) PROVE IInv'
  <2>1. f \in Sessions
    BY DEF Sessions
  <2> QED
    BY <1>4, <2>1, RequestKeeps
<1>5. CASE UNCHANGED vars
  BY <1>5 DEF vars, IInv, Typed, RowsPaired, KeysTyped, Shaped, Fresh, Decided, Apart,
              HasHash, HasEvents, HasTask, HasRec, Reusable
<1> QED
  BY <1>1, <1>2, <1>3, <1>4, <1>5 DEF Next

LEMMA AlwaysInv == Spec => []IInv
BY InitInv, StepKeepsInv, PTL DEF Spec

-----------------------------------------------------------------------------
\* What follows

\* The inductive invariant says what TypeOK says, lock by lock.
LEMMA InvTyped == IInv => TypeOK
<1> SUFFICES ASSUME IInv PROVE TypeOK
  OBVIOUS
<1>1. tx \in [Sessions -> [kind : Kinds, id : Ids \cup {0}, got : 0..3, saw : Row]]
  BY DEF IInv, Typed, Tx
<1>2. ASSUME NEW s \in Sessions, NEW n \in 1..tx[s].got, NEW o \in Sessions \ {s},
             NEW m \in 1..tx[o].got,
             LockOf(Plan[tx[o].kind][m], tx[o].id) = LockOf(Plan[tx[s].kind][n], tx[s].id)
      PROVE  FALSE
  <2>1. HasName(tx[s], Plan[tx[s].kind][n]) /\ HasName(tx[o], Plan[tx[o].kind][m])
    BY HasNamed
  <2>2. Apart(tx[s], tx[o]) /\ Plan[tx[s].kind][n] \in {"hash", "events", "task", "rec"}
    BY HasNamed DEF IInv
  <2>3. /\ Plan[tx[s].kind][n] = Plan[tx[o].kind][m]
        /\ Plan[tx[s].kind][n] # "hash" => tx[s].id = tx[o].id
        /\ Plan[tx[s].kind][n] = "hash" => content[tx[s].id] = content[tx[o].id]
    BY <1>2 DEF LockOf
  <2> PICK name : name = Plan[tx[s].kind][n]
    OBVIOUS
  <2>4. /\ HasName(tx[s], name) /\ HasName(tx[o], name)
        /\ name \in {"hash", "events", "task", "rec"}
        /\ name # "hash" => tx[s].id = tx[o].id
        /\ name = "hash" => content[tx[s].id] = content[tx[o].id]
    BY <2>1, <2>2, <2>3
  <2> QED
    BY <2>2, <2>4 DEF Apart, HasName
<1>3. ASSUME NEW s \in Sessions, NEW n \in 1..tx[s].got
      PROVE  Free(s, LockOf(Plan[tx[s].kind][n], tx[s].id))
  BY <1>2, <1>3 DEF Free, Holds
<1> QED
  BY <1>1, <1>3 DEF IInv, Typed, KeysTyped, TypeOK

\* TypeOK: whatever the recordings and the sessions, rows keep their types and no
\* row is locked by two transactions at once.
THEOREM SpecTypeOK == Spec => []TypeOK
BY AlwaysInv, InvTyped, PTL

\* EventsNumbered: the transactions that append to task_events never take the same
\* number twice and the purge leaves none behind, however many run at once.
THEOREM SpecEventsNumbered == Spec => []EventsNumbered
<1>1. IInv => EventsNumbered
  BY DEF IInv, RowsPaired, EventsNumbered
<1> QED
  BY <1>1, AlwaysInv, PTL

\* Who waits and is waited for has rows of one recording, unless it waits for a hash.
LEMMA WaitsHave ==
  ASSUME IInv, NEW s \in Sessions, NEW o \in Sessions, WaitsFor(s, o)
  PROVE  /\ HasName(tx[o], Name(s))
         /\ Name(s) \in {"hash", "events", "task", "rec"}
         /\ Name(s) # "hash" => tx[o].id = tx[s].id
<1>1. PICK n \in 1..tx[o].got :
        LockOf(Plan[tx[o].kind][n], tx[o].id) = LockOf(Name(s), tx[s].id)
  BY DEF WaitsFor, Wanted, Holds
<1>2. HasName(tx[o], Plan[tx[o].kind][n]) /\ Plan[tx[o].kind][n] \in {"hash", "events", "task", "rec"}
  BY HasNamed
<1>3. /\ Plan[tx[o].kind][n] = Name(s)
      /\ Name(s) # "hash" => tx[o].id = tx[s].id
  <2> HIDE DEF Name
  <2>1. PICK name : name = Plan[tx[o].kind][n]
    OBVIOUS
  <2>2. PICK wanted : wanted = Name(s)
    OBVIOUS
  <2>3. LockOf(name, tx[o].id) = LockOf(wanted, tx[s].id)
    BY <1>1, <2>1, <2>2
  <2>4. name = wanted /\ (wanted # "hash" => tx[o].id = tx[s].id)
    BY <2>3 DEF LockOf
  <2> QED BY <2>1, <2>2, <2>4
<1> QED BY <1>2, <1>3

\* What a transaction still wants, by what it is and has.
LEMMA WantsNext ==
  ASSUME IInv, NEW s \in Sessions, Locking(s)
  PROVE  /\ tx[s].kind \in Kinds /\ tx[s].got \in 0..3
         /\ tx[s].kind \in TaskWrites =>
              \/ tx[s].got = 0 /\ Name(s) = "task"
              \/ tx[s].got = 1 /\ Name(s) = "rec"
         /\ tx[s].kind = "purge" =>
              \/ tx[s].got = 0 /\ Name(s) = "events"
              \/ tx[s].got = 1 /\ Name(s) = "task"
              \/ tx[s].got = 2 /\ Name(s) = "rec"
         /\ tx[s].kind \in RecordingFirst =>
              \/ tx[s].got = 0 /\ Name(s) = "hash"
              \/ tx[s].got = 1 /\ Name(s) = "rec"
              \/ tx[s].got = 2 /\ Name(s) = "task"
         /\ tx[s].kind = "upload" => tx[s].got = 0
         /\ tx[s].kind \notin {"insert", "none"}
<1>1. tx[s].kind \in Kinds /\ tx[s].got \in 0..3 /\ tx[s].got < Len(Plan[tx[s].kind]) /\ Shaped(tx[s])
  BY DEF IInv, Typed, Tx, Locking
<1>2. ASSUME tx[s].kind \in TaskWrites
      PROVE  \/ tx[s].got = 0 /\ Name(s) = "task"
             \/ tx[s].got = 1 /\ Name(s) = "rec"
  <2>1. Plan[tx[s].kind] = <<"task", "rec">> /\ tx[s].got < 2
    <3>1. Len(Plan[tx[s].kind]) = 2
      BY <1>2, PlansEnd
    <3> QED BY <1>1, <1>2, <3>1, PlansAre
  <2> QED BY <1>1, <2>1 DEF Name
<1>3. ASSUME tx[s].kind = "purge"
      PROVE  \/ tx[s].got = 0 /\ Name(s) = "events"
             \/ tx[s].got = 1 /\ Name(s) = "task"
             \/ tx[s].got = 2 /\ Name(s) = "rec"
  <2>1. Plan[tx[s].kind] = <<"events", "task", "rec">> /\ tx[s].got \in {0, 1, 2}
    BY <1>1, <1>3, PlansAre, PlansEnd
  <2> QED BY <2>1 DEF Name
<1>4. ASSUME tx[s].kind \in RecordingFirst
      PROVE  \/ tx[s].got = 0 /\ Name(s) = "hash"
             \/ tx[s].got = 1 /\ Name(s) = "rec"
             \/ tx[s].got = 2 /\ Name(s) = "task"
  <2>1. Plan[tx[s].kind] = <<"hash", "rec", "task">>
    BY <1>4, PlansAre DEF RecordingFirst
  <2>2. Len(Plan[tx[s].kind]) = 3
    BY <1>4, PlansEnd DEF RecordingFirst
  <2>3. tx[s].got \in {0, 1, 2}
    BY <1>1, <2>2
  <2> QED BY <2>1, <2>3 DEF Name
<1>5. ASSUME tx[s].kind = "upload" PROVE tx[s].got = 0
  <2>1. Len(Plan[tx[s].kind]) = 1
    BY <1>5, PlansEnd
  <2> QED BY <1>1, <2>1
<1>6. ASSUME tx[s].kind \in {"insert", "none"} PROVE FALSE
  <2>1. Len(Plan[tx[s].kind]) = IF tx[s].kind = "insert" THEN 1 ELSE 0
    BY <1>6, PlansEnd
  <2>2. tx[s].kind = "insert" => tx[s].got = 1
    BY <1>1 DEF Shaped
  <2> QED BY <1>1, <1>6, <2>1, <2>2
<1> QED BY <1>1, <1>2, <1>3, <1>4, <1>5, <1>6

LEMMA NamedRow ==
  ASSUME NEW t, NEW n \in {"hash", "events", "task", "rec"}, HasName(t, n)
  PROVE  \/ n = "hash" /\ HasHash(t)
         \/ n = "events" /\ HasEvents(t)
         \/ n = "task" /\ HasTask(t)
         \/ n = "rec" /\ HasRec(t)
<1> HIDE DEF HasHash, HasEvents, HasTask, HasRec
<1> QED BY DEF HasName

\* DeadlocksCrossOrders: a deadlock is one of a deletion request, or of an upload that
\* found a duplicate, with a worker's write, a retry or a purge, and no other.
THEOREM SpecDeadlocksCrossOrders == Spec => []DeadlocksCrossOrders
<1>1. ASSUME IInv, NEW s \in Sessions, NEW o \in Sessions, s # o, WaitsFor(s, o), WaitsFor(o, s)
      PROVE  tx[s].kind \in RecordingFirst <=> tx[o].kind \notin RecordingFirst
  <2>1. Locking(s) /\ Locking(o) /\ Apart(tx[s], tx[o])
    BY <1>1 DEF WaitsFor, IInv
  <2>2. /\ HasName(tx[o], Name(s)) /\ HasName(tx[s], Name(o))
        /\ Name(s) # "hash" => tx[o].id = tx[s].id
        /\ Name(o) # "hash" => tx[o].id = tx[s].id
    BY <1>1, WaitsHave
  <2>3. CASE tx[s].kind \in RecordingFirst /\ tx[o].kind \in RecordingFirst
    <3>1. /\ tx[s].kind \notin TaskWrites \cup {"purge"}
          /\ tx[o].kind \notin TaskWrites \cup {"purge"}
      BY <2>3, TaskWritesAre DEF RecordingFirst
    <3>2. ASSUME NEW t \in Sessions, NEW n \in {"hash", "events", "task", "rec"},
                 tx[t].kind \in RecordingFirst, tx[t].kind \notin TaskWrites \cup {"purge"},
                 HasName(tx[t], n)
          PROVE  n # "events" /\ tx[t].got >= 1
      <4>1. tx[t].got \in 0..3
        BY <1>1 DEF IInv, Typed, Tx
      <4> QED BY <3>2, <4>1, NamedRow DEF HasHash, HasTask, HasRec, HasEvents, RecordingFirst
    <3>3. tx[s].got >= 1 /\ tx[o].got >= 1
      BY <1>1, <2>2, <2>3, <3>1, <3>2, WaitsHave
    <3>4. Name(s) # "hash"
      BY <1>1, <2>1, <2>3, <3>3, WantsNext
    <3>5. HasHash(tx[s]) /\ HasHash(tx[o])
      BY <2>3, <3>3 DEF HasHash, RecordingFirst
    <3> QED BY <2>1, <2>2, <3>4, <3>5 DEF Apart
  <2>4. CASE tx[s].kind \notin RecordingFirst /\ tx[o].kind \notin RecordingFirst
    <3>1. /\ tx[s].kind \in TaskWrites \cup {"purge", "upload"}
          /\ tx[o].kind \in TaskWrites \cup {"purge", "upload"}
      BY <1>1, <2>1, <2>4, WantsNext DEF Kinds, RecordingFirst
    <3>2. ASSUME NEW t \in Sessions, Locking(t), NEW n,
                 tx[t].kind \in TaskWrites \cup {"purge", "upload"}, HasName(tx[t], n),
                 n \in {"hash", "events", "task", "rec"}
          PROVE  /\ n \in {"events", "task"} /\ Name(t) \in {"task", "rec"}
                 /\ n = "task" => Name(t) = "rec"
      <4>1. CASE tx[t].kind \in TaskWrites
        <5>1. /\ tx[t].kind \notin {"mark", "upload", "insert", "reuse", "purge"}
              /\ \/ tx[t].got = 0
                 \/ tx[t].got = 1 /\ Name(t) = "rec"
          BY <1>1, <3>2, <4>1, TaskWritesAre, WantsNext
        <5> QED BY <3>2, <4>1, <5>1, NamedRow DEF HasHash, HasTask, HasRec, HasEvents
      <4>2. CASE tx[t].kind = "purge"
        <5>1. /\ tx[t].kind \notin TaskWrites
              /\ \/ tx[t].got = 0
                 \/ tx[t].got = 1 /\ Name(t) = "task"
                 \/ tx[t].got = 2 /\ Name(t) = "rec"
          BY <1>1, <3>2, <4>2, TaskWritesAre, WantsNext
        <5> QED BY <3>2, <4>2, <5>1, NamedRow DEF HasHash, HasTask, HasRec, HasEvents
      <4>3. CASE tx[t].kind = "upload"
        <5>1. tx[t].kind \notin TaskWrites /\ tx[t].got = 0
          BY <1>1, <3>2, <4>3, TaskWritesAre, WantsNext
        <5> QED BY <3>2, <4>3, <5>1, NamedRow DEF HasHash, HasTask, HasRec, HasEvents
      <4> QED BY <3>2, <4>1, <4>2, <4>3
    <3>3. /\ Name(s) \in {"events", "task"} /\ (Name(s) = "task" => Name(o) = "rec")
          /\ Name(o) \in {"events", "task"} /\ (Name(o) = "task" => Name(s) = "rec")
          /\ Name(s) \in {"task", "rec"} /\ Name(o) \in {"task", "rec"}
      BY <1>1, <2>1, <2>2, <3>1, <3>2, WaitsHave
    <3> QED BY <3>3
  <2> QED BY <2>3, <2>4
<1>2. IInv => DeadlocksCrossOrders
  BY <1>1 DEF DeadlocksCrossOrders
<1> QED
  BY <1>2, AlwaysInv, PTL

\* The abstract specification speaks of the same rows and writes.
LEMMA SameWrites ==
  /\ Atomic!NoRow = NoRow
  /\ Atomic!TaskWrites = TaskWrites
  /\ Atomic!From = From
  /\ \A k, cur, saw : Atomic!Written(k, cur, saw) = Written(k, cur, saw)
<1>1. Atomic!NoRow = NoRow /\ Atomic!From = From /\ Atomic!Inserted = Inserted
  BY DEF Atomic!NoRow, NoRow, Atomic!From, From, Atomic!Inserted, Inserted
<1>2. Atomic!TaskWrites = TaskWrites
  BY <1>1 DEF Atomic!TaskWrites, TaskWrites
<1>3. \A k, n : Atomic!StatusAfter(k, n) = StatusAfter(k, n)
  BY DEF Atomic!StatusAfter, StatusAfter
<1>4. \A k, n : Atomic!AttemptAfter(k, n) = AttemptAfter(k, n)
  BY <1>3 DEF Atomic!AttemptAfter, AttemptAfter
<1>5. ASSUME NEW k, NEW cur, NEW saw
      PROVE  Atomic!Written(k, cur, saw) = Written(k, cur, saw)
  BY <1>1, <1>2, <1>3, <1>4 DEF Atomic!Written, Written
<1> QED
  BY <1>1, <1>2, <1>5

\* Every step is one transaction of the abstract specification, or none.
LEMMA StepIsAtomic == IInv /\ [Next]_vars => [Atomic!Next]_Atomic!rowVars
<1> SUFFICES ASSUME IInv, [Next]_vars PROVE [Atomic!Next]_Atomic!rowVars
  OBVIOUS
<1> USE DEF Atomic!rowVars
<1>1. ASSUME NEW s \in Sessions, Commit(s) PROVE Atomic!Next
  <2>1. Atomic!Transact(tx[s].kind, tx[s].id)
    BY <1>1, CommitIsAtomic, SameWrites DEF Atomic!Transact, Atomic!Permits, Commit
  <2>2. tx[s].id \in Ids /\ tx[s].kind \in TaskWrites \cup {"mark", "purge", "insert"}
    BY <1>1, CommitIsAtomic
  <2> QED
    BY <2>1, <2>2, SameWrites DEF Atomic!Next
<1>2. ASSUME NEW h \in Sessions, Insert(h) PROVE Atomic!Next
  <2>1. /\ tx[h].id \in Ids /\ row[tx[h].id].rec = "none"
        /\ row' = [row EXCEPT ![tx[h].id] = Inserted] /\ content' = content
        /\ \A j \in Ids : ~(row[j].rec = "live" /\ content[j] = content[tx[h].id])
    BY <1>2, InsertKeeps DEF Insert, Reusable
  <2>2. \A r : Written("insert", r, r) = Inserted
    BY TaskWritesAre DEF Written
  <2>3. Atomic!Transact("insert", tx[h].id)
    BY <2>1, <2>2, SameWrites DEF Atomic!Transact, Atomic!Permits
  <2> QED
    BY <2>1, <2>3, SameWrites DEF Atomic!Next
<1>3. CASE row' = row /\ content' = content
  BY <1>3
<1>4. ASSUME NEW s \in Sessions, Step(s) \/ Victim(s) PROVE [Atomic!Next]_Atomic!rowVars
  BY <1>1, <1>2, <1>3, <1>4
     DEF Step, Lock, Refuse, Reuse, FindNone, CommitReuse, Victim
<1>5. ASSUME \/ \E w \in Workers : Claim(w) \/ EndStage(w) \/ Drop(w)
             \/ \E h \in Handlers, i \in Ids :
                  Upload(h, i) \/ RetryTask(h, i) \/ MarkDeleting(h, i)
             \/ \E f \in Finalizers, i \in Ids : PurgeRecording(f, i)
             \/ UNCHANGED vars
      PROVE  row' = row /\ content' = content
  BY <1>5 DEF Claim, EndStage, Drop, Upload, RetryTask, MarkDeleting, PurgeRecording, vars
<1> QED
  BY <1>3, <1>4, <1>5 DEF Next

\* Serial: whatever the recordings, contents and sessions, every transaction decides
\* and writes as if it had the rows to itself, which is how Pipeline and Uploads
\* take them.
THEOREM RowLocksImplementsAtomicRows == Spec => Serial
<1>1. Init => Atomic!Init
  BY SameWrites DEF Init, Atomic!Init
<1> QED
  BY <1>1, AlwaysInv, StepIsAtomic, PTL DEF Spec, Serial, Atomic!Spec
-----------------------------------------------------------------------------
\* The life cycle

\* A recording that is there has a task that was queued at least once; nothing is
\* left of one that is not.
RowWhole(r) ==
  IF r.rec \in {"live", "deleting"}
  THEN r.status \in Statuses /\ r.attempt # 0 /\ r.seq # 0
  ELSE r.status = "absent" /\ r.attempt = 0 /\ r.seq = 0

RowsWhole == \A i \in Ids : RowWhole(row[i])

\* What TaskLifecycle is told of a row.
LifeOf(r) ==
  [ status   |-> IF r.rec = "gone" THEN "purged" ELSE r.status,
    attempt  |-> r.attempt,
    eventSeq |-> r.seq ]

life == [i \in Ids |-> LifeOf(row[i])]

LEMMA SameVocabulary ==
  /\ Lifecycle!Statuses = Statuses
  /\ \A from, to : Lifecycle!CanTransition(from, to) <=> CanTransition(from, to)
BY DEF Lifecycle!Statuses, Lifecycle!InFlight, Statuses, InFlight,
       Lifecycle!CanTransition, Lifecycle!Transitions, CanTransition, Transitions

LEMMA LifeTyped == ASSUME NEW r \in Row, RowWhole(r) PROVE LifeOf(r) \in Lifecycle!Life
<1>1. CASE r.rec \in {"live", "deleting"}
  BY <1>1, SameVocabulary DEF RowWhole, LifeOf, Lifecycle!Life, Row
<1>2. CASE r.rec \notin {"live", "deleting"}
  <2>1. LifeOf(r) \in {Lifecycle!Absent, Lifecycle!Purged}
    BY <1>2 DEF RowWhole, LifeOf, Lifecycle!Absent, Lifecycle!Purged, Row
  <2> QED BY <2>1 DEF Lifecycle!Life
<1> QED BY <1>1, <1>2

\* A write to a task follows an edge of the domain, in a new attempt exactly when it
\* queues the task.
LEMMA WriteAdvances ==
  ASSUME NEW r \in Row, RowWhole(r), NEW k \in TaskWrites, r.rec = "live", r.status \in From[k]
  PROVE  /\ RowWhole(Written(k, r, r))
         /\ Lifecycle!Advance(LifeOf(r), LifeOf(Written(k, r, r)))
<1> DEFINE w == Written(k, r, r)
<1>1. w = [r EXCEPT !.status = StatusAfter(k, r.attempt), !.attempt = AttemptAfter(k, r.attempt),
                    !.seq = r.seq + 1, !.events = @ + 1]
  BY TaskWritesAre DEF Written
<1>2. /\ CanTransition(r.status, StatusAfter(k, r.attempt))
      /\ StatusAfter(k, r.attempt) \in Statuses
      /\ AttemptAfter(k, r.attempt) = IF StatusAfter(k, r.attempt) = "pending"
                                      THEN r.attempt + 1 ELSE r.attempt
  <2> USE DEF From, StatusAfter, AttemptAfter, CanTransition, Transitions, Statuses, InFlight
  <2>1. CASE k = "claim"
    BY <2>1
  <2>2. CASE k = "save"
    BY <2>2
  <2>3. CASE k = "complete"
    BY <2>3
  <2>4. CASE k = "fail"
    BY <2>4
  <2>5. CASE k = "retry"
    BY <2>5
  <2> QED BY TaskWritesAre, <2>1, <2>2, <2>3, <2>4, <2>5
<1>3. /\ w.rec = "live" /\ w.status = StatusAfter(k, r.attempt)
      /\ w.attempt = AttemptAfter(k, r.attempt) /\ w.seq = r.seq + 1
  BY <1>1 DEF Row
<1>4. r.attempt \in Nat /\ r.seq \in Nat /\ r.status \in Statuses /\ r.attempt # 0 /\ r.seq # 0
  BY DEF Row, RowWhole
<1>5. RowWhole(w)
  BY <1>2, <1>3, <1>4 DEF RowWhole
<1>6. Lifecycle!Advance(LifeOf(r), LifeOf(w))
  <2> HIDE DEF w
  <2>1. LifeOf(r) = [status |-> r.status, attempt |-> r.attempt, eventSeq |-> r.seq]
    BY DEF LifeOf
  <2>2. LifeOf(w) = [status |-> w.status, attempt |-> w.attempt, eventSeq |-> w.seq]
    BY <1>3 DEF LifeOf
  <2> QED BY <1>2, <1>3, <1>4, <2>1, <2>2, SameVocabulary DEF Lifecycle!Advance
<1> QED BY <1>5, <1>6

LEMMA TransactionSteps ==
  ASSUME NEW r \in Row, RowWhole(r), NEW k,
         \/ k \in TaskWrites /\ r.rec = "live" /\ r.status \in From[k]
         \/ k = "mark" /\ r.rec = "live"
         \/ k = "purge" /\ r.rec = "deleting"
         \/ k = "insert" /\ r.rec = "none"
  PROVE  /\ RowWhole(Written(k, r, r))
         /\ Lifecycle!Step(LifeOf(r), LifeOf(Written(k, r, r)))
<1> USE DEF Lifecycle!Step
<1>1. CASE k \in TaskWrites
  BY <1>1, WriteAdvances, TaskWritesAre
<1>2. CASE k = "mark" /\ r.rec = "live"
  <2>1. Written(k, r, r) = [r EXCEPT !.rec = "deleting", !.seq = r.seq + 1, !.events = @ + 1]
    BY <1>2, TaskWritesAre DEF Written
  <2> PICK w : w = Written(k, r, r)
    OBVIOUS
  <2>2. /\ w.rec = "deleting" /\ w.status = r.status
        /\ w.attempt = r.attempt /\ w.seq = r.seq + 1 /\ r.seq \in Nat
        /\ r.status \in Statuses /\ r.attempt # 0 /\ r.seq # 0
    BY <1>2, <2>1 DEF RowWhole, Row
  <2>3. RowWhole(w)
    BY <2>2 DEF RowWhole
  <2>4. Lifecycle!Note(LifeOf(r), LifeOf(w))
    BY <1>2, <2>2, SameVocabulary DEF LifeOf, Lifecycle!Note
  <2> QED BY <2>3, <2>4
<1>3. CASE k = "purge" /\ r.rec = "deleting"
  <2>1. Written(k, r, r) = [NoRow EXCEPT !.rec = "gone", !.events = r.events - r.events]
    BY <1>3, TaskWritesAre DEF Written
  <2>2. RowWhole(Written(k, r, r)) /\ LifeOf(Written(k, r, r)) = Lifecycle!Purged
    BY <2>1 DEF RowWhole, NoRow, LifeOf, Lifecycle!Purged
  <2>3. LifeOf(r).status \in Lifecycle!Statuses
    BY <1>3, SameVocabulary DEF RowWhole, LifeOf
  <2> QED BY <2>2, <2>3 DEF Lifecycle!Purge
<1>4. CASE k = "insert" /\ r.rec = "none"
  <2>1. Written(k, r, r) = Inserted
    BY <1>4, TaskWritesAre DEF Written
  <2>2. RowWhole(Inserted)
    BY DEF RowWhole, Inserted, Statuses
  <2>3. Lifecycle!Create(LifeOf(r), LifeOf(Inserted))
    BY <1>4 DEF RowWhole, LifeOf, Inserted, Lifecycle!Create, Lifecycle!Absent
  <2> QED BY <2>1, <2>2, <2>3
<1> QED BY <1>1, <1>2, <1>3, <1>4

LEMMA StepIsLifecycle ==
  ASSUME IInv, IInv', RowsWhole, [Next]_vars
  PROVE  RowsWhole' /\ [Lifecycle!Next]_life
<1>1. row \in [Ids -> Row] /\ row' \in [Ids -> Row]
  BY DEF IInv, Typed
<1>2. CASE UNCHANGED Atomic!rowVars
  BY <1>2 DEF Atomic!rowVars, RowsWhole, life
<1>3. CASE Atomic!Next
  <2>1. PICK k \in TaskWrites \cup {"mark", "purge", "insert"}, i \in Ids : Atomic!Transact(k, i)
    BY <1>3, SameWrites DEF Atomic!Next
  <2>2. row' = [row EXCEPT ![i] = Written(k, row[i], row[i])]
    BY <2>1, SameWrites DEF Atomic!Transact
  <2>3. /\ RowWhole(Written(k, row[i], row[i]))
        /\ Lifecycle!Step(LifeOf(row[i]), LifeOf(Written(k, row[i], row[i])))
    <3>1. \/ k \in TaskWrites /\ row[i].rec = "live" /\ row[i].status \in From[k]
          \/ k = "mark" /\ row[i].rec = "live"
          \/ k = "purge" /\ row[i].rec = "deleting"
          \/ k = "insert" /\ row[i].rec = "none"
      BY <2>1, SameWrites DEF Atomic!Transact, Atomic!Permits
    <3> QED BY <1>1, <3>1, TransactionSteps DEF RowsWhole
  <2>4. RowsWhole'
    BY <1>1, <2>2, <2>3 DEF RowsWhole
  <2>5. life' \in [Ids -> Lifecycle!Life]
    BY <1>1, <2>4, LifeTyped DEF life, RowsWhole
  <2>6. \A j \in Ids : life'[j] = life[j] \/ Lifecycle!Step(life[j], life'[j])
    BY <1>1, <2>2, <2>3 DEF life
  <2>7. Lifecycle!Next
    BY <2>5, <2>6 DEF Lifecycle!Next, life, LifeOf
  <2> QED BY <2>4, <2>7
<1> QED BY <1>2, <1>3, StepIsAtomic

\* Lock by lock, and whichever way transactions overtake each other, each task goes
\* through the state machine of the domain (task.go).
THEOREM RowLocksImplementsLifecycle == Spec => ImplementsLifecycle
<1>1. Init => RowsWhole /\ Lifecycle!Init
  BY DEF Init, NoRow, RowsWhole, RowWhole, Lifecycle!Init, Lifecycle!Absent
<1>2. IInv /\ IInv' /\ RowsWhole /\ [Next]_vars => RowsWhole' /\ [Lifecycle!Next]_life
  BY StepIsLifecycle
<1> QED
  BY <1>1, <1>2, AlwaysInv, PTL
     DEF Spec, ImplementsLifecycle, Lifecycle!Spec, life, LifeOf
=============================================================================
