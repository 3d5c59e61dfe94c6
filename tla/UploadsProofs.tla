---------------------------- MODULE UploadsProofs ----------------------------
(***************************************************************************)
(* What uploads, deletions and start-ups never do to recordings and files, *)
(* for any number of requests, contents and deleters and any faults.       *)
(***************************************************************************)
EXTENDS Uploads, TLAPS

-----------------------------------------------------------------------------
\* The inductive invariant

ReqTyped ==
  req \in [Requests -> [ pc : {"idle", "answered"} \cup Underway,
                         found : Requests \cup {None}, answer : Answers ]]

DelTyped ==
  del \in [Deleters -> [ pc : {"idle", "marking", "erase", "purge"},
                         rec : Requests \cup {None} ]]

RowsTyped ==
  /\ disk \in [Requests -> {"none", "tmp", "final"}]
  /\ rec \in [Requests -> {"none", "live", "deleting", "gone"}]
  /\ content \in [Requests -> Contents \cup {None}]
  /\ lock \in [Contents -> Requests \cup Deleters \cup {None}]
  /\ up \in BOOLEAN

\* A request has its file until it decides, and its recording only once it answered;
\* what is left on the disk then without rows, it did not report as a success.
Request(r) ==
  /\ content[r] = None <=> req[r].pc = "idle"
  /\ req[r].pc # "answered" => rec[r] = "none"
  /\ req[r].pc = "idle" => disk[r] = "none"
  /\ req[r].pc \in {"saved"} \cup HoldsLock => disk[r] = "final"
  /\ req[r].pc = "answered" /\ rec[r] = "none" /\ disk[r] # "none" =>
       req[r].answer \in {Refused, Unknown, Lost}
  /\ rec[r] = "live" => disk[r] = "final"
  /\ rec[r] = "gone" => disk[r] = "none"

\* What a request found under the hash lock is still so.
Found(r) ==
  /\ req[r].pc = "reusing" =>
       /\ req[r].found \in Requests
       /\ rec[req[r].found] = "live"
       /\ content[req[r].found] = content[r]
  /\ req[r].pc = "inserting" => Reusable(r) = {}

\* A deletion is at a recording that was marked, and purges only without its file.
Deletion(d) ==
  /\ del[d].pc # "idle" => del[d].rec \in Requests /\ rec[del[d].rec] # "none"
  /\ del[d].pc \in {"erase", "purge"} => rec[del[d].rec] \in {"deleting", "gone"}
  /\ del[d].pc = "purge" => disk[del[d].rec] = "none"

\* Nothing is under way in a process that ended.
Quiet ==
  ~up => /\ \A r \in Requests : req[r].pc \notin Underway
         /\ \A d \in Deleters : del[d].pc = "idle"

Typed == RowsTyped /\ ReqTyped /\ DelTyped

IInv ==
  /\ Typed /\ LocksHeld /\ Quiet
  /\ \A r \in Requests : Request(r)
  /\ \A r \in Requests : Found(r)
  /\ \A d \in Deleters : Deletion(d)
  /\ OneLivePerContent

USE NoneAssumption, ActorAssumption

LEMMA InitInv == Init => IInv
<1> SUFFICES ASSUME Init PROVE IInv
  OBVIOUS
<1>1. Typed
  BY DEF Init, Typed, RowsTyped, ReqTyped, DelTyped, Idle, Answers
<1>2. LocksHeld /\ Quiet
  BY DEF Init, LocksHeld, Quiet, HoldsLock, Deciding, Idle
<1>3. \A r \in Requests : Request(r) /\ Found(r)
  BY DEF Init, Request, Found, HoldsLock, Deciding, Idle
<1>4. \A d \in Deleters : Deletion(d)
  BY DEF Init, Deletion
<1>5. OneLivePerContent
  BY DEF Init, OneLivePerContent
<1> QED BY <1>1, <1>2, <1>3, <1>4, <1>5 DEF IInv

-----------------------------------------------------------------------------
\* How a request moves and answers, and what an unlocking leaves

LEMMA Moves ==
  ASSUME ReqTyped, NEW r \in Requests, NEW l \in Underway, At(r, l) PROVE ReqTyped'
BY DEF ReqTyped, At, Underway

LEMMA Finds ==
  ASSUME ReqTyped, NEW r \in Requests, NEW l \in Underway, NEW f \in Requests \cup {None},
         req' = [req EXCEPT ![r].pc = l, ![r].found = f]
  PROVE  ReqTyped'
<1>1. [req[r] EXCEPT !.pc = l, !.found = f] \in
        [ pc : {"idle", "answered"} \cup Underway,
          found : Requests \cup {None}, answer : Answers ]
  BY DEF ReqTyped
<1>2. req' = [req EXCEPT ![r] = [req[r] EXCEPT !.pc = l, !.found = f]]
  BY DEF ReqTyped
<1> QED BY <1>1, <1>2 DEF ReqTyped

LEMMA Answering ==
  ASSUME ReqTyped, NEW r \in Requests, NEW a \in Answers, Answer(r, a)
  PROVE  /\ ReqTyped'
         /\ \A q \in Requests : req'[q].pc = IF q = r THEN "answered" ELSE req[q].pc
         /\ \A q \in Requests \ {r} : req'[q] = req[q]
         /\ req'[r].answer = a
BY DEF ReqTyped, Answer

LEMMA Unlocks ==
  ASSUME RowsTyped, NEW h, Unlock(h)
  PROVE  /\ lock' \in [Contents -> Requests \cup Deleters \cup {None}]
         /\ \A g \in Contents : lock'[g] = IF g = h THEN None ELSE lock[g]
BY DEF RowsTyped, Unlock

LEMMA PlainAnswers == {NoAnswer, Refused, Unknown, Lost} \subseteq Answers
BY DEF Answers

-----------------------------------------------------------------------------
\* One lemma per action, with a step for each part of the invariant

LEMMA SaveKeeps ==
  ASSUME IInv, NEW r \in Requests, NEW h \in Contents, Save(r, h) PROVE IInv'
<1> USE DEF Save, At
<1>1. Typed'
  BY DEF IInv, Typed, RowsTyped, ReqTyped, DelTyped, Underway
<1>2. LocksHeld'
  BY DEF IInv, LocksHeld, HoldsLock, Deciding, Request, Deletion
<1>3. Quiet'
  BY DEF Quiet
<1>4. \A q \in Requests : Request(q)'
  BY DEF IInv, Request, Typed, RowsTyped, ReqTyped, HoldsLock, Deciding
<1>5. \A q \in Requests : Found(q)'
  BY DEF IInv, Found, Request, Reusable
<1>6. \A d \in Deleters : Deletion(d)'
  BY DEF IInv, Deletion, Request
<1>7. OneLivePerContent'
  BY DEF IInv, OneLivePerContent, Request
<1> QED BY <1>1, <1>2, <1>3, <1>4, <1>5, <1>6, <1>7 DEF IInv

LEMMA RenameKeeps ==
  ASSUME IInv, NEW r \in Requests, Rename(r) PROVE IInv'
<1> USE DEF Rename, At
<1>1. Typed'
  BY DEF IInv, Typed, RowsTyped, ReqTyped, DelTyped, Underway
<1>2. LocksHeld'
  BY DEF IInv, LocksHeld, HoldsLock, Deciding
<1>3. Quiet'
  BY DEF IInv, Quiet, Underway
<1>4. \A q \in Requests : Request(q)'
  BY DEF IInv, Request, Typed, RowsTyped
<1>5. \A q \in Requests : Found(q)'
  BY DEF IInv, Found, Reusable
<1>6. \A e \in Deleters : Deletion(e)'
  BY DEF IInv, Deletion, Request
<1>7. OneLivePerContent'
  BY DEF IInv, OneLivePerContent
<1> QED BY <1>1, <1>2, <1>3, <1>4, <1>5, <1>6, <1>7 DEF IInv

LEMMA SaveFailsKeeps ==
  ASSUME IInv, NEW r \in Requests, SaveFails(r) PROVE IInv'
<1> USE DEF SaveFails, Answer
<1>1. Typed'
  BY Answering, PlainAnswers DEF IInv, Typed, RowsTyped, DelTyped
<1>2. LocksHeld'
  BY DEF IInv, LocksHeld, Typed, ReqTyped, HoldsLock, Deciding
<1>3. Quiet'
  BY DEF IInv, Quiet, Underway
<1>4. \A q \in Requests : Request(q)'
  BY DEF IInv, Request, Typed, RowsTyped, ReqTyped, HoldsLock, Deciding
<1>5. \A q \in Requests : Found(q)'
  BY DEF IInv, Found, Reusable, Typed, ReqTyped
<1>6. \A e \in Deleters : Deletion(e)'
  BY DEF IInv, Deletion, Typed, RowsTyped
<1>7. OneLivePerContent'
  BY DEF IInv, OneLivePerContent
<1> QED BY <1>1, <1>2, <1>3, <1>4, <1>5, <1>6, <1>7 DEF IInv

LEMMA LockHashKeeps ==
  ASSUME IInv, NEW r \in Requests, LockHash(r) PROVE IInv'
<1> USE DEF LockHash, At
<1>1. Typed'
  <2>1. ReqTyped'
    BY Moves DEF IInv, Typed, Underway, HoldsLock
  <2> QED BY <2>1 DEF IInv, Typed, RowsTyped, DelTyped
<1>2. LocksHeld'
  BY DEF IInv, LocksHeld, Typed, RowsTyped, ReqTyped, HoldsLock
<1>3. Quiet'
  BY DEF IInv, Quiet, Underway
<1>4. \A q \in Requests : Request(q)'
  BY DEF IInv, Request
<1>5. \A q \in Requests : Found(q)'
  BY DEF IInv, Found, Reusable
<1>6. \A e \in Deleters : Deletion(e)'
  BY DEF IInv, Deletion
<1>7. OneLivePerContent'
  BY DEF IInv, OneLivePerContent
<1> QED BY <1>1, <1>2, <1>3, <1>4, <1>5, <1>6, <1>7 DEF IInv

LEMMA FindReusableKeeps ==
  ASSUME IInv, NEW r \in Requests, FindReusable(r) PROVE IInv'
<1> USE DEF FindReusable, At
<1>1. Typed'
  <2>1. ReqTyped
    BY DEF IInv, Typed
  <2>2. ReqTyped'
    <3>1. CASE At(r, "inserting")
      BY <2>1, <3>1, Moves DEF Underway, HoldsLock, Deciding
    <3>2. ASSUME NEW s \in Reusable(r),
                 req' = [req EXCEPT ![r].pc = "reusing", ![r].found = s]
          PROVE  ReqTyped'
      BY <2>1, <3>2, Finds DEF Reusable, Underway, HoldsLock, Deciding
    <3> QED BY <3>1, <3>2
  <2> QED BY <2>2 DEF IInv, Typed, RowsTyped, DelTyped
<1>2. LocksHeld'
  BY DEF IInv, LocksHeld, Typed, ReqTyped, HoldsLock, Deciding
<1>3. Quiet'
  BY DEF IInv, Quiet, Underway, HoldsLock
<1>4. \A q \in Requests : Request(q)'
  BY DEF IInv, Request, Typed, ReqTyped, Underway, Deciding
<1>5. \A q \in Requests : Found(q)'
  BY DEF IInv, Found, Reusable, Typed, ReqTyped, Underway
<1>6. \A e \in Deleters : Deletion(e)'
  BY DEF IInv, Deletion
<1>7. OneLivePerContent'
  BY DEF IInv, OneLivePerContent
<1> QED BY <1>1, <1>2, <1>3, <1>4, <1>5, <1>6, <1>7 DEF IInv

LEMMA CommitReuseKeeps ==
  ASSUME IInv, NEW r \in Requests, CommitReuse(r) PROVE IInv'
<1> USE DEF CommitReuse, At, Unlock
<1>1. Typed'
  BY Moves, Unlocks DEF IInv, Typed, RowsTyped, DelTyped, Underway
<1>2. LocksHeld'
  BY DEF IInv, LocksHeld, Typed, RowsTyped, ReqTyped, HoldsLock, Deciding
<1>3. Quiet'
  BY DEF IInv, Quiet, Underway, HoldsLock, Deciding
<1>4. \A q \in Requests : Request(q)'
  BY DEF IInv, Request, Typed, ReqTyped, Underway
<1>5. \A q \in Requests : Found(q)'
  BY DEF IInv, Found, Reusable
<1>6. \A e \in Deleters : Deletion(e)'
  BY DEF IInv, Deletion
<1>7. OneLivePerContent'
  BY DEF IInv, OneLivePerContent
<1> QED BY <1>1, <1>2, <1>3, <1>4, <1>5, <1>6, <1>7 DEF IInv

LEMMA CommitCreateKeeps ==
  ASSUME IInv, NEW r \in Requests, CommitCreate(r) PROVE IInv'
<1>1. Typed'
  <2> USE DEF CommitCreate
  <2>1. Created(r) \in Answers
    BY DEF Answers
  <2>2. ReqTyped
    BY DEF IInv, Typed
  <2>3. ReqTyped'
    BY <2>1, <2>2, Answering
  <2> QED BY <2>3, Unlocks DEF IInv, Typed, RowsTyped, DelTyped
<1> USE DEF CommitCreate, Answer, Unlock
<1>2. LocksHeld'
  BY DEF IInv, LocksHeld, Typed, RowsTyped, ReqTyped, HoldsLock, Deciding
<1>3. Quiet'
  BY DEF IInv, Quiet, Underway, HoldsLock, Deciding
<1>4. \A q \in Requests : Request(q)'
  BY DEF IInv, Request, Typed, RowsTyped, ReqTyped, Underway
<1>5. \A q \in Requests : Found(q)'
  BY DEF IInv, Found, Request, Reusable, LocksHeld, Typed, RowsTyped, ReqTyped, Underway
<1>6. \A e \in Deleters : Deletion(e)'
  BY DEF IInv, Deletion, Request
<1>7. OneLivePerContent'
  BY DEF IInv, OneLivePerContent, Found, Reusable
<1> QED BY <1>1, <1>2, <1>3, <1>4, <1>5, <1>6, <1>7 DEF IInv

LEMMA CommitUnknownKeeps ==
  ASSUME IInv, NEW r \in Requests, CommitUnknown(r) PROVE IInv'
<1> USE DEF CommitUnknown, Answer, Unlock
<1>1. Typed'
  <2>1. ReqTyped'
    BY Answering, PlainAnswers DEF IInv, Typed
  <2> QED BY <2>1, Unlocks DEF IInv, Typed, RowsTyped, DelTyped
<1>2. LocksHeld'
  BY DEF IInv, LocksHeld, Typed, RowsTyped, ReqTyped, HoldsLock, Deciding
<1>3. Quiet'
  BY DEF IInv, Quiet, Underway, HoldsLock
<1>4. \A q \in Requests : Request(q)'
  BY DEF IInv, Request, Typed, RowsTyped, ReqTyped, HoldsLock
<1>5. \A q \in Requests : Found(q)'
  BY SMTT(30) DEF IInv, Found, Request, Reusable, LocksHeld, Typed, RowsTyped, ReqTyped, Underway
<1>6. \A e \in Deleters : Deletion(e)'
  BY DEF IInv, Deletion, Request, Typed, RowsTyped
<1>7. OneLivePerContent'
  BY DEF IInv, OneLivePerContent, Found, Reusable, Typed, RowsTyped
<1> QED BY <1>1, <1>2, <1>3, <1>4, <1>5, <1>6, <1>7 DEF IInv

LEMMA RollbackKeeps ==
  ASSUME IInv, NEW r \in Requests, Rollback(r) PROVE IInv'
<1> USE DEF Rollback
<1>1. Typed'
  <2>1. ReqTyped'
    BY Finds DEF IInv, Typed, Underway
  <2> QED BY <2>1 DEF IInv, Typed, RowsTyped, DelTyped
<1>2. LocksHeld'
  BY DEF IInv, LocksHeld, Typed, ReqTyped, HoldsLock, Deciding
<1>3. Quiet'
  BY DEF IInv, Quiet, Underway
<1>4. \A q \in Requests : Request(q)'
  BY DEF IInv, Request, Typed, ReqTyped, HoldsLock, Deciding
<1>5. \A q \in Requests : Found(q)'
  BY DEF IInv, Found, Reusable, Typed, ReqTyped
<1>6. \A e \in Deleters : Deletion(e)'
  BY DEF IInv, Deletion
<1>7. OneLivePerContent'
  BY DEF IInv, OneLivePerContent
<1> QED BY <1>1, <1>2, <1>3, <1>4, <1>5, <1>6, <1>7 DEF IInv

LEMMA DiscardKeeps ==
  ASSUME IInv, NEW r \in Requests, Discard(r) PROVE IInv'
<1> USE DEF Discard, Answer
<1>1. Typed'
  BY DEF IInv, Typed, RowsTyped, ReqTyped, DelTyped, HoldsLock
<1>2. LocksHeld'
  <2>1. PICK a : Answer(r, a)
    BY DEF Answer
  <2>2. \A q \in Requests : req'[q].pc = IF q = r THEN "answered" ELSE req[q].pc
    BY <2>1 DEF IInv, Typed, ReqTyped
  <2> QED BY <2>2 DEF IInv, LocksHeld, Typed, RowsTyped, DelTyped, HoldsLock, Deciding
<1>3. Quiet'
  BY DEF IInv, Quiet, Underway
<1>4. \A q \in Requests : Request(q)'
  BY DEF IInv, Request, Typed, RowsTyped, ReqTyped, DelTyped, HoldsLock, Deciding
<1>5. \A q \in Requests : Found(q)'
  BY DEF IInv, Found, Reusable, Typed, ReqTyped
<1>6. \A e \in Deleters : Deletion(e)'
  BY DEF IInv, Deletion, Typed, RowsTyped
<1>7. OneLivePerContent'
  BY DEF IInv, OneLivePerContent
<1> QED BY <1>1, <1>2, <1>3, <1>4, <1>5, <1>6, <1>7 DEF IInv

LEMMA LockForMarkKeeps ==
  ASSUME IInv, NEW d \in Deleters, NEW s \in Requests, LockForMark(d, s) PROVE IInv'
<1> USE DEF LockForMark, Await, Referenced
<1>1. Typed'
  BY DEF IInv, Typed, RowsTyped, ReqTyped, DelTyped
<1>2. LocksHeld'
  BY DEF IInv, LocksHeld, Typed, RowsTyped, DelTyped
<1>3. Quiet'
  BY DEF Quiet
<1>4. \A q \in Requests : Request(q)'
  BY DEF IInv, Request
<1>5. \A q \in Requests : Found(q)'
  BY DEF IInv, Found, Reusable
<1>6. \A e \in Deleters : Deletion(e)'
  BY DEF IInv, Deletion
<1>7. OneLivePerContent'
  BY DEF IInv, OneLivePerContent
<1> QED BY <1>1, <1>2, <1>3, <1>4, <1>5, <1>6, <1>7 DEF IInv

LEMMA MarkDeletingKeeps ==
  ASSUME IInv, NEW d \in Deleters, MarkDeleting(d) PROVE IInv'
<1> USE DEF MarkDeleting, Await, Referenced, Unlock
<1>1. Typed'
  <2>1. DelTyped'
    BY DEF IInv, Typed, DelTyped
  <2> QED BY <2>1, Unlocks DEF IInv, Typed, RowsTyped, ReqTyped
<1>2. LocksHeld'
  BY DEF IInv, LocksHeld, Typed, RowsTyped, DelTyped, HoldsLock, Deciding, Request
<1>3. Quiet'
  BY DEF IInv, Quiet
<1>4. \A q \in Requests : Request(q)'
  BY DEF IInv, Request, Typed, RowsTyped
<1>5. \A q \in Requests : Found(q)'
  BY DEF IInv, Found, Request, Reusable, LocksHeld, Deletion, Typed, RowsTyped, ReqTyped, Underway
<1>6. \A e \in Deleters : Deletion(e)'
  <2> TAKE e \in Deleters
  <2>1. Deletion(d) /\ Deletion(e)
    BY DEF IInv
  <2>2. CASE e = d
    BY <2>1, <2>2 DEF IInv, Deletion, Typed, RowsTyped, DelTyped
  <2>3. CASE e # d
    BY <2>1, <2>3 DEF IInv, Deletion, Typed, RowsTyped, DelTyped
  <2> QED BY <2>2, <2>3
<1>7. OneLivePerContent'
  BY DEF IInv, OneLivePerContent, Typed, RowsTyped
<1> QED BY <1>1, <1>2, <1>3, <1>4, <1>5, <1>6, <1>7 DEF IInv

LEMMA ListDeletingKeeps ==
  ASSUME IInv, NEW d \in Deleters, NEW s \in Requests, ListDeleting(d, s) PROVE IInv'
<1> USE DEF ListDeleting, Await
<1>1. Typed'
  BY DEF IInv, Typed, RowsTyped, ReqTyped, DelTyped
<1>2. LocksHeld'
  BY DEF IInv, LocksHeld
<1>3. Quiet'
  BY DEF Quiet
<1>4. \A q \in Requests : Request(q)'
  BY DEF IInv, Request
<1>5. \A q \in Requests : Found(q)'
  BY DEF IInv, Found, Reusable
<1>6. \A e \in Deleters : Deletion(e)'
  BY DEF IInv, Deletion
<1>7. OneLivePerContent'
  BY DEF IInv, OneLivePerContent
<1> QED BY <1>1, <1>2, <1>3, <1>4, <1>5, <1>6, <1>7 DEF IInv

LEMMA EraseFileKeeps ==
  ASSUME IInv, NEW d \in Deleters, EraseFile(d) PROVE IInv'
<1> USE DEF EraseFile, Await
<1>1. Typed'
  BY DEF IInv, Typed, RowsTyped, ReqTyped, DelTyped, Deciding
<1>2. LocksHeld'
  BY DEF IInv, LocksHeld, Typed, DelTyped
<1>3. Quiet'
  BY DEF IInv, Quiet
<1>4. \A q \in Requests : Request(q)'
  BY DEF IInv, Request, Deletion, Typed, RowsTyped, HoldsLock, Deciding
<1>5. \A q \in Requests : Found(q)'
  BY DEF IInv, Found, Reusable
<1>6. \A e \in Deleters : Deletion(e)'
  BY DEF IInv, Deletion, Typed, RowsTyped, DelTyped, Underway
<1>7. OneLivePerContent'
  BY DEF IInv, OneLivePerContent
<1> QED BY <1>1, <1>2, <1>3, <1>4, <1>5, <1>6, <1>7 DEF IInv

LEMMA PurgeRecordingKeeps ==
  ASSUME IInv, NEW d \in Deleters, PurgeRecording(d) PROVE IInv'
<1> USE DEF PurgeRecording, Await
<1>1. Typed'
  BY DEF IInv, Typed, RowsTyped, ReqTyped, DelTyped
<1>2. LocksHeld'
  BY DEF IInv, LocksHeld
<1>3. Quiet'
  BY DEF IInv, Quiet
<1>4. \A q \in Requests : Request(q)'
  BY DEF IInv, Request, Deletion, Typed, RowsTyped
<1>5. \A q \in Requests : Found(q)'
  BY DEF IInv, Found, Reusable, Deletion, Typed, RowsTyped
<1>6. \A e \in Deleters : Deletion(e)'
  BY DEF IInv, Deletion, Typed, RowsTyped
<1>7. OneLivePerContent'
  BY DEF IInv, OneLivePerContent, Typed, RowsTyped
<1> QED BY <1>1, <1>2, <1>3, <1>4, <1>5, <1>6, <1>7 DEF IInv

LEMMA ProcessEndsKeeps ==
  ASSUME IInv, ProcessEnds PROVE IInv'
<1>1. \A q \in Requests :
        req'[q] = IF req[q].pc \in Underway
                  THEN [req[q] EXCEPT !.pc = "answered", !.answer = Lost] ELSE req[q]
  BY DEF ProcessEnds
<1>2. \A q \in Requests :
        /\ req'[q].pc = IF req[q].pc \in Underway THEN "answered" ELSE req[q].pc
        /\ req'[q].pc \notin Underway
        /\ req'[q].answer = IF req[q].pc \in Underway THEN Lost ELSE req[q].answer
  <2> TAKE q \in Requests
  <2>1. DOMAIN req[q] = {"pc", "found", "answer"}
    BY DEF IInv, Typed, ReqTyped
  <2>2. CASE req[q].pc \in Underway
    BY <1>1, <2>1, <2>2, ZenonT(40) DEF Underway, HoldsLock, Deciding
  <2>3. CASE req[q].pc \notin Underway
    BY <1>1, <2>3
  <2> QED BY <2>2, <2>3
<1>3. ReqTyped'
  <2>1. req' = [q \in Requests |-> req'[q]]
    BY DEF ProcessEnds
  <2>2. ASSUME NEW q \in Requests
        PROVE  req'[q] \in [ pc : {"idle", "answered"} \cup Underway,
                             found : Requests \cup {None}, answer : Answers ]
    BY <1>1, PlainAnswers DEF IInv, Typed, ReqTyped
  <2> QED BY <2>1, <2>2 DEF ReqTyped
<1>4. /\ \A d \in Deleters : del'[d] = [pc |-> "idle", rec |-> None]
      /\ \A h \in Contents : lock'[h] = None
      /\ UNCHANGED <<disk, rec, content>>
  BY DEF ProcessEnds
<1>5. Typed'
  BY <1>3 DEF IInv, Typed, RowsTyped, DelTyped, ProcessEnds
<1>6. LocksHeld'
  BY <1>2, <1>4 DEF LocksHeld, Underway
<1>7. Quiet'
  BY <1>2, <1>4 DEF Quiet
<1>8. \A q \in Requests : Request(q)'
  BY <1>2, <1>4 DEF IInv, Request, Underway
<1>9. \A q \in Requests : Found(q)'
  BY <1>2 DEF Found, Underway, HoldsLock, Deciding
<1>10. \A e \in Deleters : Deletion(e)'
  BY <1>4 DEF Deletion
<1>11. OneLivePerContent'
  BY <1>4 DEF IInv, OneLivePerContent
<1> QED BY <1>5, <1>6, <1>7, <1>8, <1>9, <1>10, <1>11 DEF IInv

LEMMA RecoverKeeps ==
  ASSUME IInv, Recover PROVE IInv'
<1> USE DEF Recover, RecoverAmid, ResumeDeletions, Orphan, Referenced
<1>1. Typed'
  <2>1. rec' \in [Requests -> {"none", "live", "deleting", "gone"}]
    BY DEF IInv, Typed, RowsTyped
  <2>2. disk' \in [Requests -> {"none", "tmp", "final"}]
    BY DEF IInv, Typed, RowsTyped
  <2>3. up' \in BOOLEAN
    OBVIOUS
  <2> QED BY <2>1, <2>2, <2>3 DEF IInv, Typed, RowsTyped, ReqTyped, DelTyped
<1>2. LocksHeld'
  BY DEF IInv, LocksHeld
<1>3. Quiet'
  BY DEF IInv, Quiet
<1>4. \A q \in Requests : Request(q)'
  BY DEF IInv, Request, Quiet, Underway
<1>5. \A q \in Requests : Found(q)'
  BY DEF IInv, Found, Reusable
<1>6. \A e \in Deleters : Deletion(e)'
  BY DEF IInv, Deletion
<1>7. OneLivePerContent'
  BY DEF IInv, OneLivePerContent
<1> QED BY <1>1, <1>2, <1>3, <1>4, <1>5, <1>6, <1>7 DEF IInv

LEMMA StutterKeeps == ASSUME IInv, UNCHANGED vars PROVE IInv'
<1> USE DEF vars
<1>1. Typed' /\ LocksHeld' /\ Quiet'
  BY DEF IInv, Typed, RowsTyped, ReqTyped, DelTyped, LocksHeld, Quiet
<1>2. \A r \in Requests : Request(r)' /\ Found(r)'
  BY DEF IInv, Request, Found, Reusable
<1>3. (\A d \in Deleters : Deletion(d)') /\ OneLivePerContent'
  BY DEF IInv, Deletion, OneLivePerContent
<1> QED BY <1>1, <1>2, <1>3 DEF IInv

LEMMA NextKeeps == ASSUME IInv, [Next]_vars PROVE IInv'
<1>1. ASSUME NEW r \in Requests, UploadStep(r) PROVE IInv'
  BY <1>1, SaveKeeps, RenameKeeps, SaveFailsKeeps, LockHashKeeps, FindReusableKeeps,
     CommitReuseKeeps, CommitCreateKeeps, CommitUnknownKeeps, RollbackKeeps, DiscardKeeps
     DEF UploadStep
<1>2. ASSUME NEW d \in Deleters, DeleteStep(d) PROVE IInv'
  BY <1>2, LockForMarkKeeps, ListDeletingKeeps, MarkDeletingKeeps, EraseFileKeeps,
     PurgeRecordingKeeps DEF DeleteStep
<1> QED BY <1>1, <1>2, ProcessEndsKeeps, RecoverKeeps, StutterKeeps DEF Next

LEMMA Inductive == Spec => []IInv
<1>1. IInv /\ [Next]_vars => IInv'
  BY NextKeeps
<1> QED BY <1>1, InitInv, PTL DEF Spec

-----------------------------------------------------------------------------
\* What follows

\* Types, and hash locks that match the transactions under way: however requests,
\* deletions, failures and restarts interleave, no hash stays locked by a transaction
\* that is over, and none is worked under without its lock.
THEOREM SpecTypeOK == Spec => []TypeOK
<1>1. IInv => TypeOK
  BY DEF IInv, Typed, RowsTyped, ReqTyped, DelTyped, TypeOK
<1> QED BY <1>1, Inductive, PTL

\* CreateOrReuseByContentHash makes no second live recording of one content, however
\* many requests bring it at once.
THEOREM SpecOneLivePerContent == Spec => []OneLivePerContent
<1>1. IInv => OneLivePerContent
  BY DEF IInv
<1> QED BY <1>1, Inductive, PTL

\* A live recording has its file, whatever is removed after a failed transaction, in
\* a deletion or at start-up.
THEOREM SpecLiveHasFile == Spec => []LiveHasFile
<1>1. IInv => LiveHasFile
  BY DEF IInv, Request, LiveHasFile
<1> QED BY <1>1, Inductive, PTL

\* A file that is left without rows belongs to an upload that was not told of success.
THEOREM SpecOnlyFailuresLeaveFiles == Spec => []OnlyFailuresLeaveFiles
<1>1. ASSUME IInv, NEW r \in Requests, disk[r] # "none", ~Referenced(r),
             req[r].pc \notin Underway
      PROVE  rec[r] = "none" /\ req[r].answer \in {Refused, Unknown, Lost}
  <2>1. Request(r)
    BY <1>1 DEF IInv
  <2>2. rec[r] = "none"
    BY <1>1, <2>1 DEF IInv, Typed, RowsTyped, Request, Referenced
  <2>3. req[r].pc = "answered"
    BY <1>1, <2>1 DEF IInv, Typed, ReqTyped, Request
  <2> QED BY <1>1, <2>1, <2>2, <2>3 DEF Request
<1>2. IInv => OnlyFailuresLeaveFiles
  BY <1>1 DEF OnlyFailuresLeaveFiles
<1> QED BY <1>2, Inductive, PTL

\* Only the commit of a reuse ends it with the recording it found, and that recording
\* is live then: the hash lock keeps deletions out since it was found.
THEOREM SpecReuseIsLive == Spec => ReuseIsLive
<1>1. ASSUME IInv, [Next]_vars, NEW r \in Requests, req[r].pc = "reusing"
      PROVE  rec[req[r].found] = "live"
  BY <1>1 DEF IInv, Found
<1>2. IInv /\ [Next]_vars =>
        [\A r \in Requests :
           req[r].pc = "reusing" /\ req'[r].pc = "discarding" /\ req'[r].found # None
             => rec[req[r].found] = "live"]_vars
  BY <1>1
<1> QED BY <1>2, Inductive, PTL DEF Spec, ReuseIsLive

\* RecoverStartup with a directory it can read and files it can remove leaves no file
\* without rows, from whatever state the process ended in.
THEOREM SpecRecoverySweeps == Spec => RecoverySweeps
<1> DEFINE Purging == Faults \cap {"write", "commit"}
<1>1. ASSUME IInv, RecoverAmid(Purging), NEW r \in Requests, disk'[r] # "none"
      PROVE  Referenced(r)'
  <2>1. up' /\ Purging \cap {"remove", "read"} = {}
    BY <1>1 DEF RecoverAmid
  <2> DEFINE marked == {s \in Requests : rec[s] = "deleting"}
  <2>2. PICK erased \in SUBSET marked, purged \in SUBSET marked :
          /\ ResumeDeletions(erased, purged)
          /\ erased = marked
          /\ disk' = [s \in Requests |->
               IF s \in erased \cup {q \in Requests : Orphan(q, erased)}
               THEN "none" ELSE disk[s]]
    BY <1>1, <2>1 DEF RecoverAmid
  <2>3. r \notin erased /\ ~Orphan(r, erased) /\ disk[r] # "none"
    BY <1>1, <2>2
  <2>4. rec[r] = "live"
    BY <1>1, <2>2, <2>3 DEF Orphan, Referenced, IInv, Typed, RowsTyped
  <2> QED BY <2>2, <2>3, <2>4 DEF ResumeDeletions, Referenced
<1>2. IInv => [RecoverAmid(Purging) => \A r \in Requests : disk'[r] # "none" => Referenced(r)']_vars
  BY <1>1
<1> QED BY <1>2, Inductive, PTL DEF RecoverySweeps
=============================================================================
