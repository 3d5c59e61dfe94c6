------------------------------ MODULE Uploads ------------------------------
(***************************************************************************)
(* Uploads, deletions and the files they leave: an upload stores its file, *)
(* then reuses the live recording of the same content or creates its own,  *)
(* serialised by the hash lock row; a deletion marks, erases the file and  *)
(* purges the rows; start-up removes the files no row refers to.           *)
(*                                                                         *)
(* Files and rows live apart, and no step changes both.  Every request has *)
(* fresh names (UUIDs), so its file and the recording it may create are    *)
(* called after the request.  Rows are those committed; the task row comes *)
(* and goes with its recording and is Pipeline's subject.                  *)
(***************************************************************************)
EXTENDS Integers, FiniteSets

CONSTANTS
  Requests,   \* uploads, and the recordings and files named by them
  Contents,   \* what is uploaded, as told apart by its hash
  Deleters,   \* DELETE handlers and the clean-up loop
  Faults,     \* the failures the environment may produce
  None        \* nobody, nothing

ASSUME NoneAssumption == None \notin Requests \cup Contents \cup Deleters
ASSUME ActorAssumption == Requests \cap Deleters = {}
\* "save":   the upload breaks off while it is read, written or renamed
\* "write":  a transaction fails and is rolled back
\* "commit": the outcome of a commit, applied or not, never reaches the caller
\* "remove": a file cannot be removed
\* "read":   a query outside a transaction fails
\* "stop":   the process ends, by crash or shutdown, with requests under way
ASSUME FaultsAssumption ==
  Faults \subseteq {"save", "write", "commit", "remove", "read", "stop"}

VARIABLES
  disk,     \* the file of each request: "none", "tmp" or "final"
  rec,      \* recordings row: "none", "live", "deleting" or "gone"
  content,  \* content_hash of each request and of the recording it made
  lock,     \* who holds the hash lock row of a content, FOR UPDATE
  req,      \* where each upload is, the recording it found, and what it answered
  del,      \* where each deletion is
  up        \* the process serves

vars == <<disk, rec, content, lock, req, del, up>>

-----------------------------------------------------------------------------
Referenced(r) == rec[r] \in {"live", "deleting"}

NoAnswer  == [kind |-> "none", rec |-> None]
Refused   == [kind |-> "refused", rec |-> None]   \* a definite error
Unknown   == [kind |-> "unknown", rec |-> None]   \* the commit's outcome is unknown
Lost      == [kind |-> "lost", rec |-> None]      \* the process ended first
Created(r) == [kind |-> "created", rec |-> r]
Reused(s)  == [kind |-> "reused", rec |-> s]

Idle     == [pc |-> "idle", found |-> None, answer |-> NoAnswer]
Deciding == {"reusing", "inserting"}
HoldsLock == {"locked"} \cup Deciding
Underway == {"writing", "saved", "discarding"} \cup HoldsLock

At(r, l)     == req' = [req EXCEPT ![r].pc = l]
Answer(r, a) == req' = [req EXCEPT ![r].pc = "answered", ![r].answer = a]

Init ==
  /\ disk = [r \in Requests |-> "none"]
  /\ rec = [r \in Requests |-> "none"]
  /\ content = [r \in Requests |-> None]
  /\ lock = [h \in Contents |-> None]
  /\ req = [r \in Requests |-> Idle]
  /\ del = [d \in Deleters |-> [pc |-> "idle", rec |-> None]]
  /\ up = TRUE

-----------------------------------------------------------------------------
\* Upload: Save, then CreateOrReuseByContentHash, then what becomes of the file

\* Name and free space are checked before the temporary file exists; the hash is
\* known when the whole of it is read.
Save(r, h) ==
  /\ up
  /\ req[r].pc = "idle"
  /\ disk' = [disk EXCEPT ![r] = "tmp"]
  /\ content' = [content EXCEPT ![r] = h]
  /\ At(r, "writing")
  /\ UNCHANGED <<rec, lock, del, up>>

Rename(r) ==
  /\ req[r].pc = "writing"
  /\ disk' = [disk EXCEPT ![r] = "final"]
  /\ At(r, "saved")
  /\ UNCHANGED <<rec, content, lock, del, up>>

\* Empty, too large, cut off, disk full, rename refused: the temporary file is
\* removed, and whether that worked is not looked at.
SaveFails(r) ==
  /\ "save" \in Faults
  /\ req[r].pc = "writing"
  /\ \/ disk' = [disk EXCEPT ![r] = "none"]
     \/ "remove" \in Faults /\ UNCHANGED disk
  /\ Answer(r, Refused)
  /\ UNCHANGED <<rec, content, lock, del, up>>

\* Mutant: the lock row is read without FOR UPDATE.
LockHashShared(r) ==
  /\ req[r].pc = "saved"
  /\ lock' = [lock EXCEPT ![content[r]] = r]
  /\ At(r, "locked")
  /\ UNCHANGED <<disk, rec, content, del, up>>

LockHash(r) ==
  /\ req[r].pc = "saved"
  /\ lock[content[r]] = None
  /\ lock' = [lock EXCEPT ![content[r]] = r]
  /\ At(r, "locked")
  /\ UNCHANGED <<disk, rec, content, del, up>>

\* Mutant: a recording that is being deleted counts as reusable.
ReusableMarked(r) == {s \in Requests : Referenced(s) /\ content[s] = content[r]}

Reusable(r) == {s \in Requests : rec[s] = "live" /\ content[s] = content[r]}

FindReusable(r) ==
  /\ req[r].pc = "locked"
  /\ \/ \E s \in Reusable(r) :
          req' = [req EXCEPT ![r].pc = "reusing", ![r].found = s]
     \/ Reusable(r) = {} /\ At(r, "inserting")
  /\ UNCHANGED <<disk, rec, content, lock, del, up>>

Unlock(h) == lock' = [lock EXCEPT ![h] = None]

\* Mutant: the reuse branch returns without ending its transaction.
CommitReuseUnfinished(r) ==
  /\ req[r].pc = "reusing"
  /\ At(r, "discarding")
  /\ UNCHANGED <<disk, rec, content, lock, del, up>>

\* The reuse branch writes nothing; its own file is removed after the commit.
CommitReuse(r) ==
  /\ req[r].pc = "reusing"
  /\ Unlock(content[r])
  /\ At(r, "discarding")
  /\ UNCHANGED <<disk, rec, content, del, up>>

CommitCreate(r) ==
  /\ req[r].pc = "inserting"
  /\ rec' = [rec EXCEPT ![r] = "live"]
  /\ Unlock(content[r])
  /\ Answer(r, Created(r))
  /\ UNCHANGED <<disk, content, del, up>>

\* Mutant: an unknown outcome is taken for a rollback, and the file removed.
CommitUnknownDiscards(r) ==
  /\ "commit" \in Faults
  /\ req[r].pc \in Deciding
  /\ \/ req[r].pc = "inserting" /\ rec' = [rec EXCEPT ![r] = "live"]
     \/ UNCHANGED rec
  /\ disk' = [disk EXCEPT ![r] = "none"]
  /\ Unlock(content[r])
  /\ Answer(r, Unknown)
  /\ UNCHANGED <<content, del, up>>

\* ErrCommitUnknown: the rows may have been inserted, so the file is kept.
CommitUnknown(r) ==
  /\ "commit" \in Faults
  /\ req[r].pc \in Deciding
  /\ \/ req[r].pc = "inserting" /\ rec' = [rec EXCEPT ![r] = "live"]
     \/ UNCHANGED rec
  /\ Unlock(content[r])
  /\ Answer(r, Unknown)
  /\ UNCHANGED <<disk, content, del, up>>

\* Any other error, before or inside the transaction, rolls it back.
Rollback(r) ==
  /\ "write" \in Faults
  /\ req[r].pc \in {"saved"} \cup HoldsLock
  /\ lock' = [h \in Contents |-> IF lock[h] = r THEN None ELSE lock[h]]
  /\ req' = [req EXCEPT ![r].pc = "discarding", ![r].found = None]
  /\ UNCHANGED <<disk, rec, content, del, up>>

\* The file of an upload that was rolled back, or that reuses another's recording.
\* A reuse whose file cannot be removed is answered with an error.
Discard(r) ==
  /\ req[r].pc = "discarding"
  /\ \/ /\ disk' = [disk EXCEPT ![r] = "none"]
        /\ Answer(r, IF req[r].found = None THEN Refused ELSE Reused(req[r].found))
     \/ "remove" \in Faults /\ UNCHANGED disk /\ Answer(r, Refused)
  /\ UNCHANGED <<rec, content, lock, del, up>>

-----------------------------------------------------------------------------
\* Deletion: MarkDeleting under the hash lock, then finalize

Await(d, l, s) == del' = [del EXCEPT ![d] = [pc |-> l, rec |-> s]]

LockForMark(d, s) ==
  /\ up
  /\ del[d].pc = "idle"
  /\ Referenced(s)
  /\ lock[content[s]] = None
  /\ lock' = [lock EXCEPT ![content[s]] = d]
  /\ Await(d, "marking", s)
  /\ UNCHANGED <<disk, rec, content, req, up>>

\* Under the locks: marks a live recording, goes on with a marked one, and ends
\* with one that was purged meanwhile.  The request also ends when the outcome is
\* unknown, when the clean-up view cannot be read, and on any error.
MarkDeleting(d) ==
  LET s == del[d].rec IN
  /\ del[d].pc = "marking"
  /\ Unlock(content[s])
  /\ \/ Referenced(s) /\ rec' = [rec EXCEPT ![s] = "deleting"] /\ Await(d, "erase", s)
     \/ ~Referenced(s) /\ UNCHANGED rec /\ Await(d, "idle", None)
     \/ /\ Faults \cap {"commit", "read"} # {} /\ Referenced(s)
        /\ rec' = [rec EXCEPT ![s] = "deleting"]
        /\ Await(d, "idle", None)
     \/ Faults \cap {"commit", "write"} # {} /\ UNCHANGED rec /\ Await(d, "idle", None)
  /\ UNCHANGED <<disk, content, req, up>>

ListDeleting(d, s) ==
  /\ up
  /\ del[d].pc = "idle"
  /\ rec[s] = "deleting"
  /\ Await(d, "erase", s)
  /\ UNCHANGED <<disk, rec, content, lock, req, up>>

\* Mutant: a file that cannot be removed does not stop the purge.
EraseFileOrGoOn(d) ==
  LET s == del[d].rec IN
  /\ del[d].pc = "erase"
  /\ \/ disk' = [disk EXCEPT ![s] = "none"]
     \/ "remove" \in Faults /\ UNCHANGED disk
  /\ Await(d, "purge", s)
  /\ UNCHANGED <<rec, content, lock, req, up>>

\* A file that is gone already is no error.
EraseFile(d) ==
  LET s == del[d].rec IN
  /\ del[d].pc = "erase"
  /\ \/ disk' = [disk EXCEPT ![s] = "none"] /\ Await(d, "purge", s)
     \/ "remove" \in Faults /\ UNCHANGED disk /\ Await(d, "idle", None)
  /\ UNCHANGED <<rec, content, lock, req, up>>

PurgeRecording(d) ==
  LET s == del[d].rec IN
  /\ del[d].pc = "purge"
  /\ \/ rec' = [rec EXCEPT ![s] = "gone"]
     \/ Faults \cap {"commit", "write"} # {} /\ UNCHANGED rec
  /\ Await(d, "idle", None)
  /\ UNCHANGED <<disk, content, lock, req, up>>

-----------------------------------------------------------------------------
\* The process ends and starts again

\* Transactions under way are rolled back by the database; files stay.
ProcessEnds ==
  /\ "stop" \in Faults
  /\ up
  /\ up' = FALSE
  /\ lock' = [h \in Contents |-> None]
  /\ req' = [r \in Requests |->
       IF req[r].pc \in Underway
       THEN [req[r] EXCEPT !.pc = "answered", !.answer = Lost] ELSE req[r]]
  /\ del' = [d \in Deleters |-> [pc |-> "idle", rec |-> None]]
  /\ UNCHANGED <<disk, rec, content>>

\* The deletions start-up recovery carries out: the file, then the rows.
ResumeDeletions(erased, purged) ==
  /\ purged \subseteq erased
  /\ \A s \in erased : rec[s] = "deleting"
  /\ rec' = [s \in Requests |-> IF s \in purged THEN "gone" ELSE rec[s]]

\* Mutant: temporary files are left to the request that wrote them.
OrphanFinal(r, erased) ==
  disk[r] = "final" /\ r \notin erased /\ rec[r] \in {"none", "gone"}

\* What RemoveOrphanFiles finds after those deletions: temporary files, and files
\* of which no row tells the path.
Orphan(r, erased) ==
  \/ disk[r] = "tmp"
  \/ disk[r] = "final" /\ r \notin erased /\ ~Referenced(r)

\* Start-up has the system to itself: no workers, no requests.  Where the given
\* failures occur it may be cut off anywhere and start over; otherwise it leaves
\* undone only what failed, and goes on.  Nothing is removed when the directory or
\* the references cannot be read.
RecoverAmid(failures) ==
  LET marked == {s \in Requests : rec[s] = "deleting"}
      Fails(kinds) == failures \cap (kinds \cup (IF up' THEN {} ELSE {"stop"})) # {}
  IN
  /\ ~up
  /\ up' \in (IF "stop" \in failures THEN BOOLEAN ELSE {TRUE})
  /\ \E erased, purged \in SUBSET marked :
       /\ ResumeDeletions(erased, purged)
       /\ erased # marked => Fails({"remove", "read"})
       /\ purged # erased => Fails({"write", "commit"})
       /\ LET orphans == {r \in Requests : Orphan(r, erased)} IN
          \E kept \in SUBSET orphans :
            /\ kept # {} => Fails({"remove", "read"})
            /\ disk' = [r \in Requests |->
                 IF r \in erased \cup (orphans \ kept) THEN "none" ELSE disk[r]]
  /\ UNCHANGED <<content, lock, req, del>>

Recover == RecoverAmid(Faults)

-----------------------------------------------------------------------------
UploadStep(r) ==
  \/ \E h \in Contents : Save(r, h)
  \/ Rename(r) \/ SaveFails(r) \/ LockHash(r) \/ FindReusable(r)
  \/ CommitReuse(r) \/ CommitCreate(r) \/ CommitUnknown(r) \/ Rollback(r) \/ Discard(r)

DeleteStep(d) ==
  \/ \E s \in Requests : LockForMark(d, s) \/ ListDeleting(d, s)
  \/ MarkDeleting(d) \/ EraseFile(d) \/ PurgeRecording(d)

Next ==
  \/ \E r \in Requests : UploadStep(r)
  \/ \E d \in Deleters : DeleteStep(d)
  \/ ProcessEnds \/ Recover

Spec == Init /\ [][Next]_vars

-----------------------------------------------------------------------------
\* Properties

Answers == {NoAnswer, Refused, Unknown, Lost}
             \cup {Created(r) : r \in Requests} \cup {Reused(r) : r \in Requests}

LocksHeld ==
  /\ \A h \in Contents, r \in Requests :
       lock[h] = r <=> req[r].pc \in HoldsLock /\ content[r] = h
  /\ \A h \in Contents, d \in Deleters :
       lock[h] = d <=> del[d].pc = "marking" /\ content[del[d].rec] = h

\* Types; besides, the lock row of a content is held by exactly those inside a
\* transaction on it, and no transaction outlives the process.
TypeOK ==
  /\ disk \in [Requests -> {"none", "tmp", "final"}]
  /\ rec \in [Requests -> {"none", "live", "deleting", "gone"}]
  /\ content \in [Requests -> Contents \cup {None}]
  /\ lock \in [Contents -> Requests \cup Deleters \cup {None}]
  /\ req \in [Requests -> [ pc : {"idle", "answered"} \cup Underway,
                            found : Requests \cup {None}, answer : Answers ]]
  /\ del \in [Deleters -> [ pc : {"idle", "marking", "erase", "purge"},
                            rec : Requests \cup {None} ]]
  /\ up \in BOOLEAN
  /\ LocksHeld

\* One content has one live recording, however many requests upload it at once,
\* with deletions, rollbacks and unknown commits in between.
OneLivePerContent ==
  \A r, s \in Requests :
    rec[r] = "live" /\ rec[s] = "live" /\ content[r] = content[s] => r = s

\* A live recording has its file: neither a compensation after a failed commit,
\* nor the removal of a duplicate, nor the orphan check at start-up ever takes it.
LiveHasFile == \A r \in Requests : rec[r] = "live" => disk[r] = "final"

\* A file outlives its request without a row to find it by only if the request was
\* never told of success: it was refused for want of removing the file, or does not
\* know its outcome, or was cut off.  A purge leaves no file behind.
OnlyFailuresLeaveFiles ==
  \A r \in Requests :
    disk[r] # "none" /\ ~Referenced(r) /\ req[r].pc \notin Underway =>
      /\ rec[r] = "none"
      /\ req[r].answer \in {Refused, Unknown, Lost}

\* An upload answered with another's recording was so while that recording was
\* live: from the commit that reuses it nothing had marked it for deletion.
ReuseIsLive ==
  [][\A r \in Requests :
       req[r].pc = "reusing" /\ req'[r].pc = "discarding" /\ req'[r].found # None
         => rec[req[r].found] = "live"]_vars

\* A start-up in which no file operation and no query fails, though purges may, leaves
\* only referenced files, whatever earlier requests, deletions that failed and
\* start-ups that were cut off have left.
RecoverySweeps ==
  [][RecoverAmid(Faults \cap {"write", "commit"}) =>
       \A r \in Requests : disk'[r] # "none" => Referenced(r)']_vars
=============================================================================
