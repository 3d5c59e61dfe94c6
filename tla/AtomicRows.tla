------------------------------ MODULE AtomicRows ------------------------------
(***************************************************************************)
(* What the transactions promise together: each takes place as one step    *)
(* that decides and writes on the rows as they are.  This is how Pipeline  *)
(* and Uploads treat them; RowLocks is shown to implement it.              *)
(***************************************************************************)
EXTENDS RowWrites

VARIABLES
  row,      \* the committed rows of each recording
  content   \* content_hash of each recording, known before it is inserted

rowVars == <<row, content>>

Init ==
  /\ row = [i \in Ids |-> NoRow]
  /\ content \in [Ids -> Contents]

\* When transaction k on recording i writes anything.
Permits(k, i) ==
  \/ k \in TaskWrites /\ row[i].rec = "live" /\ row[i].status \in From[k]
  \/ k = "mark" /\ row[i].rec = "live"
  \/ k = "purge" /\ row[i].rec = "deleting"
  \/ /\ k = "insert" /\ row[i].rec = "none"
     /\ \A j \in Ids : ~(row[j].rec = "live" /\ content[j] = content[i])

Transact(k, i) ==
  /\ Permits(k, i)
  /\ row' = [row EXCEPT ![i] = Written(k, @, @)]
  /\ UNCHANGED content

Next == \E k \in TaskWrites \cup {"mark", "purge", "insert"}, i \in Ids : Transact(k, i)

Spec == Init /\ [][Next]_rowVars
=============================================================================
