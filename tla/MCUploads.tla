----------------------------- MODULE MCUploads -----------------------------
\* Instances of Uploads for TLC.
EXTENDS Uploads, TLC

\* Requests, contents and deleters are each interchangeable.
Symmetry == Permutations(Requests) \cup Permutations(Contents) \cup Permutations(Deleters)
=============================================================================
