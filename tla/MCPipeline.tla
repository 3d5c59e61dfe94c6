----------------------------- MODULE MCPipeline -----------------------------
\* Instances of Pipeline for TLC.
EXTENDS Pipeline, TLC

\* Workers and finalizers are interchangeable, and so are tasks: SKIP LOCKED is
\* modelled without an order.  Used for safety only.
ActorSymmetry == Permutations(Workers) \cup Permutations(Finalizers)
Symmetry == ActorSymmetry \cup Permutations(Tasks)
=============================================================================
