--------------------------- MODULE MCLivePreview ---------------------------
(* Small instances of LivePreview for TLC. *)
EXTENDS LivePreview, TLC

\* No engine binary: every conversion is the worker's.
WorkerOnly == {[pool |-> FALSE, fallBack |-> TRUE, inline |-> i] : i \in BOOLEAN}

\* A project of several files on both lanes, or a single document on a pool
\* that does not fail.
EitherLane == {[pool |-> TRUE, fallBack |-> TRUE,  inline |-> FALSE],
               [pool |-> TRUE, fallBack |-> FALSE, inline |-> TRUE]}

Symmetry == Permutations(Tabs) \union Permutations(Sessions)
=============================================================================
