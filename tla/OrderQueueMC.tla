---------------------------- MODULE OrderQueueMC ----------------------------
(* Small instances of OrderQueue.                                           *)
EXTENDS OrderQueue, TLC

\* Orders, workers and callers are interchangeable in every property checked,
\* and none of the run's properties is a liveness property.
Symmetry == Permutations(Orders) \cup Permutations(Workers) \cup Permutations(Callers)
=============================================================================
