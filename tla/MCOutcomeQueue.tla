--------------------------- MODULE MCOutcomeQueue ---------------------------
(* Small instances of the outcome queue.                                   *)
EXTENDS OutcomeQueue, TLC

\* Threads are interchangeable.
Symmetry == Permutations(Clients)
=============================================================================
