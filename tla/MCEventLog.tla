----------------------------- MODULE MCEventLog -----------------------------
(* Small instances of the event log.                                       *)
EXTENDS EventLog, TLC

\* Conversations are interchangeable.
Symmetry == Permutations(Cases)
=============================================================================
