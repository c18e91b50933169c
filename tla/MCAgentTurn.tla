---------------------------- MODULE MCAgentTurn ----------------------------
(* Small instances of the swarm.                                           *)
EXTENDS AgentTurn

\* Every agent may hand over to every other.
MCHandovers == [a \in Agents |-> Agents \ {a}]
=============================================================================
