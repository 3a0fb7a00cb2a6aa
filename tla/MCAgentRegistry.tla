--------------------------- MODULE MCAgentRegistry ---------------------------
(* Small instances of AgentRegistry for TLC.                               *)
EXTENDS AgentRegistry, TLC

\* Calls and agents have no order: any two may be swapped.
Symmetry == Permutations(Calls) \cup Permutations(Agents)
=============================================================================
