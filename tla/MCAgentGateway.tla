--------------------------- MODULE MCAgentGateway ---------------------------
(* Small instances of AgentGateway for TLC.                                *)
EXTENDS AgentGateway, TLC

\* Viewers, connections and shells are interchangeable.
Symmetry == Permutations(Viewers) \cup Permutations(Conns) \cup Permutations(Shells)
=============================================================================
