-------------------------- MODULE MCAgentConnections --------------------------
(* Values for the constants of AgentConnections.                            *)
EXTENDS AgentConnections

ThreeConns == 1 .. 3
OneCall == {1}
TwoCalls == 1 .. 2
ProcsAreAlike == Permutations(Procs)
=============================================================================
