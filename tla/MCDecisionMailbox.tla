-------------------------- MODULE MCDecisionMailbox --------------------------
(* Values for the constants of DecisionMailbox: one agent, which all the    *)
(* requests are for and all the runners work for.                           *)
EXTENDS DecisionMailbox

CONSTANTS r1, r2

SameAgent == [q \in Requests |-> "a1"]
AgentOfRunner == [r \in Runners |-> "a1"]
=============================================================================
