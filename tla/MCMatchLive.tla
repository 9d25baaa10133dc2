------------------------------ MODULE MCMatchLive ------------------------------
(***************************************************************************)
(* What must come to an end: a whole werewolf match, the decisions of one   *)
(* agent behind an HTTP endpoint, and the hands of a poker table.  They     *)
(* share no state, so each run is of one of them, the others at rest: a     *)
(* match takes whatever answer or timeout an agent's decision ends in.      *)
(***************************************************************************)
EXTENDS MCWerewolfMatch, HttpAgent, PokerTable

CONSTANTS me, other

VARIABLE focus

LiveInit ==
  /\ MatchInit /\ HttpInit /\ TableInit
  /\ focus \in {"match", "http", "table"}
  /\ focus # "http" => endpoint = [kind |-> "poker", adapterMs |-> 1, handlerMs |-> 1]

MatchOnly == focus = "match" /\ UNCHANGED <<httpVars, tableVars, focus>>
HttpOnly == focus = "http" /\ UNCHANGED <<allVars, tableVars, focus>>
TableOnly == focus = "table" /\ UNCHANGED <<allVars, httpVars, focus>>

LiveNext ==
  \/ MatchOnly /\ MatchNext
  \/ HttpOnly /\ HttpNext
  \/ TableOnly /\ TableNext

\* At rest nothing is asked of a part, and its fairness asks nothing.
LiveSpec ==
  /\ LiveInit /\ [][LiveNext]_<<allVars, httpVars, tableVars, focus>>
  /\ Fairness /\ HttpFairness /\ TableFairness
=============================================================================
