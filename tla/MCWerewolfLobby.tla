---------------------------- MODULE MCWerewolfLobby ----------------------------
(* Two users, two agents, one invitation, two requests under way, a game of   *)
(* two seats.                                                                 *)
EXTENDS WerewolfLobby, TLC

Symmetry == Permutations(Users) \cup Permutations(Calls) \cup Permutations(Seats)
=============================================================================
