--------------------------- MODULE MCWerewolfMatch ---------------------------
(* Values for the constants of WerewolfMatch.                               *)
EXTENDS WerewolfMatch, TLC

CONSTANTS w1, w2, v1, s1, x1, h1

RoleOfAll ==
  w1 :> "werewolf" @@ w2 :> "werewolf" @@ v1 :> "villager" @@
  s1 :> "seer" @@ x1 :> "witch" @@ h1 :> "hunter"
RoleMap == [p \in Players |-> RoleOfAll[p]]

\* The hunter first and the witch early: her fallback poisons the first other
\* player, the wolves' kills the first that is not theirs.
SeatOfAll == h1 :> 0 @@ x1 :> 1 @@ w1 :> 2 @@ v1 :> 3 @@ s1 :> 4 @@ w2 :> 5
SeatMap == [p \in Players |-> SeatOfAll[p]]
=============================================================================
