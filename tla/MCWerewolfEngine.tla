-------------------------- MODULE MCWerewolfEngine --------------------------
(* Values for the constants of WerewolfEngine: five players, fewer than    *)
(* the nine of the code, one of every role.                                 *)
EXTENDS WerewolfEngine, TLC

CONSTANTS w1, v1, s1, x1, h1

RoleMap ==
  w1 :> "werewolf" @@ v1 :> "villager" @@
  s1 :> "seer" @@ x1 :> "witch" @@ h1 :> "hunter"
=============================================================================
