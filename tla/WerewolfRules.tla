--------------------------- MODULE WerewolfRules ----------------------------
(***************************************************************************)
(* What a game of werewolf promises to a spectator, whatever the phases,   *)
(* votes and potions behind it: players die, at most two at a time and     *)
(* never to return; a side is declared the winner together with a death,   *)
(* only if the survivors decide the game for it; and then nothing changes. *)
(***************************************************************************)
CONSTANTS Players, SideWinning(_)   \* the verdict on a set of survivors

VARIABLES alive, winner

Init == alive = Players /\ winner = "none"

\* A player dies, or two; the verdict may have to wait for a hunter's shot.
Die(p, q) ==
  /\ winner = "none"
  /\ alive' = alive \ {p, q}
  /\ winner' \in {"none", SideWinning(alive')}

\* The verdict that waited for a shot which the hunter did not take.
Declare ==
  /\ winner = "none"
  /\ winner' = SideWinning(alive)
  /\ UNCHANGED alive

Next == Declare \/ \E p, q \in alive : Die(p, q)

Spec == Init /\ [][Next]_<<alive, winner>>
=============================================================================
