----------------------------- MODULE MCPokerHand -----------------------------
(* Values for the constants of PokerHand: three players, one seat empty.    *)
EXTENDS PokerNpc

SeatMap == [p \in Players |-> IF p = 2 THEN 3 ELSE p]
=============================================================================
