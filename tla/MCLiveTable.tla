----------------------------- MODULE MCLiveTable -----------------------------
(***************************************************************************)
(* Values for the constants of LiveTable, a table of two with the user of   *)
(* the page as a human in one seat and a mock agent of another user, the    *)
(* owner, in the other; and for those of PokerShowdown, two decks.  The     *)
(* cards have nothing to do with the page's steps: each run is of one of    *)
(* the two, the other at rest.                                              *)
(***************************************************************************)
EXTENDS LiveTable, PokerShowdown

CONSTANTS me, other, ann, bob

TwoSeated == 0 :> [agent |-> 1, owner |-> other, kind |-> "mock"] @@
             1 :> [agent |-> 2, owner |-> me, kind |-> "human"]

Card(r, s) == [rank |-> r, suit |-> s]
Suited(rs, s) == {Card(r, s) : r \in rs}
\* In the first deck four aces, full houses, a straight flush from ace to five; in
\* the second straights of other heights and pairs alike.
CardDecks ==
  {Suited({14, 2, 3, 4, 5}, "c") \cup Suited({14, 2}, "d") \cup Suited({14}, "h")
     \cup Suited({14}, "s"),
   Suited({3, 4, 5, 6, 7}, "c") \cup Suited({2, 6, 7}, "d") \cup Suited({14}, "s")}

VARIABLE focus

\* A bound of the page: the third request is not made while a hand is being stored,
\* nor after its failure met the next hand.
PageBounds ==
  requests < MaxRequests /\ requests' = MaxRequests =>
    ~overrun /\ \A h \in Hands : hands[h].stage # "storing"

PageOnly == focus = "page" /\ UNCHANGED <<dealVars, focus>>
CardsOnly == focus = "cards" /\ UNCHANGED <<vars, focus>>

LiveInit ==
  /\ Init /\ DealInit
  /\ focus \in {"page", "cards"}
  /\ focus # "cards" => Card(2, "c") \in undealt

LiveNext == \/ PageOnly /\ Next /\ PageBounds
            \/ CardsOnly /\ DealNext

LiveSpec == LiveInit /\ [][LiveNext]_<<vars, dealVars, focus>>
=============================================================================
