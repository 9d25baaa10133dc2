----------------------------- MODULE PokerShowdown -----------------------------
(***************************************************************************)
(* The cards of one hand of hold'em: deck.ts, hand-evaluator.ts and the     *)
(* cards' side of showdown.ts (poker-engine/src), as HandRunner uses them,  *)
(* and what of them leaves the server: the hub's filter                     *)
(* (realtime/src/filter.ts), the artifact's                                 *)
(* (persistence/src/match-artifact-serialization.ts), and the seat topic.   *)
(*                                                                          *)
(* PokerHand has the chips and lets the hands compare in any way; here they *)
(* compare by the cards.  The shuffle is seeded: every order of the deck is *)
(* possible, so that dealing takes any cards that are left.                 *)
(***************************************************************************)
EXTENDS Integers, Sequences, FiniteSetsExt

CONSTANTS Decks,      \* the decks of the model: cards are records of a rank, 2 to 14,
                      \* and a suit
          Contenders  \* the players in the hand

CardSuits == {"c", "d", "h", "s"}

ASSUME ShowdownAssumption ==
  /\ IsFiniteSet(Contenders)
  /\ \A deck \in Decks : /\ deck \subseteq [rank : 2..14, suit : CardSuits]
                          /\ Cardinality(deck) >= 2 * Cardinality(Contenders) + 5

VARIABLES undealt, hole, board, foldedHands,
          streamed,  \* the cards that public events have carried
          archived,  \* the cards in the public artifact's events
          toldTo,    \* the cards on each player's seat topic
          champions  \* the winners, {} before the end of the hand

dealVars == <<undealt, hole, board, foldedHands, streamed, archived, toldTo, champions>>

-----------------------------------------------------------------------------
(* evaluateHand                                                             *)

Ranks(h) == {c.rank : c \in h}
Suits(h) == {c.suit : c \in h}
RanksHeld(h, k) == {r \in Ranks(h) : Cardinality({c \in h : c.rank = r}) = k}
\* The numbers of a set, the greatest first.
Descending(S) ==
  [k \in 1..Cardinality(S) |-> CHOOSE r \in S : Cardinality({q \in S : q > r}) = k - 1]

Wheel == {14, 2, 3, 4, 5}
InARow(h) == Cardinality(Ranks(h)) = 5 /\ Max(Ranks(h)) - Min(Ranks(h)) = 4
BugNoWheel(h) == InARow(h)
IsStraight(h) == InARow(h) \/ Wheel \subseteq Ranks(h)
BugWheelIsAceHigh(h) == Max(Ranks(h))
StraightHigh(h) == IF InARow(h) THEN Max(Ranks(h)) ELSE 5
IsFlush(h) == Cardinality(Suits(h)) = 1

\* categoryRank and tiebreakers, by how many cards of which ranks there are.
Categorize(h, ones, twos, threes, fours) ==
  IF IsFlush(h) /\ IsStraight(h) THEN <<8, <<StraightHigh(h)>>>>
  ELSE IF fours # <<>> THEN <<7, fours \o ones>>
  ELSE IF threes # <<>> /\ twos # <<>> THEN <<6, threes \o twos>>
  ELSE IF IsFlush(h) THEN <<5, ones>>
  ELSE IF IsStraight(h) THEN <<4, <<StraightHigh(h)>>>>
  ELSE IF threes # <<>> THEN <<3, threes \o ones>>
  ELSE <<Len(twos), twos \o ones>>
EvaluateHand(h) ==
  LET ranked == Categorize(h, Descending(RanksHeld(h, 1)), Descending(RanksHeld(h, 2)),
                           Descending(RanksHeld(h, 3)), Descending(RanksHeld(h, 4)))
  IN [category |-> ranked[1], tiebreakers |-> ranked[2], bestCards |-> h]

\* compareHands(a, b) = -1: the first difference decides.
BugFirstTiebreakerOnly(a, b) ==
  \/ a.category > b.category
  \/ a.category = b.category /\ a.tiebreakers[1] > b.tiebreakers[1]
Beats(a, b) ==
  \/ a.category > b.category
  \/ /\ a.category = b.category
     /\ \E i \in DOMAIN a.tiebreakers :
          /\ a.tiebreakers[i] > b.tiebreakers[i]
          /\ \A j \in 1..(i - 1) : a.tiebreakers[j] = b.tiebreakers[j]

\* bestHandFrom7
BestHandFrom7(cards) ==
  LET evaluations == {EvaluateHand(h) : h \in kSubset(5, cards)}
  IN CHOOSE e \in evaluations : \A d \in evaluations : ~Beats(d, e)

-----------------------------------------------------------------------------
(* Events and who may see them.  Of an event's data the cards are kept: the *)
(* ones in a holeCards field, at any depth, and the others.                 *)

Event(type, private, open) == [type |-> type, holeCards |-> private, open |-> open]

\* scrubIfHoleCards and stripShowdownStarted
BugKeepsHoleCards(e) == e.holeCards \cup e.open
Scrubbed(e) == e.open
\* replayEventToPublic
BugBroadcastsDeals(e) == IF e.type = "showdown.started" THEN Scrubbed(e) ELSE BugKeepsHoleCards(e)
ToPublic(e) == IF e.type = "hole_cards.dealt" THEN {} ELSE Scrubbed(e)
\* replayEventToPublicArtifact
ToArtifact(e) == IF e.type = "hole_cards.dealt" THEN {} ELSE Scrubbed(e)

\* emit: the orchestrator's listener filters the event for the hub, and the hand
\* store keeps it for the artifact.
Broadcast(es) ==
  /\ streamed' = streamed \cup UNION {ToPublic(e) : e \in es}
  /\ archived' = archived \cup UNION {ToArtifact(e) : e \in es}

-----------------------------------------------------------------------------
(* The runner.                                                              *)

InHand == Contenders \ foldedHands
Dealt == \A p \in Contenders : hole[p] # {}

\* dealHoleCards; seat.hole_cards goes to the seat's owner.
DealHoleCards(p) ==
  /\ hole[p] = {}
  /\ \E cards \in kSubset(2, undealt) :
       /\ hole' = [hole EXCEPT ![p] = cards]
       /\ undealt' = undealt \ cards
       /\ toldTo' = [toldTo EXCEPT ![p] = cards]
       /\ Broadcast({Event("hole_cards.dealt", cards, {})})
  /\ UNCHANGED <<board, foldedHands, champions>>

\* deal(deck, n): the flop, the turn or the river.
DealBoard ==
  /\ Dealt /\ champions = {} /\ Cardinality(InHand) > 1 /\ Cardinality(board) < 5
  /\ \E cards \in kSubset(IF board = {} THEN 3 ELSE 1, undealt) :
       /\ board' = board \cup cards
       /\ undealt' = undealt \ cards
       /\ Broadcast({Event("community_cards.dealt", {}, cards)})
  /\ UNCHANGED <<hole, foldedHands, toldTo, champions>>

\* A player folds in the round of betting that follows the deal.
FoldHand(p) ==
  /\ Dealt /\ champions = {} /\ p \in InHand /\ Cardinality(InHand) > 1
  /\ foldedHands' = foldedHands \cup {p}
  /\ UNCHANGED <<undealt, hole, board, streamed, archived, toldTo, champions>>

Cards(p) == hole[p] \cup board

\* Uncontested: the cards of the last player stay his.
WinUncontested ==
  /\ Dealt /\ champions = {} /\ Cardinality(InHand) = 1
  /\ champions' = InHand
  /\ UNCHANGED <<undealt, hole, board, foldedHands, streamed, archived, toldTo>>

\* runShowdown: showdown.started has everybody's cards, showdown.result those of
\* one player and his five best.
ShowsHands == InHand
Showdown ==
  /\ Cardinality(board) = 5 /\ champions = {} /\ Cardinality(InHand) > 1
  /\ LET results == {[player |-> p, hand |-> BestHandFrom7(Cards(p))] : p \in ShowsHands}
     IN /\ champions' = {r.player : r \in {r \in results :
                          \A other \in results : ~Beats(other.hand, r.hand)}}
        /\ Broadcast({Event("showdown.started", UNION {hole[p] : p \in InHand}, {})}
                \cup {Event("showdown.result", hole[r.player], r.hand.bestCards) :
                        r \in results})
  /\ UNCHANGED <<undealt, hole, board, foldedHands, toldTo>>

DealInit ==
  /\ undealt \in Decks /\ hole = [p \in Contenders |-> {}] /\ board = {} /\ foldedHands = {}
  /\ streamed = {} /\ archived = {} /\ toldTo = [p \in Contenders |-> {}] /\ champions = {}

DealNext ==
  \/ \E p \in Contenders : DealHoleCards(p) \/ FoldHand(p)
  \/ DealBoard \/ WinUncontested \/ Showdown

\* The hand's cards alone; a table's run has them next to the steps of the table.
DealSpec == DealInit /\ [][DealNext]_dealVars

-----------------------------------------------------------------------------
(* Properties.                                                              *)

\* The rules of the game, said in another way: hands are compared by their class,
\* then card by card, what there is most of first; in A-2-3-4-5 the ace counts one.
\* Four and three of a kind apart, a hand without straight or flush is the higher
\* the fewer ranks it has.
IsRow(h) == InARow(h) \/ Ranks(h) = Wheel
Class(h) ==
  IF IsFlush(h) /\ IsRow(h) THEN 8
  ELSE IF RanksHeld(h, 4) # {} THEN 7
  ELSE IF Cardinality(Ranks(h)) = 2 THEN 6
  ELSE IF IsFlush(h) THEN 5
  ELSE IF IsRow(h) THEN 4
  ELSE IF RanksHeld(h, 3) # {} THEN 3
  ELSE 5 - Cardinality(Ranks(h))
Worth(h, r) == (IF r = 14 /\ Ranks(h) = Wheel THEN 1 ELSE r)
                 + 15 * Cardinality({c \in h : c.rank = r})
Sheet(h) == [class |-> Class(h), worths |-> {Worth(h, r) : r \in Ranks(h)}]
Sheets(p) == {Sheet(h) : h \in kSubset(5, Cards(p))}

\* The highest worth that only one of two hands has is the winner's.
Outranks(a, b) ==
  \/ a.class > b.class
  \/ a.class = b.class /\ \E w \in a.worths \ b.worths : \A v \in b.worths \ a.worths : w > v
BestSheets ==
  LET all == UNION {Sheets(p) : p \in InHand}
  IN {s \in all : \A o \in all : ~Outranks(o, s)}

\* The best hand wins: a showdown is won by exactly the players whose best five of
\* seven cards no other's beat by the rules of the game.  And cards stay private:
\* whatever is broadcast or saved shows the board and, after a showdown, cards of
\* those who came to it; nobody is sent another player's cards.
ShowdownSound ==
  /\ champions # {} /\ Cardinality(InHand) > 1 =>
       LET best == BestSheets
       IN champions = {p \in InHand : Sheets(p) \cap best # {}}
  /\ \A p, q \in Contenders : p # q => hole[p] \cap (hole[q] \cup board) = {}
  /\ LET seen == IF champions # {} /\ Cardinality(InHand) > 1
                 THEN board \cup UNION {hole[p] : p \in InHand} ELSE board
     IN streamed \subseteq seen /\ archived \subseteq seen
  /\ \A p \in Contenders : toldTo[p] \subseteq hole[p]
=============================================================================
