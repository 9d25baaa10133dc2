------------------------------- MODULE PokerHand -------------------------------
(***************************************************************************)
(* One hand of no-limit hold'em: HandRunner.run                            *)
(* (table-orchestrator/src/hand-runner.ts) over the pure functions of      *)
(* poker-engine/src: betting-round.ts, legal-actions.ts, pot-calculator.ts *)
(* and showdown.ts.                                                        *)
(*                                                                         *)
(* Players are their indices in gameState.players.  Cards are left out:    *)
(* who was dealt any is kept, and the showdown ranks the hands in every    *)
(* possible way.  What an agent answers is validated against the menu, and *)
(* the fallback for a wrong, late or missing answer (check, else fold) is  *)
(* on the menu too, so a decision is any entry of it.                      *)
(*                                                                         *)
(* Operators named Bug... are mutations: they are used nowhere here.       *)
(***************************************************************************)
EXTENDS Integers, FiniteSetsExt, Sums

CONSTANTS
  N,         \* players in the hand
  SeatOf,    \* seatIndex of each player; the players are sorted by seat
  BuyIns,    \* the stacks a hand may start with
  BigBlind   \* even: the small blind is half of it, whatever the table says

Players == 0 .. (N - 1)
Nobody == N    \* lastAggressorIndex null
BugOneLap == N
MaxIterations == 10 * N

ASSUME PokerAssumption ==
  /\ N \in Nat /\ N >= 2
  /\ SeatOf \in [Players -> Nat]
  /\ \A p, q \in Players : p < q => SeatOf[p] < SeatOf[q]
  /\ BuyIns \subseteq Nat \ {0}
  /\ BigBlind \in Nat \ {0} /\ BigBlind % 2 = 0

VARIABLES
  dealer,      \* the player on the button
  start,       \* stackBefore
  stack,
  status,
  total,       \* totalBetInHand
  bet,         \* currentRoundBet
  holds,       \* the players with hole cards
  street,
  stage,       \* where run() is
  round,       \* BettingRoundState
  iterations,  \* maxIterations of the round's loop
  won          \* what the awards gave to each player

player == <<stack, status, total, bet>>
vars == <<dealer, start, player, holds, street, stage, round, iterations, won>>

StreetAfter == [preflop |-> "flop", flop |-> "turn", turn |-> "river"]
Streets == {"preflop", "flop", "turn", "river"}
Stages == {"start", "round", "asking", "awarded", "saved", "failed"}

Least(a, b) == IF a <= b THEN a ELSE b
Most(a, b) == IF a >= b THEN a ELSE b

Active == {p \in Players : status[p] = "active"}
NonFolded == {p \in Players : status[p] # "folded"}

-----------------------------------------------------------------------------
(* Whose turn it is.                                                        *)

\* nextActiveAfter, findNextActive and getNextActiveActorIndex: the first
\* active player after index i, going round, i itself last.
BugAllInIsAsked(i, active) ==
  (i + Min({k \in 1 .. N : (i + k) % N \in active \cup (NonFolded \ Active)})) % N
NextActive(i, active) == (i + Min({k \in 1 .. N : (i + k) % N \in active})) % N

\* computeBlindPositions
SmallBlindIndex == (dealer + 1) % N
BigBlindIndex == (dealer + 2) % N

-----------------------------------------------------------------------------
(* computeLegalActions: the actions a player may choose, with every amount. *)

Act(type, amount) == [type |-> type, amount |-> amount]
ToCall(p) == round.minBet - bet[p]

BetMenu(p) ==
  {Act("check", 0), Act("all-in", stack[p])}
    \cup {Act("bet", a) : a \in IF stack[p] > BigBlind THEN BigBlind .. stack[p] ELSE {}}

RaiseMenu(p) ==
  LET most == bet[p] + stack[p]
      least == Least(round.minBet + Most(round.minRaise, BigBlind), most)
  IN {Act("raise", a) : a \in least .. most}

CallMenu(p) ==
  {Act("fold", 0), Act("all-in", stack[p])}
    \cup IF stack[p] > ToCall(p)
         THEN {Act("call", ToCall(p))} \cup RaiseMenu(p)
         ELSE {}

BugBetsOverBets(p) == BetMenu(p) \cup IF ToCall(p) > 0 THEN CallMenu(p) ELSE {}
Menu(p) == IF ToCall(p) <= 0 THEN BetMenu(p) ELSE CallMenu(p)

-----------------------------------------------------------------------------
(* applyAction.                                                             *)

\* The chips an action puts in, taken out of the pot again when a bet is for
\* less than the actor's bet in this round.
Costs(p, a) ==
  CASE a.type \in {"fold", "check"} -> 0
    [] a.type \in {"call", "all-in"} -> Least(a.amount, stack[p])
    [] a.type \in {"bet", "raise"} -> Least(a.amount - bet[p], stack[p])

StatusAfter(p, a) ==
  IF a.type = "fold" THEN "folded"
  ELSE IF a.type # "check" /\ Costs(p, a) = stack[p] THEN "all-in" ELSE "active"

\* The round's minBet, minRaise and aggressor after p bet up to `to`.
Reopened(p, a, to) ==
  LET increment == to - round.minBet
      full == a.type = "all-in" => increment > 0 /\ increment >= round.minRaise
  IN [round EXCEPT
        !.minBet = IF a.type = "all-in" THEN Most(to, round.minBet) ELSE to,
        !.minRaise = IF full /\ (a.type # "raise" \/ increment > 0) THEN increment ELSE @,
        !.aggressor = IF full THEN p ELSE @]

RoundAfter(p, a) ==
  LET active == IF StatusAfter(p, a) = "active" THEN Active ELSE Active \ {p}
      r == IF a.type \in {"bet", "raise", "all-in"}
           THEN Reopened(p, a, bet[p] + Costs(p, a)) ELSE round
  IN [r EXCEPT
        !.actor = IF active = {} THEN p ELSE NextActive(p, active),
        !.acted = @ \cup {p}]

BugAllInNotInPot(p, a) == IF a.type = "all-in" THEN 0 ELSE Costs(p, a)
AddsToPot(p, a) == Costs(p, a)

ApplyAction(p, a) ==
  /\ stack' = [stack EXCEPT ![p] = @ - Costs(p, a)]
  /\ total' = [total EXCEPT ![p] = @ + AddsToPot(p, a)]
  /\ bet' = [bet EXCEPT ![p] = @ + Costs(p, a)]
  /\ status' = [status EXCEPT ![p] = StatusAfter(p, a)]
  /\ round' = RoundAfter(p, a)

\* isBettingRoundComplete
BugLastIsAsked ==
  \/ Active = {}
  \/ /\ \A p \in Active : bet[p] = round.minBet
     /\ IF round.aggressor = Nobody
        THEN Active \subseteq round.acted
        ELSE round.actor = round.aggressor
BettingRoundComplete ==
  \/ Cardinality(Active) <= 1
  \/ /\ \A p \in Active : bet[p] = round.minBet
     /\ IF round.aggressor = Nobody
        THEN Active \subseteq round.acted
        ELSE round.actor = round.aggressor

-----------------------------------------------------------------------------
(* computePots and determineWinners.                                        *)

Levels == {total[p] : p \in {q \in Players : status[q] = "all-in"}}
Below(l) == Max({0} \cup {k \in Levels : k < l})

\* What p put in between the all-in level below l and l.
BugCountsFromZero(p, l) == Least(total[p], l)
Layer(p, l) == Least(total[p], l) - Least(total[p], Below(l))

BugAnyoneWinsSidePots(l) ==
  [amount |-> SumOf([p \in Players |-> Layer(p, l)]), eligible |-> NonFolded]
SidePot(l) ==
  [amount |-> SumOf([p \in Players |-> Layer(p, l)]),
   eligible |-> {p \in NonFolded : total[p] >= l}]
RestPot ==
  LET top == Max({0} \cup Levels)
  IN [amount |-> SumOf([p \in Players |-> Most(0, total[p] - top)]),
      eligible |-> NonFolded]
\* An empty pot is kept here, where the code filters it: it pays nothing.
Pots == {<<l, SidePot(l)>> : l \in Levels} \cup {<<0, RestPot>>}

\* The ways the players' hands may compare: ranks from 0 up, without gaps.
Ranks == {r \in [Players -> Players] :
            \A p \in Players : r[p] = 0 \/ \E q \in Players : r[q] = r[p] - 1}

\* The winners of a pot when the players' hands have the given ranks.
Winners(pot, rank) ==
  IF Cardinality(NonFolded) = 1 THEN NonFolded
  ELSE LET eligible == pot.eligible \cap holds
       IN {p \in eligible : \A q \in eligible : rank[p] >= rank[q]}

\* buttonSeatOrder: sorted by the remainder of the seats' distance from the
\* button, in JavaScript's arithmetic, ties in the order of the seats.
JsMod(a, b) == IF a >= 0 THEN a % b ELSE -((-a) % b)
Distance(p) == JsMod(SeatOf[p] - SeatOf[dealer] + N, N)
FirstInOrder(S) ==
  CHOOSE p \in S : \A q \in S :
    Distance(p) < Distance(q) \/ (Distance(p) = Distance(q) /\ p <= q)

BugDropsOddChips(p, winners, amount) ==
  IF p \in winners THEN amount \div Cardinality(winners) ELSE 0
Share(p, winners, amount) ==
  IF p \notin winners THEN 0
  ELSE amount \div Cardinality(winners)
         + IF p = FirstInOrder(winners) THEN amount % Cardinality(winners) ELSE 0

Award(rank) ==
  [p \in Players |->
     SumOf([pot \in Pots |-> Share(p, Winners(pot[2], rank), pot[2].amount)])]

-----------------------------------------------------------------------------
(* The runner.                                                              *)

\* isHandOver: with everybody all-in the streets to come are not dealt.
HandOver == Active = {} \/ Cardinality(NonFolded) <= 1

\* The loop of runBettingRound ended, or its early return was taken.
RoundOver ==
  \/ stage = "round" /\ Cardinality(Active) <= 1
  \/ stage = "asking" /\ (BettingRoundComplete \/ iterations = 0)

\* postBlinds
BugBlindsOnCredit(p, b) == b
Blind(p, b) == Least(b, stack[p])

\* postBlinds and dealHoleCards: cards go to those the blinds left active.
StartHand ==
  LET paid == [p \in Players |->
                 CASE p = SmallBlindIndex -> Blind(p, BigBlind \div 2)
                   [] p = BigBlindIndex -> Blind(p, BigBlind)
                   [] OTHER -> 0]
  IN /\ stage = "start"
     /\ stack' = [p \in Players |-> stack[p] - paid[p]]
     /\ total' = paid /\ bet' = paid
     /\ status' = [p \in Players |-> IF stack'[p] = 0 THEN "all-in" ELSE "active"]
     /\ holds' = {p \in Players : status'[p] = "active"}
     /\ stage' = "round"
     /\ UNCHANGED <<dealer, start, street, round, iterations, won>>

\* The prologue of runBettingRound.  The button is a seat, read as an index.
StartRound ==
  LET preflop == street = "preflop"
  IN /\ stage = "round" /\ Cardinality(Active) > 1
     /\ bet' = IF preflop THEN bet ELSE [p \in Players |-> 0]
     /\ round' = [actor |-> NextActive(IF preflop THEN BigBlindIndex ELSE SeatOf[dealer], Active),
                  minBet |-> IF preflop THEN BigBlind ELSE 0,
                  minRaise |-> BigBlind,
                  aggressor |-> IF preflop THEN BigBlindIndex ELSE Nobody,
                  acted |-> {}]
     /\ iterations' = MaxIterations
     /\ stage' = "asking"
     /\ UNCHANGED <<dealer, start, stack, status, total, holds, street, won>>

\* maxIterations--
BugLimitRestarts == MaxIterations
IterationsLeft == iterations - 1

\* One pass of the loop: the actor decides, and the decision is traced.  When
\* the trace store fails, run() throws and the hand is void.
Decide ==
  /\ stage = "asking" /\ ~RoundOver
  /\ \E a \in Menu(round.actor) : ApplyAction(round.actor, a)
  /\ iterations' = IterationsLeft
  /\ stage' \in {"asking", "failed"}
  /\ UNCHANGED <<dealer, start, holds, street, won>>

NextStreet ==
  /\ RoundOver /\ ~HandOver /\ street # "river"
  /\ street' = StreetAfter[street]
  /\ stage' = "round"
  /\ UNCHANGED <<dealer, start, player, holds, round, iterations, won>>

ToShowdown == RoundOver /\ (HandOver \/ street = "river")

\* bestHandFrom7 throws on fewer than five cards, and without a board runShowdown
\* has four for it: the two hole cards, taken twice.
Evaluable == street # "preflop" \/ Cardinality(NonFolded) = 1 \/ NonFolded \cap holds = {}

\* runShowdown and the awards applied to the stacks.
Showdown ==
  /\ ToShowdown
  /\ \E rank \in Ranks : won' = Award(rank)
  /\ stack' = [p \in Players |-> stack[p] + won'[p]]
  /\ stage' = "awarded"
  /\ UNCHANGED <<dealer, start, status, total, bet, holds, street, round, iterations>>

\* saveHandSummary and appendReplayEvent
SaveSummary ==
  /\ stage = "awarded"
  /\ stage' \in {"saved", "failed"}
  /\ UNCHANGED <<dealer, start, player, holds, street, round, iterations, won>>

Init ==
  /\ dealer \in Players
  /\ start \in [Players -> BuyIns]
  /\ stack = start
  /\ status = [p \in Players |-> "active"]
  /\ total = [p \in Players |-> 0] /\ bet = total
  /\ holds = {}
  /\ street = "preflop"
  /\ stage = "start"
  /\ round = [actor |-> 0, minBet |-> 0, minRaise |-> 0, aggressor |-> Nobody, acted |-> {}]
  /\ iterations = 0
  /\ won = [p \in Players |-> 0]

Next == StartHand \/ StartRound \/ Decide \/ NextStreet \/ Showdown \/ SaveSummary

\* The runner's promises settle: the TimeoutHandler answers for a silent agent.
Spec == Init /\ [][Next]_vars /\ WF_vars(Next)

-----------------------------------------------------------------------------
(* Properties.                                                              *)

\* The types of the state; no stack and no bet is ever negative.
TypeOK ==
  /\ dealer \in Players /\ start \in [Players -> BuyIns]
  /\ {stack, total, bet, won} \subseteq [Players -> Nat]
  /\ status \in [Players -> {"active", "folded", "all-in"}]
  /\ holds \subseteq Players
  /\ street \in Streets /\ stage \in Stages
  /\ round \in [actor : Players, minBet : Nat, minRaise : Int,
                aggressor : Players \cup {Nobody}, acted : SUBSET Players]
  /\ iterations \in 0 .. MaxIterations

\* At any time a player has what he started with, less what he put into the
\* pots, plus what he won: no step of betting makes or loses a chip.
ChipsConserved == \A p \in Players : stack[p] = (start[p] - total[p]) + won[p]

\* The loop only ever asks an active player, and whatever he chooses he can
\* pay: the branches of the loop that skip a player are never taken.
AskedPlayerCanPay ==
  stage = "asking" /\ ~RoundOver =>
    /\ round.actor \in Active /\ stack[round.actor] > 0
    /\ \A a \in Menu(round.actor) : Costs(round.actor, a) <= stack[round.actor]

\* What a player may win by the rules: from each player as much as he bet himself.
Stake(p) == SumOf([q \in Players |-> Least(total[p], total[q])])

\* From bets to stacks.  The pots computePots makes hold exactly the chips that
\* were bet, whoever is all-in, folded or short.  The awards pay out every chip,
\* odd ones too, in a hand that everybody starts with more than the big blind
\* (a player whose blind takes the last chip gets no cards, and a pot that only
\* such players can win is not paid).  A player who folded wins nothing, and one
\* who is all-in no more than he may, unless two others bet on over the highest
\* all-in: pots up to that level are fair.  And no hand is void for want of a
\* board: the last active player is never asked, so the streets are dealt for him.
PotsPaidOut ==
  /\ ToShowdown => Evaluable
  /\ SumOf([pot \in Pots |-> pot[2].amount]) = SumOf(total)
  /\ stage \in {"awarded", "saved"} /\ (\A p \in Players : start[p] > BigBlind) =>
       SumOf(stack) = SumOf(start)
  /\ \A p \in Players :
       IF status[p] = "folded" THEN won[p] = 0
       ELSE RestPot.amount = 0 => won[p] <= Stake(p)

NobodyAllIn == \A p \in Players : status[p] # "all-in"

\* As long as nobody is all-in, chips in the pot stay there, and a round that
\* leaves two players active leaves them with equal bets, if those are below ten
\* big blinds: until then the loop's limit, ten iterations per player, cuts no
\* betting short (beyond, raises by one big blind could go on until it does).
\* (After an all-in a round may pass the player it has to come back to: the others
\* are asked again, and one who bets less than he did takes the difference out of
\* the pot.)
BettingSound ==
  [][stage = "asking" /\ NobodyAllIn =>
       /\ \A p \in Players : total'[p] >= total[p]
       /\ RoundOver /\ Cardinality(Active) > 1 /\ round.minBet < 10 * BigBlind =>
            \A p, q \in Active : bet[p] = bet[q]]_vars

\* Every hand comes to an end.
HandEnds == <>(stage \in {"saved", "failed"})

\* greenfield-spec 7.6, "The last side pot goes directly back to C since they're
\* the only eligible player": nobody wins chips that he did not match.
NobodyWinsUnmatchedChips == \A p \in Players : won[p] <= Stake(p)
=============================================================================
