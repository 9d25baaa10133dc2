---------------------------- MODULE PokerHandProofs ----------------------------
(***************************************************************************)
(* For any number of players, any seats, any stacks and any even big blind *)
(* a hand keeps its chips: what a player has is what he started with, less *)
(* what he bet, plus what he won; the loop asks only players who can act,  *)
(* for actions they can pay; and the pots pay out what was bet, to players *)
(* who stayed in, and to nobody more than he matched.  Whoever answers, a  *)
(* browser, a built-in player or a script, answers with what is offered.   *)
(* And the page that replays hands shows the match it was opened for.      *)
(***************************************************************************)
EXTENDS PokerNpc, ReplayPage, SumTheorems

NoWinnings == [p \in Players |-> 0]

\* The ledger of the players.  A bet for less than the actor's last one takes
\* chips back, but never more than he has in this round.
LedgerInv ==
  /\ start \in [Players -> Nat] /\ total \in [Players -> Nat] /\ bet \in [Players -> Nat]
  /\ DOMAIN stack = Players
  /\ \A p \in Players : bet[p] <= total[p] /\ total[p] <= start[p]
  /\ ChipsConserved

\* Where run() is: nobody has won anything yet, nobody has bet at the start,
\* and who is active has chips left.
StageInv ==
  /\ status \in [Players -> {"active", "folded", "all-in"}]
  /\ stage \in {"start", "round", "asking"} =>
       /\ won = NoWinnings
       /\ \A p \in Active : total[p] < start[p]
  /\ stage = "start" => \A p \in Players : total[p] = 0 /\ start[p] > 0

\* The turn is an active player's as long as there is one.
RoundInv ==
  /\ dealer \in Players
  /\ round \in [actor : Players, minBet : Nat, minRaise : Int,
                aggressor : Players \cup {Nobody}, acted : SUBSET Players]
  /\ stage = "asking" /\ Active # {} => round.actor \in Active

HandInv == LedgerInv /\ StageInv /\ RoundInv

-----------------------------------------------------------------------------
(* Arithmetic of the table.                                                 *)

\* The remainder of a number between two multiples.
LEMMA Remainder ==
  ASSUME NEW n \in Nat, n > 0, NEW m \in Nat, NEW q \in 0 .. (n - 1)
  PROVE  (n * m + q) % n = q
<1>. DEFINE x == n * m + q
<1>1. x \in Nat /\ x = n * m + q
  OBVIOUS
<1>. HIDE DEF x
<1>. DEFINE d == x \div n  r == x % n
<1>2. x = (n * d) + r /\ d \in Int /\ r \in 0 .. (n - 1)
  BY <1>1
<1>. HIDE DEF d, r
<1>3. n * (d - m) = q - r
  BY <1>1, <1>2
<1>4. CASE d - m >= 1
  <2>1. n * (d - m) >= n
    BY <1>4, <1>2
  <2>. QED BY <2>1, <1>3, <1>2
<1>5. CASE d - m <= -1
  <2>1. n * (d - m) <= -n
    BY <1>5, <1>2
  <2>. QED BY <2>1, <1>3, <1>2
<1>6. CASE d = m
  BY <1>6, <1>1, <1>2 DEF r, x
<1>. QED BY <1>4, <1>5, <1>6, <1>2

\* From any index, going round the table comes past every player.
LEMMA RoundTheTable ==
  ASSUME NEW i \in Nat, NEW q \in Players
  PROVE  \E k \in 1 .. N : (i + k) % N = q
<1>. DEFINE d == i \div N  r == i % N
<1>1. N \in Nat /\ N > 0 /\ q \in 0 .. (N - 1)
  BY PokerAssumption DEF Players
<1>2. i = (N * d) + r /\ d \in Nat /\ r \in 0 .. (N - 1)
  BY <1>1
<1>. HIDE DEF d, r
<1>3. CASE q > r
  <2>1. (N * d + q) % N = q
    BY <1>1, <1>2, Remainder
  <2>2. i + (q - r) = N * d + q /\ q - r \in 1 .. N
    BY <1>1, <1>2, <1>3
  <2>. QED BY <2>1, <2>2
<1>4. CASE q <= r
  <2>1. (N * (d + 1) + q) % N = q
    BY <1>1, <1>2, Remainder
  <2>2. i + (q - r + N) = N * (d + 1) + q /\ q - r + N \in 1 .. N
    BY <1>1, <1>2, <1>4
  <2>. QED BY <2>1, <2>2
<1>. QED BY <1>1, <1>2, <1>3, <1>4

\* nextActiveAfter and its two siblings find an active player if there is one.
LEMMA NextActiveIsActive ==
  ASSUME NEW i \in Nat, NEW active, active \subseteq Players, active # {}
  PROVE  NextActive(i, active) \in active
<1>. DEFINE S == {k \in 1 .. N : (i + k) % N \in active}
<1>1. S # {}
  BY RoundTheTable
<1>2. S \subseteq Nat
  BY PokerAssumption
<1>3. Min(S) \in S
  BY <1>1, <1>2, MinOfNaturals
<1>. QED BY <1>3 DEF NextActive

-----------------------------------------------------------------------------
(* What a choice costs.                                                     *)

\* While the hand is played a stack is what is left of the start, and an
\* active player's is not empty.
LEMMA StackLeft ==
  ASSUME LedgerInv, StageInv, stage \in {"start", "round", "asking"}, NEW p \in Players
  PROVE  /\ stack[p] = start[p] - total[p] /\ stack[p] \in Nat
         /\ p \in Active => stack[p] > 0
<1>1. won[p] = 0
  BY DEF StageInv, NoWinnings
<1>2. start[p] \in Nat /\ total[p] \in Nat /\ total[p] <= start[p]
  BY DEF LedgerInv
<1>3. stack[p] = (start[p] - total[p]) + won[p]
  BY DEF LedgerInv, ChipsConserved
<1>4. p \in Active => total[p] < start[p]
  BY DEF StageInv
<1>. QED BY <1>1, <1>2, <1>3, <1>4

\* The amounts on a menu are natural numbers.
LEMMA MenuAmounts ==
  ASSUME HandInv, stage = "asking", NEW p \in Active, NEW a \in Menu(p)
  PROVE  /\ a.type \in {"fold", "check", "call", "all-in", "bet", "raise"}
         /\ a.amount \in Nat
<1>1. p \in Players
  BY DEF Active
<1>2. stack[p] \in Nat /\ bet[p] \in Nat
  BY <1>1, StackLeft DEF HandInv, LedgerInv
<1>3. round.minBet \in Nat /\ round.minRaise \in Int /\ BigBlind \in Nat
  BY PokerAssumption DEF HandInv, RoundInv
<1>4. CASE ToCall(p) <= 0
  BY <1>2, <1>3, <1>4 DEF Menu, BetMenu, Act
<1>5. CASE ~(ToCall(p) <= 0)
  <2>1. ToCall(p) \in Nat
    BY <1>2, <1>3, <1>5 DEF ToCall
  <2>2. a \in CallMenu(p)
    BY <1>5 DEF Menu
  <2>3. CASE a \in RaiseMenu(p)
    BY <2>3, <1>2, <1>3 DEF RaiseMenu, Least, Most, Act
  <2>4. CASE a \notin RaiseMenu(p)
    BY <2>1, <2>2, <2>4, <1>2 DEF CallMenu, Act
  <2>. QED BY <2>3, <2>4
<1>. QED BY <1>4, <1>5

\* Nobody can be made to put in more than he has, nor take out more than he
\* put in during the round.
LEMMA CostOfChoice ==
  ASSUME HandInv, stage = "asking", NEW p \in Active, NEW a \in Menu(p)
  PROVE  Costs(p, a) \in Int /\ -bet[p] <= Costs(p, a) /\ Costs(p, a) <= stack[p]
<1>1. p \in Players
  BY DEF Active
<1>2. stack[p] \in Nat /\ bet[p] \in Nat
  BY <1>1, StackLeft DEF HandInv, LedgerInv
<1>3. /\ a.type \in {"fold", "check", "call", "all-in", "bet", "raise"}
      /\ a.amount \in Nat
  BY MenuAmounts
<1>4. CASE a.type \in {"fold", "check"}
  BY <1>2, <1>4 DEF Costs
<1>5. CASE a.type \in {"call", "all-in"}
  <2>1. Costs(p, a) = Least(a.amount, stack[p])
    BY <1>5 DEF Costs
  <2>. QED BY <2>1, <1>2, <1>3 DEF Least
<1>6. CASE a.type \in {"bet", "raise"}
  <2>1. Costs(p, a) = Least(a.amount - bet[p], stack[p])
    BY <1>6 DEF Costs
  <2>. QED BY <2>1, <1>2, <1>3 DEF Least
<1>. QED BY <1>3, <1>4, <1>5, <1>6

\* The round a choice leaves is a round, and its turn an active player's.
LEMMA RoundAfterChoice ==
  ASSUME HandInv, stage = "asking", NEW p \in Active, NEW a \in Menu(p)
  PROVE  /\ RoundAfter(p, a) \in
              [actor : Players, minBet : Nat, minRaise : Int,
               aggressor : Players \cup {Nobody}, acted : SUBSET Players]
         /\ LET active == IF StatusAfter(p, a) = "active" THEN Active ELSE Active \ {p}
            IN active # {} => RoundAfter(p, a).actor \in active
<1>. DEFINE active == IF StatusAfter(p, a) = "active" THEN Active ELSE Active \ {p}
            Rounds == [actor : Players, minBet : Nat, minRaise : Int,
                       aggressor : Players \cup {Nobody}, acted : SUBSET Players]
            r == IF a.type \in {"bet", "raise", "all-in"}
                 THEN Reopened(p, a, bet[p] + Costs(p, a)) ELSE round
            next == IF active = {} THEN p ELSE NextActive(p, active)
<1>1. p \in Players /\ Players \subseteq Nat /\ active \subseteq Players
  BY PokerAssumption DEF Active, Players
<1>2. round \in Rounds
  BY DEF HandInv, RoundInv
<1>3. bet[p] + Costs(p, a) \in Nat
  BY <1>1, CostOfChoice DEF HandInv, LedgerInv
<1>4. Reopened(p, a, bet[p] + Costs(p, a)) \in Rounds
  <2>. DEFINE to == bet[p] + Costs(p, a)
  <2>1. to \in Nat
    BY <1>3
  <2>. HIDE DEF to
  <2>. DEFINE full == a.type = "all-in" => to - round.minBet > 0
                                            /\ to - round.minBet >= round.minRaise
              minBet == IF a.type = "all-in" THEN Most(to, round.minBet) ELSE to
              minRaise == IF full /\ (a.type # "raise" \/ to - round.minBet > 0)
                          THEN to - round.minBet ELSE round.minRaise
              aggressor == IF full THEN p ELSE round.aggressor
  <2>2. minBet \in Nat /\ minRaise \in Int
    BY <2>1, <1>2 DEF Most
  <2>3. aggressor \in Players \cup {Nobody}
    BY <1>1, <1>2
  <2>4. Reopened(p, a, to) =
          [round EXCEPT !.minBet = minBet, !.minRaise = minRaise, !.aggressor = aggressor]
    BY Zenon DEF Reopened
  <2>. HIDE DEF minBet, minRaise, aggressor
  <2>5. Reopened(p, a, to) \in Rounds
    BY <2>2, <2>3, <2>4, <1>2
  <2>. QED BY <2>5 DEF to
<1>5. r \in Rounds
  BY <1>2, <1>4
<1>6. next \in Players /\ (active # {} => next \in active)
  BY <1>1, NextActiveIsActive
<1>7. RoundAfter(p, a) = [r EXCEPT !.actor = next, !.acted = @ \cup {p}]
  BY DEF RoundAfter
<1>. HIDE DEF r, next, active
<1>8. RoundAfter(p, a) \in Rounds /\ RoundAfter(p, a).actor = next
  BY <1>1, <1>5, <1>6, <1>7
<1>. QED BY <1>6, <1>8 DEF active

-----------------------------------------------------------------------------
(* Every step keeps the invariant.                                          *)

\* A hand starts with full stacks and nothing bet.
LEMMA InitHandInv == Init => HandInv
<1>. SUFFICES ASSUME Init PROVE HandInv
  OBVIOUS
<1>1. start \in [Players -> Nat] /\ \A p \in Players : start[p] > 0
  <2>1. start \in [Players -> BuyIns]
    BY DEF Init
  <2>2. \A b \in BuyIns : b \in Nat /\ b > 0
    BY PokerAssumption
  <2>. QED BY <2>1, <2>2
<1>2. LedgerInv
  BY <1>1 DEF Init, LedgerInv, ChipsConserved
<1>3. StageInv
  BY <1>1 DEF Init, StageInv, NoWinnings, Active
<1>4. RoundInv
  BY PokerAssumption DEF Init, RoundInv, Players, Nobody
<1>. QED BY <1>2, <1>3, <1>4 DEF HandInv

\* The blinds, and who they leave all-in.
LEMMA StartHandInv ==
  ASSUME HandInv, StartHand
  PROVE  HandInv'
<1>. DEFINE paid == [p \in Players |->
                       CASE p = SmallBlindIndex -> Blind(p, BigBlind \div 2)
                         [] p = BigBlindIndex -> Blind(p, BigBlind)
                         [] OTHER -> 0]
<1>1. /\ stage = "start" /\ stage' = "round"
      /\ stack' = [p \in Players |-> stack[p] - paid[p]]
      /\ total' = paid /\ bet' = paid
      /\ status' = [p \in Players |-> IF stack'[p] = 0 THEN "all-in" ELSE "active"]
      /\ UNCHANGED <<dealer, start, round, won>>
  BY DEF StartHand
<1>2. \A p \in Players : stack[p] = start[p] /\ start[p] \in Nat
  BY <1>1, StackLeft DEF HandInv, StageInv, LedgerInv
<1>3. \A p \in Players : paid[p] \in Nat /\ paid[p] <= start[p]
  <2>1. BigBlind \in Nat /\ BigBlind \div 2 \in Nat
    BY PokerAssumption
  <2>2. ASSUME NEW p \in Players, NEW b \in Nat
        PROVE  Blind(p, b) \in Nat /\ Blind(p, b) <= start[p]
    BY <1>2 DEF Blind, Least
  <2>3. ASSUME NEW p \in Players
        PROVE  paid[p] = Blind(p, BigBlind \div 2) \/ paid[p] = Blind(p, BigBlind) \/ paid[p] = 0
    OBVIOUS
  <2>. QED BY <1>2, <2>1, <2>2, <2>3
<1>4. paid \in [Players -> Nat]
  BY <1>3
<1>. HIDE DEF paid
<1>5. \A p \in Players : stack'[p] = start[p] - paid[p]
  BY <1>1, <1>2
<1>6. LedgerInv'
  <2>1. \A p \in Players : won[p] = 0
    BY <1>1 DEF HandInv, StageInv, NoWinnings
  <2>. QED BY <1>1, <1>3, <1>4, <1>5, <2>1 DEF HandInv, LedgerInv, ChipsConserved
<1>7. StageInv'
  <2>1. \A p \in Players : status'[p] = "active" => paid[p] < start[p]
    BY <1>1, <1>2, <1>3, <1>5
  <2>. QED BY <1>1, <2>1 DEF HandInv, StageInv, Active
<1>8. RoundInv'
  BY <1>1 DEF HandInv, RoundInv
<1>. QED BY <1>6, <1>7, <1>8 DEF HandInv

\* A round begins with the first active player after the big blind or the button.
LEMMA StartRoundInv ==
  ASSUME HandInv, StartRound
  PROVE  HandInv'
<1>1. /\ stage = "round" /\ stage' = "asking"
      /\ UNCHANGED <<dealer, start, stack, status, total, won>>
      /\ bet' = bet \/ bet' = [p \in Players |-> 0]
  BY DEF StartRound
<1>2. LedgerInv'
  BY <1>1 DEF HandInv, LedgerInv, ChipsConserved
<1>3. StageInv'
  BY <1>1 DEF HandInv, StageInv, Active
<1>4. RoundInv'
  <2>1. Active # {} /\ Active \subseteq Players
    BY FS_EmptySet DEF StartRound, Active
  <2>2. dealer \in Players /\ Players \subseteq Nat /\ SeatOf[dealer] \in Nat
    BY PokerAssumption DEF HandInv, RoundInv, Players
  <2>3. BigBlindIndex \in Players /\ BigBlindIndex \in Nat
    BY <2>2, PokerAssumption DEF BigBlindIndex, Players
  <2>4. /\ NextActive(BigBlindIndex, Active) \in Active
        /\ NextActive(SeatOf[dealer], Active) \in Active
    BY <2>1, <2>2, <2>3, NextActiveIsActive
  <2>5. PICK actor \in Active, minBet \in {0, BigBlind}, aggressor \in {BigBlindIndex, Nobody} :
          round' = [actor |-> actor, minBet |-> minBet, minRaise |-> BigBlind,
                    aggressor |-> aggressor, acted |-> {}]
    <3>1. CASE street = "preflop"
      BY <2>4, <3>1, Zenon DEF StartRound
    <3>2. CASE street # "preflop"
      BY <2>4, <3>2, Zenon DEF StartRound
    <3>. QED BY <3>1, <3>2
  <2>6. round' \in [actor : Players, minBet : Nat, minRaise : Int,
                    aggressor : Players \cup {Nobody}, acted : SUBSET Players]
    BY <2>1, <2>3, <2>4, <2>5, PokerAssumption
  <2>7. round'.actor \in Active
    BY <2>4, <2>5
  <2>. QED BY <1>1, <2>2, <2>6, <2>7 DEF RoundInv, Active
<1>. QED BY <1>2, <1>3, <1>4 DEF HandInv

\* The asked player's choice: what leaves his stack is what enters the pot.
LEMMA DecideInv ==
  ASSUME HandInv, Decide
  PROVE  HandInv'
<1>. DEFINE p == round.actor
<1>1. stage = "asking" /\ p \in Active /\ p \in Players
  <2>1. Active \subseteq Players /\ stage = "asking" /\ ~RoundOver
    BY DEF Decide, Active
  <2>2. Active # {}
    BY <2>1, FS_EmptySet DEF RoundOver, BettingRoundComplete
  <2>. QED BY <2>1, <2>2 DEF HandInv, RoundInv
<1>2. PICK a \in Menu(p) : ApplyAction(p, a)
  BY DEF Decide
<1>. DEFINE c == Costs(p, a)
<1>3. c \in Int /\ -bet[p] <= c /\ c <= stack[p]
  BY <1>1, CostOfChoice
<1>4. /\ stack' = [stack EXCEPT ![p] = @ - c]
      /\ total' = [total EXCEPT ![p] = @ + c]
      /\ bet' = [bet EXCEPT ![p] = @ + c]
      /\ status' = [status EXCEPT ![p] = StatusAfter(p, a)]
      /\ round' = RoundAfter(p, a)
      /\ stage' \in {"asking", "failed"}
      /\ UNCHANGED <<dealer, start, won>>
  BY <1>2 DEF Decide, ApplyAction, AddsToPot
<1>5. StatusAfter(p, a) \in {"active", "folded", "all-in"}
  BY DEF StatusAfter
<1>6. StatusAfter(p, a) = "active" => c < stack[p]
  <2>1. stack[p] \in Nat /\ stack[p] > 0
    BY <1>1, StackLeft DEF HandInv
  <2>2. CASE a.type \in {"fold", "check"}
    BY <2>1, <2>2 DEF Costs
  <2>3. CASE a.type \notin {"fold", "check"}
    BY <2>3, <2>1, <1>3 DEF StatusAfter
  <2>. QED BY <2>2, <2>3
<1>7. \A q \in Players : stack[q] = start[q] - total[q] /\ stack[q] \in Nat
  BY <1>1, StackLeft DEF HandInv
<1>. HIDE DEF p, c
<1>8. LedgerInv'
  <2>1. ASSUME NEW q \in Players
        PROVE  /\ stack'[q] = (start[q] - total'[q]) + won[q]
               /\ bet'[q] \in Nat /\ total'[q] \in Nat
               /\ bet'[q] <= total'[q] /\ total'[q] <= start[q]
    <3>1. /\ won[q] = 0 /\ start[q] \in Nat /\ total[q] \in Nat /\ bet[q] \in Nat
          /\ bet[q] <= total[q] /\ total[q] <= start[q]
      BY <1>1 DEF HandInv, LedgerInv, StageInv, NoWinnings
    <3>2. CASE q = p
      <4>1. stack'[q] = stack[q] - c /\ total'[q] = total[q] + c /\ bet'[q] = bet[q] + c
        BY <1>4, <3>2 DEF HandInv, LedgerInv
      <4>. QED BY <4>1, <3>1, <3>2, <1>3, <1>7
    <3>3. CASE q # p
      BY <3>1, <3>3, <1>4, <1>7 DEF HandInv, LedgerInv
    <3>. QED BY <3>2, <3>3
  <2>2. total' \in [Players -> Nat] /\ bet' \in [Players -> Nat] /\ DOMAIN stack' = Players
    BY <1>4, <2>1 DEF HandInv, LedgerInv
  <2>. QED BY <1>4, <2>1, <2>2 DEF HandInv, LedgerInv, ChipsConserved
<1>9. StageInv'
  <2>1. \A q \in Players : status'[q] = "active" => total'[q] < start[q]
    <3>. SUFFICES ASSUME NEW q \in Players, status'[q] = "active"
                  PROVE  total'[q] < start[q]
      OBVIOUS
    <3>1. start[q] \in Nat /\ total[q] \in Nat
      BY DEF HandInv, LedgerInv
    <3>2. CASE q = p
      <4>1. StatusAfter(p, a) = "active" /\ total'[q] = total[q] + c
        BY <1>4, <3>2 DEF HandInv, LedgerInv, StageInv
      <4>. QED BY <4>1, <3>1, <3>2, <1>3, <1>6, <1>7
    <3>3. CASE q # p
      BY <3>1, <3>3, <1>1, <1>4 DEF HandInv, LedgerInv, StageInv, Active
    <3>. QED BY <3>2, <3>3
  <2>2. status' \in [Players -> {"active", "folded", "all-in"}]
    BY <1>4, <1>5 DEF HandInv, StageInv
  <2>. QED BY <1>1, <1>4, <2>1, <2>2 DEF HandInv, StageInv, Active
<1>10. RoundInv'
  <2>. DEFINE active == IF StatusAfter(p, a) = "active" THEN Active ELSE Active \ {p}
  <2>1. Active' = active
    BY <1>1, <1>4 DEF HandInv, StageInv, Active
  <2>2. /\ round' \in [actor : Players, minBet : Nat, minRaise : Int,
                       aggressor : Players \cup {Nobody}, acted : SUBSET Players]
        /\ active # {} => round'.actor \in active
    BY <1>1, <1>4, RoundAfterChoice
  <2>. QED BY <1>4, <2>1, <2>2 DEF HandInv, RoundInv
<1>. QED BY <1>8, <1>9, <1>10 DEF HandInv

\* The next street touches nobody's chips.
LEMMA NextStreetInv ==
  ASSUME HandInv, NextStreet
  PROVE  HandInv'
<1>1. /\ stage \in {"round", "asking"} /\ stage' = "round"
      /\ UNCHANGED <<dealer, start, stack, status, total, bet, round, won>>
  BY DEF NextStreet, RoundOver, player
<1>. QED BY <1>1 DEF HandInv, LedgerInv, StageInv, RoundInv, ChipsConserved, Active

\* The awards are added once, to stacks that had won nothing before.
LEMMA ShowdownInv ==
  ASSUME HandInv, Showdown
  PROVE  HandInv'
<1>1. /\ stage \in {"round", "asking"} /\ stage' = "awarded"
      /\ stack' = [p \in Players |-> stack[p] + won'[p]]
      /\ UNCHANGED <<dealer, start, status, total, bet, round>>
  BY DEF Showdown, ToShowdown, RoundOver
<1>2. \A p \in Players : stack[p] = start[p] - total[p]
  BY <1>1, StackLeft DEF HandInv
<1>3. \A p \in Players : stack'[p] = (start[p] - total[p]) + won'[p]
  BY <1>1, <1>2
<1>4. LedgerInv'
  BY <1>1, <1>3 DEF HandInv, LedgerInv, ChipsConserved
<1>5. StageInv' /\ RoundInv'
  BY <1>1 DEF HandInv, StageInv, RoundInv
<1>. QED BY <1>4, <1>5 DEF HandInv

\* HandInv is inductive.
LEMMA NextHandInv ==
  ASSUME HandInv, [Next]_vars
  PROVE  HandInv'
<1>1. CASE StartHand
  BY <1>1, StartHandInv
<1>2. CASE StartRound
  BY <1>2, StartRoundInv
<1>3. CASE Decide
  BY <1>3, DecideInv
<1>4. CASE NextStreet
  BY <1>4, NextStreetInv
<1>5. CASE Showdown
  BY <1>5, ShowdownInv
<1>6. CASE SaveSummary
  BY <1>6 DEF SaveSummary, player, HandInv, LedgerInv, StageInv, RoundInv, ChipsConserved, Active
<1>7. CASE UNCHANGED vars
  BY <1>7 DEF vars, player, HandInv, LedgerInv, StageInv, RoundInv, ChipsConserved, Active
<1>. QED BY <1>1, <1>2, <1>3, <1>4, <1>5, <1>6, <1>7 DEF Next

-----------------------------------------------------------------------------
(* The theorems.                                                            *)

\* The invariant of a hand holds throughout it.
THEOREM HandInvariant == Spec => []HandInv
<1>1. Init => HandInv
  BY InitHandInv
<1>2. HandInv /\ [Next]_vars => HandInv'
  BY NextHandInv
<1>. QED BY <1>1, <1>2, PTL DEF Spec

\* For any table, no sequence of blinds, bets, raises, all-ins, folds and
\* awards makes or loses a chip of a player's: applyAction's branches and the
\* awards of run() keep stack, bets and winnings in balance.
THEOREM HandChipsConserved == Spec => []ChipsConserved
<1>1. HandInv => ChipsConserved
  BY DEF HandInv, LedgerInv
<1>. QED BY <1>1, HandInvariant, PTL

\* For any table, the loop of runBettingRound asks only active players with
\* chips left, and computeLegalActions offers them nothing they cannot pay.
THEOREM HandAskedPlayerCanPay == Spec => []AskedPlayerCanPay
<1>1. HandInv => AskedPlayerCanPay
  <2>. SUFFICES ASSUME HandInv, stage = "asking", ~RoundOver
                PROVE  /\ round.actor \in Active /\ stack[round.actor] > 0
                       /\ \A a \in Menu(round.actor) : Costs(round.actor, a) <= stack[round.actor]
    BY DEF AskedPlayerCanPay
  <2>1. Active # {}
    BY FS_EmptySet DEF RoundOver, BettingRoundComplete
  <2>2. round.actor \in Active /\ round.actor \in Players
    BY <2>1 DEF HandInv, RoundInv, Active
  <2>3. stack[round.actor] > 0
    BY <2>2, StackLeft DEF HandInv
  <2>. QED BY <2>2, <2>3, CostOfChoice
<1>. QED BY <1>1, HandInvariant, PTL

-----------------------------------------------------------------------------
(* The pots.                                                                *)

Top(t) == Max({0} \cup t)

\* Levels without a gap below them.
DownTo(t) == \A k \in t : \A j \in Levels : j < k => j \in t

\* What the pots are computed from: an all-in player has bet something.
BetsOK ==
  /\ total \in [Players -> Nat]
  /\ \A p \in Players : status[p] = "all-in" => total[p] > 0

LEMMA PlayersFinite == IsFiniteSet(Players) /\ Players \subseteq Nat
BY FS_Interval, PokerAssumption DEF Players

LEMMA LevelsFinite ==
  ASSUME BetsOK
  PROVE  IsFiniteSet(Levels) /\ Levels \subseteq Nat \ {0}
<1> DEFINE A == {q \in Players : status[q] = "all-in"}
<1>1. IsFiniteSet(A)
  BY PlayersFinite, FS_Subset
<1> DEFINE f == [q \in A |-> total[q]]
<1>2. f \in Surjection(A, Levels)
  BY DEF Surjection, Levels
<1>3. IsFiniteSet(Levels)
  BY <1>1, <1>2, FS_Surjection
<1> QED BY <1>3 DEF Levels, BetsOK

\* The top of a part of the levels is one of them, or 0 if there is none.
LEMMA TopOf ==
  ASSUME BetsOK, NEW t \in SUBSET Levels
  PROVE  /\ Top(t) \in Nat /\ Top(t) \in {0} \cup t
         /\ \A k \in t : k <= Top(t)
<1> DEFINE S == {0} \cup t
<1>1. IsFiniteSet(t)
  BY LevelsFinite, FS_Subset
<1>2. S \subseteq Nat /\ S # {} /\ IsFiniteSet(S)
  BY <1>1, LevelsFinite, FS_AddElement
<1> HIDE DEF S
<1>3. Max(S) \in S /\ \A y \in S : y <= Max(S)
  BY <1>2, MaxOfNaturals
<1> QED BY <1>2, <1>3 DEF S, Top

\* The side pots up to a level hold what everybody bet up to it.
LEMMA SidePotsHold ==
  ASSUME BetsOK
  PROVE  \A t \in SUBSET Levels : DownTo(t) =>
           SumOf([l \in t |-> SidePot(l).amount]) = SumOf([p \in Players |-> Least(total[p], Top(t))])
<1> DEFINE side(t) == [l \in t |-> SidePot(l).amount]
           bets(t) == [p \in Players |-> Least(total[p], Top(t))]
           layers(l) == [p \in Players |-> Layer(p, l)]
           Good == {t \in SUBSET Levels : DownTo(t) => SumOf(side(t)) = SumOf(bets(t))}
<1>0. \A p \in Players : total[p] \in Nat
  BY DEF BetsOK
<1>1. \A t \in SUBSET Levels : Summable(bets(t)) /\ DOMAIN bets(t) = Players
  BY <1>0, TopOf, PlayersFinite DEF Least, Summable
<1>2. ASSUME NEW l \in Levels
      PROVE  /\ Below(l) \in Nat /\ Below(l) <= l
             /\ Summable(layers(l)) /\ DOMAIN layers(l) = Players
             /\ SidePot(l).amount = SumOf(layers(l)) /\ SumOf(layers(l)) \in Int
  <2> DEFINE u == {k \in Levels : k < l}
  <2>1. l \in Nat /\ u \in SUBSET Levels
    BY LevelsFinite
  <2>2. Below(l) = Top(u)
    BY DEF Below, Top
  <2>3. Below(l) \in Nat /\ Below(l) <= l
    BY <2>1, <2>2, TopOf
  <2>4. \A p \in Players : Layer(p, l) \in Int
    BY <1>0, <2>1, <2>3 DEF Layer, Least
  <2>5. Summable(layers(l)) /\ DOMAIN layers(l) = Players
    BY <2>4, PlayersFinite DEF Summable
  <2>6. SidePot(l).amount = SumOf(layers(l))
    BY DEF SidePot
  <2>7. SumOf(layers(l)) \in Int
    BY <2>5, SumRemove
  <2> QED BY <2>3, <2>5, <2>6, <2>7
<1>3. \A t \in SUBSET Levels : Summable(side(t)) /\ DOMAIN side(t) = t
  <2> SUFFICES ASSUME NEW t \in SUBSET Levels PROVE Summable(side(t))
    OBVIOUS
  <2>1. IsFiniteSet(t)
    BY LevelsFinite, FS_Subset
  <2>2. \A l \in t : SidePot(l).amount \in Int
    BY <1>2
  <2> QED BY <2>1, <2>2 DEF Summable
<1>4. ASSUME NEW t \in SUBSET Levels, \A u \in SUBSET t : u # t => u \in Good
      PROVE  t \in Good
  <2> SUFFICES ASSUME DownTo(t) PROVE SumOf(side(t)) = SumOf(bets(t))
    OBVIOUS
  <2>1. CASE t = {}
    <3>1. SumOf(side(t)) = 0
      <4> DEFINE f == side(t)
      <4>1. DOMAIN f = {} /\ IsFiniteSet(DOMAIN f)
        BY <2>1, FS_EmptySet
      <4> HIDE DEF f
      <4>2. SumOf(f) = 0
        BY <4>1, SumZero
      <4> QED BY <4>2 DEF f
    <3>2. Top(t) = 0
      BY <2>1, TopOf
    <3>3. \A p \in Players : bets(t)[p] = 0
      BY <3>2, <1>0 DEF Least
    <3>4. SumOf(bets(t)) = 0
      <4> DEFINE f == bets(t)
      <4>1. DOMAIN f = Players /\ \A p \in Players : f[p] = 0
        BY <1>1, <3>3
      <4> HIDE DEF f
      <4>2. SumOf(f) = 0
        BY <4>1, PlayersFinite, SumZero
      <4> QED BY <4>2 DEF f
    <3> QED BY <3>1, <3>4
  <2>2. CASE t # {}
    <3> DEFINE m == Top(t)  u == t \ {m}
    <3>1. m \in t /\ m \in Nat /\ \A k \in t : k <= m
      BY <2>2, TopOf, LevelsFinite
    <3>2. u = {k \in Levels : k < m}
      BY <3>1, LevelsFinite DEF DownTo
    <3> HIDE DEF m
    <3>3. u \in SUBSET t /\ u # t /\ DownTo(u)
      BY <3>1, <3>2, LevelsFinite DEF DownTo
    <3>4. Below(m) = Top(u)
      BY <3>2 DEF Below, Top
    <3> HIDE DEF u
    <3>5. SumOf(side(u)) = SumOf(bets(u))
      BY <1>4, <3>3
    <3>6. \A p \in Players : bets(t)[p] = layers(m)[p] + bets(u)[p]
      <4>1. \A p \in Players : bets(t)[p] = Least(total[p], m)
        BY DEF m
      <4>2. \A p \in Players : bets(u)[p] = Least(total[p], Below(m))
        BY <3>4
      <4>3. \A p \in Players : layers(m)[p] = Least(total[p], m) - Least(total[p], Below(m))
        BY DEF Layer
      <4>4. \A p \in Players : Least(total[p], m) \in Int /\ Least(total[p], Below(m)) \in Int
        <5>1. Below(m) \in Nat
          BY <1>2, <3>1
        <5> QED BY <1>0, <3>1, <5>1 DEF Least
      <4> HIDE DEF bets, layers
      <4> QED BY <4>1, <4>2, <4>3, <4>4
    <3>7. SumOf(bets(t)) = SumOf(layers(m)) + SumOf(bets(u))
      <4> DEFINE d == bets(t)  f == layers(m)  e == bets(u)
      <4>1. Summable(d) /\ Summable(e) /\ Summable(f)
            /\ DOMAIN d = Players /\ DOMAIN e = Players /\ DOMAIN f = Players
        BY <1>1, <1>2, <3>1, <3>3
      <4>2. \A p \in Players : d[p] = f[p] + e[p]
        BY <3>6
      <4> HIDE DEF d, e, f
      <4>3. SumOf(d) = SumOf(f) + SumOf(e)
        BY <4>1, <4>2, SumPlus
      <4> QED BY <4>3 DEF d, e, f
    <3>8. SumOf(side(t)) = SumOf(layers(m)) + SumOf(side(u))
      <4>1. SumOf(side(t)) = side(t)[m] + SumOf(Restrict(side(t), t \ {m}))
        BY <1>3, <3>1, SumRemove
      <4>2. Restrict(side(t), t \ {m}) = side(u)
        BY <3>1 DEF Restrict, u
      <4>3. side(t)[m] = SumOf(layers(m))
        BY <1>2, <3>1
      <4> QED BY <4>1, <4>2, <4>3
    <3> QED BY <3>5, <3>7, <3>8
  <2> QED BY <2>1, <2>2
<1> HIDE DEF Good
<1>5. \A t \in SUBSET Levels : t \in Good
  BY <1>4, LevelsFinite, SubsetInduction
<1> QED BY <1>5 DEF Good

\* A sum over the pots is one over the levels and what lies above the highest.
LEMMA SumOverPots ==
  ASSUME BetsOK, NEW V, DOMAIN V = Pots, \A pot \in Pots : V[pot] \in Int
  PROVE  /\ Summable(V)
         /\ Summable([l \in Levels |-> V[<<l, SidePot(l)>>]])
         /\ SumOf(V) = V[<<0, RestPot>>] + SumOf([l \in Levels |-> V[<<l, SidePot(l)>>]])
<1> DEFINE side == [l \in Levels |-> <<l, SidePot(l)>>]
           SidePots == {<<l, SidePot(l)>> : l \in Levels}
           rest == <<0, RestPot>>
           e == [l \in Levels |-> V[<<l, SidePot(l)>>]]
           f == Restrict(V, Pots \ {rest})
<1>1. IsFiniteSet(SidePots)
  <2>1. side \in Surjection(Levels, SidePots)
    BY DEF Surjection
  <2> HIDE DEF side, SidePots
  <2> QED BY <2>1, LevelsFinite, FS_Surjection
<1>2. Pots = SidePots \cup {rest}
  BY DEF Pots
<1>3. rest \notin SidePots
  BY LevelsFinite
<1>4. \A l \in Levels : <<l, SidePot(l)>> \in SidePots
  OBVIOUS
<1>5. Summable(V)
  <2> HIDE DEF SidePots, rest
  <2> QED BY <1>1, <1>2, FS_AddElement DEF Summable
<1>6. Summable(e) /\ DOMAIN e = Levels
  BY <1>2, <1>4, LevelsFinite DEF Summable
<1>7. Pots \ {rest} = SidePots
  BY <1>2, <1>3
<1>8. Summable(f) /\ DOMAIN f = SidePots /\ \A x \in SidePots : f[x] = V[x]
  <2> HIDE DEF SidePots, rest, f
  <2> QED BY <1>2, <1>5, <1>7, RestrictSummable DEF f
<1>9. SumOf(V) = V[rest] + SumOf(f)
  <2> HIDE DEF SidePots, rest, f
  <2> QED BY <1>2, <1>5, SumRemove DEF f
<1>10. SumOf(e) = SumOf(f)
  <2>1. side \in [DOMAIN e -> DOMAIN f]
    BY <1>4, <1>6, <1>8
  <2>2. \A l, k \in DOMAIN e : side[l] = side[k] => l = k
    BY <1>6
  <2>3. \A z \in DOMAIN f : \E l \in DOMAIN e : side[l] = z
    BY <1>6, <1>8
  <2>4. \A l \in DOMAIN e : e[l] = f[side[l]]
    BY <1>4, <1>6, <1>8
  <2> HIDE DEF side, e, f
  <2> QED BY <1>6, <1>8, <2>1, <2>2, <2>3, <2>4, SumReindex
<1> QED BY <1>5, <1>6, <1>9, <1>10

\* The amounts of the pots are natural numbers, and make up what was bet.
LEMMA PotsHoldBets ==
  ASSUME BetsOK
  PROVE  /\ \A pot \in Pots : pot[2].amount \in Nat
         /\ SumOf([pot \in Pots |-> pot[2].amount]) = SumOf(total)
<1> DEFINE top == Max({0} \cup Levels)
           low == [p \in Players |-> Least(total[p], top)]
           high == [p \in Players |-> Most(0, total[p] - top)]
           amounts == [pot \in Pots |-> pot[2].amount]
           side == [l \in Levels |-> SidePot(l).amount]
<1>0. total \in [Players -> Nat]
  BY DEF BetsOK
<1>1. top = Top(Levels) /\ top \in Nat
  BY TopOf DEF Top
<1> HIDE DEF top
<1>2. /\ Summable(low) /\ DOMAIN low = Players
      /\ Summable(high) /\ DOMAIN high = Players /\ \A p \in Players : high[p] >= 0
      /\ Summable(total) /\ DOMAIN total = Players
  <2>1. \A p \in Players : low[p] \in Int /\ high[p] \in Nat
    BY <1>0, <1>1 DEF Least, Most
  <2>2. DOMAIN low = Players /\ DOMAIN high = Players
    OBVIOUS
  <2>3. Summable(low) /\ Summable(high)
    BY <2>1, PlayersFinite DEF Summable
  <2> HIDE DEF low, high
  <2>4. \A p \in Players : high[p] >= 0
    BY <2>1
  <2>5. Summable(total) /\ DOMAIN total = Players
    BY <1>0, PlayersFinite DEF Summable
  <2> QED BY <2>2, <2>3, <2>4, <2>5
<1>3. RestPot.amount = SumOf(high)
  BY DEF RestPot, top
<1>4. SumOf(high) \in Nat
  <2> HIDE DEF high
  <2> QED BY <1>2, SumLeast
<1>5. ASSUME NEW l \in Levels PROVE SidePot(l).amount \in Nat
  <2> DEFINE layers == [p \in Players |-> Layer(p, l)]
             u == {k \in Levels : k < l}
  <2>1. l \in Nat /\ u \in SUBSET Levels
    BY LevelsFinite
  <2>2. Below(l) = Top(u)
    BY DEF Below, Top
  <2>3. Below(l) \in Nat /\ Below(l) <= l
    BY <2>1, <2>2, TopOf
  <2>4. \A p \in Players : layers[p] \in Nat
    BY <1>0, <2>1, <2>3 DEF Layer, Least
  <2>5. DOMAIN layers = Players
    OBVIOUS
  <2>6. SidePot(l).amount = SumOf(layers)
    BY DEF SidePot
  <2>7. Summable(layers)
    BY <2>4, PlayersFinite DEF Summable
  <2> HIDE DEF layers
  <2>8. \A p \in DOMAIN layers : layers[p] >= 0
    BY <2>4, <2>5
  <2>9. SumOf(layers) \in Nat
    BY <2>7, <2>8, SumLeast
  <2> QED BY <2>6, <2>9
<1>6. \A pot \in Pots : pot[2].amount \in Nat
  BY <1>3, <1>4, <1>5 DEF Pots
<1>7. SumOf(amounts) = RestPot.amount + SumOf(side)
  <2> DEFINE e == [l \in Levels |-> amounts[<<l, SidePot(l)>>]]
  <2>1. DOMAIN amounts = Pots /\ \A pot \in Pots : amounts[pot] \in Int
    BY <1>6
  <2>2. e = side
    BY DEF Pots
  <2>3. amounts[<<0, RestPot>>] = RestPot.amount
    BY DEF Pots
  <2> HIDE DEF amounts, side
  <2>4. SumOf(amounts) = amounts[<<0, RestPot>>] + SumOf(e)
    BY <2>1, SumOverPots, Zenon
  <2> HIDE DEF e
  <2> QED BY <2>2, <2>3, <2>4
<1>8. SumOf(side) = SumOf(low)
  <2>1. DownTo(Levels) /\ Levels \in SUBSET Levels
    BY DEF DownTo
  <2> QED BY <1>1, <2>1, SidePotsHold
<1>9. \A p \in Players : total[p] = high[p] + low[p]
  BY <1>0, <1>1 DEF Least, Most
<1> HIDE DEF low, high, side, amounts
<1>10. SumOf(total) = SumOf(high) + SumOf(low)
  BY <1>2, <1>9, SumPlus
<1> QED BY <1>3, <1>6, <1>7, <1>8, <1>10 DEF amounts

-----------------------------------------------------------------------------
(* The awards.                                                              *)

\* buttonSeatOrder has a first among any players.
LEMMA FirstIsOne ==
  ASSUME dealer \in Players, NEW S \in SUBSET Players, S # {}
  PROVE  FirstInOrder(S) \in S
<1> DEFINE Before(p, q) == Distance(p) < Distance(q) \/ (Distance(p) = Distance(q) /\ p <= q)
           Good == {t \in SUBSET S : t = {} \/ \E p \in t : \A q \in t : Before(p, q)}
<1>1. \A p \in Players : Distance(p) \in Int /\ p \in Int
  <2>1. \A p \in Players : SeatOf[p] - SeatOf[dealer] + N \in Int /\ p \in Int
    BY PokerAssumption, PlayersFinite
  <2>2. \A a \in Int : JsMod(a, N) \in Int
    BY PokerAssumption DEF JsMod
  <2> QED BY <2>1, <2>2 DEF Distance
<1>2. /\ \A p \in S : Before(p, p)
      /\ \A p, q \in S : Before(p, q) \/ Before(q, p)
      /\ \A p, q, r \in S : Before(p, q) /\ Before(q, r) => Before(p, r)
  BY <1>1
<1> HIDE DEF Before
<1>3. ASSUME NEW t \in SUBSET S, \A u \in SUBSET t : u # t => u \in Good
      PROVE  t \in Good
  <2>1. CASE t = {}
    BY <2>1
  <2>2. CASE t # {}
    <3>1. PICK x \in t : TRUE
      BY <2>2
    <3> DEFINE u == t \ {x}
    <3>2. u \in SUBSET t /\ u # t /\ t = u \cup {x} /\ x \in S /\ u \in SUBSET S
      BY <3>1
    <3> HIDE DEF u
    <3>3. u \in Good
      BY <1>3, <3>2
    <3>4. CASE u = {}
      <4>1. \A q \in t : Before(x, q)
        BY <1>2, <3>2, <3>4
      <4> QED BY <3>1, <4>1
    <3>5. CASE u # {}
      <4>1. PICK m \in u : \A q \in u : Before(m, q)
        BY <3>3, <3>5
      <4>2. CASE Before(m, x)
        <5>1. m \in t /\ \A q \in t : Before(m, q)
          BY <3>2, <4>1, <4>2
        <5> QED BY <5>1
      <4>3. CASE Before(x, m)
        <5>1. \A q \in t : Before(x, q)
          BY <1>2, <3>2, <4>1, <4>3
        <5> QED BY <3>1, <5>1
      <4> QED BY <1>2, <3>2, <4>1, <4>2, <4>3
    <3> QED BY <3>4, <3>5
  <2> QED BY <2>1, <2>2
<1>4. IsFiniteSet(S)
  BY PlayersFinite, FS_Subset
<1> HIDE DEF Good
<1>5. S \in Good
  BY <1>3, <1>4, SubsetInduction
<1>6. \E p \in S : \A q \in S :
        Distance(p) < Distance(q) \/ (Distance(p) = Distance(q) /\ p <= q)
  BY <1>5 DEF Good, Before
<1> QED BY <1>6 DEF FirstInOrder

\* The winners' shares of a pot are natural numbers that make it up.
LEMMA SharesOfPot ==
  ASSUME dealer \in Players, NEW W \in SUBSET Players, NEW amount \in Nat
  PROVE  /\ \A p \in Players : Share(p, W, amount) \in Nat /\ Share(p, W, amount) <= amount
         /\ \A p \in Players \ W : Share(p, W, amount) = 0
         /\ W # {} => SumOf([p \in Players |-> Share(p, W, amount)]) = amount
<1>1. CASE W = {}
  BY <1>1 DEF Share
<1>2. CASE W # {}
  <2> DEFINE n == Cardinality(W)  q == amount \div n  r == amount % n  first == FirstInOrder(W)
             shares == [p \in Players |-> Share(p, W, amount)]
             even == [p \in Players |-> IF p \in W THEN q ELSE 0]
             odd == [p \in Players |-> IF p \in {first} THEN r ELSE 0]
  <2>1. n \in Nat /\ n >= 1
    <3>1. IsFiniteSet(W)
      BY PlayersFinite, FS_Subset
    <3> QED BY <1>2, <3>1, FS_CardinalityType, FS_EmptySet
  <2>2. first \in W /\ first \in Players
    BY <1>2, FirstIsOne
  <2>3. \A p \in Players : Share(p, W, amount) = IF p \in W THEN q + (IF p = first THEN r ELSE 0) ELSE 0
    BY DEF Share
  <2> HIDE DEF n, first
  <2>4. q \in Nat /\ r \in Nat /\ n * q + r = amount
    BY <2>1
  <2> HIDE DEF q, r
  <2>5. q <= n * q /\ n * q \in Nat
    <3>1. (n - 1) * q >= 0
      BY <2>1, <2>4
    <3>2. n * q = (n - 1) * q + q
      BY <2>1, <2>4
    <3> QED BY <2>1, <2>4, <3>1, <3>2
  <2>6. q + r <= amount
    BY <2>4, <2>5
  <2>7. \A p \in Players : Share(p, W, amount) \in Nat /\ Share(p, W, amount) <= amount
    BY <2>3, <2>4, <2>6
  <2>8. \A p \in Players : shares[p] = even[p] + odd[p]
    BY <2>2, <2>3, <2>4
  <2>9. Summable(shares) /\ Summable(even) /\ Summable(odd)
    BY <2>4, <2>7, PlayersFinite DEF Summable
  <2>10. /\ DOMAIN shares = Players /\ DOMAIN even = Players /\ DOMAIN odd = Players
         /\ IsFiniteSet(DOMAIN even) /\ W \in SUBSET DOMAIN even
         /\ IsFiniteSet(DOMAIN odd) /\ {first} \in SUBSET DOMAIN odd
         /\ \A p \in DOMAIN even : even[p] = IF p \in W THEN q ELSE 0
         /\ \A p \in DOMAIN odd : odd[p] = IF p \in {first} THEN r ELSE 0
    BY <2>2, PlayersFinite
  <2> HIDE DEF shares, even, odd
  <2>11. SumOf(shares) = SumOf(even) + SumOf(odd)
    BY <2>8, <2>9, <2>10, SumPlus
  <2>12. SumOf(even) = n * q
    BY <2>4, <2>10, SumConstant DEF n
  <2>13. SumOf(odd) = r
    <3>1. Cardinality({first}) = 1
      BY FS_Singleton
    <3>2. SumOf(odd) = Cardinality({first}) * r
      BY <2>4, <2>10, SumConstant
    <3> QED BY <2>4, <3>1, <3>2
  <2>14. SumOf(shares) = amount
    BY <2>4, <2>5, <2>11, <2>12, <2>13
  <2> QED BY <2>3, <2>7, <2>14 DEF shares
<1> QED BY <1>1, <1>2

\* Who wins a pot has not folded, and has bet up to its level unless he is the only one
\* who has not.
LEMMA WinnersOf ==
  ASSUME NEW pot \in Pots, NEW rank
  PROVE  /\ Winners(pot[2], rank) \subseteq NonFolded
         /\ \A l \in Levels : pot[2] = SidePot(l) /\ Cardinality(NonFolded) # 1 =>
              \A p \in Winners(pot[2], rank) : total[p] >= l
<1>1. pot[2].eligible \subseteq NonFolded
  <2>1. RestPot.eligible \subseteq NonFolded
    BY DEF RestPot
  <2>2. \A l \in Levels : SidePot(l).eligible \subseteq NonFolded
    BY DEF SidePot
  <2> QED BY <2>1, <2>2 DEF Pots
<1>2. Winners(pot[2], rank) \subseteq NonFolded
  BY <1>1 DEF Winners
<1>3. ASSUME NEW l \in Levels, pot[2] = SidePot(l), Cardinality(NonFolded) # 1,
             NEW p \in Winners(pot[2], rank)
      PROVE  total[p] >= l
  <2>1. p \in pot[2].eligible
    BY <1>3 DEF Winners
  <2>2. p \in SidePot(l).eligible
    BY <2>1, <1>3
  <2> QED BY <2>2 DEF SidePot
<1> QED BY <1>2, <1>3

\* In a hand in which everybody got cards each pot has a winner.
LEMMA PotsAreWon ==
  ASSUME BetsOK, NonFolded # {}, holds = Players, NEW pot \in Pots, NEW rank \in Ranks
  PROVE  Winners(pot[2], rank) # {}
<1>1. CASE Cardinality(NonFolded) = 1
  BY <1>1 DEF Winners
<1>2. CASE Cardinality(NonFolded) # 1
  <2> DEFINE E == pot[2].eligible \cap holds
             R == {rank[p] : p \in E}
  <2>1. E # {} /\ E \subseteq Players
    <3>1. CASE pot[2] = RestPot
      <4>1. RestPot.eligible = NonFolded /\ NonFolded \subseteq Players
        BY DEF RestPot, NonFolded
      <4> QED BY <3>1, <4>1
    <3>2. ASSUME NEW l \in Levels, pot[2] = SidePot(l) PROVE E # {} /\ E \subseteq Players
      <4>1. PICK p \in Players : status[p] = "all-in" /\ total[p] = l
        BY DEF Levels
      <4>2. l \in Nat
        BY LevelsFinite
      <4>3. p \in NonFolded /\ total[p] >= l
        BY <4>1, <4>2 DEF NonFolded
      <4>4. SidePot(l).eligible = {q \in NonFolded : total[q] >= l}
        BY DEF SidePot
      <4> QED BY <3>2, <4>3, <4>4 DEF NonFolded
    <3> QED BY <3>1, <3>2 DEF Pots
  <2> HIDE DEF E
  <2>2. rank \in [Players -> Players]
    BY DEF Ranks
  <2>3. R \subseteq Players /\ R # {}
    BY <2>1, <2>2
  <2>4. R \subseteq Nat /\ IsFiniteSet(R)
    BY <2>3, PlayersFinite, FS_Subset
  <2> HIDE DEF R
  <2>5. Max(R) \in R /\ \A y \in R : y <= Max(R)
    BY <2>3, <2>4, MaxOfNaturals
  <2>6. PICK p \in E : rank[p] = Max(R)
    BY <2>5 DEF R
  <2>7. \A q \in E : rank[p] >= rank[q]
    <3> SUFFICES ASSUME NEW q \in E PROVE rank[p] >= rank[q]
      OBVIOUS
    <3>1. rank[q] \in R
      BY DEF R
    <3>2. rank[q] <= Max(R) /\ rank[q] \in Nat /\ Max(R) \in Nat
      BY <2>4, <2>5, <3>1
    <3> QED BY <2>6, <3>2
  <2>8. Winners(pot[2], rank) = {x \in E : \A q \in E : rank[x] >= rank[q]}
    BY <1>2 DEF Winners, E
  <2> QED BY <2>6, <2>7, <2>8
<1> QED BY <1>1, <1>2

\* A player's shares of the pots.
SharesOf(p, rank) == [pot \in Pots |-> Share(p, Winners(pot[2], rank), pot[2].amount)]

LEMMA SharesOfPlayer ==
  ASSUME BetsOK, dealer \in Players, NEW rank
  PROVE  \A p \in Players :
           /\ DOMAIN SharesOf(p, rank) = Pots /\ Summable(SharesOf(p, rank))
           /\ \A pot \in Pots : /\ SharesOf(p, rank)[pot] \in Nat
                                /\ SharesOf(p, rank)[pot] <= pot[2].amount
                                /\ p \notin Winners(pot[2], rank) => SharesOf(p, rank)[pot] = 0
           /\ Award(rank)[p] = SumOf(SharesOf(p, rank)) /\ Award(rank)[p] \in Nat
<1> SUFFICES ASSUME NEW p \in Players
             PROVE  /\ DOMAIN SharesOf(p, rank) = Pots /\ Summable(SharesOf(p, rank))
                    /\ \A pot \in Pots : /\ SharesOf(p, rank)[pot] \in Nat
                                         /\ SharesOf(p, rank)[pot] <= pot[2].amount
                                         /\ p \notin Winners(pot[2], rank) => SharesOf(p, rank)[pot] = 0
                    /\ Award(rank)[p] = SumOf(SharesOf(p, rank)) /\ Award(rank)[p] \in Nat
  OBVIOUS
<1> DEFINE V == SharesOf(p, rank)
<1>1. DOMAIN V = Pots
  BY DEF SharesOf
<1>2. ASSUME NEW pot \in Pots
      PROVE  /\ V[pot] \in Nat /\ V[pot] <= pot[2].amount
             /\ p \notin Winners(pot[2], rank) => V[pot] = 0
  <2> DEFINE W == Winners(pot[2], rank)  amount == pot[2].amount
  <2>1. W \in SUBSET Players /\ amount \in Nat
    BY WinnersOf, PotsHoldBets DEF NonFolded
  <2>2. V[pot] = Share(p, W, amount)
    BY DEF SharesOf
  <2> HIDE DEF V, W, amount
  <2>3. /\ Share(p, W, amount) \in Nat /\ Share(p, W, amount) <= amount
        /\ p \notin W => Share(p, W, amount) = 0
    BY <2>1, SharesOfPot
  <2> QED BY <2>2, <2>3 DEF W, amount
<1>3. Award(rank)[p] = SumOf(V)
  BY DEF Award, SharesOf
<1> HIDE DEF V
<1>4. \A pot \in Pots : V[pot] \in Int
  BY <1>2
<1>5. Summable(V)
  BY <1>1, <1>4, SumOverPots
<1>6. \A pot \in DOMAIN V : V[pot] >= 0
  BY <1>1, <1>2
<1>7. SumOf(V) \in Nat
  BY <1>5, <1>6, SumLeast
<1> QED BY <1>1, <1>2, <1>3, <1>5, <1>7 DEF V

\* What all players get is what the pots hold.
LEMMA AwardsAddUp ==
  ASSUME BetsOK, dealer \in Players, NonFolded # {}, holds = Players, NEW rank \in Ranks
  PROVE  SumOf(Award(rank)) = SumOf(total)
<1> DEFINE shares(pot) == [p \in Players |-> Share(p, Winners(pot[2], rank), pot[2].amount)]
           F == [pot \in Pots |-> shares(pot)]
           amounts == [pot \in Pots |-> pot[2].amount]
<1>1. ASSUME NEW pot \in Pots
      PROVE  /\ shares(pot) \in [Players -> Int]
             /\ SumOf(shares(pot)) = pot[2].amount
  <2> DEFINE W == Winners(pot[2], rank)  amount == pot[2].amount
  <2>1. W \in SUBSET Players /\ W # {} /\ amount \in Nat
    BY WinnersOf, PotsAreWon, PotsHoldBets DEF NonFolded
  <2> HIDE DEF W, amount
  <2>2. /\ \A p \in Players : Share(p, W, amount) \in Nat
        /\ SumOf([p \in Players |-> Share(p, W, amount)]) = amount
    BY <2>1, SharesOfPot
  <2> QED BY <2>2 DEF W, amount
<1>2. IsFiniteSet(Pots)
  <2>1. DOMAIN amounts = Pots /\ \A pot \in Pots : amounts[pot] \in Int
    BY PotsHoldBets
  <2> HIDE DEF amounts
  <2>2. Summable(amounts)
    BY <2>1, SumOverPots
  <2> QED BY <2>1, <2>2 DEF Summable
<1> DEFINE G == [p \in Players |-> SharesOf(p, rank)]
<1>3. \A pot \in Pots : \A p \in Players : F[pot][p] \in Int /\ G[p][pot] = F[pot][p]
  BY <1>1 DEF SharesOf
<1>4. SumsRows(amounts, F, Pots, Players)
  BY <1>1, <1>3 DEF SumsRows
<1>5. SumsRows(Award(rank), G, Players, Pots)
  <2>1. DOMAIN Award(rank) = Players
    BY DEF Award
  <2>2. \A p \in Players : DOMAIN G[p] = Pots /\ Award(rank)[p] = SumOf(G[p])
    BY SharesOfPlayer
  <2> HIDE DEF F, G
  <2> QED BY <1>3, <2>1, <2>2 DEF SumsRows
<1>6. SumOf(amounts) = SumOf(total)
  BY PotsHoldBets
<1> HIDE DEF F, G, amounts
<1>7. SumOf(amounts) = SumOf(Award(rank))
  <2>1. \A pot \in Pots : \A p \in Players : G[p][pot] = F[pot][p]
    BY <1>3
  <2>2. IsFiniteSet(Players)
    BY PlayersFinite
  <2>3. SumsTable(amounts, Award(rank), F, G, Pots, Players)
    BY <1>2, <1>4, <1>5, <2>1, <2>2 DEF SumsTable
  <2> QED BY <2>3, SumSwap
<1> QED BY <1>6, <1>7

\* Whoever folded gets nothing, and when nothing lies above the highest level everybody
\* else at most as much from each player as he has bet himself.
LEMMA AwardsAreFair ==
  ASSUME BetsOK, dealer \in Players, NEW rank, NEW p \in Players
  PROVE  IF status[p] = "folded" THEN Award(rank)[p] = 0
         ELSE RestPot.amount = 0 => Award(rank)[p] <= Stake(p)
<1> DEFINE V == SharesOf(p, rank)
           stakes == [q \in Players |-> Least(total[p], total[q])]
<1>1. /\ DOMAIN V = Pots /\ Summable(V)
      /\ \A pot \in Pots : /\ V[pot] \in Nat /\ V[pot] <= pot[2].amount
                           /\ p \notin Winners(pot[2], rank) => V[pot] = 0
      /\ Award(rank)[p] = SumOf(V)
  BY SharesOfPlayer
<1> HIDE DEF V
<1>2. \A q \in Players : total[q] \in Nat
  BY DEF BetsOK
<1>3. Summable(stakes) /\ DOMAIN stakes = Players /\ Stake(p) = SumOf(stakes)
  BY <1>2, PlayersFinite DEF Least, Summable, Stake
<1>4. ASSUME status[p] = "folded"
      PROVE  Award(rank)[p] = 0
  <2>1. \A pot \in Pots : p \notin Winners(pot[2], rank)
    BY <1>4, WinnersOf DEF NonFolded
  <2>2. IsFiniteSet(DOMAIN V) /\ \A pot \in DOMAIN V : V[pot] = 0
    BY <1>1, <2>1 DEF Summable
  <2>3. SumOf(V) = 0
    BY <2>2, SumZero
  <2> QED BY <1>1, <2>3
<1>5. ASSUME status[p] # "folded", RestPot.amount = 0, Cardinality(NonFolded) # 1
      PROVE  Award(rank)[p] <= Stake(p)
  <2> DEFINE t == {l \in Levels : l <= total[p]}
             side == [l \in Levels |-> V[<<l, SidePot(l)>>]]
             most == [l \in Levels |-> IF l \in t THEN SidePot(l).amount ELSE 0]
             bets == [q \in Players |-> Least(total[q], Top(t))]
  <2>1. \A l \in Levels : <<l, SidePot(l)>> \in Pots /\ SidePot(l).amount \in Nat
    <3>1. \A l \in Levels : <<l, SidePot(l)>> \in Pots
      BY DEF Pots
    <3>2. \A l \in Levels : <<l, SidePot(l)>>[2].amount \in Nat
      BY <3>1, PotsHoldBets
    <3> QED BY <3>1, <3>2
  <2>2. V[<<0, RestPot>>] = 0
    <3>1. <<0, RestPot>> \in Pots
      BY DEF Pots
    <3>2. V[<<0, RestPot>>] \in Nat /\ V[<<0, RestPot>>] <= <<0, RestPot>>[2].amount
      BY <1>1, <3>1
    <3> QED BY <1>5, <3>2
  <2>3. Summable(side) /\ SumOf(V) = SumOf(side)
    <3>1. \A pot \in Pots : V[pot] \in Int
      BY <1>1
    <3>2. Summable(side) /\ SumOf(V) = V[<<0, RestPot>>] + SumOf(side)
      BY <1>1, <3>1, SumOverPots
    <3>3. SumOf(side) \in Int
      BY <3>2, SumRemove
    <3> QED BY <2>2, <3>2, <3>3
  <2>4. ASSUME NEW l \in Levels PROVE side[l] <= most[l]
    <3> DEFINE pot == <<l, SidePot(l)>>
    <3>1. pot \in Pots /\ pot[2] = SidePot(l) /\ l \in Nat
      BY <2>1, LevelsFinite
    <3>2. side[l] = V[pot] /\ V[pot] <= SidePot(l).amount
      BY <1>1, <3>1
    <3>3. CASE l \in t
      BY <3>2, <3>3
    <3>4. CASE l \notin t
      <4>1. ~(total[p] >= l)
        BY <1>2, <3>1, <3>4
      <4>2. p \notin Winners(pot[2], rank)
        BY <1>5, <3>1, <4>1, WinnersOf
      <4>3. V[pot] = 0
        BY <1>1, <3>1, <4>2
      <4> QED BY <3>2, <3>4, <4>3
    <3> QED BY <3>3, <3>4
  <2>5. Summable(most) /\ DOMAIN most = Levels /\ DOMAIN side = Levels
    <3> HIDE DEF t
    <3>1. \A l \in Levels : SidePot(l).amount \in Nat
      BY <2>1, Zenon
    <3>2. \A l \in Levels : (IF l \in t THEN SidePot(l).amount ELSE 0) \in Int
      BY <3>1
    <3> QED BY <3>2, LevelsFinite DEF Summable
  <2>6. SumOf(side) <= SumOf(most)
    <3>1. \A l \in DOMAIN side : side[l] <= most[l]
      BY <2>4
    <3> HIDE DEF side, most
    <3> QED BY <2>3, <2>5, <3>1, SumMonotone
  <2>7. SumOf(most) = SumOf(bets)
    <3> DEFINE part == [l \in t |-> SidePot(l).amount]
               rest == Restrict(most, Levels \ t)
    <3>1. Restrict(most, t) = part
      BY DEF Restrict
    <3>2. DOMAIN rest = Levels \ t /\ \A l \in Levels \ t : rest[l] = 0
      BY DEF Restrict
    <3>3. IsFiniteSet(Levels \ t) /\ t \in SUBSET Levels
      BY LevelsFinite, FS_Subset
    <3>4. SumOf(rest) = 0
      <4> HIDE DEF rest
      <4> QED BY <3>2, <3>3, SumZero
    <3>5. SumOf(most) = SumOf(Restrict(most, t)) + SumOf(rest)
      <4> HIDE DEF most
      <4> QED BY <2>5, <3>3, SumSplit
    <3>6. SumOf(part) = SumOf(bets)
      <4>1. DownTo(t)
        BY <1>2, LevelsFinite DEF DownTo
      <4> QED BY <3>3, <4>1, SidePotsHold
    <3>7. SumOf(Restrict(most, t)) \in Int
      <4> HIDE DEF most
      <4>1. Summable(Restrict(most, t))
        BY <2>5, <3>3, RestrictSummable
      <4> QED BY <4>1, SumRemove
    <3> HIDE DEF rest, part, bets, most
    <3> QED BY <3>1, <3>4, <3>5, <3>6, <3>7
  <2>8. Summable(bets) /\ DOMAIN bets = Players /\ \A q \in Players : bets[q] <= stakes[q]
    <3>1. Top(t) \in Nat /\ Top(t) <= total[p]
      BY <1>2, TopOf
    <3> HIDE DEF t
    <3> QED BY <1>2, <3>1, PlayersFinite DEF Least, Summable
  <2>9. SumOf(bets) <= SumOf(stakes)
    <3>1. \A q \in DOMAIN bets : bets[q] <= stakes[q]
      BY <2>8
    <3> HIDE DEF bets, stakes
    <3> QED BY <1>3, <2>8, <3>1, SumMonotone
  <2>10. SumOf(side) \in Int /\ SumOf(most) \in Int /\ SumOf(bets) \in Int /\ SumOf(stakes) \in Int
    <3> HIDE DEF side, most, bets, stakes
    <3> QED BY <1>3, <2>3, <2>5, <2>8, SumRemove
  <2> HIDE DEF side, most, bets, stakes
  <2> QED BY <1>1, <1>3, <2>3, <2>6, <2>7, <2>9, <2>10
<1>6. ASSUME status[p] # "folded", RestPot.amount = 0, Cardinality(NonFolded) = 1
      PROVE  Award(rank)[p] <= Stake(p)
  <2> DEFINE amounts == [pot \in Pots |-> pot[2].amount]
             top == Max({0} \cup Levels)
             high == [q \in Players |-> Most(0, total[q] - top)]
  <2>1. SumOf(V) <= SumOf(total)
    <3>1. \A pot \in Pots : amounts[pot] \in Int
      BY PotsHoldBets
    <3>2. Summable(amounts) /\ DOMAIN amounts = Pots
      BY <3>1, SumOverPots
    <3>3. \A pot \in DOMAIN V : V[pot] <= amounts[pot]
      BY <1>1
    <3>4. SumOf(amounts) = SumOf(total)
      BY PotsHoldBets
    <3> HIDE DEF amounts
    <3>5. SumOf(V) <= SumOf(amounts)
      BY <1>1, <3>2, <3>3, SumMonotone
    <3> QED BY <3>4, <3>5
  <2>2. NonFolded = {p}
    <3>1. IsFiniteSet(NonFolded) /\ p \in NonFolded
      BY <1>6, PlayersFinite, FS_Subset DEF NonFolded
    <3> QED BY <1>6, <3>1, FS_Singleton
  <2>3. Levels \subseteq {total[p]}
    BY <2>2 DEF Levels, NonFolded
  <2>4. top \in Nat /\ top <= total[p]
    <3>1. top = Top(Levels)
      BY DEF Top
    <3>2. top \in Nat /\ top \in {0} \cup Levels
      BY <3>1, TopOf
    <3> HIDE DEF top
    <3> QED BY <1>2, <2>3, <3>2
  <2>5. \A q \in Players : total[q] <= total[p]
    <3>1. RestPot.amount = SumOf(high)
      BY DEF RestPot
    <3> HIDE DEF top
    <3>2. \A q \in Players : high[q] \in Nat /\ high[q] >= total[q] - top
      BY <1>2, <2>4 DEF Most
    <3>3. Summable(high) /\ DOMAIN high = Players
      BY <3>2, PlayersFinite DEF Summable
    <3> HIDE DEF high
    <3>4. \A q \in DOMAIN high : high[q] >= 0
      BY <3>2, <3>3
    <3>5. \A q \in DOMAIN high : high[q] <= SumOf(high)
      BY <3>3, <3>4, SumLeast
    <3> QED BY <1>2, <1>6, <2>4, <3>1, <3>2, <3>3, <3>5
  <2>6. stakes = total
    <3>1. \A q \in Players : stakes[q] = total[q]
      BY <1>2, <2>5 DEF Least
    <3> QED BY <3>1 DEF BetsOK
  <2> QED BY <1>1, <1>3, <2>1, <2>6
<1> QED BY <1>4, <1>5, <1>6

-----------------------------------------------------------------------------
(* From the blinds to the awards.                                           *)

\* How far the hand is.  Who is all-in has bet everything, somebody has not folded,
\* and once cards are dealt somebody is active; players with more than the big
\* blind all get cards.
PlayInv ==
  /\ start \in [Players -> BuyIns] /\ street \in Streets /\ stage \in Stages
  /\ iterations \in 0 .. MaxIterations
  /\ holds \subseteq Players /\ stack = [p \in Players |-> stack[p]]
  /\ \A p \in Players : status[p] = "all-in" => total[p] = start[p]
  /\ NonFolded # {}
  /\ holds # {} => Active # {}
  /\ stage # "start" /\ (\A p \in Players : start[p] > BigBlind) => holds = Players

\* What has been won is nothing, or what the pots award for some showdown.
AwardInv ==
  /\ stage \in {"awarded", "saved"} => \E rank \in Ranks : won = Award(rank)
  /\ won = NoWinnings \/ \E rank \in Ranks : won = Award(rank)

PayInv == HandInv /\ PlayInv /\ AwardInv

\* The awards depend on the bets, who folded, who has cards and the button.
LEMMA AwardRests ==
  ASSUME UNCHANGED <<total, status, holds, dealer>>, NEW rank
  PROVE  Award(rank)' = Award(rank)
<1>1. Levels' = Levels /\ NonFolded' = NonFolded
  BY DEF Levels, NonFolded
<1>2. \A l : SidePot(l)' = SidePot(l)
  BY <1>1 DEF SidePot, Layer, Below
<1>3. RestPot' = RestPot
  BY <1>1 DEF RestPot
<1>4. Pots' = Pots
  BY <1>1, <1>2, <1>3 DEF Pots
<1>5. \A pot : Winners(pot, rank)' = Winners(pot, rank)
  BY <1>1 DEF Winners
<1>6. \A p, winners, amount : Share(p, winners, amount)' = Share(p, winners, amount)
  BY DEF Share, FirstInOrder, Distance
<1> QED BY <1>4, <1>5, <1>6 DEF Award

\* With two players active, somebody else than the actor is.
LEMMA AnotherActive ==
  ASSUME Cardinality(Active) > 1, NEW p
  PROVE  \E q \in Active : q # p
<1> SUFFICES ASSUME Active \subseteq {p} PROVE FALSE
  OBVIOUS
<1>1. IsFiniteSet({p}) /\ Cardinality({p}) = 1
  BY FS_Singleton
<1>2. Cardinality(Active) <= 1 /\ Cardinality(Active) \in Nat
  BY <1>1, FS_Subset, FS_CardinalityType
<1> QED BY <1>2

LEMMA InitPlay ==
  ASSUME Init
  PROVE  PlayInv /\ AwardInv
<1>1. 0 \in Players /\ MaxIterations \in Nat
  BY PokerAssumption DEF Players, MaxIterations
<1>2. PlayInv
  BY <1>1 DEF Init, PlayInv, Streets, Stages, NonFolded
<1>3. AwardInv
  BY DEF Init, AwardInv, NoWinnings
<1> QED BY <1>2, <1>3

\* Only a blind that takes the last chip leaves a player without cards.
LEMMA StartHandPlay ==
  ASSUME HandInv, PlayInv, StartHand
  PROVE  PlayInv'
<1> DEFINE paid == [p \in Players |->
                      CASE p = SmallBlindIndex -> Blind(p, BigBlind \div 2)
                        [] p = BigBlindIndex -> Blind(p, BigBlind)
                        [] OTHER -> 0]
<1>1. /\ stage = "start" /\ stage' = "round"
      /\ stack' = [p \in Players |-> stack[p] - paid[p]]
      /\ total' = paid
      /\ status' = [p \in Players |-> IF stack'[p] = 0 THEN "all-in" ELSE "active"]
      /\ holds' = {p \in Players : status'[p] = "active"}
      /\ UNCHANGED <<start, street, iterations>>
  BY DEF StartHand
<1>2. \A p \in Players : stack[p] = start[p] /\ start[p] \in Nat
  BY <1>1, StackLeft DEF HandInv, StageInv, LedgerInv
<1>3. \A p \in Players : paid[p] \in Nat /\ paid[p] <= BigBlind
  <2>1. BigBlind \in Nat /\ BigBlind \div 2 \in Nat /\ BigBlind \div 2 <= BigBlind
    BY PokerAssumption
  <2>2. ASSUME NEW p \in Players, NEW b \in Nat, b <= BigBlind
        PROVE  Blind(p, b) \in Nat /\ Blind(p, b) <= BigBlind
    BY <1>2, <2>1, <2>2 DEF Blind, Least
  <2>3. ASSUME NEW p \in Players
        PROVE  paid[p] = Blind(p, BigBlind \div 2) \/ paid[p] = Blind(p, BigBlind) \/ paid[p] = 0
    OBVIOUS
  <2> HIDE DEF paid
  <2> QED BY <2>1, <2>2, <2>3
<1>4. DOMAIN paid = Players
  OBVIOUS
<1> HIDE DEF paid
<1>5. \A p \in Players : status'[p] = IF paid[p] = start[p] THEN "all-in" ELSE "active"
  BY <1>1, <1>2, <1>3
<1>6. \A p \in Players : status'[p] = "all-in" => total'[p] = start'[p]
  BY <1>1, <1>5
<1>7. NonFolded' # {}
  <2>1. 0 \in Players
    BY PokerAssumption DEF Players
  <2>2. status'[0] # "folded"
    BY <1>5, <2>1
  <2> QED BY <2>1, <2>2 DEF NonFolded
<1>8. holds' = Active'
  BY <1>1 DEF Active
<1>9. (\A p \in Players : start'[p] > BigBlind) => holds' = Players
  <2> SUFFICES ASSUME \A p \in Players : start[p] > BigBlind, NEW p \in Players
               PROVE  status'[p] = "active"
    BY <1>1
  <2>1. BigBlind \in Nat
    BY PokerAssumption
  <2> QED BY <1>2, <1>3, <1>5, <2>1
<1> QED BY <1>1, <1>6, <1>7, <1>8, <1>9 DEF PlayInv, Stages, Active

\* A choice leaves the others as they are, and another one is active.
LEMMA DecidePlay ==
  ASSUME HandInv, PlayInv, Decide
  PROVE  PlayInv'
<1> DEFINE p == round.actor
<1>1. stage = "asking" /\ Cardinality(Active) > 1 /\ iterations # 0 /\ p \in Active /\ p \in Players
  <2>1. Active \subseteq Players /\ stage = "asking" /\ ~RoundOver
    BY DEF Decide, Active
  <2>2. iterations # 0 /\ ~(Cardinality(Active) <= 1)
    BY <2>1 DEF RoundOver, BettingRoundComplete
  <2>3. Active # {}
    BY <2>2, FS_EmptySet
  <2>4. Cardinality(Active) > 1
    <3>1. Cardinality(Active) \in Nat
      BY <2>1, PlayersFinite, FS_Subset, FS_CardinalityType
    <3> QED BY <2>2, <3>1
  <2> QED BY <2>1, <2>2, <2>3, <2>4 DEF HandInv, RoundInv
<1>2. PICK a \in Menu(p) : ApplyAction(p, a)
  BY DEF Decide
<1>3. /\ total' = [total EXCEPT ![p] = @ + Costs(p, a)]
      /\ status' = [status EXCEPT ![p] = StatusAfter(p, a)]
      /\ stage' \in {"asking", "failed"} /\ iterations' = iterations - 1
      /\ UNCHANGED <<start, holds, street>>
  BY <1>2 DEF Decide, ApplyAction, AddsToPot, IterationsLeft
<1>4. PICK q \in Active : q # p
  BY <1>1, AnotherActive
<1> HIDE DEF p
<1>5. q \in Players /\ status'[q] = "active"
  BY <1>3, <1>4 DEF Active, HandInv, StageInv
<1>6. NonFolded' # {} /\ Active' # {}
  BY <1>5 DEF NonFolded, Active
<1>7. ASSUME NEW o \in Players, status'[o] = "all-in"
      PROVE  total'[o] = start[o]
  <2>1. CASE o = p
    <3>1. StatusAfter(p, a) = "all-in" /\ total'[p] = total[p] + Costs(p, a)
      BY <1>1, <1>3, <1>7, <2>1 DEF HandInv, StageInv, LedgerInv
    <3>2. Costs(p, a) = stack[p]
      BY <3>1 DEF StatusAfter
    <3>3. stack[p] = start[p] - total[p] /\ start[p] \in Nat /\ total[p] \in Nat
      BY <1>1, StackLeft DEF HandInv, LedgerInv
    <3> QED BY <2>1, <3>1, <3>2, <3>3
  <2>2. CASE o # p
    BY <1>3, <1>7, <2>2 DEF HandInv, StageInv, LedgerInv, PlayInv
  <2> QED BY <2>1, <2>2
<1>8. iterations' \in 0 .. MaxIterations
  <2>1. MaxIterations \in Nat
    BY PokerAssumption DEF MaxIterations
  <2> QED BY <1>1, <1>3, <2>1 DEF PlayInv
<1>9. stack' = [o \in Players |-> stack'[o]]
  <2>1. stack' = [stack EXCEPT ![p] = @ - Costs(p, a)]
    BY <1>2 DEF ApplyAction
  <2> QED BY <2>1 DEF PlayInv
<1> QED BY <1>1, <1>3, <1>6, <1>7, <1>8, <1>9 DEF PlayInv, Stages

\* The other steps deal streets and pay.
LEMMA NextPlay ==
  ASSUME HandInv, PlayInv, [Next]_vars
  PROVE  PlayInv'
<1>1. MaxIterations \in Nat
  BY PokerAssumption DEF MaxIterations
<1>2. CASE StartRound
  BY <1>1, <1>2 DEF StartRound, PlayInv, Stages, NonFolded, Active
<1>3. CASE NextStreet
  <2>1. street' \in Streets
    BY <1>3 DEF NextStreet, PlayInv, Streets, StreetAfter
  <2>2. stage # "start"
    BY <1>3 DEF NextStreet, RoundOver
  <2> QED BY <1>3, <2>1, <2>2 DEF NextStreet, PlayInv, Stages, NonFolded, Active, player
<1>4. CASE Showdown
  BY <1>4 DEF Showdown, ToShowdown, RoundOver, PlayInv, Stages, NonFolded, Active
<1>5. CASE SaveSummary
  BY <1>5 DEF SaveSummary, PlayInv, Stages, NonFolded, Active, player
<1>6. CASE UNCHANGED vars
  BY <1>6 DEF vars, PlayInv, NonFolded, Active, player
<1> QED BY <1>2, <1>3, <1>4, <1>5, <1>6, StartHandPlay, DecidePlay DEF Next

LEMMA NextAward ==
  ASSUME HandInv, AwardInv, [Next]_vars
  PROVE  AwardInv'
<1>1. CASE Showdown
  <2>1. PICK rank \in Ranks : won' = Award(rank)
    BY <1>1 DEF Showdown
  <2>2. Award(rank)' = Award(rank)
    BY <1>1, AwardRests DEF Showdown
  <2>3. Ranks' = Ranks
    OBVIOUS
  <2> QED BY <2>1, <2>2 DEF AwardInv
<1>2. CASE SaveSummary \/ UNCHANGED vars
  <2>1. /\ UNCHANGED <<won, total, status, holds, dealer>>
        /\ stage' \in {"awarded", "saved"} => stage \in {"awarded", "saved"}
    BY <1>2 DEF SaveSummary, vars, player
  <2>2. \A rank : Award(rank)' = Award(rank)
    BY <2>1, AwardRests
  <2> QED BY <2>1, <2>2 DEF AwardInv, NoWinnings
<1>3. CASE StartHand \/ StartRound \/ Decide \/ NextStreet
  <2>1. won' = won /\ stage' \notin {"awarded", "saved"} /\ stage \in {"start", "round", "asking"}
    BY <1>3 DEF StartHand, StartRound, Decide, NextStreet, RoundOver
  <2>2. won' = NoWinnings
    BY <2>1 DEF HandInv, StageInv
  <2> QED BY <2>1, <2>2 DEF AwardInv, NoWinnings
<1> QED BY <1>1, <1>2, <1>3 DEF Next

\* The invariant from the blinds to the awards.
THEOREM HandPaysInvariant == Spec => []PayInv
<1>1. Init => PayInv
  BY InitHandInv, InitPlay DEF PayInv
<1>2. PayInv /\ [Next]_vars => PayInv'
  BY NextHandInv, NextPlay, NextAward DEF PayInv
<1> QED BY <1>1, <1>2, PTL DEF Spec

LEMMA PayBets ==
  ASSUME PayInv
  PROVE  BetsOK /\ dealer \in Players /\ \A p \in Players : start[p] \in Nat \ {0}
<1>1. \A p \in Players : start[p] \in Nat \ {0}
  BY PokerAssumption DEF PayInv, PlayInv
<1> QED BY <1>1 DEF PayInv, HandInv, LedgerInv, RoundInv, PlayInv, BetsOK

\* What somebody has won is never negative.
LEMMA WonNaturals ==
  ASSUME PayInv
  PROVE  won \in [Players -> Nat]
<1>1. CASE won = NoWinnings
  BY <1>1 DEF NoWinnings
<1>2. ASSUME NEW rank \in Ranks, won = Award(rank)
      PROVE  won \in [Players -> Nat]
  <2>1. \A p \in Players : Award(rank)[p] \in Nat
    BY PayBets, SharesOfPlayer
  <2>2. won = [p \in Players |-> won[p]]
    BY <1>2 DEF Award
  <2> QED BY <1>2, <2>1, <2>2
<1> QED BY <1>1, <1>2 DEF PayInv, AwardInv

\* The types of a hand's state, for any players: no stack, bet or award is ever
\* negative, and the loop of runBettingRound counts down from its limit and no
\* further.
THEOREM HandTypeOK == Spec => []TypeOK
<1>1. PayInv => TypeOK
  <2> SUFFICES ASSUME PayInv PROVE TypeOK
    OBVIOUS
  <2>1. won \in [Players -> Nat]
    BY WonNaturals
  <2>2. stack \in [Players -> Nat]
    <3>1. \A p \in Players : stack[p] \in Nat
      BY <2>1 DEF PayInv, HandInv, LedgerInv, ChipsConserved
    <3>2. stack = [p \in Players |-> stack[p]]
      BY DEF PayInv, PlayInv
    <3> QED BY <3>1, <3>2
  <2> QED BY <2>1, <2>2 DEF PayInv, HandInv, LedgerInv, StageInv, RoundInv, PlayInv, TypeOK
<1> QED BY <1>1, HandPaysInvariant, PTL

\* At the showdown there is a board, unless no hand has to be evaluated.
LEMMA ShowdownHasBoard ==
  ASSUME PayInv, ToShowdown
  PROVE  Evaluable
<1> SUFFICES ASSUME street = "preflop" PROVE Cardinality(NonFolded) = 1 \/ holds = {}
  BY DEF Evaluable
<1>1. Active = {} \/ Cardinality(NonFolded) <= 1
  BY DEF ToShowdown, HandOver
<1>2. CASE Active = {}
  BY <1>2 DEF PayInv, PlayInv
<1>3. CASE Cardinality(NonFolded) <= 1
  <2>1. NonFolded # {} /\ IsFiniteSet(NonFolded)
    BY PlayersFinite, FS_Subset DEF NonFolded, PayInv, PlayInv
  <2>2. Cardinality(NonFolded) \in Nat /\ Cardinality(NonFolded) # 0
    BY <2>1, FS_CardinalityType, FS_EmptySet
  <2> QED BY <1>3, <2>2
<1> QED BY <1>1, <1>2, <1>3

\* When everybody starts with more than the big blind the awards pay out every chip.
LEMMA EveryChipIsPaid ==
  ASSUME PayInv, stage \in {"awarded", "saved"}, \A p \in Players : start[p] > BigBlind
  PROVE  SumOf(stack) = SumOf(start)
<1>1. PICK rank \in Ranks : won = Award(rank)
  BY DEF PayInv, AwardInv
<1>2. holds = Players /\ NonFolded # {}
  BY DEF PayInv, PlayInv
<1>3. SumOf(won) = SumOf(total)
  BY <1>1, <1>2, PayBets, AwardsAddUp
<1> DEFINE left == [p \in Players |-> start[p] - total[p]]
<1>4. \A p \in Players : /\ start[p] \in Int /\ total[p] \in Int /\ won[p] \in Int
                         /\ stack[p] = (start[p] - total[p]) + won[p]
  BY WonNaturals DEF PayInv, HandInv, LedgerInv, ChipsConserved
<1>5. DOMAIN start = Players /\ DOMAIN total = Players /\ DOMAIN won = Players /\ DOMAIN stack = Players
  BY WonNaturals DEF PayInv, HandInv, LedgerInv
<1>6. /\ DOMAIN left = Players /\ \A p \in Players : left[p] \in Int
      /\ \A p \in Players : start[p] = total[p] + left[p] /\ stack[p] = won[p] + left[p]
  BY <1>4
<1> HIDE DEF left
<1>7. Summable(start) /\ Summable(total) /\ Summable(won) /\ Summable(stack) /\ Summable(left)
  <2>1. \A p \in Players : stack[p] \in Int
    BY <1>4
  <2>2. Summable(start) /\ Summable(total) /\ Summable(won)
    BY <1>4, <1>5, PlayersFinite DEF Summable
  <2>3. Summable(stack) /\ Summable(left)
    BY <1>5, <1>6, <2>1, PlayersFinite DEF Summable
  <2> QED BY <2>2, <2>3
<1>8. SumOf(start) = SumOf(total) + SumOf(left)
  <2>1. \A p \in DOMAIN total : start[p] = total[p] + left[p]
    BY <1>5, <1>6
  <2> QED BY <1>5, <1>6, <1>7, <2>1, SumPlus
<1>9. SumOf(stack) = SumOf(won) + SumOf(left)
  <2>1. \A p \in DOMAIN won : stack[p] = won[p] + left[p]
    BY <1>5, <1>6
  <2> QED BY <1>5, <1>6, <1>7, <2>1, SumPlus
<1> QED BY <1>3, <1>8, <1>9

\* From bets to stacks, for any players, stacks, seats and blinds: the pots of
\* computePots hold the chips that were bet, determineWinners and the awards pay
\* them out, who folded wins nothing, and who is all-in no more than he may.
THEOREM HandPotsPaidOut == Spec => []PotsPaidOut
<1>1. PayInv => PotsPaidOut
  <2> SUFFICES ASSUME PayInv PROVE PotsPaidOut
    OBVIOUS
  <2>1. ToShowdown => Evaluable
    BY ShowdownHasBoard
  <2>2. SumOf([pot \in Pots |-> pot[2].amount]) = SumOf(total)
    BY PayBets, PotsHoldBets
  <2>3. stage \in {"awarded", "saved"} /\ (\A p \in Players : start[p] > BigBlind) =>
          SumOf(stack) = SumOf(start)
    BY EveryChipIsPaid
  <2>4. ASSUME NEW p \in Players
        PROVE  IF status[p] = "folded" THEN won[p] = 0
               ELSE RestPot.amount = 0 => won[p] <= Stake(p)
    <3>1. CASE won = NoWinnings
      <4> DEFINE stakes == [q \in Players |-> Least(total[p], total[q])]
      <4>1. \A q \in Players : stakes[q] \in Nat
        BY PayBets DEF Least, BetsOK
      <4>2. Summable(stakes) /\ DOMAIN stakes = Players /\ Stake(p) = SumOf(stakes)
        BY <4>1, PlayersFinite DEF Summable, Stake
      <4> HIDE DEF stakes
      <4>3. \A q \in DOMAIN stakes : stakes[q] >= 0
        BY <4>1, <4>2
      <4>4. Stake(p) \in Nat
        BY <4>2, <4>3, SumLeast
      <4> QED BY <3>1, <4>4 DEF NoWinnings
    <3>2. ASSUME NEW rank \in Ranks, won = Award(rank)
          PROVE  IF status[p] = "folded" THEN won[p] = 0
                 ELSE RestPot.amount = 0 => won[p] <= Stake(p)
      BY <3>2, PayBets, AwardsAreFair
    <3> QED BY <3>1, <3>2 DEF PayInv, AwardInv
  <2> QED BY <2>1, <2>2, <2>3, <2>4 DEF PotsPaidOut
<1> QED BY <1>1, HandPaysInvariant, PTL

-----------------------------------------------------------------------------
(* Whose turn it is, while nobody is all-in.                                *)

\* How many places after i player j sits, going round: 0 for i himself, or N.
Ahead(i, j) == IF j >= i THEN j - i ELSE (j - i) + N
Away(i, j) == IF i = j THEN N ELSE Ahead(i, j)

\* The players the round still has to come to: before anybody bet the ones who did
\* not act yet, then the ones from the actor up to the last aggressor.
ToAct ==
  IF round.aggressor = Nobody THEN Active \ round.acted
  ELSE {p \in Active : Ahead(round.actor, p) < Ahead(round.actor, round.aggressor)}

\* After the blinds only the big blind has bet as much as there is to call.
BlindsInv ==
  stage = "round" /\ street = "preflop" =>
    /\ Active = Players
    /\ bet[BigBlindIndex] = BigBlind
    /\ \A p \in Players \ {BigBlindIndex} : bet[p] < BigBlind

\* Who the round has come to has called, and the others have something to call.
CallInv ==
  /\ \A p \in Players : bet[p] <= round.minBet
  /\ \A p \in Active \ ToAct : bet[p] = round.minBet
  /\ round.aggressor # Nobody => \A p \in ToAct : bet[p] < round.minBet

\* Going round from the actor, the players to come are met before the others.
OrderInv ==
  /\ round.aggressor = Nobody => round.minBet = 0
  /\ round.aggressor # Nobody => round.aggressor \in Active
  /\ \A q \in ToAct, p \in Active \ ToAct : Ahead(round.actor, q) < Ahead(round.actor, p)

\* Each raise by a big blind at least lets the loop come round once.
LimitInv ==
  \E r \in Nat : /\ r * BigBlind <= round.minBet
                 /\ MaxIterations - iterations <= (r * N + N) - Cardinality(ToAct)

TurnInv == NobodyAllIn => BlindsInv /\ (stage = "asking" => CallInv /\ OrderInv /\ LimitInv)

\* The place k steps after a player, going round.
LEMMA StepsAround ==
  ASSUME NEW p \in Players, NEW q \in Players, NEW k \in 1 .. N
  PROVE  /\ Away(p, q) \in 1 .. N
         /\ (p + k) % N = q <=> k = Away(p, q)
<1>1. N \in Nat /\ N >= 2 /\ p \in 0 .. (N - 1) /\ q \in 0 .. (N - 1)
  BY PokerAssumption DEF Players
<1>2. Away(p, q) = IF q > p THEN q - p ELSE (q - p) + N
  BY <1>1 DEF Away, Ahead
<1>3. CASE p + k < N
  <2>1. (p + k) % N = p + k
    BY <1>1, <1>3
  <2> QED BY <1>1, <1>2, <1>3, <2>1
<1>4. CASE ~(p + k < N)
  <2> DEFINE r == (p + k) - N
  <2>1. r \in 0 .. (N - 1) /\ N * 1 + r = p + k
    BY <1>1, <1>4
  <2> HIDE DEF r
  <2>2. (p + k) % N = r
    <3>1. (N * 1 + r) % N = r
      BY <1>1, <2>1, Remainder
    <3> QED BY <2>1, <3>1
  <2>3. r = (p + k) - N
    BY <1>1, <2>1
  <2> QED BY <1>1, <1>2, <1>4, <2>2, <2>3
<1> QED BY <1>3, <1>4

\* When the turn passes to the next of some players, all of them are closer by as
\* many places as it moved.
LEMMA TurnPasses ==
  ASSUME NEW p \in Players, NEW S, S \subseteq Players, NEW q \in S
  PROVE  /\ NextActive(p, S) \in S
         /\ Ahead(NextActive(p, S), q) = Away(p, q) - Away(p, NextActive(p, S))
<1> DEFINE K == {k \in 1 .. N : (p + k) % N \in S}  n == NextActive(p, S)
<1>1. N \in Nat /\ N >= 2 /\ p \in 0 .. (N - 1) /\ q \in 0 .. (N - 1) /\ q \in Players
  BY PokerAssumption DEF Players
<1>2. Away(p, q) \in K
  BY <1>1, StepsAround
<1>3. K \subseteq Nat /\ K # {}
  BY <1>1, <1>2
<1>4. Min(K) \in K /\ \A k \in K : Min(K) <= k
  BY <1>3, MinOfNaturals
<1>5. n = (p + Min(K)) % N /\ n \in S
  BY <1>4 DEF NextActive
<1>6. n \in 0 .. (N - 1) /\ n \in Players
  BY <1>1, <1>5 DEF Players
<1>7. Away(p, n) = Min(K)
  BY <1>4, <1>5, <1>6, StepsAround
<1> HIDE DEF K, n
<1>8. Away(p, n) <= Away(p, q)
  BY <1>2, <1>4, <1>7
<1>9. Ahead(n, q) = Away(p, q) - Away(p, n)
  BY <1>1, <1>6, <1>8 DEF Away, Ahead
<1> QED BY <1>5, <1>9 DEF n

\* As long as the round has to come to somebody, it is the actor it comes to, and
\* when it has come to everybody it is complete.
LEMMA TurnIsTheActors ==
  ASSUME RoundInv, CallInv, OrderInv, round.actor \in Active
  PROVE  IF ToAct = {} THEN BettingRoundComplete ELSE round.actor \in ToAct
<1>1. N \in Nat /\ Active \subseteq 0 .. (N - 1) /\ Nobody = N
  BY PokerAssumption DEF Active, Players, Nobody
<1>2. ASSUME NEW p \in Active, NEW q \in Active
      PROVE  Ahead(p, q) \in Nat /\ (Ahead(p, q) = 0 <=> q = p)
  BY <1>1 DEF Ahead
<1>3. \A q \in Active : /\ Ahead(round.actor, q) \in Nat
                        /\ Ahead(round.actor, q) = 0 <=> q = round.actor
  BY <1>2
<1>4. CASE ToAct = {}
  <2>1. \A p \in Active : bet[p] = round.minBet
    BY <1>4 DEF CallInv
  <2>2. CASE round.aggressor = Nobody
    BY <1>4, <2>1, <2>2 DEF ToAct, BettingRoundComplete
  <2>3. CASE round.aggressor # Nobody
    <3>1. round.aggressor \in Active
      BY <2>3 DEF OrderInv
    <3>2. ~(Ahead(round.actor, round.actor) < Ahead(round.actor, round.aggressor))
      BY <1>4, <2>3 DEF ToAct
    <3>3. round.aggressor = round.actor
      BY <1>3, <3>1, <3>2
    <3> QED BY <1>4, <2>1, <2>3, <3>3 DEF BettingRoundComplete
  <2> QED BY <2>2, <2>3
<1>5. CASE ToAct # {} /\ round.actor \notin ToAct
  <2>1. PICK q \in ToAct : q \in Active
    BY <1>5 DEF ToAct
  <2>2. Ahead(round.actor, q) < Ahead(round.actor, round.actor)
    BY <1>5, <2>1 DEF OrderInv
  <2> QED BY <1>3, <2>1, <2>2
<1> QED BY <1>4, <1>5

\* A player whose turn it is puts chips in or none, and takes none out.  Unless
\* that makes him all-in he folds, or has called, or raises by a big blind or more.
LEMMA ChoiceInTurn ==
  ASSUME HandInv, CallInv, OrderInv, stage = "asking",
         NEW p \in ToAct, NEW a \in Menu(p)
  PROVE  /\ Costs(p, a) \in Nat
         /\ StatusAfter(p, a) # "all-in" =>
              \/ /\ a.type \notin {"bet", "raise", "all-in"}
                 /\ bet[p] + Costs(p, a) <= round.minBet
                 /\ StatusAfter(p, a) = "active" => bet[p] + Costs(p, a) = round.minBet
              \/ /\ a.type \in {"bet", "raise"} /\ StatusAfter(p, a) = "active"
                 /\ round.minBet + BigBlind <= bet[p] + Costs(p, a)
<1>1. p \in Active /\ p \in Players
  BY DEF ToAct, Active
<1>2. stack[p] \in Nat /\ bet[p] \in Nat /\ stack[p] > 0
  BY <1>1, StackLeft DEF HandInv, LedgerInv
<1>3. /\ round.minBet \in Nat /\ round.minRaise \in Int
      /\ BigBlind \in Nat /\ BigBlind > 0 /\ bet[p] <= round.minBet
  BY <1>1, PokerAssumption DEF HandInv, RoundInv, CallInv
<1>4. CASE ToCall(p) <= 0
  <2>1. round.minBet = 0 /\ bet[p] = 0
    <3>1. round.minBet <= bet[p]
      BY <1>2, <1>3, <1>4 DEF ToCall
    <3>2. round.aggressor = Nobody
      BY <1>2, <1>3, <3>1 DEF CallInv
    <3> QED BY <1>2, <1>3, <3>1, <3>2 DEF OrderInv
  <2>2. a \in BetMenu(p)
    BY <1>4 DEF Menu
  <2>3. \/ a = Act("check", 0)
        \/ a = Act("all-in", stack[p])
        \/ \E b \in BigBlind .. stack[p] : a = Act("bet", b)
    BY <2>2 DEF BetMenu
  <2>4. CASE a = Act("check", 0)
    BY <2>1, <2>4 DEF Act, Costs, StatusAfter
  <2>5. CASE a = Act("all-in", stack[p])
    BY <1>2, <2>5 DEF Act, Costs, StatusAfter, Least
  <2>6. CASE \E b \in BigBlind .. stack[p] : a = Act("bet", b)
    <3>1. PICK b \in BigBlind .. stack[p] : a = Act("bet", b)
      BY <2>6
    <3>2. a.type = "bet" /\ a.amount = b /\ b \in Nat /\ b >= BigBlind /\ b <= stack[p]
      BY <1>2, <1>3, <3>1 DEF Act
    <3>3. Costs(p, a) = b
      BY <1>2, <2>1, <3>2 DEF Costs, Least
    <3> QED BY <1>3, <2>1, <3>2, <3>3 DEF StatusAfter
  <2> QED BY <2>3, <2>4, <2>5, <2>6
<1>5. CASE ~(ToCall(p) <= 0)
  <2>1. ToCall(p) \in Nat /\ ToCall(p) = round.minBet - bet[p] /\ ToCall(p) > 0
    BY <1>2, <1>3, <1>5 DEF ToCall
  <2>2. a \in CallMenu(p)
    BY <1>5 DEF Menu
  <2>3. \/ a = Act("fold", 0)
        \/ a = Act("all-in", stack[p])
        \/ stack[p] > ToCall(p) /\ a = Act("call", ToCall(p))
        \/ stack[p] > ToCall(p) /\ a \in RaiseMenu(p)
    BY <2>2 DEF CallMenu
  <2>4. CASE a = Act("fold", 0)
    BY <1>2, <1>3, <2>4 DEF Act, Costs, StatusAfter
  <2>5. CASE a = Act("all-in", stack[p])
    BY <1>2, <2>5 DEF Act, Costs, StatusAfter, Least
  <2>6. CASE stack[p] > ToCall(p) /\ a = Act("call", ToCall(p))
    <3>1. a.type = "call" /\ a.amount = ToCall(p)
      BY <2>6 DEF Act
    <3>2. Costs(p, a) = ToCall(p)
      BY <1>2, <2>1, <2>6, <3>1 DEF Costs, Least
    <3> QED BY <1>2, <1>3, <2>1, <3>1, <3>2
  <2>7. CASE stack[p] > ToCall(p) /\ a \in RaiseMenu(p)
    <3> DEFINE most == bet[p] + stack[p]
               least == Least(round.minBet + Most(round.minRaise, BigBlind), most)
    <3>1. PICK b \in least .. most : a = Act("raise", b)
      BY <2>7 DEF RaiseMenu
    <3>2. most \in Nat /\ most > round.minBet
      BY <1>2, <1>3, <2>1, <2>7
    <3>3. least \in Int /\ (least >= round.minBet + BigBlind \/ least = most) /\ least > bet[p]
      <4> HIDE DEF most
      <4>1. Most(round.minRaise, BigBlind) \in Int /\ Most(round.minRaise, BigBlind) >= BigBlind
        BY <1>3 DEF Most
      <4> QED BY <1>2, <1>3, <3>2, <4>1 DEF Least
    <3> HIDE DEF least
    <3>4. a.type = "raise" /\ a.amount = b /\ b \in Int /\ b >= least /\ b <= most
      BY <3>1, <3>2, <3>3 DEF Act
    <3>5. Costs(p, a) = b - bet[p]
      BY <1>2, <3>4 DEF Costs, Least
    <3>6. Costs(p, a) \in Nat
      BY <1>2, <3>3, <3>4, <3>5
    <3>7. StatusAfter(p, a) = IF b = most THEN "all-in" ELSE "active"
      BY <1>2, <3>4, <3>5 DEF StatusAfter
    <3>8. StatusAfter(p, a) # "all-in" => b >= round.minBet + BigBlind /\ bet[p] + Costs(p, a) = b
      BY <1>2, <1>3, <3>2, <3>3, <3>4, <3>5, <3>7
    <3> QED BY <1>3, <3>4, <3>6, <3>7, <3>8
  <2> QED BY <2>3, <2>4, <2>5, <2>6, <2>7
<1> QED BY <1>4, <1>5

\* There are at most as many players to come as players.
LEMMA ToActCounted ==
  /\ IsFiniteSet(ToAct) /\ ToAct \subseteq Active
  /\ Cardinality(ToAct) \in Nat /\ Cardinality(ToAct) <= N
<1>1. ToAct \subseteq Active /\ Active \subseteq Players
  BY DEF ToAct, Active
<1>2. IsFiniteSet(Players) /\ Cardinality(Players) = N
  <2>1. N \in Nat /\ N >= 2 /\ Players = 0 .. (N - 1)
    BY PokerAssumption DEF Players
  <2>2. IsFiniteSet(0 .. (N - 1)) /\ Cardinality(0 .. (N - 1)) = IF 0 > N - 1 THEN 0 ELSE (N - 1) - 0 + 1
    BY <2>1, FS_Interval
  <2> QED BY <2>1, <2>2
<1>3. IsFiniteSet(ToAct) /\ Cardinality(ToAct) <= N
  BY <1>1, <1>2, FS_Subset
<1> QED BY <1>1, <1>3, FS_CardinalityType

\* If the blinds leave nobody all-in, they were paid in full.
LEMMA StartHandTurn ==
  ASSUME HandInv, StartHand, NobodyAllIn'
  PROVE  BlindsInv'
<1> DEFINE small == BigBlind \div 2
           paid == [p \in Players |->
                      CASE p = SmallBlindIndex -> Blind(p, BigBlind \div 2)
                        [] p = BigBlindIndex -> Blind(p, BigBlind)
                        [] OTHER -> 0]
<1>1. /\ stage = "start" /\ bet' = paid
      /\ stack' = [p \in Players |-> stack[p] - paid[p]]
      /\ status' = [p \in Players |-> IF stack'[p] = 0 THEN "all-in" ELSE "active"]
      /\ UNCHANGED dealer
  BY DEF StartHand
<1>2. ASSUME NEW p \in Players
      PROVE  status'[p] = "active" /\ stack[p] - paid[p] # 0
  BY <1>1 DEF NobodyAllIn
<1>3. Active' = Players
  BY <1>2 DEF Active
<1>4. SmallBlindIndex # BigBlindIndex /\ BigBlindIndex \in Players
  <2>1. N \in Nat /\ N >= 2 /\ dealer \in 0 .. (N - 1)
    BY PokerAssumption DEF HandInv, RoundInv, Players
  <2> QED BY <2>1 DEF SmallBlindIndex, BigBlindIndex, Players
<1>5. BigBlind \in Nat /\ small \in Nat /\ small < BigBlind
  BY PokerAssumption
<1>6. ASSUME NEW p \in Players, NEW b \in Nat, Blind(p, b) = paid[p]
      PROVE  paid[p] = b
  <2>1. stack[p] \in Nat
    BY <1>1, StackLeft DEF HandInv
  <2>2. stack[p] - paid[p] # 0
    BY <1>2
  <2> HIDE DEF paid
  <2> QED BY <1>6, <2>1, <2>2 DEF Blind, Least
<1>7. paid[BigBlindIndex] = BigBlind
  <2>1. paid[BigBlindIndex] = Blind(BigBlindIndex, BigBlind)
    BY <1>4
  <2> HIDE DEF paid
  <2> QED BY <1>4, <1>5, <1>6, <2>1
<1>8. ASSUME NEW p \in Players \ {BigBlindIndex}
      PROVE  paid[p] < BigBlind
  <2>1. CASE p = SmallBlindIndex
    <3>1. paid[p] = Blind(p, small)
      BY <2>1
    <3> HIDE DEF paid
    <3> QED BY <1>5, <1>6, <3>1
  <2>2. CASE p # SmallBlindIndex
    <3>1. paid[p] = 0
      BY <2>2
    <3> HIDE DEF paid
    <3> QED BY <1>5, <3>1
  <2> QED BY <2>1, <2>2
<1>9. BigBlindIndex' = BigBlindIndex
  BY <1>1 DEF BigBlindIndex
<1> HIDE DEF paid
<1> QED BY <1>1, <1>3, <1>7, <1>8, <1>9 DEF BlindsInv

\* The first round begins after the big blind, whose bet the others have to call;
\* the later ones with no bets, and everybody to come.
LEMMA StartRoundTurn ==
  ASSUME HandInv, BlindsInv, StartRound
  PROVE  CallInv' /\ OrderInv' /\ LimitInv'
<1>1. N \in Nat /\ N >= 2 /\ Nobody = N /\ Players = 0 .. (N - 1) /\ BigBlind \in Nat /\ BigBlind > 0
  BY PokerAssumption DEF Players, Nobody
<1>2. UNCHANGED <<status, street>> /\ iterations' = MaxIterations /\ stage = "round" /\ Active' = Active
  BY DEF StartRound, Active
<1>3. MaxIterations \in Nat
  BY <1>1 DEF MaxIterations
<1>4. bet \in [Players -> Nat]
  BY DEF HandInv, LedgerInv
<1>5. LimitInv'
  <2>1. (Cardinality(ToAct) \in Nat /\ Cardinality(ToAct) <= N)'
    BY ToActCounted, PTL
  <2>2. round'.minBet \in Nat
    BY <1>1 DEF StartRound
  <2>3. 0 * BigBlind <= round'.minBet
    BY <1>1, <2>2
  <2>4. MaxIterations - iterations' <= (0 * N + N) - Cardinality(ToAct')
    BY <1>1, <1>2, <1>3, <2>1
  <2> QED BY <2>3, <2>4 DEF LimitInv, MaxIterations
<1>6. CASE street = "preflop"
  <2> DEFINE b == BigBlindIndex  n == NextActive(b, Players)
  <2>1. Active = Players /\ bet[b] = BigBlind /\ \A p \in Players \ {b} : bet[p] < BigBlind
    BY <1>2, <1>6 DEF BlindsInv
  <2>2. /\ bet' = bet
        /\ round' = [actor |-> NextActive(b, Active), minBet |-> BigBlind, minRaise |-> BigBlind,
                     aggressor |-> b, acted |-> {}]
    BY <1>6 DEF StartRound
  <2>3. b \in Players
    <3>1. dealer \in 0 .. (N - 1)
      BY <1>1 DEF HandInv, RoundInv
    <3> QED BY <1>1, <3>1 DEF BigBlindIndex
  <2>4. n \in Players /\ \A q \in Players : Ahead(n, q) = Away(b, q) - Away(b, n)
    BY <2>3, TurnPasses
  <2> HIDE DEF b
  <2>5. \A q \in Players : Away(b, q) \in 1 .. N
    BY <1>1, <2>3, StepsAround
  <2>6. \A q \in Players \ {b} : Away(b, q) < Away(b, b)
    BY <1>1, <2>3 DEF Away, Ahead
  <2> HIDE DEF n
  <2>7. round'.actor = n /\ round'.aggressor = b /\ round'.minBet = BigBlind
    BY <2>1, <2>2 DEF n
  <2>8. ASSUME NEW q \in Players \ {b}
        PROVE  Ahead(n, q) < Ahead(n, b)
    BY <1>1, <2>3, <2>4, <2>5, <2>6
  <2>9. ToAct' = Players \ {b}
    <3>1. b # Nobody
      BY <1>1, <2>3
    <3>2. ToAct' = {p \in Players : Ahead(n, p) < Ahead(n, b)}
      BY <1>2, <2>1, <2>7, <3>1 DEF ToAct, Ahead
    <3>3. ~(Ahead(n, b) < Ahead(n, b))
      BY <1>1, <2>3, <2>4, <2>5
    <3> QED BY <2>8, <3>2, <3>3
  <2>10. CallInv'
    BY <1>1, <1>2, <1>4, <2>1, <2>2, <2>7, <2>9 DEF CallInv
  <2>11. OrderInv'
    <3>1. b # Nobody /\ b \in Active'
      BY <1>1, <1>2, <2>1, <2>3
    <3>2. \A q \in ToAct', p \in Active' \ ToAct' : Ahead(n, q) < Ahead(n, p)
      BY <1>2, <2>1, <2>3, <2>8, <2>9
    <3> QED BY <2>7, <3>1, <3>2 DEF OrderInv, Ahead
  <2> QED BY <1>5, <2>10, <2>11
<1>7. CASE street # "preflop"
  <2>1. /\ bet' = [p \in Players |-> 0]
        /\ round'.minBet = 0 /\ round'.aggressor = Nobody /\ round'.acted = {}
    BY <1>7 DEF StartRound
  <2>2. ToAct' = Active'
    BY <2>1 DEF ToAct
  <2>3. CallInv'
    BY <2>1, <2>2 DEF CallInv
  <2>4. OrderInv'
    BY <2>1, <2>2 DEF OrderInv
  <2> QED BY <1>5, <2>3, <2>4
<1> QED BY <1>6, <1>7

\* While a round is played and nobody is all-in, the turn is that of a player the
\* round has to come to.
LEMMA AskedInTurn ==
  ASSUME HandInv, CallInv, OrderInv, stage = "asking", ~RoundOver
  PROVE  round.actor \in ToAct /\ round.actor \in Active /\ Cardinality(Active) > 1
<1>1. ~BettingRoundComplete
  BY DEF RoundOver
<1>2. Cardinality(Active) > 1
  <2>1. Cardinality(Active) \in Nat
    BY PlayersFinite, FS_Subset, FS_CardinalityType DEF Active
  <2> QED BY <1>1, <2>1 DEF BettingRoundComplete
<1>3. round.actor \in Active
  BY <1>2, FS_EmptySet DEF HandInv, RoundInv
<1> QED BY <1>1, <1>2, <1>3, TurnIsTheActors DEF HandInv

\* A choice is the actor's turn, over; or, if he raises, everybody else's to come.
LEMMA DecideTurn ==
  ASSUME HandInv, CallInv, OrderInv, LimitInv, Decide, iterations \in Nat,
         NobodyAllIn', stage' = "asking"
  PROVE  CallInv' /\ OrderInv' /\ LimitInv'
<1> DEFINE p == round.actor
<1>1. N \in Nat /\ N >= 2 /\ Nobody = N /\ Players = 0 .. (N - 1) /\ BigBlind \in Nat /\ BigBlind > 0
  BY PokerAssumption DEF Players, Nobody
<1>2. stage = "asking" /\ p \in ToAct /\ p \in Active /\ p \in Players /\ Cardinality(Active) > 1
  BY AskedInTurn DEF Decide, Active
<1>3. PICK a \in Menu(p) : ApplyAction(p, a)
  BY DEF Decide
<1> DEFINE c == Costs(p, a)
<1>4. /\ bet' = [bet EXCEPT ![p] = @ + c]
      /\ status' = [status EXCEPT ![p] = StatusAfter(p, a)]
      /\ round' = RoundAfter(p, a)
      /\ iterations' = iterations - 1
  BY <1>3 DEF Decide, ApplyAction, IterationsLeft
<1>5. /\ c \in Nat
      /\ StatusAfter(p, a) # "all-in" =>
           \/ /\ a.type \notin {"bet", "raise", "all-in"}
              /\ bet[p] + c <= round.minBet
              /\ StatusAfter(p, a) = "active" => bet[p] + c = round.minBet
           \/ /\ a.type \in {"bet", "raise"} /\ StatusAfter(p, a) = "active"
              /\ round.minBet + BigBlind <= bet[p] + c
  BY <1>2, <1>3, ChoiceInTurn
<1>6. /\ round \in [actor : Players, minBet : Nat, minRaise : Int,
                    aggressor : Players \cup {Nobody}, acted : SUBSET Players]
      /\ status \in [Players -> {"active", "folded", "all-in"}] /\ bet \in [Players -> Nat]
  BY DEF HandInv, RoundInv, StageInv, LedgerInv
<1>7. StatusAfter(p, a) # "all-in"
  <2>1. status'[p] = StatusAfter(p, a)
    BY <1>2, <1>4, <1>6
  <2> QED BY <1>2, <2>1 DEF NobodyAllIn
<1>8. PICK o \in Active : o # p
  BY <1>2, AnotherActive
<1> DEFINE S == Active'
<1>9. S = IF StatusAfter(p, a) = "active" THEN Active ELSE Active \ {p}
  BY <1>2, <1>4, <1>6 DEF Active
<1>10. S \subseteq Players /\ S # {}
  BY <1>8, <1>9 DEF Active
<1> DEFINE n == NextActive(p, S)  to == bet[p] + c
<1>11. /\ round'.actor = n /\ round'.acted = round.acted \cup {p}
       /\ a.type \notin {"bet", "raise", "all-in"} =>
            round'.minBet = round.minBet /\ round'.aggressor = round.aggressor
       /\ a.type \in {"bet", "raise"} => round'.minBet = to /\ round'.aggressor = p
  <2> HIDE DEF p
  <2> DEFINE r == IF a.type \in {"bet", "raise", "all-in"} THEN Reopened(p, a, to) ELSE round
  <2>1. round' = [r EXCEPT !.actor = n, !.acted = @ \cup {p}]
    <3> HIDE DEF S
    <3>1. RoundAfter(p, a) = [r EXCEPT !.actor = IF S = {} THEN p ELSE n, !.acted = @ \cup {p}]
      BY <1>9 DEF RoundAfter
    <3> QED BY <1>4, <1>10, <3>1
  <2>2. CASE a.type \notin {"bet", "raise", "all-in"}
    <3>1. r = round
      BY <2>2
    <3> HIDE DEF r, n
    <3> QED BY <1>6, <2>1, <2>2, <3>1
  <2>3. CASE a.type \in {"bet", "raise"}
    <3> DEFINE raised == IF a.type # "raise" \/ to - round.minBet > 0
                         THEN to - round.minBet ELSE round.minRaise
    <3>1. r = [round EXCEPT !.minBet = to, !.minRaise = raised, !.aggressor = p]
      BY <2>3 DEF Reopened
    <3> HIDE DEF r, n, raised, to
    <3> QED BY <1>6, <2>1, <2>3, <3>1
  <2>4. CASE a.type = "all-in"
    BY <1>5, <1>7, <2>4
  <2> QED BY <2>2, <2>3, <2>4
<1> HIDE DEF p, c, S
<1>12. n \in S /\ \A q \in S : Ahead(n, q) = Away(p, q) - Away(p, n)
  BY <1>2, <1>8, <1>10, TurnPasses
<1> HIDE DEF n
<1>13. \A q \in Players : Away(p, q) \in 1 .. N /\ (q # p => Away(p, q) = Ahead(p, q))
  <2>1. 1 \in 1 .. N
    BY <1>1
  <2>2. \A q \in Players : Away(p, q) \in 1 .. N
    BY <1>2, <2>1, StepsAround
  <2> QED BY <2>2 DEF Away
<1>14. \A q \in Players : Away(p, q) <= Away(p, p)
  BY <1>1, <1>2, <1>13 DEF Away
<1>15. \A q, w \in S : Ahead(n, q) < Ahead(n, w) <=> Away(p, q) < Away(p, w)
  <2> TAKE q, w \in S
  <2>1. Ahead(n, q) = Away(p, q) - Away(p, n) /\ Ahead(n, w) = Away(p, w) - Away(p, n)
    BY <1>12
  <2>2. Away(p, q) \in Int /\ Away(p, w) \in Int /\ Away(p, n) \in Int
    BY <1>10, <1>12, <1>13
  <2> QED BY <2>1, <2>2
<1>16. MaxIterations \in Nat
  BY <1>1 DEF MaxIterations
<1>17. PICK r \in Nat : /\ r * BigBlind <= round.minBet
                        /\ MaxIterations - iterations <= (r * N + N) - Cardinality(ToAct)
  BY DEF LimitInv
<1>18. /\ IsFiniteSet(ToAct) /\ ToAct \subseteq Active
       /\ Cardinality(ToAct) \in Nat /\ Cardinality(ToAct) <= N
  BY ToActCounted
<1>19. CASE a.type \notin {"bet", "raise", "all-in"}
  <2>1. /\ to <= round.minBet /\ (StatusAfter(p, a) = "active" => to = round.minBet)
        /\ round'.minBet = round.minBet /\ round'.aggressor = round.aggressor
        /\ round'.acted = round.acted \cup {p} /\ round'.actor = n
    BY <1>5, <1>7, <1>11, <1>19
  <2>2. S \ {p} = Active \ {p}
    BY <1>9
  <2>3. round.aggressor # Nobody => round.aggressor \in Active /\ round.aggressor # p
    <3>1. ~(Ahead(p, p) < Ahead(p, p))
      BY <1>1, <1>2 DEF Ahead
    <3>2. round.aggressor # Nobody => Ahead(p, p) < Ahead(p, round.aggressor)
      BY <1>2 DEF ToAct, p
    <3> QED BY <3>1, <3>2 DEF OrderInv
  <2>4. ToAct' = ToAct \ {p}
    <3>1. CASE round.aggressor = Nobody
      <4>1. ToAct' = S \ (round.acted \cup {p})
        BY <2>1, <3>1 DEF ToAct, S
      <4>2. ToAct = Active \ round.acted
        BY <3>1 DEF ToAct
      <4> QED BY <2>2, <4>1, <4>2
    <3>2. CASE round.aggressor # Nobody
      <4> DEFINE g == round.aggressor
      <4>1. g \in S /\ g # p /\ g \in Players /\ g # Nobody
        BY <1>10, <2>2, <2>3, <3>2
      <4>2. ToAct' = {q \in S : Ahead(n, q) < Ahead(n, g)}
        BY <2>1, <3>2 DEF ToAct, S, Ahead
      <4>3. ToAct = {q \in Active : Ahead(p, q) < Ahead(p, g)}
        BY <3>2 DEF ToAct, p
      <4> HIDE DEF g
      <4>4. ~(Ahead(n, p) < Ahead(n, g)) \/ p \notin S
        <5>1. ~(Away(p, p) < Away(p, g))
          BY <1>1, <1>2, <1>13, <1>14, <4>1
        <5> QED BY <1>15, <4>1, <5>1
      <4>5. \A q \in S \ {p} : Ahead(n, q) < Ahead(n, g) <=> Ahead(p, q) < Ahead(p, g)
        BY <1>10, <1>13, <1>15, <4>1
      <4> QED BY <2>2, <4>2, <4>3, <4>4, <4>5
    <3> QED BY <3>1, <3>2
  <2>5. CallInv'
    <3>1. \A q \in Players : bet'[q] = IF q = p THEN to ELSE bet[q]
      BY <1>4, <1>6 DEF c
    <3>2. \A q \in Players : bet'[q] <= round'.minBet
      BY <2>1, <3>1 DEF CallInv
    <3>3. \A q \in S \ ToAct' : bet'[q] = round'.minBet
      <4> SUFFICES ASSUME NEW q \in S \ ToAct' PROVE bet'[q] = round.minBet
        BY <2>1
      <4>1. CASE q = p
        <5>1. StatusAfter(p, a) = "active"
          BY <1>9, <4>1
        <5> QED BY <1>2, <2>1, <3>1, <4>1, <5>1
      <4>2. CASE q # p
        BY <1>10, <2>2, <2>4, <3>1, <4>2 DEF CallInv
      <4> QED BY <4>1, <4>2
    <3>4. round'.aggressor # Nobody => \A q \in ToAct' : bet'[q] < round'.minBet
      <4>1. ToAct \subseteq Players
        BY <1>18 DEF Active
      <4> QED BY <2>1, <2>4, <3>1, <4>1 DEF CallInv
    <3> QED BY <3>2, <3>3, <3>4 DEF CallInv, S
  <2>6. OrderInv'
    <3>1. ASSUME NEW q \in ToAct', NEW w \in S \ ToAct'
          PROVE  Ahead(n, q) < Ahead(n, w)
      <4>1. q \in ToAct /\ q # p /\ q \in S /\ q \in Players /\ w \in Players
        BY <1>10, <1>18, <2>2, <2>4
      <4>2. CASE w = p
        <5>1. Away(p, q) < Away(p, p)
          BY <1>1, <1>2, <1>13, <4>1 DEF Away, Ahead
        <5> QED BY <1>15, <4>1, <4>2, <5>1
      <4>3. CASE w # p
        <5>1. w \in Active \ ToAct
          BY <2>2, <2>4, <4>3
        <5>2. Ahead(p, q) < Ahead(p, w)
          BY <4>1, <5>1 DEF OrderInv, p
        <5> QED BY <1>13, <1>15, <4>1, <4>3, <5>2
      <4> QED BY <4>2, <4>3
    <3>2. round'.aggressor # Nobody => round'.aggressor \in S
      BY <2>1, <2>2, <2>3
    <3> QED BY <2>1, <3>1, <3>2 DEF OrderInv, S, Ahead
  <2>7. LimitInv'
    <3>1. Cardinality(ToAct \ {p}) = Cardinality(ToAct) - 1
      BY <1>2, <1>18, FS_RemoveElement
    <3>2. r * N \in Nat
      BY <1>1, <1>17
    <3>3. MaxIterations - iterations' <= (r * N + N) - Cardinality(ToAct')
      BY <1>1, <1>4, <1>16, <1>17, <1>18, <2>4, <3>1, <3>2
    <3> QED BY <1>17, <2>1, <3>3 DEF LimitInv, MaxIterations
  <2> QED BY <2>5, <2>6, <2>7
<1>20. CASE a.type \in {"bet", "raise"}
  <2>1. /\ round.minBet + BigBlind <= to /\ StatusAfter(p, a) = "active"
        /\ round'.minBet = to /\ round'.aggressor = p /\ round'.actor = n
    BY <1>5, <1>7, <1>11, <1>20
  <2>2. S = Active /\ p \in S /\ p # Nobody /\ to \in Nat /\ round.minBet \in Nat
    BY <1>1, <1>2, <1>5, <1>6, <1>9, <2>1
  <2>3. ToAct' = S \ {p}
    <3>1. ToAct' = {q \in S : Ahead(n, q) < Ahead(n, p)}
      BY <2>1, <2>2 DEF ToAct, S, Ahead
    <3>2. ~(Ahead(n, p) < Ahead(n, p))
      BY <1>1, <1>2, <1>13, <1>15, <2>2
    <3>3. ASSUME NEW q \in S, q # p
          PROVE  Ahead(n, q) < Ahead(n, p)
      <4>1. Away(p, q) < Away(p, p)
        BY <1>1, <1>2, <1>10, <3>3 DEF Away, Ahead
      <4> QED BY <1>15, <2>2, <4>1
    <3> QED BY <3>1, <3>2, <3>3
  <2>4. \A q \in Players : bet'[q] = IF q = p THEN to ELSE bet[q]
    BY <1>4, <1>6 DEF c
  <2>5. \A q \in Players : q # p => bet'[q] < to
    BY <1>1, <1>6, <2>1, <2>2, <2>4 DEF CallInv
  <2>6. bet'[p] = to /\ to <= to
    BY <1>2, <2>2, <2>4
  <2>7. CallInv'
    <3>1. \A q \in Players : bet'[q] <= to
      BY <1>6, <2>2, <2>4, <2>5, <2>6
    <3>2. \A q \in S \ ToAct' : bet'[q] = to
      BY <2>3, <2>6
    <3>3. \A q \in ToAct' : bet'[q] < to
      BY <1>10, <2>3, <2>5
    <3> QED BY <2>1, <3>1, <3>2, <3>3 DEF CallInv, S
  <2>8. OrderInv'
    <3>1. ASSUME NEW q \in ToAct', NEW w \in S \ ToAct'
          PROVE  Ahead(n, q) < Ahead(n, w)
      <4>1. q \in S /\ q # p /\ w = p
        BY <2>3
      <4>2. Away(p, q) < Away(p, p)
        BY <1>1, <1>2, <1>10, <4>1 DEF Away, Ahead
      <4> QED BY <1>15, <2>2, <4>1, <4>2
    <3> QED BY <2>1, <2>2, <3>1 DEF OrderInv, S, Ahead
  <2>9. LimitInv'
    <3>1. (Cardinality(ToAct) \in Nat /\ Cardinality(ToAct) <= N)'
      BY ToActCounted, PTL
    <3>2. Cardinality(ToAct) >= 1
      <4>1. Cardinality(ToAct) # 0
        BY <1>2, <1>18, FS_EmptySet
      <4> QED BY <1>18, <4>1
    <3> DEFINE rN == r * N  rB == r * BigBlind
    <3>3. (r + 1) * N = rN + N /\ (r + 1) * BigBlind = rB + BigBlind /\ rN \in Nat /\ rB \in Nat
      BY <1>1, <1>17
    <3>4. rB <= round.minBet /\ MaxIterations - iterations <= (rN + N) - Cardinality(ToAct)
      BY <1>17
    <3> HIDE DEF rN, rB
    <3>5. (r + 1) * BigBlind <= round'.minBet
      BY <1>1, <2>1, <2>2, <3>3, <3>4
    <3>6. MaxIterations - iterations' <= ((r + 1) * N + N) - Cardinality(ToAct')
      BY <1>1, <1>4, <1>16, <1>18, <3>1, <3>2, <3>3, <3>4
    <3>7. r + 1 \in Nat
      OBVIOUS
    <3> QED BY <3>5, <3>6, <3>7 DEF LimitInv, MaxIterations
  <2> QED BY <2>7, <2>8, <2>9
<1> QED BY <1>5, <1>7, <1>19, <1>20

\* TurnInv is inductive: the other steps end the round or begin the next street.
LEMMA NextTurn ==
  ASSUME PayInv, TurnInv, [Next]_vars
  PROVE  TurnInv'
<1> SUFFICES ASSUME NobodyAllIn'
             PROVE  BlindsInv' /\ (stage' = "asking" => CallInv' /\ OrderInv' /\ LimitInv')
  BY DEF TurnInv
<1>1. HandInv /\ PlayInv
  BY DEF PayInv
<1>2. iterations \in Nat
  <2>1. MaxIterations \in Nat
    BY PokerAssumption DEF MaxIterations
  <2> QED BY <1>1, <2>1 DEF PlayInv
<1>3. CASE StartHand
  <2>1. stage' = "round"
    BY <1>3 DEF StartHand
  <2> QED BY <1>1, <1>3, <2>1, StartHandTurn
<1>4. CASE StartRound
  <2>1. stage' = "asking" /\ NobodyAllIn
    BY <1>4 DEF StartRound, NobodyAllIn
  <2>2. BlindsInv
    BY <2>1 DEF TurnInv
  <2>3. BlindsInv'
    BY <2>1 DEF BlindsInv
  <2> QED BY <1>1, <1>4, <2>2, <2>3, StartRoundTurn
<1>5. CASE Decide
  <2>1. stage = "asking" /\ stage' \in {"asking", "failed"} /\ ~RoundOver
    BY <1>5 DEF Decide
  <2>2. round.actor \in Active
    <3>1. ~(Cardinality(Active) <= 1)
      BY <2>1 DEF RoundOver, BettingRoundComplete
    <3> QED BY <1>1, <2>1, <3>1, FS_EmptySet DEF HandInv, RoundInv
  <2>3. PICK x : status' = [status EXCEPT ![round.actor] = x]
    BY <1>5 DEF Decide, ApplyAction
  <2>4. NobodyAllIn
    <3> SUFFICES ASSUME NEW q \in Players, status[q] = "all-in" PROVE FALSE
      BY DEF NobodyAllIn
    <3>1. q # round.actor
      BY <2>2 DEF Active
    <3>2. status'[q] = "all-in"
      BY <1>1, <2>3, <3>1 DEF HandInv, StageInv
    <3> QED BY <3>2 DEF NobodyAllIn
  <2>5. CallInv /\ OrderInv /\ LimitInv
    BY <2>1, <2>4 DEF TurnInv
  <2>6. BlindsInv'
    BY <2>1 DEF BlindsInv
  <2> QED BY <1>1, <1>2, <1>5, <2>5, <2>6, DecideTurn
<1>6. CASE NextStreet
  <2>1. street' # "preflop" /\ stage' = "round"
    BY <1>1, <1>6 DEF NextStreet, PlayInv, Streets, StreetAfter
  <2> QED BY <2>1 DEF BlindsInv
<1>7. CASE Showdown \/ SaveSummary
  <2>1. stage' \notin {"round", "asking"}
    BY <1>7 DEF Showdown, SaveSummary
  <2> QED BY <2>1 DEF BlindsInv
<1>8. CASE UNCHANGED vars
  <2>1. UNCHANGED <<status, bet, street, stage, round, iterations, dealer>>
    BY <1>8 DEF vars, player
  <2> QED BY <2>1 DEF TurnInv, NobodyAllIn, BlindsInv, CallInv, OrderInv, LimitInv, ToAct, Active,
                      BigBlindIndex
<1> QED BY <1>3, <1>4, <1>5, <1>6, <1>7, <1>8 DEF Next

\* However the loop ended, everybody has called: it cannot have come to its limit
\* before the bets came to ten big blinds.
LEMMA RoundEndsEven ==
  ASSUME HandInv, CallInv, LimitInv, stage = "asking", RoundOver,
         Cardinality(Active) > 1, round.minBet < 10 * BigBlind,
         NEW p \in Active
  PROVE  bet[p] = round.minBet
<1>1. CASE BettingRoundComplete
  <2>1. Cardinality(Active) \in Nat
    BY PlayersFinite, FS_Subset, FS_CardinalityType DEF Active
  <2> QED BY <1>1, <2>1 DEF BettingRoundComplete
<1>2. CASE iterations = 0
  <2>1. PICK r \in Nat : /\ r * BigBlind <= round.minBet
                         /\ MaxIterations - iterations <= (r * N + N) - Cardinality(ToAct)
    BY DEF LimitInv
  <2>2. N \in Nat /\ N >= 2 /\ BigBlind \in Nat /\ BigBlind > 0 /\ round.minBet \in Nat
    BY PokerAssumption DEF HandInv, RoundInv
  <2>3. r <= 9
    <3> SUFFICES ASSUME r >= 10 PROVE FALSE
      BY <2>1
    <3>1. r * BigBlind >= 10 * BigBlind
      BY <2>2
    <3>2. r * BigBlind \in Nat
      BY <2>2
    <3> QED BY <2>1, <2>2, <3>1, <3>2
  <2>4. r * N <= 9 * N /\ r * N \in Nat
    BY <2>2, <2>3
  <2>5. Cardinality(ToAct) = 0
    BY <1>2, <2>1, <2>2, <2>4, ToActCounted DEF MaxIterations
  <2>6. ToAct = {}
    BY <2>5, ToActCounted, FS_EmptySet
  <2> QED BY <2>6 DEF CallInv
<1> QED BY <1>1, <1>2 DEF RoundOver

\* The turns' invariant holds throughout a hand.
THEOREM HandTurnInvariant == Spec => []TurnInv
<1>1. Init => TurnInv
  BY DEF Init, TurnInv, BlindsInv
<1>2. PayInv /\ TurnInv /\ [Next]_vars => TurnInv'
  BY NextTurn
<1> QED BY <1>1, <1>2, HandPaysInvariant, PTL DEF Spec

\* For any table, as long as nobody is all-in, nobody takes a chip out of the pot,
\* and a round of betting that leaves two players active leaves them with equal
\* bets, if these are below ten big blinds: applyAction passes the turn to
\* everybody who has something to call, and isBettingRoundComplete waits for them.
THEOREM HandBettingSound == Spec => BettingSound
<1>1. ASSUME PayInv, TurnInv, [Next]_vars
      PROVE  [stage = "asking" /\ NobodyAllIn =>
                /\ \A p \in Players : total'[p] >= total[p]
                /\ RoundOver /\ Cardinality(Active) > 1 /\ round.minBet < 10 * BigBlind =>
                     \A p, q \in Active : bet[p] = bet[q]]_vars
  <2> SUFFICES ASSUME Next, stage = "asking", NobodyAllIn
               PROVE  /\ \A p \in Players : total'[p] >= total[p]
                      /\ RoundOver /\ Cardinality(Active) > 1 /\ round.minBet < 10 * BigBlind =>
                           \A p, q \in Active : bet[p] = bet[q]
    BY <1>1
  <2>1. HandInv /\ CallInv /\ OrderInv /\ LimitInv
    BY <1>1 DEF PayInv, TurnInv
  <2>2. total \in [Players -> Nat]
    BY <2>1 DEF HandInv, LedgerInv
  <2>3. \A p \in Players : total'[p] >= total[p]
    <3>1. CASE Decide
      <4>1. ~RoundOver
        BY <3>1 DEF Decide
      <4>2. round.actor \in ToAct
        BY <2>1, <4>1, AskedInTurn
      <4>3. PICK a \in Menu(round.actor) : ApplyAction(round.actor, a)
        BY <3>1 DEF Decide
      <4>4. Costs(round.actor, a) \in Nat
        BY <2>1, <4>2, ChoiceInTurn
      <4>5. total' = [total EXCEPT ![round.actor] = @ + Costs(round.actor, a)]
        BY <4>3 DEF ApplyAction, AddsToPot
      <4> QED BY <2>2, <4>4, <4>5
    <3>2. CASE ~Decide
      <4>1. total' = total
        BY <3>2 DEF Next, StartHand, StartRound, NextStreet, Showdown, SaveSummary, player
      <4> QED BY <2>2, <4>1
    <3> QED BY <3>1, <3>2
  <2> QED BY <2>1, <2>3, RoundEndsEven
<1>2. PayInv /\ TurnInv /\ [Next]_vars =>
        [stage = "asking" /\ NobodyAllIn =>
           /\ \A p \in Players : total'[p] >= total[p]
           /\ RoundOver /\ Cardinality(Active) > 1 /\ round.minBet < 10 * BigBlind =>
                \A p, q \in Active : bet[p] = bet[q]]_vars
  BY <1>1
<1> QED BY <1>2, HandPaysInvariant, HandTurnInvariant, PTL DEF Spec, BettingSound

-----------------------------------------------------------------------------
(* Who answers.                                                             *)

Kinds == {"fold", "check", "call", "all-in", "bet", "raise"}

\* What is true of every menu, of whatever stack and bets: of each kind the amounts from
\* a least to a greatest one, of which there is one but for a bet or a raise; an all-in
\* always; and either a check and perhaps a bet, or a fold and perhaps a call and a raise.
Entries(m) == \A a \in m : a.type \in Kinds /\ a.amount \in Nat /\ a = Act(a.type, a.amount)
Between(m, t, lo, hi) == \A n \in Nat : Act(t, n) \in m <=> lo <= n /\ n <= hi
Bounded(m, t) ==
  LET lo == MinAmount(m, t) hi == MaxAmount(m, t)
  IN /\ lo \in Nat /\ hi \in Nat /\ lo <= hi
     /\ Between(m, t, lo, hi)
     /\ t \in {"fold", "check"} => lo = 0 /\ hi = 0
     /\ t \in {"call", "all-in"} => lo = hi
MenuShape(m) ==
  /\ Entries(m)
  /\ \A t \in Offered(m) : Bounded(m, t)
  /\ "all-in" \in Offered(m)
  /\ \/ "check" \in Offered(m) /\ Offered(m) \subseteq {"check", "all-in", "bet"}
     \/ "fold" \in Offered(m) /\ Offered(m) \subseteq {"fold", "all-in", "call", "raise"}

\* The ends of a set of numbers that are those between two.
LEMMA Ends ==
  ASSUME NEW S, NEW lo \in Nat, NEW hi \in Nat, lo <= hi, S = lo .. hi
  PROVE  Min(S) = lo /\ Max(S) = hi
<1>1. lo \in S /\ hi \in S /\ \A x \in S : x \in Nat /\ lo <= x /\ x <= hi
  OBVIOUS
<1>2. Min(S) \in S /\ \A x \in S : Min(S) <= x
  BY <1>1 DEF Min
<1>3. Max(S) \in S /\ \A x \in S : Max(S) >= x
  BY <1>1 DEF Max
<1> QED BY <1>1, <1>2, <1>3

\* A kind whose entries are those with an amount between two.
LEMMA BetweenIsBounded ==
  ASSUME NEW m, Entries(m), NEW t, NEW lo \in Nat, NEW hi \in Nat, lo <= hi,
         Between(m, t, lo, hi),
         t \in {"fold", "check"} => lo = 0 /\ hi = 0,
         t \in {"call", "all-in"} => lo = hi
  PROVE  Bounded(m, t)
<1>1. AmountsOf(m, t) = lo .. hi
  <2>1. ASSUME NEW a \in m, a.type = t PROVE a.amount \in lo .. hi
    BY <2>1 DEF Entries, Between
  <2>2. ASSUME NEW n \in lo .. hi PROVE \E a \in m : a.type = t /\ a.amount = n
    <3>1. n \in Nat /\ Act(t, n) \in m
      BY DEF Between
    <3> QED BY <3>1 DEF Act
  <2> QED BY <2>1, <2>2 DEF AmountsOf
<1>2. MinAmount(m, t) = lo /\ MaxAmount(m, t) = hi
  BY <1>1, Ends DEF MinAmount, MaxAmount
<1> QED BY <1>2 DEF Bounded

LEMMA MenusHaveShape ==
  ASSUME HandInv, stage = "asking", NEW p \in Active
  PROVE  MenuShape(Menu(p))
<1> DEFINE m == Menu(p)
<1>1. p \in Players
  BY DEF Active
<1>2. stack[p] \in Nat /\ stack[p] > 0 /\ bet[p] \in Nat
  BY <1>1, StackLeft DEF HandInv, LedgerInv
<1>3. round.minBet \in Nat /\ round.minRaise \in Int /\ BigBlind \in Nat
  BY PokerAssumption DEF HandInv, RoundInv
<1>4. CASE ToCall(p) <= 0
  <2>1. m = BetMenu(p)
    BY <1>4 DEF Menu
  <2>2. \A a : a \in m <=> \/ a = Act("check", 0) \/ a = Act("all-in", stack[p])
                           \/ \E n \in BigBlind .. stack[p] : stack[p] > BigBlind /\ a = Act("bet", n)
    BY <2>1 DEF BetMenu
  <2> HIDE DEF m
  <2>3. Entries(m)
    BY <1>2, <1>3, <2>2 DEF Entries, Act, Kinds
  <2>4. Bounded(m, "check")
    <3>1. Between(m, "check", 0, 0)
      BY <2>2 DEF Act, Between
    <3> QED BY <2>3, <3>1, BetweenIsBounded
  <2>5. Bounded(m, "all-in")
    <3>1. Between(m, "all-in", stack[p], stack[p])
      BY <1>2, <2>2 DEF Act, Between
    <3> QED BY <1>2, <2>3, <3>1, BetweenIsBounded
  <2>6. stack[p] > BigBlind => Bounded(m, "bet")
    <3> SUFFICES ASSUME stack[p] > BigBlind PROVE Bounded(m, "bet")
      OBVIOUS
    <3>1. Between(m, "bet", BigBlind, stack[p])
      BY <1>2, <1>3, <2>2 DEF Act, Between
    <3> QED BY <1>2, <1>3, <2>3, <3>1, BetweenIsBounded
  <2>7. /\ {"check", "all-in"} \subseteq Offered(m)
        /\ Offered(m) \subseteq {"check", "all-in", "bet"}
        /\ "bet" \in Offered(m) => stack[p] > BigBlind
    <3>1. /\ Act("check", 0) \in m /\ Act("check", 0).type = "check"
          /\ Act("all-in", stack[p]) \in m /\ Act("all-in", stack[p]).type = "all-in"
      BY <2>2 DEF Act
    <3>2. \A a \in m : a.type \in {"check", "all-in"} \/ (a.type = "bet" /\ stack[p] > BigBlind)
      BY <2>2 DEF Act
    <3> QED BY <3>1, <3>2 DEF Offered
  <2> QED BY <2>3, <2>4, <2>5, <2>6, <2>7 DEF MenuShape, m
<1>5. CASE ~(ToCall(p) <= 0)
  <2> DEFINE most == bet[p] + stack[p]
             least == Least(round.minBet + Most(round.minRaise, BigBlind), most)
  <2>0. /\ ToCall(p) \in Nat /\ ToCall(p) > 0
        /\ most \in Nat /\ least \in Nat /\ least <= most
    BY <1>2, <1>3, <1>5 DEF ToCall, Least, Most
  <2>1. m = CallMenu(p) /\ RaiseMenu(p) = {Act("raise", a) : a \in least .. most}
    BY <1>5 DEF Menu, RaiseMenu
  <2> HIDE DEF most, least
  <2>2. \A a : a \in m <=>
          \/ a = Act("fold", 0) \/ a = Act("all-in", stack[p])
          \/ stack[p] > ToCall(p) /\ a = Act("call", ToCall(p))
          \/ \E n \in least .. most : stack[p] > ToCall(p) /\ a = Act("raise", n)
    BY <2>1 DEF CallMenu
  <2> HIDE DEF m
  <2>3. Entries(m)
    BY <1>2, <2>0, <2>2 DEF Entries, Act, Kinds
  <2>4. Bounded(m, "fold")
    <3>1. Between(m, "fold", 0, 0)
      BY <2>2 DEF Act, Between
    <3> QED BY <2>3, <3>1, BetweenIsBounded
  <2>5. Bounded(m, "all-in")
    <3>1. Between(m, "all-in", stack[p], stack[p])
      BY <1>2, <2>2 DEF Act, Between
    <3> QED BY <1>2, <2>3, <3>1, BetweenIsBounded
  <2>6. stack[p] > ToCall(p) => Bounded(m, "call") /\ Bounded(m, "raise")
    <3> SUFFICES ASSUME stack[p] > ToCall(p) PROVE Bounded(m, "call") /\ Bounded(m, "raise")
      OBVIOUS
    <3>1. Between(m, "call", ToCall(p), ToCall(p))
      BY <2>0, <2>2 DEF Act, Between
    <3>2. Bounded(m, "call")
      BY <2>0, <2>3, <3>1, BetweenIsBounded
    <3>3. Between(m, "raise", least, most)
      BY <2>0, <2>2 DEF Act, Between
    <3>4. Bounded(m, "raise")
      BY <2>0, <2>3, <3>3, BetweenIsBounded
    <3> QED BY <3>2, <3>4
  <2>7. /\ {"fold", "all-in"} \subseteq Offered(m)
        /\ Offered(m) \subseteq {"fold", "all-in", "call", "raise"}
        /\ "call" \in Offered(m) \/ "raise" \in Offered(m) => stack[p] > ToCall(p)
    <3>1. /\ Act("fold", 0) \in m /\ Act("fold", 0).type = "fold"
          /\ Act("all-in", stack[p]) \in m /\ Act("all-in", stack[p]).type = "all-in"
      BY <2>2 DEF Act
    <3>2. \A a \in m :
            a.type \in {"fold", "all-in"} \/ (a.type \in {"call", "raise"} /\ stack[p] > ToCall(p))
      BY <2>2 DEF Act
    <3> QED BY <3>1, <3>2 DEF Offered
  <2> QED BY <2>3, <2>4, <2>5, <2>6, <2>7 DEF MenuShape, m
<1> QED BY <1>4, <1>5

\* Answers that are on the menu, and those that name its kind only, are taken.
LEMMA OnMenuIsTaken ==
  ASSUME NEW m, MenuShape(m), NEW a \in m
  PROVE  Valid(m, a) /\ Normalized(m, a) = a /\ a.type \in Offered(m)
<1>1. a.type \in Offered(m) /\ a = Act(a.type, a.amount) /\ a.amount \in Nat
  BY DEF MenuShape, Entries, Offered
<1>2. MinAmount(m, a.type) <= a.amount /\ a.amount <= MaxAmount(m, a.type)
  BY <1>1 DEF MenuShape, Bounded, Between
<1>3. Valid(m, a)
  BY <1>1, <1>2 DEF Valid
<1>4. a.type \in {"call", "all-in"} => a = Act(a.type, MaxAmount(m, a.type))
  <2>1. a.type \in {"call", "all-in"} =>
          /\ MaxAmount(m, a.type) \in Nat /\ MinAmount(m, a.type) = MaxAmount(m, a.type)
    BY <1>1 DEF MenuShape, Bounded, Between
  <2>2. a.type \in {"call", "all-in"} => a.amount = MaxAmount(m, a.type)
    BY <1>1, <1>2, <2>1
  <2> QED BY <1>1, <2>2
<1>5. Normalized(m, a) = a
  BY <1>3, <1>4 DEF Normalized
<1> QED BY <1>1, <1>3, <1>5

LEMMA LimitsOnMenu ==
  ASSUME NEW m, MenuShape(m), NEW t \in Offered(m)
  PROVE  /\ Act(t, MinAmount(m, t)) \in m /\ Act(t, MaxAmount(m, t)) \in m
         /\ Bounded(m, t)
<1> QED BY DEF MenuShape, Bounded, Between

LEMMA PlainIsTaken ==
  ASSUME NEW m, MenuShape(m), NEW t \in Offered(m), t \notin {"bet", "raise"}
  PROVE  Valid(m, Plain(t)) /\ Normalized(m, Plain(t)) \in m /\ Normalized(m, Plain(t)).type = t
<1>1. Plain(t) = Act(t, 0) /\ Plain(t).type = t
  BY DEF Plain, Act
<1>2. Valid(m, Plain(t))
  BY <1>1 DEF Valid
<1>3. CASE t \in {"call", "all-in"}
  BY <1>1, <1>2, <1>3, LimitsOnMenu DEF Normalized, Act
<1>4. CASE t \notin {"call", "all-in"}
  <2>1. t \in {"fold", "check"}
    BY <1>4 DEF MenuShape
  <2>2. Act(t, 0) \in m
    BY <2>1, LimitsOnMenu DEF Bounded, Between
  <2> QED BY <1>1, <1>2, <1>4, <2>2 DEF Normalized
<1> QED BY <1>2, <1>3, <1>4

\* A part of the way from the least to the greatest amount is between them.
LEMMA SizedOnMenu ==
  ASSUME NEW m, MenuShape(m), NEW t \in Offered(m), NEW tenths \in 0 .. 10
  PROVE  Sized(m, t, tenths) \in m /\ Sized(m, t, tenths).type = t
<1> DEFINE lo == MinAmount(m, t) hi == MaxAmount(m, t)
<1>1. lo \in Nat /\ hi \in Nat /\ lo <= hi /\ \A n \in Nat : Act(t, n) \in m <=> lo <= n /\ n <= hi
  BY LimitsOnMenu DEF Bounded, Between
<1>2. Sized(m, t, tenths) = Act(t, lo + ((hi - lo) * tenths) \div 10)
  BY DEF Sized
<1> HIDE DEF lo, hi
<1>3. ASSUME NEW d \in Nat PROVE (d * tenths) \div 10 \in 0 .. d
  <2>1. d * tenths \in Nat /\ d * tenths <= 10 * d
    <3>1. d * tenths \in Nat
      OBVIOUS
    <3>2. d * (10 - tenths) \in Nat
      OBVIOUS
    <3>3. d * (10 - tenths) = 10 * d - d * tenths
      OBVIOUS
    <3> QED BY <3>1, <3>2, <3>3
  <2> DEFINE x == d * tenths
  <2>2. x \in Nat /\ x <= 10 * d
    BY <2>1
  <2> HIDE DEF x
  <2>3. x \div 10 \in 0 .. d
    BY <2>2
  <2> QED BY <2>3 DEF x
<1>4. hi - lo \in Nat
  BY <1>1
<1>5. ((hi - lo) * tenths) \div 10 \in 0 .. (hi - lo)
  BY <1>3, <1>4
<1> DEFINE part == ((hi - lo) * tenths) \div 10
<1>6. part \in 0 .. (hi - lo) /\ Sized(m, t, tenths) = Act(t, lo + part)
  BY <1>2, <1>5
<1> HIDE DEF part
<1>7. lo + part \in Nat /\ lo <= lo + part /\ lo + part <= hi
  BY <1>1, <1>6
<1> QED BY <1>1, <1>6, <1>7 DEF Act

\* The answers that name a kind, one of S, which is offered.
Named(m, S) == {Plain(t) : t \in Offered(m) \cap S}

LEMMA FirstIsOffered ==
  ASSUME NEW m, MenuShape(m)
  PROVE  FirstOnMenu(m) \in Offered(m) \cap {"check", "fold"}
<1> QED BY DEF MenuShape, FirstOnMenu

\* MockAgent.firstLegal names a preference that is offered, or else what is pushed first.
LEMMA FirstLegalIsOffered ==
  ASSUME NEW m, MenuShape(m), NEW S, {"check", "fold"} \subseteq S, NEW first,
         Len(first) \in Nat, \A i \in 1 .. Len(first) : first[i] \in S
  PROVE  FirstLegal(m, first) \subseteq Named(m, S)
<1> DEFINE on == {i \in 1 .. Len(first) : first[i] \in Offered(m)}
<1>1. FirstLegal(m, first) = {Plain(IF on = {} THEN FirstOnMenu(m) ELSE first[Min(on)])}
  BY DEF FirstLegal
<1>2. CASE on = {}
  <2>1. FirstOnMenu(m) \in Offered(m) \cap S
    BY <1>2, FirstIsOffered
  <2> QED BY <1>1, <1>2, <2>1 DEF Named
<1>3. CASE on # {}
  <2>1. Min(on) \in on
    <3>1. on \subseteq Nat
      OBVIOUS
    <3> HIDE DEF on
    <3> QED BY <1>3, <3>1, MinOfNaturals
  <2>2. first[Min(on)] \in Offered(m) \cap S
    BY <2>1
  <2> QED BY <1>1, <1>3, <2>2 DEF Named
<1> QED BY <1>2, <1>3

\* What a strategy answers is on the menu or names a kind that is, and as it is meant.
Meant(s, m, a) ==
  /\ s \in {"npc-maniac", "aggressive"} => a.type # "fold"
  /\ s \in {"npc-loose-passive", "always-call", "always-fold"} =>
       a \in Named(m, {"fold", "check", "call"})
  /\ s = "npc-tight-aggressive" /\ a.type = "call" => "raise" \notin Offered(m)

LEMMA NamedFacts ==
  ASSUME NEW m, NEW S, NEW a \in Named(m, S)
  PROVE  a.type \in Offered(m) \cap S /\ a = Plain(a.type)
<1> QED BY DEF Named, Plain, Act

LEMMA StrategiesAnswer ==
  ASSUME NEW m, MenuShape(m), NEW s \in Strategies, NEW a \in Answers(s, m)
  PROVE  /\ a \in m \cup Named(m, Kinds \ {"bet", "raise"})
         /\ Meant(s, m, a)
<1> DEFINE plain == {"fold", "check", "call"}
           Off == Kinds \ {"bet", "raise"}
<1>0. \A S \in SUBSET Off : Named(m, S) \subseteq Named(m, Off)
  BY DEF Named
<1>a. ASSUME NEW first, Len(first) \in Nat, \A i \in 1 .. Len(first) : first[i] \in plain
      PROVE  FirstLegal(m, first) \subseteq Named(m, plain)
  BY <1>a, FirstLegalIsOffered
<1>1. FirstLegal(m, <<"call", "check", "fold">>) \subseteq Named(m, plain)
  BY <1>a
<1>2. Named(m, plain) \subseteq Named(m, Off)
  BY <1>0 DEF Kinds
<1>3. CASE s = "random"
  BY <1>3 DEF Answers, RandomMock, Meant
<1>4. CASE s = "always-call"
  <2>1. a \in Named(m, plain)
    BY <1>1, <1>4 DEF Answers, AlwaysCall
  <2> QED BY <1>2, <1>4, <2>1 DEF Meant
<1>5. CASE s = "always-fold"
  <2>1. FirstLegal(m, <<"fold", "check">>) \subseteq Named(m, plain)
    BY <1>a
  <2>2. a \in Named(m, plain)
    BY <1>5, <2>1 DEF Answers, AlwaysFold
  <2> QED BY <1>2, <1>5, <2>2 DEF Meant
<1>6. CASE s = "aggressive"
  <2>1. a = Act("all-in", MaxAmount(m, "all-in")) /\ "all-in" \in Offered(m)
    BY <1>6 DEF Answers, Aggressive, AllIn, MenuShape
  <2>2. a \in m /\ a.type # "fold"
    BY <2>1, LimitsOnMenu DEF Act
  <2> QED BY <1>6, <2>2 DEF Meant
<1>7. CASE s = "npc-tight-aggressive"
  <2>1. CASE "raise" \in Offered(m)
    <3>1. a = Sized(m, "raise", 6)
      BY <1>7, <2>1 DEF Answers, TightAggressive
    <3>2. a \in m /\ a.type = "raise"
      BY <2>1, <3>1, SizedOnMenu
    <3> QED BY <1>7, <3>2 DEF Meant
  <2>2. CASE "raise" \notin Offered(m) /\ "bet" \in Offered(m)
    <3>1. a = Sized(m, "bet", 5)
      BY <1>7, <2>2 DEF Answers, TightAggressive
    <3>2. a \in m
      BY <2>2, <3>1, SizedOnMenu
    <3> QED BY <1>7, <2>2, <3>2 DEF Meant
  <2>3. CASE "raise" \notin Offered(m) /\ "bet" \notin Offered(m)
    <3>1. a \in {Plain(t) : t \in Offered(m) \cap {"fold"}} \cup FirstLegal(m, <<"call", "check", "fold">>)
      BY <1>7, <2>3 DEF Answers, TightAggressive
    <3>2. a \in Named(m, plain)
      BY <1>1, <3>1 DEF Named
    <3> QED BY <1>2, <1>7, <2>3, <3>2 DEF Meant
  <2> QED BY <2>1, <2>2, <2>3
<1>8. CASE s = "npc-loose-passive"
  <2>1. a \in {Plain(t) : t \in Offered(m) \cap {"fold"}} \cup FirstLegal(m, <<"call", "check", "fold">>)
    BY <1>8 DEF Answers, LoosePassive
  <2>2. a \in Named(m, plain)
    BY <1>1, <2>1 DEF Named
  <2> QED BY <1>2, <1>8, <2>2 DEF Meant
<1>9. CASE s = "npc-balanced"
  <2>1. FirstLegal(m, <<"fold", "check", "call">>) \subseteq Named(m, plain)
    BY <1>a
  <2>2. FirstLegal(m, <<"call", "check">>) \subseteq Named(m, plain)
    BY <1>a
  <2>3. \A t : AnySize(m, t) \subseteq m
    <3> SUFFICES ASSUME NEW t, NEW b \in AnySize(m, t) PROVE b \in m
      OBVIOUS
    <3>1. PICK e \in m : e.type = t /\ b = Act(t, e.amount)
      BY DEF AnySize, AmountsOf
    <3> QED BY <3>1 DEF MenuShape, Entries
  <2>4. {Plain(t) : t \in Offered(m) \cap {"check"}} \subseteq Named(m, plain)
    BY DEF Named
  <2>5. a \in m \cup Named(m, plain)
    BY <1>9, <2>1, <2>2, <2>3, <2>4 DEF Answers, Balanced
  <2> QED BY <1>2, <1>9, <2>5 DEF Meant
<1>10. CASE s = "npc-maniac"
  <2> DEFINE loud == {"call", "check", "all-in"}
  <2>0. "all-in" \in Offered(m)
    BY DEF MenuShape
  <2>1. CASE a \in {AllIn(m) : t \in Offered(m) \cap {"all-in"}}
    <3>1. a = Act("all-in", MaxAmount(m, "all-in"))
      BY <2>1 DEF AllIn
    <3>2. a \in m /\ a.type # "fold"
      BY <2>0, <3>1, LimitsOnMenu DEF Act
    <3> QED BY <1>10, <3>2 DEF Meant
  <2>2. CASE "raise" \in Offered(m) /\ a = Sized(m, "raise", 10)
    BY <1>10, <2>2, SizedOnMenu DEF Meant
  <2>3. CASE "bet" \in Offered(m) /\ a = Sized(m, "bet", 10)
    BY <1>10, <2>3, SizedOnMenu DEF Meant
  <2>4. CASE a \in FirstLegal(m, <<"call", "check", "all-in", "fold">>)
    <3> DEFINE first == <<"call", "check", "all-in", "fold">>
               on == {i \in 1 .. Len(first) : first[i] \in Offered(m)}
    <3>1. 3 \in on /\ on \subseteq 1 .. 4
      BY <2>0
    <3>2. Min(on) \in on /\ Min(on) <= 3
      <4>1. Min(on) \in on
        BY <3>1, MinOfNaturals
      <4>2. \E x \in on : \A y \in on : x <= y
        BY <3>1
      <4>3. \A y \in on : Min(on) <= y
        BY <4>2 DEF Min
      <4> QED BY <3>1, <4>1, <4>3
    <3>3. first[Min(on)] \in Offered(m) \cap loud
      BY <3>2
    <3>4. a = Plain(first[Min(on)])
      BY <2>4, <3>1 DEF FirstLegal
    <3>5. a \in Named(m, loud)
      BY <3>3, <3>4 DEF Named
    <3>6. a \in Named(m, Off) /\ a.type # "fold"
      BY <1>0, <3>5, NamedFacts DEF Kinds
    <3> QED BY <1>10, <3>6 DEF Meant
  <2> QED BY <1>10, <2>1, <2>2, <2>3, <2>4 DEF Answers, Maniac
<1> QED BY <1>3, <1>4, <1>5, <1>6, <1>7, <1>8, <1>9, <1>10 DEF Strategies

\* Every summary passes the protocol's schema.
LEMMA SummariesFit ==
  ASSUME NEW m, MenuShape(m), NEW t \in Offered(m), NEW s \in Strategies
  PROVE  FitsSchema(m, t, s)
<1>1. t \in Kinds /\ Offered(m) \subseteq Kinds
  BY DEF MenuShape, Kinds
<1>2. IntentPool(t) \subseteq IntentNames
  BY <1>1 DEF IntentPool, IntentNames, Kinds
<1>3. Intents(t, s) \subseteq IntentNames
  BY <1>2 DEF Intents, IntentNames
<1>4. ConfidenceBase(t) \subseteq 50 .. 95
  BY <1>1 DEF ConfidenceBase, Kinds
<1>5. Confidences(t, s) \subseteq 0 .. 100
  BY <1>4 DEF Confidences, Least, Most
<1>6. \A n \in ObservationCounts(t, s) : n <= 5
  BY DEF ObservationCounts
<1>7. ASSUME NEW S \in Considered(m, t) PROVE Cardinality(S) <= 6
  <2>1. PICK others \in SUBSET (Offered(m) \ {t}) : S = {t} \cup others /\ Cardinality(others) \in 0 .. 2
    BY DEF Considered
  <2>2. IsFiniteSet(Kinds)
    <3>1. ASSUME NEW x, NEW y PROVE IsFiniteSet({x, y})
      <4>1. IsFiniteSet({x}) /\ IsFiniteSet({x} \cup {y})
        BY FS_Singleton, FS_AddElement
      <4>2. {x} \cup {y} = {x, y}
        OBVIOUS
      <4> QED BY <4>1, <4>2
    <3> DEFINE A == {"fold", "check"}  B == {"call", "all-in"}  C == {"bet", "raise"}
    <3>2. IsFiniteSet(A) /\ IsFiniteSet(B) /\ IsFiniteSet(C)
      BY <3>1
    <3>3. Kinds = A \cup B \cup C
      BY DEF Kinds
    <3> HIDE DEF A, B, C
    <3>4. IsFiniteSet(A \cup B)
      BY <3>2, FS_Union
    <3> QED BY <3>2, <3>3, <3>4, FS_Union
  <2>3. IsFiniteSet(others)
    BY <1>1, <2>2, FS_Subset
  <2>4. Cardinality(others \cup {t}) \in {Cardinality(others), Cardinality(others) + 1}
    BY <2>3, FS_AddElement
  <2>5. S = others \cup {t}
    BY <2>1
  <2> QED BY <2>1, <2>4, <2>5
<1> QED BY <1>3, <1>5, <1>6, <1>7 DEF FitsSchema

\* The panel offers what is on the menu.
LEMMA PanelOffersMenu ==
  ASSUME NEW m, MenuShape(m)
  PROVE  PanelSound(m)
<1>1. Cardinality(SizedTypes(m)) <= 1
  <2>1. \E t : SizedTypes(m) \subseteq {t}
    BY DEF MenuShape, SizedTypes
  <2>2. PICK t : SizedTypes(m) \subseteq {t}
    BY <2>1
  <2>3. IsFiniteSet({t}) /\ Cardinality({t}) = 1
    BY FS_Singleton
  <2> QED BY <2>2, <2>3, FS_Subset
<1>2. ASSUME NEW a \in m PROVE a \in PanelAnswers(m)
  <2>1. /\ a.type \in Offered(m) /\ a.type \in Kinds /\ a = Act(a.type, a.amount) /\ a.amount \in Nat
        /\ MinAmount(m, a.type) <= a.amount /\ a.amount <= MaxAmount(m, a.type)
        /\ Bounded(m, a.type)
    BY DEF MenuShape, Entries, Offered, Bounded, Between
  <2>2. CASE a.type \in {"fold", "check"}
    <3>1. a.amount = 0
      BY <2>1, <2>2 DEF Bounded, Between
    <3> QED BY <2>1, <2>2, <3>1 DEF PanelAnswers, ButtonAnswers, Plain
  <2>3. CASE a.type \in {"call", "all-in"}
    <3>1. a.amount = MaxAmount(m, a.type)
      BY <2>1, <2>3 DEF Bounded, Between
    <3> QED BY <2>1, <2>3, <3>1 DEF PanelAnswers, ButtonAnswers
  <2>4. CASE a.type \in {"bet", "raise"}
    <3>1. a.type \in SizedTypes(m)
      BY <2>1, <2>4 DEF SizedTypes
    <3>2. a.amount \in 0 .. MaxAmount(m, a.type) + 1 /\ PanelAccepts(m, a.type, a.amount)
      BY <2>1 DEF PanelAccepts, Bounded, Between
    <3>3. a \in {Act(a.type, n) : n \in {k \in 0 .. MaxAmount(m, a.type) + 1 : PanelAccepts(m, a.type, k)}}
      BY <2>1, <3>2
    <3> QED BY <3>1, <3>3 DEF PanelAnswers, FormAnswers
  <2> QED BY <2>1, <2>2, <2>3, <2>4 DEF Kinds
<1>3. ASSUME NEW a \in PanelAnswers(m) PROVE a \in m
  <2>1. CASE \E t \in Offered(m) \cap {"fold", "check"} : a = Plain(t)
    BY <2>1, LimitsOnMenu DEF Plain, Bounded, Between
  <2>2. CASE \E t \in Offered(m) \cap {"call", "all-in"} : a = Act(t, MaxAmount(m, t))
    BY <2>2, LimitsOnMenu
  <2>3. CASE a \in FormAnswers(m)
    <3>1. PICK t \in SizedTypes(m) :
            \E n \in {k \in 0 .. MaxAmount(m, t) + 1 : PanelAccepts(m, t, k)} : a = Act(t, n)
      BY <2>3 DEF FormAnswers
    <3>2. t \in Offered(m) /\ Bounded(m, t)
      BY LimitsOnMenu DEF SizedTypes
    <3>3. PICK n \in 0 .. MaxAmount(m, t) + 1 : PanelAccepts(m, t, n) /\ a = Act(t, n)
      BY <3>1
    <3>4. n \in Nat
      BY <3>2 DEF Bounded, Between
    <3> QED BY <3>2, <3>3, <3>4 DEF PanelAccepts, Bounded, Between
  <2> QED BY <2>1, <2>2, <2>3 DEF PanelAnswers, ButtonAnswers
<1>4. PanelAnswers(m) = m
  BY <1>2, <1>3
<1>5. ASSUME NEW t \in SizedTypes(m)
      PROVE  LET presets == Presets(m, t, SumOf(total))
             IN /\ MinAmount(m, t) \in presets
                /\ \A a \in presets : PanelAccepts(m, t, a)
  <2>1. MinAmount(m, t) \in Nat /\ MaxAmount(m, t) \in Nat /\ MinAmount(m, t) <= MaxAmount(m, t)
    BY LimitsOnMenu DEF SizedTypes, Bounded, Between
  <2> QED BY <2>1 DEF Presets, PanelAccepts
<1> QED BY <1>1, <1>4, <1>5, OnMenuIsTaken DEF PanelSound

LEMMA CallsWhatItTakes ==
  ASSUME HandInv, stage = "asking", NEW p \in Active, NEW b \in Menu(p),
         b.type \in {"fold", "check", "call"}
  PROVE  Costs(p, b) <= Most(ToCall(p), 0)
<1>1. stack[p] \in Nat /\ ToCall(p) \in Int
  <2>1. p \in Players /\ stack[p] \in Nat /\ bet[p] \in Nat /\ round.minBet \in Nat
    BY StackLeft DEF HandInv, LedgerInv, RoundInv, Active
  <2> QED BY <2>1 DEF ToCall
<1>2. CASE b.type \in {"fold", "check"}
  BY <1>1, <1>2 DEF Costs, Most
<1>3. CASE b.type = "call"
  <2>1. b.amount = ToCall(p)
    BY <1>3 DEF Menu, BetMenu, CallMenu, RaiseMenu, Act
  <2>2. Costs(p, b) = Least(b.amount, stack[p])
    BY <1>3 DEF Costs
  <2> QED BY <1>1, <2>1, <2>2 DEF Least, Most
<1> QED BY <1>2, <1>3

\* In any hand of any stacks: no answer of a built-in player is replaced by the fallback,
\* each plays as it is meant to, and a person at the panel can answer all that the rules
\* allow and nothing else.
THEOREM HandAnswersFit == Spec => []AnswersFitTheHand
<1>1. HandInv /\ AskedPlayerCanPay => AnswersFitTheHand
  <2> SUFFICES ASSUME HandInv, AskedPlayerCanPay, stage = "asking", ~RoundOver,
                      NEW m, m = Menu(round.actor)
               PROVE  /\ PanelSound(m)
                      /\ \A s \in Strategies : \A a \in Answers(s, m) :
                           /\ Valid(m, a)
                           /\ Normalized(m, a) \in m
                           /\ s \in {"npc-maniac", "aggressive"} => a.type # "fold"
                           /\ s \in {"npc-loose-passive", "always-call", "always-fold"} =>
                                Costs(round.actor, Normalized(m, a)) <= Most(ToCall(round.actor), 0)
                           /\ s = "npc-tight-aggressive" /\ a.type = "call" => "raise" \notin Offered(m)
                           /\ FitsSchema(m, a.type, s)
    BY DEF AnswersFitTheHand
  <2>1. round.actor \in Active
    BY DEF AskedPlayerCanPay
  <2>2. MenuShape(m)
    BY <2>1, MenusHaveShape
  <2>3. PanelSound(m)
    BY <2>2, PanelOffersMenu
  <2> SUFFICES ASSUME NEW s \in Strategies, NEW a \in Answers(s, m)
               PROVE  /\ Valid(m, a)
                      /\ Normalized(m, a) \in m
                      /\ s \in {"npc-loose-passive", "always-call", "always-fold"} =>
                           Costs(round.actor, Normalized(m, a)) <= Most(ToCall(round.actor), 0)
                      /\ FitsSchema(m, a.type, s)
                      /\ Meant(s, m, a)
    BY <2>3 DEF Meant
  <2>4. a \in m \cup Named(m, Kinds \ {"bet", "raise"}) /\ Meant(s, m, a)
    BY <2>2, StrategiesAnswer
  <2>5. Valid(m, a) /\ Normalized(m, a) \in m /\ a.type \in Offered(m)
    <3>1. CASE a \in m
      BY <2>2, <3>1, OnMenuIsTaken
    <3>2. CASE a \in Named(m, Kinds \ {"bet", "raise"})
      <4>1. a.type \in Offered(m) /\ a.type \notin {"bet", "raise"} /\ a = Plain(a.type)
        BY <3>2, NamedFacts
      <4> QED BY <2>2, <4>1, PlainIsTaken
    <3> QED BY <2>4, <3>1, <3>2
  <2>6. s \in {"npc-loose-passive", "always-call", "always-fold"} =>
          Costs(round.actor, Normalized(m, a)) <= Most(ToCall(round.actor), 0)
    <3> SUFFICES ASSUME s \in {"npc-loose-passive", "always-call", "always-fold"}
                 PROVE  Costs(round.actor, Normalized(m, a)) <= Most(ToCall(round.actor), 0)
      OBVIOUS
    <3>1. a \in Named(m, {"fold", "check", "call"})
      BY <2>4 DEF Meant
    <3>2. a.type \in Offered(m) \cap {"fold", "check", "call"} /\ a = Plain(a.type)
      BY <3>1, NamedFacts
    <3>3. Normalized(m, a) \in m /\ Normalized(m, a).type = a.type
      BY <2>2, <3>2, PlainIsTaken
    <3> QED BY <2>1, <3>2, <3>3, CallsWhatItTakes
  <2>7. FitsSchema(m, a.type, s)
    BY <2>2, <2>5, SummariesFit
  <2> QED BY <2>4, <2>5, <2>6, <2>7
<1> QED BY <1>1, HandInvariant, HandAskedPlayerCanPay, PTL

-----------------------------------------------------------------------------
(* The page of a finished match: which event is shown for which action.     *)

LEMMA PlaceAlone ==
  ASSUME NEW h, NEW events, NEW hands, h \in Range(hands), Replayable(hands, events),
         NEW j \in DOMAIN h.actions, NEW k \in DOMAIN h.actions, NEW i,
         i \in PlaceOf(h.actions, events, AppliedEvents(h, events), j)
  PROVE  /\ i \in DOMAIN events
         /\ i \in PlaceOf(h.actions, events, AppliedEvents(h, events), k) => j = k
         /\ events[i].action = h.actions[k].id => j = k
<1> DEFINE actions == h.actions
           applied == AppliedEvents(h, events)
           named == ExactMatches(actions, events, applied)
           free == Unreserved(actions, events, applied)
           At(n) == Naming(actions, events, applied, n)
           Place(n) == PlaceOf(actions, events, applied, n)
           Left(n) == 1 .. (n - 1) \ named
           Rank(x) == Cardinality({y \in free : Sooner(events, y, x)})
<1>1. /\ applied \subseteq DOMAIN events /\ \A x \in applied : events[x].type = "action.applied"
      /\ \A m, n \in DOMAIN actions : /\ m \in Nat \ {0} /\ actions[m].id # NoItem
                                      /\ (actions[m].id = actions[n].id => m = n)
      /\ \A x, y \in DOMAIN events :
           events[x].action = events[y].action /\ events[x].action # NoItem
             /\ events[x].type = "action.applied" /\ events[y].type = "action.applied" => x = y
  BY DEF Replayable, AppliedEvents
<1>2. \A n \in DOMAIN actions : At(n) = {x \in applied : events[x].action = actions[n].id}
  BY DEF Naming
<1>3. named = {n \in DOMAIN actions : At(n) # {}}
  BY DEF ExactMatches
<1>4. free = applied \ {First(events, At(n)) : n \in named}
  BY DEF Unreserved
<1>5. \A n \in DOMAIN actions :
        Place(n) = IF n \in named THEN {First(events, At(n))}
                   ELSE {x \in free : Rank(x) = Cardinality(Left(n))}
  BY DEF PlaceOf
<1> HIDE DEF named, free, At, Place, Rank, Left, applied
<1>6. \A n \in named : First(events, At(n)) \in At(n)
  <2> SUFFICES ASSUME NEW n \in named PROVE First(events, At(n)) \in At(n)
    OBVIOUS
  <2>1. PICK x \in At(n) : TRUE
    BY <1>3
  <2>2. At(n) \ {x} = {}
    BY <1>1, <1>2, <1>3
  <2>3. \A y \in At(n) \ {x} : Sooner(events, x, y)
    BY <2>2
  <2> QED BY <2>3 DEF First
<1>7. \A m, n \in DOMAIN actions : \A x \in Place(m) : x \in applied /\ (x \in Place(n) => m = n)
  <2> SUFFICES ASSUME NEW m \in DOMAIN actions, NEW n \in DOMAIN actions, NEW x \in Place(m)
               PROVE  x \in applied /\ (x \in Place(n) => m = n)
    OBVIOUS
  <2>1. x \in applied /\ (m \notin named => x \in free /\ Rank(x) = Cardinality(Left(m)))
    BY <1>2, <1>4, <1>5, <1>6
  <2> SUFFICES ASSUME x \in Place(n) PROVE m = n
    BY <2>1
  <2>2. n \notin named => x \in free /\ Rank(x) = Cardinality(Left(n))
    BY <1>5
  <2>3. CASE m \in named /\ n \in named
    BY <1>1, <1>2, <1>5, <1>6, <2>3
  <2>4. CASE (m \in named) # (n \in named)
    BY <1>4, <1>5, <2>1, <2>2, <2>4
  <2>5. CASE m \notin named /\ n \notin named
    <3>1. \A a, b \in DOMAIN actions : a < b /\ a \notin named => Cardinality(Left(a)) # Cardinality(Left(b))
      <4> SUFFICES ASSUME NEW a \in DOMAIN actions, NEW b \in DOMAIN actions, a < b, a \notin named
                   PROVE  Cardinality(Left(a)) # Cardinality(Left(b))
        OBVIOUS
      <4>1. a \in Nat \ {0} /\ b \in Nat \ {0}
        BY <1>1
      <4>2. Left(a) \subseteq Left(b) /\ a \in Left(b) /\ a \notin Left(a)
        BY <4>1 DEF Left
      <4>3. IsFiniteSet(1 .. (b - 1))
        BY <4>1, FS_Interval
      <4>4. IsFiniteSet(Left(b))
        BY <4>3, FS_Subset DEF Left
      <4> QED BY <4>2, <4>4, FS_Subset
    <3>2. m \in Nat /\ n \in Nat
      BY <1>1
    <3>3. Cardinality(Left(m)) = Cardinality(Left(n))
      BY <2>1, <2>2, <2>5
    <3>4. ~(m < n) /\ ~(n < m)
      BY <2>5, <3>1, <3>3
    <3> QED BY <3>2, <3>4
  <2> QED BY <2>3, <2>4, <2>5
<1>8. i \in applied /\ (i \in Place(k) => j = k)
  BY <1>7 DEF Place, applied
<1>9. ASSUME events[i].action = h.actions[k].id PROVE j = k
  <2>1. i \in At(k)
    BY <1>2, <1>8, <1>9
  <2>2. k \in named /\ First(events, At(k)) \in At(k)
    BY <1>3, <1>6, <2>1
  <2>3. First(events, At(k)) = i
    BY <1>1, <1>2, <2>1, <2>2
  <2>4. i \in Place(k)
    BY <1>5, <2>2, <2>3
  <2> QED BY <1>8, <2>4
<1> QED BY <1>1, <1>8, <1>9 DEF Place, applied

\* No event is shown for two actions, nor one that names an action for another.
LEMMA EventsOnce ==
  ASSUME NEW h, NEW events, NEW hands, h \in Range(hands), Replayable(hands, events),
         NEW j \in DOMAIN h.actions, NEW k \in DOMAIN h.actions, NEW e \in Range(events),
         Item(h, events, j).event = e.id
  PROVE  /\ j # k => Item(h, events, k).event # e.id
         /\ e.action = h.actions[k].id => j = k
<1> DEFINE Place(n) == PlaceOf(h.actions, events, AppliedEvents(h, events), n)
<1>1. PICK x \in DOMAIN events : e = events[x]
  BY DEF Range
<1>2. \A n \in {j, k} : Item(h, events, n).event = e.id => x \in Place(n)
  <2> SUFFICES ASSUME NEW n \in {j, k}, Item(h, events, n).event = e.id PROVE x \in Place(n)
    OBVIOUS
  <2>1. Item(h, events, n).event = IF Place(n) = {} THEN NoItem ELSE events[CHOOSE i \in Place(n) : TRUE].id
    BY DEF Item
  <2> HIDE DEF Place
  <2>2. PICK i \in Place(n) : events[i].id = e.id
    BY <1>1, <2>1 DEF Replayable
  <2>3. i \in DOMAIN events
    BY <2>2, PlaceAlone DEF Place
  <2> QED BY <1>1, <2>2, <2>3 DEF Replayable
<1> QED BY <1>1, <1>2, PlaceAlone

-----------------------------------------------------------------------------
(* What is on the page, whichever answers come late.                        *)

\* The requests of this visit are those whose parts are still awaited.
LoadingInv ==
  /\ visits \in Seq(DOMAIN Artifacts) /\ visits # <<>>
  /\ asked \subseteq [visit : 1 .. Len(visits), kind : Loads]
  /\ \A r \in asked : Alive(r) => r.kind \in loading
  /\ loading \subseteq Loads
  /\ shown \in [Loads -> {NoItem, Current}]
  /\ \A k \in Loads : k \in failed \/ k \in loading => shown[k] = NoItem
  /\ failed \cap loading = {}

SelectionInv ==
  /\ Filtered # {} => action \in IdsAt(timeline, Filtered)
  /\ DOMAIN timeline # {} => action \in Ids(timeline)
  /\ playing => Filtered # {}

ReplayInv ==
  /\ LoadingInv
  /\ timeline = TimelineOf(shown, hand)
  /\ Workbench => SelectionInv
  /\ ~Workbench => ~playing

LEMMA FirstInside ==
  ASSUME NEW items, DOMAIN items \subseteq Nat, NEW places, places \subseteq DOMAIN items
  PROVE  IF places = {} THEN FirstId(items, places) = NoItem
                        ELSE FirstId(items, places) \in IdsAt(items, places)
<1>1. places # {} => Min(places) \in places
  BY MinOfNaturals
<1> HIDE DEF Min
<1> QED BY <1>1 DEF FirstId, IdsAt

\* The effects leave an action selected that is in the list, and on the street.
LEMMA SettledWell ==
  ASSUME NEW items, DOMAIN items \subseteq Nat, NEW h, NEW a, NEW f, NEW p, NEW open \in BOOLEAN,
         Settled(items, h, a, f, p, open), open
  PROVE  SelectionInv'
<1> DEFINE places == OnStreet(items, f)
           inHand == IF a \in Ids(items) THEN a ELSE FirstId(items, DOMAIN items)
<1>1. /\ timeline' = items /\ filter' = f /\ Filtered' = places
      /\ action' = IF places = {} \/ inHand \in IdsAt(items, places) THEN inHand ELSE FirstId(items, places)
      /\ playing' = (p /\ places # {})
  BY DEF Settled, Selected, Filtered
<1>2. places \subseteq DOMAIN items /\ IdsAt(items, places) \subseteq Ids(items)
  BY DEF OnStreet, Ids, IdsAt
<1> HIDE DEF places
<1>3. places # {} => FirstId(items, places) \in IdsAt(items, places)
  BY <1>2, FirstInside
<1>4. DOMAIN items # {} => inHand \in Ids(items)
  BY FirstInside DEF Ids
<1> HIDE DEF inHand
<1>5. places # {} => action' \in IdsAt(items, places)
  BY <1>1, <1>3
<1>6. DOMAIN items # {} => action' \in Ids(items)
  BY <1>1, <1>2, <1>3, <1>4
<1>7. playing' => places # {}
  BY <1>1
<1> QED BY <1>1, <1>5, <1>6, <1>7 DEF SelectionInv

\* The list of a hand is empty, or of a saved hand, its actions in their order.
LEMMA TimelineFacts ==
  ASSUME NEW s, s.record \in DOMAIN Artifacts \cup {NoItem}, NEW id
  PROVE  LET h == HandOf(s, id) IN
         /\ h = NoItem => TimelineOf(s, id) = <<>>
         /\ h # NoItem => /\ h \in Range(Hands(s)) /\ s.record \in DOMAIN Artifacts
                          /\ TimelineOf(s, id) = [k \in DOMAIN h.actions |-> Item(h, Events(s), k)]
         /\ DOMAIN TimelineOf(s, id) \subseteq Nat
<1> DEFINE h == HandOf(s, id)
<1>1. h # NoItem => h \in Range(Hands(s))
  BY DEF HandOf
<1>2. h # NoItem => s.record \in DOMAIN Artifacts /\ Hands(s) = Artifacts[s.record].hands
  BY <1>1 DEF Hands, Range
<1>3. h # NoItem => h.actions \in Seq(Range(h.actions))
  BY <1>1, <1>2, ReplayAssumption DEF Replayable
<1>4. TimelineOf(s, id) = IF h = NoItem THEN <<>> ELSE [k \in DOMAIN h.actions |-> Item(h, Events(s), k)]
  BY DEF TimelineOf, BuildTimeline
<1> HIDE DEF h
<1>5. DOMAIN TimelineOf(s, id) \subseteq Nat
  BY <1>3, <1>4
<1> QED BY <1>1, <1>2, <1>4, <1>5 DEF h

LEMMA InitReplayInv == ReplayInit => ReplayInv
<1> SUFFICES ASSUME ReplayInit PROVE ReplayInv
  OBVIOUS
<1>1. PICK m \in DOMAIN Artifacts : visits = <<m>>
  BY DEF ReplayInit
<1>2. /\ asked = [visit : {1}, kind : Loads] /\ shown = [k \in Loads |-> NoItem] /\ loading = Loads
      /\ failed = {} /\ hand = NoItem /\ timeline = <<>> /\ playing = FALSE
  BY DEF ReplayInit, AskFor
<1>3. visits \in Seq(DOMAIN Artifacts) /\ visits # <<>> /\ Len(visits) = 1
  BY <1>1
<1>4. LoadingInv
  BY <1>2, <1>3 DEF LoadingInv
<1>5. ~Workbench /\ shown.record = NoItem
  BY <1>2 DEF Workbench, Rendered, Loads
<1>6. TimelineOf(shown, hand) = <<>>
  BY <1>5 DEF TimelineOf, HandOf, Hands, Range, BuildTimeline
<1> QED BY <1>2, <1>4, <1>5, <1>6 DEF ReplayInv

LEMMA OpenMatchStep ==
  ASSUME ReplayInv, NEW m \in DOMAIN Artifacts, OpenMatch(m)
  PROVE  ReplayInv' /\ ~playing'
<1>1. /\ visits' = Append(visits, m) /\ asked' = asked \cup [visit : {Len(visits) + 1}, kind : Loads]
      /\ shown' = [k \in Loads |-> NoItem] /\ loading' = Loads /\ failed' = {}
      /\ hand' = NoItem /\ timeline' = <<>> /\ playing' = FALSE
  BY DEF OpenMatch, AskFor
<1>2. /\ visits' \in Seq(DOMAIN Artifacts) /\ Len(visits') = Len(visits) + 1 /\ Len(visits) \in Nat
      /\ visits' # <<>>
  BY <1>1 DEF ReplayInv, LoadingInv
<1>3. asked' \subseteq [visit : 1 .. Len(visits'), kind : Loads]
  BY <1>1, <1>2 DEF ReplayInv, LoadingInv
<1>4. LoadingInv'
  BY <1>1, <1>2, <1>3 DEF LoadingInv
<1>5. ~Workbench' /\ shown'.record = NoItem
  BY <1>1 DEF Workbench, Rendered, Loads
<1>6. TimelineOf(shown', hand') = <<>>
  BY <1>5 DEF TimelineOf, HandOf, Hands, Range, BuildTimeline
<1> QED BY <1>1, <1>4, <1>5, <1>6 DEF ReplayInv

LEMMA DroppedStep ==
  ASSUME ReplayInv, NEW r \in asked, Dropped(r)
  PROVE  ReplayInv' /\ UNCHANGED selectVars
<1>1. UNCHANGED <<visits, shown, loading, failed, tab, selectVars>> /\ asked' \subseteq asked
  BY DEF Dropped
<1>2. LoadingInv'
  BY <1>1 DEF ReplayInv, LoadingInv, Alive, Current
<1>3. Workbench' = Workbench /\ SelectionInv' = SelectionInv /\ TimelineOf(shown, hand)' = TimelineOf(shown, hand)
  BY <1>1 DEF Workbench, Rendered, SelectionInv, Filtered, selectVars, OnStreet, IdsAt, Ids, TimelineOf, HandOf, Events, Hands
<1> QED BY <1>1, <1>2, <1>3 DEF ReplayInv, selectVars

LEMMA RefusedStep ==
  ASSUME ReplayInv, NEW r \in asked, Refused(r)
  PROVE  ReplayInv' /\ UNCHANGED selectVars
<1>1. /\ Alive(r) /\ UNCHANGED <<visits, shown, tab, selectVars>> /\ asked' = asked \ {r}
      /\ loading' = loading \ {r.kind} /\ failed' = failed \cup {r.kind}
  BY DEF Refused
<1>2. r.kind \in loading /\ shown[r.kind] = NoItem /\ r \in [visit : 1 .. Len(visits), kind : Loads]
  BY <1>1 DEF ReplayInv, LoadingInv
<1>3. \A q \in asked' : Alive(q) => q.kind # r.kind
  <2>1. \A q \in asked : q = [visit |-> q.visit, kind |-> q.kind]
    BY DEF ReplayInv, LoadingInv
  <2> QED BY <1>1, <2>1 DEF Alive
<1>4. LoadingInv'
  BY <1>1, <1>2, <1>3 DEF ReplayInv, LoadingInv, Alive, Current
<1>5. Workbench' = Workbench
  BY <1>1, <1>2 DEF Workbench, Rendered
<1>6. SelectionInv' = SelectionInv /\ TimelineOf(shown, hand)' = TimelineOf(shown, hand)
  BY <1>1 DEF SelectionInv, Filtered, selectVars, OnStreet, IdsAt, Ids, TimelineOf, HandOf, Events, Hands
<1> QED BY <1>1, <1>4, <1>5, <1>6 DEF ReplayInv, selectVars

\* Every other step ends in the effects, which leave the page in order.
InEffect(items, h, a, f, p, open) ==
  /\ items = TimelineOf(shown', h) /\ open \in BOOLEAN /\ open = Workbench' /\ (p => open)
  /\ Settled(items, h, a, f, p, open)

LEMMA SettledStep ==
  ASSUME NEW items, NEW h, NEW a, NEW f, NEW p, NEW open, LoadingInv', InEffect(items, h, a, f, p, open)
  PROVE  ReplayInv'
<1> USE DEF InEffect
<1>1. hand' = h /\ timeline' = items /\ playing' = (p /\ OnStreet(items, f) # {})
  BY DEF Settled
<1>2. shown'.record \in DOMAIN Artifacts \cup {NoItem}
  BY DEF LoadingInv, Loads, Current, Last
<1>3. DOMAIN items \subseteq Nat
  BY <1>2, TimelineFacts
<1>4. open => SelectionInv'
  BY <1>3, SettledWell
<1> QED BY <1>1, <1>4 DEF ReplayInv

LEMMA AnsweredStep ==
  ASSUME ReplayInv, NEW r \in asked, Answered(r)
  PROVE  /\ ReplayInv'
         /\ playing => /\ hand' = hand /\ filter' = filter /\ tab' = tab
                       /\ Filtered' = Filtered => action' = action
<1> DEFINE hs == Hands(shown')
           h == IF r.kind # "record" THEN hand ELSE IF hs = <<>> THEN NoItem ELSE hs[1].id
           items == TimelineOf(shown', h)
           open == Rendered' /\ tab = "replay"
<1>1. /\ Alive(r) /\ asked' = asked \ {r} /\ loading' = loading \ {r.kind}
      /\ shown' = [shown EXCEPT ![r.kind] = visits[r.visit]]
      /\ Settled(items, h, action, filter, playing, open)
      /\ UNCHANGED <<visits, failed, tab>>
  BY DEF Answered
<1>2. /\ r.kind \in loading /\ r.kind \in Loads /\ r.visit = Len(visits)
      /\ visits[r.visit] = Current /\ Current \in DOMAIN Artifacts /\ Current # NoItem
  <2>1. r.kind \in loading /\ r.kind \in Loads /\ r.visit = Len(visits)
    BY <1>1 DEF ReplayInv, LoadingInv, Alive
  <2>2. Len(visits) \in DOMAIN visits /\ visits[Len(visits)] \in DOMAIN Artifacts
    BY DEF ReplayInv, LoadingInv
  <2> QED BY <2>1, <2>2, ReplayAssumption DEF Current, Last
<1>3. \A q \in asked' : Alive(q) => q.kind # r.kind
  <2>1. \A q \in asked : q = [visit |-> q.visit, kind |-> q.kind]
    BY DEF ReplayInv, LoadingInv
  <2> QED BY <1>1, <2>1 DEF Alive
<1>4. Current' = Current
  BY <1>1 DEF Current
<1>5. LoadingInv'
  <2>1. shown' \in [Loads -> {NoItem, Current}]
    BY <1>1, <1>2 DEF ReplayInv, LoadingInv
  <2>2. \A k \in Loads : k # r.kind => shown'[k] = shown[k]
    BY <1>1 DEF ReplayInv, LoadingInv
  <2>3. r.kind \notin failed /\ failed' = failed /\ r.kind \notin loading' /\ loading' \subseteq loading
    BY <1>1, <1>2 DEF ReplayInv, LoadingInv
  <2>4. \A k \in Loads : k \in failed' \/ k \in loading' => shown'[k] = NoItem
    BY <2>2, <2>3 DEF ReplayInv, LoadingInv
  <2>5. \A q \in asked' : Alive(q)' => q.kind \in loading'
    BY <1>1, <1>3 DEF ReplayInv, LoadingInv, Alive
  <2> QED BY <1>1, <1>4, <2>1, <2>3, <2>4, <2>5 DEF ReplayInv, LoadingInv
<1>6. open = Workbench' /\ open \in BOOLEAN
  BY <1>1 DEF Workbench, Rendered
<1>7. ASSUME playing PROVE Workbench /\ Workbench' /\ r.kind # "record" /\ shown'.record = shown.record
  <2>1. Workbench /\ "record" \notin loading /\ shown.record # NoItem
    BY <1>7 DEF ReplayInv, Workbench, Rendered
  <2>2. r.kind # "record" /\ shown'.record = shown.record
    BY <1>1, <1>2, <2>1 DEF ReplayInv, LoadingInv, Loads
  <2> QED BY <1>1, <2>1, <2>2 DEF Workbench, Rendered
<1>8. ReplayInv'
  <2> HIDE DEF open, h
  <2>1. items = TimelineOf(shown', h)
    OBVIOUS
  <2> HIDE DEF items
  <2>2. InEffect(items, h, action, filter, playing, open)
    BY <1>1, <1>6, <1>7, <2>1 DEF InEffect
  <2> QED BY <1>5, <2>2, SettledStep
<1>9. ASSUME playing PROVE /\ hand' = hand /\ filter' = filter /\ tab' = tab
                           /\ Filtered' = Filtered => action' = action
  <2>1. h = hand /\ hand' = hand /\ filter' = filter /\ tab' = tab
    BY <1>1, <1>7, <1>9 DEF Settled
  <2>2. HandOf(shown', hand) = HandOf(shown, hand)
    <3>1. Hands(shown') = Hands(shown)
      BY <1>7, <1>9 DEF Hands
    <3> QED BY <3>1 DEF HandOf
  <2>3. /\ timeline = TimelineOf(shown, hand) /\ timeline' = items /\ items = TimelineOf(shown', hand)
        /\ shown.record \in DOMAIN Artifacts \cup {NoItem} /\ shown'.record = shown.record
        /\ Filtered' = OnStreet(items, filter)
        /\ action' = Selected(items, OnStreet(items, filter), action, open)
    BY <1>1, <1>2, <1>7, <1>9, <2>1 DEF ReplayInv, LoadingInv, Loads, Settled, Filtered
  <2> HIDE DEF items, h, open
  <2>4. DOMAIN items = DOMAIN timeline /\ \A k \in DOMAIN timeline : items[k].id = timeline[k].id
    <3> DEFINE g == HandOf(shown, hand)
    <3>1. \A k : Item(g, Events(shown), k).id = Item(g, Events(shown'), k).id
      BY DEF Item
    <3>2. CASE g = NoItem
      BY <2>2, <2>3, <3>2, TimelineFacts
    <3>3. CASE g # NoItem
      <4>1. /\ timeline = [k \in DOMAIN g.actions |-> Item(g, Events(shown), k)]
            /\ items = [k \in DOMAIN g.actions |-> Item(g, Events(shown'), k)]
        BY <2>2, <2>3, <3>3, TimelineFacts
      <4> HIDE DEF g
      <4>2. /\ DOMAIN timeline = DOMAIN g.actions /\ DOMAIN items = DOMAIN g.actions
            /\ \A k \in DOMAIN g.actions : /\ timeline[k] = Item(g, Events(shown), k)
                                           /\ items[k] = Item(g, Events(shown'), k)
        BY <4>1
      <4>3. \A k \in DOMAIN g.actions : items[k].id = timeline[k].id
        BY <3>1, <4>2
      <4> QED BY <4>2, <4>3
    <3> QED BY <3>2, <3>3
  <2>5. ASSUME Filtered' = Filtered PROVE action' = action
    <3>1. Filtered # {} /\ action \in IdsAt(timeline, Filtered) /\ action \in Ids(timeline)
      BY <1>7, <1>9 DEF ReplayInv, SelectionInv, IdsAt, Ids, Filtered, OnStreet
    <3>2. action \in IdsAt(items, Filtered) /\ action \in Ids(items)
      BY <2>4, <3>1 DEF IdsAt, Ids, Filtered, OnStreet
    <3>3. action' = Selected(items, Filtered, action, open)
      BY <2>3, <2>5
    <3> QED BY <3>2, <3>3 DEF Selected
  <2> QED BY <2>1, <2>5
<1> QED BY <1>8, <1>9

\* What the user does, and the clock, leaves what is loaded alone.
LEMMA LoadedStays ==
  ASSUME ReplayInv, Loaded
  PROVE  /\ LoadingInv' /\ Rendered' = Rendered
         /\ timeline = TimelineOf(shown', hand) /\ \A h : TimelineOf(shown', h) = TimelineOf(shown, h)
<1>1. UNCHANGED <<visits, asked, shown, loading, failed>>
  BY DEF Loaded
<1>2. LoadingInv'
  BY <1>1 DEF ReplayInv, LoadingInv, Alive, Current
<1>3. \A h : TimelineOf(shown', h) = TimelineOf(shown, h)
  BY <1>1
<1> QED BY <1>1, <1>2, <1>3 DEF ReplayInv, Rendered

LEMMA UserStep ==
  ASSUME ReplayInv, UserNext
  PROVE  ReplayInv' /\ ~(playing /\ playing')
<1>1. ASSUME NEW t \in Tabs, SelectTab(t) PROVE ReplayInv' /\ playing' = FALSE
  <2>1. Rendered /\ tab' = t /\ Loaded /\ Settled(timeline, hand, action, "all", FALSE, t = "replay")
    BY <1>1 DEF SelectTab
  <2>2. InEffect(timeline, hand, action, "all", FALSE, t = "replay")
    BY <2>1, LoadedStays DEF InEffect, Workbench
  <2> QED BY <2>1, <2>2, LoadedStays, SettledStep DEF Settled
<1>2. ASSUME NEW h \in Range(Hands(shown)), SelectHand(h) PROVE ReplayInv' /\ playing' = FALSE
  <2> DEFINE items == TimelineOf(shown, h.id)
             first == FirstId(items, DOMAIN items)
  <2>1. Workbench /\ Loaded /\ tab' = tab /\ Settled(items, h.id, first, "all", FALSE, TRUE)
    BY <1>2 DEF SelectHand
  <2>2. InEffect(items, h.id, first, "all", FALSE, TRUE)
    BY <2>1, LoadedStays DEF InEffect, Workbench
  <2>3. playing' = FALSE
    BY <2>1 DEF Settled
  <2> HIDE DEF items, first
  <2> QED BY <2>1, <2>2, <2>3, LoadedStays, SettledStep
<1>3. ASSUME NEW a, Workbench, Choose(a) PROVE ReplayInv' /\ playing' = FALSE
  <2>1. Loaded /\ tab' = tab /\ Settled(timeline, hand, a, filter, FALSE, TRUE)
    BY <1>3 DEF Choose, AfterChoice
  <2>2. InEffect(timeline, hand, a, filter, FALSE, TRUE)
    BY <1>3, <2>1, LoadedStays DEF InEffect, Workbench
  <2> QED BY <2>1, <2>2, LoadedStays, SettledStep DEF Settled
<1>4. ASSUME NEW f \in Filters, SelectFilter(f) PROVE ReplayInv' /\ playing' = FALSE
  <2>1. Workbench /\ Loaded /\ tab' = tab /\ Settled(timeline, hand, action, f, FALSE, TRUE)
    BY <1>4 DEF SelectFilter
  <2>2. InEffect(timeline, hand, action, f, FALSE, TRUE)
    BY <2>1, LoadedStays DEF InEffect, Workbench
  <2> QED BY <2>1, <2>2, LoadedStays, SettledStep DEF Settled
<1>5. ASSUME TogglePlay PROVE ReplayInv' /\ ~(playing /\ playing')
  <2>1. Workbench /\ Loaded /\ tab' = tab /\ Settled(timeline, hand, action, filter, ~playing, TRUE)
    BY <1>5 DEF TogglePlay
  <2>2. InEffect(timeline, hand, action, filter, ~playing, TRUE)
    BY <2>1, LoadedStays DEF InEffect, Workbench
  <2>3. ~(playing /\ playing')
    BY <2>1 DEF Settled
  <2> QED BY <2>1, <2>2, <2>3, LoadedStays, SettledStep
<1>6. ASSUME NEW a, SelectAction(a) \/ Step(a) PROVE ReplayInv' /\ playing' = FALSE
  BY <1>3, <1>6 DEF SelectAction, Step
<1> QED BY <1>1, <1>2, <1>4, <1>5, <1>6 DEF UserNext

\* The clock goes on to the next action of the street, and no further.
LEMMA TickStep ==
  ASSUME ReplayInv, Tick
  PROVE  /\ ReplayInv' /\ hand' = hand /\ filter' = filter /\ tab' = tab
         /\ playing' => action' = NextAction
<1> DEFINE next == NextAction
           a == IF next = NoItem THEN action ELSE next
<1>1. /\ Workbench /\ Loaded /\ tab' = tab
      /\ Settled(timeline, hand, a, filter, MorePlay(next), TRUE)
  BY DEF Tick
<1>2. InEffect(timeline, hand, a, filter, MorePlay(next), TRUE)
  BY <1>1, LoadedStays DEF InEffect, Workbench
<1>3. ASSUME playing' PROVE action' = next
  <2>1. next # NoItem /\ Filtered # {} /\ action' = Selected(timeline, Filtered, next, TRUE)
    BY <1>1, <1>3 DEF Settled, MorePlay, Filtered
  <2> DEFINE later == {j \in Filtered : \E k \in Filtered : timeline[k].id = action /\ j > k}
  <2>2. next = FirstId(timeline, later) /\ later \subseteq Filtered /\ Filtered \subseteq DOMAIN timeline
    BY DEF NextAction, NextId, Filtered, OnStreet
  <2>3. DOMAIN timeline \subseteq Nat
    BY TimelineFacts DEF ReplayInv, LoadingInv, Loads, Current, Last
  <2> HIDE DEF later, next
  <2>4. next \in IdsAt(timeline, later)
    BY <2>1, <2>2, <2>3, FirstInside
  <2>5. next \in IdsAt(timeline, Filtered) /\ next \in Ids(timeline)
    BY <2>2, <2>4 DEF IdsAt, Ids
  <2> QED BY <2>1, <2>5 DEF Selected
<1>4. hand' = hand /\ filter' = filter
  BY <1>1 DEF Settled
<1>5. ReplayInv'
  <2> HIDE DEF a, next
  <2> QED BY <1>1, <1>2, LoadedStays, SettledStep
<1> QED BY <1>1, <1>3, <1>4, <1>5

PlaysOn ==
  /\ hand' = hand /\ filter' = filter /\ tab' = tab
  /\ Filtered' = Filtered => action' \in {action, NextAction}

LEMMA NextReplayInv ==
  ASSUME ReplayInv, [ReplayNext]_replayVars
  PROVE  ReplayInv' /\ (playing /\ playing' => PlaysOn)
<1>1. ASSUME NEW m \in DOMAIN Artifacts, OpenMatch(m) PROVE ReplayInv' /\ ~playing'
  BY <1>1, OpenMatchStep
<1>2. ASSUME NEW r \in asked, Answered(r) PROVE ReplayInv' /\ (playing => PlaysOn)
  BY <1>2, AnsweredStep DEF PlaysOn
<1>3. ASSUME NEW r \in asked, Refused(r) \/ Dropped(r) PROVE ReplayInv' /\ PlaysOn
  <2>1. ReplayInv' /\ UNCHANGED selectVars
    BY <1>3, RefusedStep, DroppedStep
  <2>2. tab' = tab
    BY <1>3 DEF Refused, Dropped
  <2> QED BY <2>1, <2>2 DEF PlaysOn, selectVars
<1>4. CASE UserNext
  BY <1>4, UserStep
<1>5. CASE Tick
  BY <1>5, TickStep DEF PlaysOn
<1>6. CASE UNCHANGED replayVars
  <2>1. UNCHANGED <<visits, asked, shown, loading, failed, tab, hand, action, timeline, filter, playing>>
    BY <1>6 DEF replayVars, selectVars
  <2>2. LoadingInv' = LoadingInv /\ Workbench' = Workbench
    BY <2>1 DEF LoadingInv, Alive, Current, Workbench, Rendered
  <2>3. SelectionInv' = SelectionInv /\ TimelineOf(shown, hand)' = TimelineOf(shown, hand)
    BY <2>1 DEF SelectionInv, Filtered, OnStreet, IdsAt, Ids, TimelineOf, HandOf, Events, Hands
  <2>4. ReplayInv'
    BY <2>1, <2>2, <2>3 DEF ReplayInv
  <2> QED BY <2>1, <2>4 DEF PlaysOn
<1> QED BY <1>1, <1>2, <1>3, <1>4, <1>5, <1>6 DEF ReplayNext

\* An event on the page is shown for one action, and for the one it names.
LEMMA ShownOnce ==
  ASSUME ReplayInv, NEW j \in DOMAIN timeline, NEW k \in DOMAIN timeline,
         NEW e \in Range(Events(shown)), timeline[j].event = e.id
  PROVE  /\ j # k => timeline[k].event # e.id
         /\ e.action = HandOf(shown, hand).actions[k].id => j = k
<1> DEFINE h == HandOf(shown, hand)
           events == Events(shown)
<1>1. /\ timeline = TimelineOf(shown, hand) /\ shown.record \in DOMAIN Artifacts \cup {NoItem}
      /\ shown.record \in {NoItem, Current} /\ shown.events \in {NoItem, Current}
  <2>1. Current \in DOMAIN Artifacts
    BY DEF ReplayInv, LoadingInv, Current, Last
  <2> QED BY <2>1 DEF ReplayInv, LoadingInv, Loads
<1>2. h # NoItem
  BY <1>1, TimelineFacts
<1>3. /\ h \in Range(Hands(shown)) /\ shown.record \in DOMAIN Artifacts
      /\ timeline = [n \in DOMAIN h.actions |-> Item(h, events, n)]
  BY <1>1, <1>2, TimelineFacts
<1>4. /\ shown.record # NoItem /\ Hands(shown) = Artifacts[Current].hands /\ Current \in DOMAIN Artifacts
  BY <1>1, <1>3, ReplayAssumption DEF Hands
<1>5. events = Artifacts[Current].events
  BY <1>1 DEF Events, Range
<1>6. Replayable(Hands(shown), events)
  BY <1>4, <1>5, ReplayAssumption
<1> HIDE DEF h, events
<1>7. /\ j \in DOMAIN h.actions /\ k \in DOMAIN h.actions /\ Item(h, events, j).event = e.id
      /\ timeline[k] = Item(h, events, k)
  BY <1>3
<1>8. e \in Range(events)
  BY DEF events
<1> QED BY <1>3, <1>6, <1>7, <1>8, EventsOnce DEF h

\* For every match of whatever hands, actions and events: whichever answers come
\* late, the page shows the match of its URL; the selected action is in the list and
\* on the street; no event is shown for two actions, nor one that names an action for
\* another; the clock goes on one action at a time and stops when the user chooses.
THEOREM ReplayShowsTheMatch == ReplaySpec => ReplayShows
<1>1. ReplaySpec => []ReplayInv
  BY InitReplayInv, NextReplayInv, PTL DEF ReplaySpec
<1>2. ReplayInv => /\ \A k \in Loads : shown[k] \in {NoItem, Current} /\ (k \in failed => shown[k] = NoItem)
                   /\ Workbench => SelectionInv
                   /\ ~Workbench => ~playing
                   /\ \A j, k \in DOMAIN timeline : \A e \in Range(Events(shown)) :
                        timeline[j].event = e.id =>
                          /\ j # k => timeline[k].event # e.id
                          /\ e.action = HandOf(shown, hand).actions[k].id => j = k
  <2>1. ReplayInv => \A k \in Loads : shown[k] \in {NoItem, Current} /\ (k \in failed => shown[k] = NoItem)
    BY DEF ReplayInv, LoadingInv
  <2> QED BY <2>1, ShownOnce DEF ReplayInv
<1>3. ReplayInv /\ [ReplayNext]_replayVars => [playing /\ playing' => PlaysOn]_replayVars
  BY NextReplayInv
<1> QED BY <1>1, <1>2, <1>3, PTL DEF ReplaySpec, ReplayShows, SelectionInv, PlaysOn
=============================================================================
