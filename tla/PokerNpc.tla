------------------------------ MODULE PokerNpc ------------------------------
(***************************************************************************)
(* The built-in players of the poker tables (agent-runtime: the mock       *)
(* agents, the strategies, and NpcAgent around a strategy) in the hands of  *)
(* PokerHand.  A strategy is the set of the answers it may give to a menu;  *)
(* what it draws at random is a choice.  The menu is PokerHand's, with     *)
(* every amount; the agents see its entries with their least and most.  So *)
(* does a person, through the page's panel (PlayerActionPanel.tsx).        *)
(***************************************************************************)
EXTENDS PokerHand, Sequences

Offered(menu) == {a.type : a \in menu}
AmountsOf(menu, type) == {a.amount : a \in {b \in menu : b.type = type}}
MinAmount(menu, type) == Min(AmountsOf(menu, type))
MaxAmount(menu, type) == Max(AmountsOf(menu, type))

\* An answer that names no amount.
Plain(type) == Act(type, 0)
\* legalActions[0]: what computeLegalActions pushes first.
FirstOnMenu(menu) == IF "check" \in Offered(menu) THEN "check" ELSE "fold"

\* MockAgent.firstLegal: the first preference on the menu, or its first entry.
FirstLegal(menu, preferred) ==
  LET on == {i \in 1 .. Len(preferred) : preferred[i] \in Offered(menu)}
  IN {Plain(IF on = {} THEN FirstOnMenu(menu) ELSE preferred[Min(on)])}

AllIn(menu) == Act("all-in", MaxAmount(menu, "all-in"))
\* `raise`, or else `bet`: the two the aggressive strategies look for.
BugRaisesByShare(menu, type, tenths) ==
  Act(type, ((MaxAmount(menu, type) - MinAmount(menu, type)) * tenths) \div 10)
Sized(menu, type, tenths) ==
  Act(type, MinAmount(menu, type)
              + ((MaxAmount(menu, type) - MinAmount(menu, type)) * tenths) \div 10)
AnySize(menu, type) == {Act(type, a) : a \in AmountsOf(menu, type)}

-----------------------------------------------------------------------------
(* The strategies: the answers each may give.                               *)

RandomMock(menu) == menu
AlwaysCall(menu) == FirstLegal(menu, <<"call", "check", "fold">>)
AlwaysFold(menu) == FirstLegal(menu, <<"fold", "check">>)
Aggressive(menu) ==
  IF "all-in" \in Offered(menu) THEN {AllIn(menu)}
  ELSE IF "raise" \in Offered(menu) THEN {Sized(menu, "raise", 10)}
  ELSE FirstLegal(menu, <<"bet", "call", "check", "fold">>)

TightAggressive(menu) ==
  IF "raise" \in Offered(menu) THEN {Sized(menu, "raise", 6)}
  ELSE IF "bet" \in Offered(menu) THEN {Sized(menu, "bet", 5)}
  ELSE {Plain(t) : t \in Offered(menu) \cap {"fold"}}
         \cup FirstLegal(menu, <<"call", "check", "fold">>)

LoosePassive(menu) ==
  {Plain(t) : t \in Offered(menu) \cap {"fold"}}
    \cup FirstLegal(menu, <<"call", "check", "fold">>)

Balanced(menu) ==
  LET raises == IF "raise" \in Offered(menu) THEN AnySize(menu, "raise")
                ELSE AnySize(menu, "bet")
      checks == {Plain(t) : t \in Offered(menu) \cap {"check"}}
  IN raises
       \cup FirstLegal(menu, <<"call", "check">>)
       \cup checks
       \cup FirstLegal(menu, <<"fold", "check", "call">>)

BugManiacSkipsAllIn(menu) ==
  IF "raise" \in Offered(menu) THEN {Sized(menu, "raise", 10)}
  ELSE IF "bet" \in Offered(menu) THEN {Sized(menu, "bet", 10)}
  ELSE FirstLegal(menu, <<"call", "check", "fold">>)
Maniac(menu) ==
  {AllIn(menu) : t \in Offered(menu) \cap {"all-in"}}
    \cup IF "raise" \in Offered(menu) THEN {Sized(menu, "raise", 10)}
         ELSE IF "bet" \in Offered(menu) THEN {Sized(menu, "bet", 10)}
         ELSE FirstLegal(menu, <<"call", "check", "all-in", "fold">>)

\* The strategy of a seat: the switch on agentSpec.strategy.
Answers(strategy, menu) ==
  CASE strategy = "random" -> RandomMock(menu)
    [] strategy = "always-call" -> AlwaysCall(menu)
    [] strategy = "always-fold" -> AlwaysFold(menu)
    [] strategy = "aggressive" -> Aggressive(menu)
    [] strategy = "npc-tight-aggressive" -> TightAggressive(menu)
    [] strategy = "npc-loose-passive" -> LoosePassive(menu)
    [] strategy = "npc-balanced" -> Balanced(menu)
    [] strategy = "npc-maniac" -> Maniac(menu)
Strategies == {"random", "always-call", "always-fold", "aggressive", "npc-tight-aggressive",
               "npc-loose-passive", "npc-balanced", "npc-maniac"}

\* validateAndNormalize: an answer off the menu, or sized out of its bounds, is
\* replaced by a check or a fold; a call and an all-in get the menu's amount.
Valid(menu, a) ==
  /\ a.type \in Offered(menu)
  /\ a.type \in {"bet", "raise"} =>
       MinAmount(menu, a.type) <= a.amount /\ a.amount <= MaxAmount(menu, a.type)
Normalized(menu, a) ==
  IF ~Valid(menu, a) THEN Plain(FirstOnMenu(menu))
  ELSE IF a.type \in {"call", "all-in"} THEN Act(a.type, MaxAmount(menu, a.type))
  ELSE a

-----------------------------------------------------------------------------
(* What the panel lets a person send.                                       *)

\* `sized`: the one entry the panel makes a form for; its text is a whole number.
SizedTypes(menu) == Offered(menu) \cap {"bet", "raise"}

\* validateSizedActionAmount
BugNoMaximum(menu, type, amount) == MinAmount(menu, type) <= amount
PanelAccepts(menu, type, amount) ==
  MinAmount(menu, type) <= amount /\ amount <= MaxAmount(menu, type)

\* buildPresetAmounts, of a pot that need not suit the menu
Presets(menu, type, pot) ==
  LET least == MinAmount(menu, type)
      most == MaxAmount(menu, type)
  IN {a \in {least, pot, (least + most) \div 2, most} : least <= a /\ a <= most}

\* The buttons send a call and an all-in with the menu's amount; the form sends
\* what is typed, slid to or preset, if the panel accepts it.
ButtonAnswers(menu) ==
  {Plain(t) : t \in Offered(menu) \cap {"fold", "check"}}
    \cup {Act(t, MaxAmount(menu, t)) : t \in Offered(menu) \cap {"call", "all-in"}}
FormAnswers(menu) ==
  UNION {{Act(t, n) : n \in {m \in 0 .. MaxAmount(menu, t) + 1 : PanelAccepts(menu, t, m)}}
           : t \in SizedTypes(menu)}
PanelAnswers(menu) == ButtonAnswers(menu) \cup FormAnswers(menu)

-----------------------------------------------------------------------------
(* The reasoning summary NpcAgent adds.  Confidences are in hundredths.     *)

IntentPool(type) ==
  CASE type = "fold" -> {"pot_control", "survival"}
    [] type = "check" -> {"pot_control", "information"}
    [] type = "call" -> {"information", "pot_control", "value"}
    [] type = "bet" -> {"value", "bluff", "protection"}
    [] type = "raise" -> {"value", "bluff", "semi_bluff", "protection"}
    [] type = "all-in" -> {"value", "bluff"}
Intents(type, personality) ==
  IF personality = "npc-maniac" /\ type \in {"raise", "all-in"} THEN {"bluff"}
  ELSE IF personality = "npc-tight-aggressive" /\ type = "raise" THEN {"value"}
  ELSE IF personality = "npc-loose-passive" /\ type = "call" THEN {"information"}
  ELSE IntentPool(type)

ConfidenceBase(type) ==
  CASE type = "fold" -> 55 .. 75
    [] type \in {"check", "call"} -> 50 .. 70
    [] type = "bet" -> 60 .. 85
    [] type = "raise" -> 65 .. 90
    [] type = "all-in" -> 70 .. 95
Confidences(type, personality) ==
  {CASE personality = "npc-tight-aggressive" -> Least(c + 5, 100)
     [] personality = "npc-maniac" -> Most(c - 8, 0)
     [] OTHER -> c : c \in ConfidenceBase(type)}

\* How many observations pickObservations makes: two or three, and one that goes
\* with the personality.
ObservationCounts(type, personality) ==
  LET own == \/ personality = "npc-tight-aggressive" /\ type = "fold"
             \/ personality = "npc-maniac" /\ type \in {"raise", "all-in"}
  IN {n + (IF own THEN 1 ELSE 0) : n \in {2, 3}}

\* pickConsideredActions: the types of the choice and of one or two others.
Considered(menu, type) ==
  LET others == Offered(menu) \ {type}
  IN {{type} \cup alternatives :
        alternatives \in {S \in SUBSET others : Cardinality(S) \in 0 .. 2}}

\* What ReasoningSummarySchema demands of a summary.
IntentNames == {"value", "bluff", "semi_bluff", "pot_control", "protection",
                "information", "survival", "unknown"}
FitsSchema(menu, type, personality) ==
  /\ Intents(type, personality) \subseteq IntentNames
  /\ Confidences(type, personality) \subseteq 0 .. 100
  /\ \A n \in ObservationCounts(type, personality) : n <= 5
  /\ \A S \in Considered(menu, type) : Cardinality(S) <= 6

-----------------------------------------------------------------------------
(* Properties.                                                              *)

\* The panel offers a person neither less nor more than the rules: every entry
\* of the menu can be chosen, for every amount, no answer is replaced by the
\* fallback, and a preset is an amount that the form takes, whatever the pot.
PanelSound(menu) ==
  /\ Cardinality(SizedTypes(menu)) <= 1
  /\ PanelAnswers(menu) = menu
  /\ \A a \in PanelAnswers(menu) : Normalized(menu, a) = a
  /\ \A t \in SizedTypes(menu) :
       LET presets == Presets(menu, t, SumOf(total))
       IN /\ MinAmount(menu, t) \in presets
          /\ \A a \in presets : PanelAccepts(menu, t, a)

\* Whatever situation a hand reaches, the built-in players play it as they are
\* meant to: no answer is replaced by the fallback, what is applied is on the menu
\* and is what was answered, the maniac and the aggressive player never fold, the
\* passive ones put in no more than it takes to call, the tight one never just
\* calls where he may raise, and every summary passes the protocol's schema.
\* A person at the page can answer all that the rules allow, and nothing else.
AnswersFitTheHand ==
  stage = "asking" /\ ~RoundOver =>
    LET menu == Menu(round.actor)
    IN /\ PanelSound(menu)
       /\ \A s \in Strategies : \A a \in Answers(s, menu) :
         /\ Valid(menu, a)
         /\ Normalized(menu, a) \in menu
         /\ s \in {"npc-maniac", "aggressive"} => a.type # "fold"
         /\ s \in {"npc-loose-passive", "always-call", "always-fold"} =>
              Costs(round.actor, Normalized(menu, a)) <= Most(ToCall(round.actor), 0)
         /\ s = "npc-tight-aggressive" /\ a.type = "call" => "raise" \notin Offered(menu)
         /\ FitsSchema(menu, a.type, s)
=============================================================================
