---------------------------- MODULE LiveTableProofs ----------------------------
(***************************************************************************)
(* For any table, users, bounds and losses: a hand keeps its players       *)
(* whatever is asked of the table meanwhile, the stacks of the table are   *)
(* the chips that were bought, and what a watching page shows is the hand  *)
(* that is played.                                                         *)
(*                                                                         *)
(* And for any deck and players: the best hand wins a showdown, and nobody *)
(* is shown cards that are another's.  For this every hand of five cards   *)
(* is put in one of six shapes, whatever its cards; of each shape it is    *)
(* shown what the code makes of it, what the rules of the game do, and     *)
(* that both orders of hands are that of one number.                       *)
(***************************************************************************)
EXTENDS LiveTable, PokerShowdown, SumTheorems, SequenceTheorems

-----------------------------------------------------------------------------
(* The table.                                                               *)

TurnTypes == [agent : Agents, request : Nat \ {0}]
AllHands == 0 .. MaxHands

\* The types that the proof needs; of the stacks only that whoever sits has chips.
TableTypes ==
  /\ seats \in [Seats -> Occupants \cup {Nobody}]
  /\ seated \in Nat /\ requests \in Nat /\ handNumber \in AllHands /\ currentHand \in Nat
  /\ turns \in [AllHands -> {Nobody} \cup TurnTypes]
  /\ hands = [h \in AllHands |-> hands[h]]
  /\ \A h \in AllHands :
       /\ hands[h] = [stage |-> hands[h].stage, chips |-> hands[h].chips, dealer |-> hands[h].dealer]
       /\ hands[h].stage \in Stages /\ hands[h].dealer \in Nat
  /\ pending \in [Agents -> [hand : Nat, request : Nat]]

\* Only the newest hand is under way: of every other at most its save is.
Quiet(h) == turns[h] = Nobody /\ ~UnderWay(h) /\ DOMAIN hands[h].chips = {}
OthersQuiet == \A h \in AllHands \ {handNumber} : Quiet(h)

\* What HandKeepsItsPlayers says of the newest hand.
Kept ==
  /\ \A i, j \in Taken : seats[i].agent = seats[j].agent => i = j
  /\ adapters = {seats[i].agent : i \in Taken}
  /\ \A i, j \in Taken : seats[i].owner = seats[j].owner
                         /\ seats[i].kind = "human" /\ seats[j].kind = "human" => i = j
  /\ handInProgress <=> tableStatus = "in_hand"
  /\ handInProgress <=> hand.stage \in {"betting", "saving"}
  /\ DOMAIN hand.chips \subseteq adapters
  /\ turn # Nobody => turn.agent \in DOMAIN hand.chips
  /\ \A a \in Agents : pending[a].request # 0 =>
       handInProgress /\ a \in DOMAIN hand.chips /\ pending[a].hand = currentHand

\* Ids are given in order, and the newest request is the one that is awaited: a
\* human's is the one that is pending for him.
Numbered ==
  /\ \A i \in Taken : seats[i].agent <= seated
  /\ turn # Nobody =>
       /\ hand.stage = "betting"
       /\ turn.request <= requests
       /\ \A i \in Taken : seats[i].agent = turn.agent /\ seats[i].kind = "human" =>
            pending[turn.agent].request = turn.request
  /\ \A a \in Agents : pending[a].request <= requests
  /\ handInProgress => currentHand = handNumber /\ handNumber # 0
  /\ ~handInProgress => DOMAIN hand.chips = {}

\* It holds until a hand's last save fails under the next hand.
TableInv == overrun = FALSE /\ TableTypes /\ OthersQuiet /\ Kept /\ Numbered

-----------------------------------------------------------------------------
(* The table's steps.                                                       *)

\* While no hand runs nobody is asked and no request is pending.
LEMMA QuietTable ==
  ASSUME TableInv, ~handInProgress
  PROVE  /\ turn = Nobody /\ hand.stage \notin {"betting", "saving"}
         /\ tableStatus # "in_hand" /\ DOMAIN hand.chips = {}
         /\ \A a \in Agents : pending[a].request = 0
         /\ \A h \in AllHands : Quiet(h)
<1>1. /\ turn = Nobody /\ hand.stage \notin {"betting", "saving"}
      /\ tableStatus # "in_hand" /\ DOMAIN hand.chips = {}
      /\ \A a \in Agents : pending[a].request = 0
  BY DEF TableInv, Kept, Numbered
<1>2. Quiet(handNumber)
  BY <1>1 DEF Quiet, UnderWay, hand, turn
<1> QED BY <1>1, <1>2 DEF TableInv, OthersQuiet

\* The newest hand and its turn.
LEMMA NewestHand ==
  ASSUME TableInv
  PROVE  /\ handNumber \in AllHands /\ hand = hands[handNumber] /\ turn = turns[handNumber]
         /\ turn # Nobody => turn \in TurnTypes
         /\ hand = [stage |-> hand.stage, chips |-> hand.chips, dealer |-> hand.dealer]
         /\ hand.stage \in Stages /\ hand.dealer \in Nat
         /\ \A h \in Hands : \/ hands[h].stage \in {"betting", "saving"}
                             \/ turns[h] # Nobody
                             => h = handNumber
<1>1. handNumber \in AllHands /\ hand = hands[handNumber] /\ turn = turns[handNumber]
  BY DEF TableInv, TableTypes, hand, turn
<1>2. \A h \in Hands : h \in AllHands
  BY TableAssumption DEF Hands, AllHands
<1>3. \A h \in Hands : \/ hands[h].stage \in {"betting", "saving"}
                       \/ turns[h] # Nobody
                       => h = handNumber
  BY <1>2 DEF TableInv, OthersQuiet, Quiet, UnderWay
<1> QED BY <1>1, <1>3 DEF TableInv, TableTypes

\* A step after which the newest hand is the same, and the others are as they were.
LEMMA HandsRest ==
  ASSUME TableInv, UNCHANGED <<hands, turns, handNumber>>
  PROVE  hand' = hand /\ turn' = turn /\ OthersQuiet'
<1>1. hand' = hand /\ turn' = turn
  BY DEF hand, turn
<1>2. OthersQuiet'
  BY DEF TableInv, OthersQuiet, Quiet, UnderWay
<1> QED BY <1>1, <1>2

\* Only the newest hand's turn can wait for a pending request.
LEMMA TurnsLeft ==
  ASSUME TableInv, NEW A
  PROVE  /\ TurnsWithout(A) \in [AllHands -> {Nobody} \cup TurnTypes]
         /\ \A h \in AllHands \ {handNumber} : TurnsWithout(A)[h] = Nobody
         /\ TurnsWithout(A)[handNumber] \in {turn, Nobody}
         /\ turn # Nobody /\ turn.agent \in A /\ pending[turn.agent].request = turn.request =>
              TurnsWithout(A)[handNumber] = Nobody
<1>1. /\ TurnsWithout(A) = [h \in AllHands |-> IF Awaits(h, A) THEN Nobody ELSE turns[h]]
      /\ turns \in [AllHands -> {Nobody} \cup TurnTypes]
  BY DEF TurnsWithout, AllHands, TableInv, TableTypes
<1>2. \A h \in AllHands \ {handNumber} : turns[h] = Nobody
  BY DEF TableInv, OthersQuiet, Quiet
<1>3. handNumber \in AllHands /\ turn = turns[handNumber]
  BY NewestHand
<1>4. Awaits(handNumber, A) <=>
        turn # Nobody /\ turn.agent \in A /\ pending[turn.agent].request = turn.request
  BY <1>3 DEF Awaits
<1> QED BY <1>1, <1>2, <1>3, <1>4

LEMMA SeatFacts ==
  ASSUME TableInv, NEW i \in Taken
  PROVE  /\ i \in Seats /\ seats[i] \in Occupants /\ seats[i].agent \in Agents
         /\ seats[i].agent \in adapters /\ seats[i].agent <= seated
BY DEF TableInv, TableTypes, Kept, Numbered, Taken, Occupants

LEMMA LeastNatural ==
  ASSUME NEW S \in SUBSET Nat, S # {}
  PROVE  \E x \in S : \A y \in S : x <= y
<1>1. PICK x \in S : \A y \in S : ~ (<<y, x>> \in OpToRel(<, Nat))
  <2> DEFINE R == OpToRel(<, Nat)
  <2>1. IsWellFoundedOn(R, Nat)
    BY NatLessThanWellFounded
  <2> HIDE DEF R
  <2>2. \E x \in S : \A y \in S : ~ (<<y, x>> \in R)
    BY <2>1, WFMin
  <2> QED BY <2>2 DEF R
<1>2. ASSUME NEW y \in S PROVE x <= y
  <2>1. ~ (y < x)
    BY <1>1 DEF OpToRel
  <2> QED BY <2>1
<1> QED BY <1>2

LEMMA FirstSeat ==
  ASSUME NEW S \in SUBSET Seats, S # {}
  PROVE  Min(S) \in S /\ \A i \in S : Min(S) <= i
<1>1. S \subseteq Nat
  BY TableAssumption DEF Seats
<1>2. \E i \in S : \A j \in S : i <= j
  BY <1>1, LeastNatural
<1> QED BY <1>2 DEF Min

\* Whoever sits down gets a new id, and no hand runs.
LEMMA SitStep ==
  ASSUME TableInv, NEW u \in Users, NEW kind, NEW i \in Seats, Sit(u, kind, i)
  PROVE  TableInv'
<1> DEFINE new == [agent |-> seated + 1, owner |-> u, kind |-> kind, stack |-> BuyIn, sitOut |-> FALSE]
<1>1. /\ i \notin Taken /\ kind \in {"human", "mock"} /\ MaySit(u, kind)
      /\ seated < MaxAgents /\ seated' = seated + 1
      /\ seats' = [seats EXCEPT ![i] = new] /\ adapters' = adapters \cup {seated + 1}
      /\ UNCHANGED <<tableStatus, currentHand, handNumber, handInProgress, hands, turns, pending, requests>>
      /\ tableStatus # "in_hand" /\ overrun' = overrun
  BY DEF Sit
<1>2. ~handInProgress /\ hand' = hand /\ turn' = turn /\ OthersQuiet'
  BY <1>1, HandsRest DEF TableInv, Kept
<1>3. new \in Occupants /\ new # Nobody /\ new.agent = seated + 1 /\ new.owner = u /\ new.kind = kind
  <2>1. seated + 1 \in Agents
    BY <1>1, TableAssumption DEF TableInv, TableTypes, Agents
  <2>2. BuyIn \in Nat \ {0}
    BY TableAssumption
  <2>3. new \in Occupants
    BY <1>1, <2>1, <2>2 DEF Occupants
  <2> QED BY <2>3, TableAssumption
<1> HIDE DEF new
<1>4. /\ seats' \in [Seats -> Occupants \cup {Nobody}] /\ seats'[i] = new
      /\ \A j \in Seats : j # i => seats'[j] = seats[j]
      /\ Taken' = Taken \cup {i}
  BY <1>1, <1>3 DEF TableInv, TableTypes, Taken
<1>5. \A j \in Taken : /\ j # i /\ seats'[j] = seats[j]
                       /\ seats[j].agent # seated + 1 /\ seats[j].agent <= seated + 1
                       /\ seats[j].agent \in adapters
  <2>1. \A j \in Taken : j \in Seats /\ seats[j].agent \in Int /\ seats[j].agent <= seated
                          /\ seats[j].agent \in adapters
    BY SeatFacts DEF Agents
  <2> QED BY <1>1, <1>4, <2>1 DEF TableInv, TableTypes
<1>6. TableTypes'
  BY <1>1, <1>4 DEF TableInv, TableTypes
<1>7. Kept'
  <2>1. \A j, k \in Taken' : seats'[j].agent = seats'[k].agent => j = k
    BY <1>3, <1>4, <1>5 DEF TableInv, Kept
  <2>2. adapters' = {seats'[j].agent : j \in Taken'}
    BY <1>1, <1>3, <1>4, <1>5 DEF TableInv, Kept
  <2>3. \A j, k \in Taken' : seats'[j].owner = seats'[k].owner
                             /\ seats'[j].kind = "human" /\ seats'[k].kind = "human" => j = k
    BY <1>1, <1>3, <1>4, <1>5 DEF TableInv, Kept, MaySit, SeatsOf
  <2> QED BY <1>1, <1>2, <2>1, <2>2, <2>3, QuietTable DEF TableInv, Kept
<1>8. Numbered'
  <2>1. \A j \in Taken' : seats'[j].agent <= seated'
    BY <1>1, <1>3, <1>4, <1>5 DEF TableInv, TableTypes
  <2> QED BY <1>1, <1>2, <2>1, QuietTable DEF TableInv, TableTypes, Numbered
<1> QED BY <1>1, <1>2, <1>6, <1>7, <1>8 DEF TableInv

\* Somebody leaves between two hands.
LEMMA RemoveStep ==
  ASSUME TableInv, NEW i \in Taken, RemoveFrom(i)
  PROVE  TableInv'
<1>1. /\ tableStatus # "in_hand" /\ seats' = [seats EXCEPT ![i] = Nobody]
      /\ adapters' = adapters \ {seats[i].agent}
      /\ UNCHANGED <<tableStatus, currentHand, handNumber, handInProgress, hands, turns, pending, requests,
                     seated, overrun>>
  BY DEF RemoveFrom, MayRemove
<1>2. ~handInProgress /\ hand' = hand /\ turn' = turn /\ OthersQuiet'
  BY <1>1, HandsRest DEF TableInv, Kept
<1>3. /\ seats' \in [Seats -> Occupants \cup {Nobody}]
      /\ Taken' = Taken \ {i} /\ \A j \in Taken \ {i} : seats'[j] = seats[j]
  BY <1>1 DEF TableInv, TableTypes, Taken
<1>4. TableTypes'
  BY <1>1, <1>3 DEF TableInv, TableTypes
<1>5. Kept'
  <2>1. adapters' = {seats'[j].agent : j \in Taken'}
    BY <1>1, <1>3 DEF TableInv, Kept
  <2>2. turn = Nobody /\ DOMAIN hand.chips = {} /\ \A a \in Agents : pending[a].request = 0
    BY <1>2, QuietTable
  <2> QED BY <1>1, <1>2, <1>3, <2>1, <2>2 DEF TableInv, Kept
<1>6. Numbered'
  BY <1>1, <1>2, <1>3, QuietTable DEF TableInv, TableTypes, Numbered
<1> QED BY <1>1, <1>2, <1>4, <1>5, <1>6 DEF TableInv

\* During a hand who leaves is marked, and stays in his seat.
LEMMA LeaveStep ==
  ASSUME TableInv, NEW u \in Users, LeaveSeat(u)
  PROVE  /\ TableInv' /\ UNCHANGED <<turn, requests, handNumber>>
         /\ turn # Nobody => \A i \in Taken : /\ i \in Taken' /\ seats'[i].agent = seats[i].agent
                                             /\ seats'[i].owner = seats[i].owner /\ seats'[i].kind = seats[i].kind
<1>1. PICK i \in SeatsOf(u) :
        IF tableStatus = "in_hand"
        THEN /\ seats' = [seats EXCEPT ![i].sitOut = TRUE]
             /\ UNCHANGED <<tableStatus, currentHand, handNumber, adapters, handInProgress,
                            hands, turns, pending, seated, requests, overrun>>
        ELSE RemoveFrom(i)
  <2>1. Min(SeatsOf(u)) \in SeatsOf(u)
    <3>1. SeatsOf(u) # {} /\ SeatsOf(u) \in SUBSET Seats
      BY DEF LeaveSeat, SeatsOf, Taken
    <3> QED BY <3>1, FirstSeat
  <2> QED BY <2>1 DEF LeaveSeat
<1>2. i \in Taken
  BY DEF SeatsOf
<1>3. CASE tableStatus # "in_hand"
  <2>1. RemoveFrom(i)
    BY <1>1, <1>3
  <2>2. turn = Nobody
    BY <1>3, QuietTable DEF TableInv, Kept
  <2>3. UNCHANGED <<turn, requests, handNumber>>
    BY <2>1, HandsRest DEF RemoveFrom
  <2> QED BY <1>2, <2>1, <2>2, <2>3, RemoveStep
<1>4. CASE tableStatus = "in_hand"
  <2> DEFINE marked == [seats[i] EXCEPT !.sitOut = TRUE]
  <2>1. seats[i] \in Occupants /\ i \in Seats
    BY <1>2, SeatFacts
  <2>2. /\ marked \in Occupants /\ marked # Nobody /\ marked.agent = seats[i].agent
        /\ marked.owner = seats[i].owner /\ marked.kind = seats[i].kind
    BY <2>1, TableAssumption DEF Occupants
  <2>3. seats' = [seats EXCEPT ![i] = marked]
    BY <1>1, <1>4, <2>1 DEF TableInv, TableTypes
  <2> HIDE DEF marked
  <2>4. /\ seats' \in [Seats -> Occupants \cup {Nobody}] /\ Taken' = Taken
        /\ \A j \in Taken : /\ seats'[j].agent = seats[j].agent
                             /\ seats'[j].owner = seats[j].owner /\ seats'[j].kind = seats[j].kind
    BY <1>2, <2>1, <2>2, <2>3 DEF TableInv, TableTypes, Taken
  <2>5. UNCHANGED <<tableStatus, currentHand, handNumber, adapters, handInProgress,
                    hands, turns, pending, seated, requests, overrun>>
    BY <1>1, <1>4
  <2>9. hand' = hand /\ turn' = turn /\ OthersQuiet'
    BY <2>5, HandsRest
  <2>6. TableTypes' /\ Numbered'
    BY <2>4, <2>5, <2>9 DEF TableInv, TableTypes, Numbered
  <2>7. adapters' = {seats'[j].agent : j \in Taken'}
    BY <2>4, <2>5 DEF TableInv, Kept
  <2>8. Kept'
    BY <2>4, <2>5, <2>7, <2>9 DEF TableInv, Kept
  <2> QED BY <2>4, <2>5, <2>6, <2>8, <2>9 DEF TableInv
<1> QED BY <1>3, <1>4

\* What AskFor leaves behind, for a player of the hand, while nobody is to move.
LEMMA AskStep ==
  ASSUME TableInv, turn = Nobody, NEW a \in Agents, NEW h \in AllHands, AskFor(a, h), a \in adapters
  PROVE  /\ requests' = requests + 1 /\ requests' \in Nat \ {0}
         /\ turns' \in [AllHands -> {Nobody} \cup TurnTypes]
         /\ turns'[h] = [agent |-> a, request |-> requests']
         /\ \A g \in AllHands \ {h} : turns'[g] = Nobody
         /\ pending' \in [Agents -> [hand : Nat, request : Nat]]
         /\ \A b \in Agents : b # a => pending'[b] = pending[b]
         /\ (\E i \in Taken : seats[i].agent = a /\ seats[i].kind = "human") =>
              pending'[a] = [hand |-> h, request |-> requests']
         /\ pending'[a] = pending[a] \/ pending'[a] = [hand |-> h, request |-> requests']
<1>1. requests' = requests + 1 /\ requests' \in Nat \ {0} /\ h \in Nat
  BY TableAssumption DEF AskFor, TableInv, TableTypes, AllHands
<1> DEFINE new == [hand |-> h, request |-> requests']
           ask == [agent |-> a, request |-> requests']
<1>2. /\ new \in [hand : Nat, request : Nat] /\ ask \in TurnTypes
  BY <1>1 DEF TurnTypes
<1>3. pending' = IF \E i \in Taken : seats[i].agent = a /\ seats[i].kind = "human"
                 THEN [pending EXCEPT ![a] = new] ELSE pending
  BY DEF AskFor, IsHuman
<1>4. turns' = [TurnsWithout({b \in {a} : IsHuman(b)}) EXCEPT ![h] = ask]
  BY DEF AskFor
<1> HIDE DEF new, ask
<1>5. /\ pending' \in [Agents -> [hand : Nat, request : Nat]]
      /\ \A b \in Agents : b # a => pending'[b] = pending[b]
      /\ (\E i \in Taken : seats[i].agent = a /\ seats[i].kind = "human") => pending'[a] = new
      /\ pending'[a] = pending[a] \/ pending'[a] = new
  BY <1>2, <1>3 DEF TableInv, TableTypes
<1>6. PICK rest : rest = TurnsWithout({b \in {a} : IsHuman(b)})
  OBVIOUS
<1>7. rest \in [AllHands -> {Nobody} \cup TurnTypes] /\ \A g \in AllHands : rest[g] = Nobody
  BY <1>6, TurnsLeft
<1>8. /\ turns' \in [AllHands -> {Nobody} \cup TurnTypes] /\ turns'[h] = ask
      /\ \A g \in AllHands \ {h} : turns'[g] = Nobody
  BY <1>2, <1>4, <1>6, <1>7
<1> QED BY <1>1, <1>5, <1>8 DEF new, ask

\* A step that only asks the next player, in a hand that is on: the first or a
\* later one.
LEMMA AskKeeps ==
  ASSUME TableInv, turn = Nobody, NEW a \in Agents, a \in adapters, AskFor(a, handNumber'),
         handNumber' \in AllHands \ {0}, currentHand' = handNumber', handInProgress', tableStatus' = "in_hand",
         UNCHANGED <<seats, adapters, seated, overrun>>,
         handInProgress => UNCHANGED <<hands, handNumber>>,
         NEW new, new.stage = "betting", new.dealer \in Nat,
         new = [stage |-> new.stage, chips |-> new.chips, dealer |-> new.dealer],
         hands' = [hands EXCEPT ![handNumber'] = new],
         DOMAIN new.chips \subseteq adapters, a \in DOMAIN new.chips
  PROVE  /\ TableInv' /\ requests' = requests + 1
         /\ turn'.request = requests' /\ hand' = new
<1>1. PICK n \in AllHands : n = handNumber'
  OBVIOUS
<1>2. /\ requests' = requests + 1 /\ requests' \in Nat \ {0}
      /\ turns' \in [AllHands -> {Nobody} \cup TurnTypes]
      /\ turns'[n] = [agent |-> a, request |-> requests']
      /\ \A g \in AllHands \ {n} : turns'[g] = Nobody
      /\ pending' \in [Agents -> [hand : Nat, request : Nat]]
      /\ \A b \in Agents : b # a => pending'[b] = pending[b]
      /\ (\E i \in Taken : seats[i].agent = a /\ seats[i].kind = "human") =>
           pending'[a] = [hand |-> n, request |-> requests']
      /\ pending'[a] = pending[a] \/ pending'[a] = [hand |-> n, request |-> requests']
  BY <1>1, AskStep
<1>3. Taken' = Taken
  BY DEF Taken
<1>4. /\ hands' = [h \in AllHands |-> hands'[h]] /\ hands'[n] = new
      /\ \A h \in AllHands \ {n} : hands'[h] = hands[h]
  <2>1. hands = [h \in AllHands |-> hands[h]]
    BY DEF TableInv, TableTypes
  <2>2. PICK f : f = hands
    OBVIOUS
  <2>3. hands' = [[h \in AllHands |-> f[h]] EXCEPT ![n] = new]
    BY <1>1, <2>1, <2>2
  <2> QED BY <2>2, <2>3
<1>5. hand' = new /\ turn' = [agent |-> a, request |-> requests']
  BY <1>1, <1>2, <1>4 DEF hand, turn
<1>6. TableTypes'
  <2>1. \A h \in AllHands :
          /\ hands'[h] = [stage |-> hands'[h].stage, chips |-> hands'[h].chips, dealer |-> hands'[h].dealer]
          /\ hands'[h].stage \in Stages /\ hands'[h].dealer \in Nat
    BY <1>4 DEF TableInv, TableTypes, Stages
  <2>2. currentHand' \in Nat
    BY TableAssumption DEF AllHands
  <2> QED BY <1>2, <1>4, <2>1, <2>2 DEF TableInv, TableTypes
<1>7. OthersQuiet'
  <2>1. \A h \in AllHands \ {n} : ~UnderWay(h) /\ DOMAIN hands[h].chips = {}
    <3>1. CASE handInProgress
      BY <1>1, <3>1 DEF TableInv, OthersQuiet, Quiet
    <3>2. CASE ~handInProgress
      BY <3>2, QuietTable DEF Quiet
    <3> QED BY <3>1, <3>2
  <2>2. \A h \in AllHands \ {n} : hands'[h].stage \notin {"betting", "saving"} /\ DOMAIN hands'[h].chips = {}
    BY <1>4, <2>1 DEF UnderWay
  <2> QED BY <1>1, <1>2, <2>2 DEF OthersQuiet, Quiet, UnderWay
<1>8. \A b \in Agents : pending'[b].request # 0 => b \in DOMAIN hand'.chips /\ pending'[b].hand = currentHand'
  <2>1. \A b \in Agents : pending[b].request # 0 => b \in DOMAIN new.chips /\ pending[b].hand = currentHand'
    <3>1. CASE handInProgress
      <4>1. hand' = hand
        BY <3>1 DEF hand
      <4> QED BY <1>5, <3>1, <4>1 DEF TableInv, Kept, Numbered
    <3>2. CASE ~handInProgress
      BY <3>2, QuietTable
    <3> QED BY <3>1, <3>2
  <2> QED BY <1>1, <1>2, <1>5, <2>1
<1>9. Kept'
  <2>1. adapters' = {seats'[i].agent : i \in Taken'}
    BY <1>3 DEF TableInv, Kept
  <2> QED BY <1>2, <1>3, <1>5, <1>8, <2>1 DEF TableInv, Kept
<1>10. Numbered'
  <2>1. \A b \in Agents : pending'[b].request <= requests'
    <3>1. \A b \in Agents : pending[b].request \in Nat /\ pending[b].request <= requests
      BY DEF TableTypes, TableInv, Numbered
    <3>2. \A b \in Agents : pending[b].request <= requests'
      BY <1>2, <3>1 DEF TableInv, TableTypes
    <3> QED BY <1>2, <3>2
  <2>2. \A i \in Taken' : seats'[i].agent <= seated'
    BY <1>3 DEF TableInv, Numbered
  <2>3. requests' <= requests'
    BY <1>2
  <2>4. \A i \in Taken' : seats'[i].agent = a /\ seats'[i].kind = "human" =>
          pending'[a].request = requests'
    BY <1>2, <1>3
  <2> QED BY <1>5, <2>1, <2>2, <2>3, <2>4 DEF Numbered
<1> QED BY <1>2, <1>5, <1>6, <1>7, <1>9, <1>10 DEF TableInv

\* Whoever is dealt in, and where the button is.
NewHand ==
  [stage |-> "betting",
   chips |-> [a \in {seats[i].agent : i \in Playing} |-> seats[SeatOfAgent(a)].stack],
   dealer |-> ButtonSeat(Playing)]

LEMMA StartHandStep ==
  ASSUME TableInv, StartHand
  PROVE  /\ TableInv' /\ requests' = requests + 1 /\ turn'.request = requests' /\ turn = Nobody
         /\ seats' = seats /\ handNumber' \in Nat \ {0} /\ DOMAIN hand'.chips \subseteq Agents
         /\ hand' = NewHand
<1>1. /\ ~handInProgress /\ handInProgress' = TRUE /\ tableStatus' = "in_hand"
      /\ handNumber < MaxHands /\ handNumber' = handNumber + 1 /\ currentHand' = handNumber'
      /\ UNCHANGED <<seats, adapters, seated, overrun>>
      /\ hands' = [hands EXCEPT ![handNumber'] = NewHand]
  BY DEF StartHand, MayStart, NewHand
<1>2. PICK i \in Playing : AskFor(seats[i].agent, handNumber')
  BY DEF StartHand
<1>3. Playing \subseteq Taken
  BY DEF Playing
<1>4. ButtonSeat(Playing) \in Nat
  <2>1. Playing # {} /\ Playing \in SUBSET Seats
    BY <1>2, <1>3 DEF Taken
  <2>2. {j \in Playing : j > button} \in SUBSET Seats
    BY <2>1
  <2>3. ButtonSeat(Playing) \in Seats
    BY <2>1, <2>2, FirstSeat DEF ButtonSeat
  <2> QED BY <2>3, TableAssumption DEF Seats
<1>5. PICK new : /\ new = NewHand /\ new.stage = "betting" /\ new.dealer \in Nat
                 /\ new = [stage |-> new.stage, chips |-> new.chips, dealer |-> new.dealer]
                 /\ DOMAIN new.chips = {seats[j].agent : j \in Playing}
  <2>1. PICK c : c = [a \in {seats[j].agent : j \in Playing} |-> seats[SeatOfAgent(a)].stack]
    OBVIOUS
  <2>2. DOMAIN c = {seats[j].agent : j \in Playing}
    BY <2>1
  <2>3. NewHand = [stage |-> "betting", chips |-> c, dealer |-> ButtonSeat(Playing)]
    BY <2>1 DEF NewHand
  <2>4. NewHand.chips = c /\ NewHand.stage = "betting" /\ NewHand.dealer = ButtonSeat(Playing)
    BY <2>3
  <2> QED BY <1>4, <2>2, <2>3, <2>4
<1>6. PICK a \in Agents : a = seats[i].agent /\ a \in adapters
  BY <1>3, SeatFacts
<1>7. DOMAIN new.chips \subseteq adapters /\ a \in DOMAIN new.chips
  BY <1>3, <1>5, <1>6 DEF TableInv, Kept
<1>8. turn = Nobody /\ handNumber' \in AllHands /\ handNumber' \in Nat \ {0}
  <2>1. turn = Nobody
    BY <1>1, QuietTable
  <2>2. handNumber \in 0 .. MaxHands /\ MaxHands \in Nat
    BY TableAssumption DEF TableInv, TableTypes, AllHands
  <2> QED BY <1>1, <2>1, <2>2 DEF AllHands
<1>9. DOMAIN new.chips \subseteq Agents
  BY <1>3, <1>5, SeatFacts
<1>10. /\ TableInv' /\ requests' = requests + 1
       /\ turn'.request = requests' /\ hand' = new
  <2>1. AskFor(a, handNumber') /\ hands' = [hands EXCEPT ![handNumber'] = new]
    BY <1>1, <1>2, <1>5, <1>6
  <2> QED BY <1>1, <1>5, <1>7, <1>8, <2>1, AskKeeps
<1> QED BY <1>1, <1>5, <1>8, <1>9, <1>10

LEMMA RequestDecisionStep ==
  ASSUME TableInv, NEW h \in Hands, RequestDecision(h)
  PROVE  /\ TableInv' /\ requests' = requests + 1 /\ turn'.request = requests' /\ h = handNumber
         /\ turn = Nobody /\ UNCHANGED <<seats, handNumber, hands>> /\ hand' = hand
<1>1. h = handNumber
  BY NewestHand DEF RequestDecision
<1>2. /\ hand.stage = "betting" /\ turn = Nobody
      /\ UNCHANGED <<seats, adapters, seated, handNumber, currentHand, handInProgress, tableStatus, hands, overrun>>
  BY <1>1 DEF RequestDecision, table, hand, turn
<1>3. PICK a \in DOMAIN hand.chips : AskFor(a, handNumber)
  BY <1>1 DEF RequestDecision, hand
<1>4. handInProgress /\ tableStatus = "in_hand" /\ DOMAIN hand.chips \subseteq adapters
  BY <1>2 DEF TableInv, Kept
<1>5. a \in adapters /\ a \in Agents
  BY <1>3, <1>4, SeatFacts DEF TableInv, Kept
<1>6. PICK new : /\ new = hand /\ new.stage = "betting" /\ new.dealer \in Nat
                 /\ new = [stage |-> new.stage, chips |-> new.chips, dealer |-> new.dealer]
  BY <1>2, NewestHand
<1>7. hands' = [hands EXCEPT ![handNumber'] = new]
  <2>1. hands = [g \in AllHands |-> hands[g]] /\ handNumber \in AllHands /\ hands[handNumber] = new
    BY <1>6, NewestHand DEF TableInv, TableTypes
  <2>2. PICK f : f = hands
    OBVIOUS
  <2>3. [[g \in AllHands |-> f[g]] EXCEPT ![handNumber] = new] = f
    BY <2>1, <2>2
  <2> QED BY <1>2, <2>1, <2>2, <2>3
<1>8. handInProgress' /\ currentHand' = handNumber' /\ handNumber' \in AllHands \ {0}
  BY <1>2, <1>4 DEF TableInv, TableTypes, Numbered
<1>9. /\ TableInv' /\ requests' = requests + 1
      /\ turn'.request = requests' /\ hand' = new
  BY <1>2, <1>3, <1>4, <1>5, <1>6, <1>7, <1>8, AskKeeps
<1> QED BY <1>1, <1>2, <1>6, <1>9

\* A step that settles what is awaited, or does nothing to it, and takes requests
\* that are pending away.
LEMMA SettleKeeps ==
  ASSUME TableInv,
         UNCHANGED <<seats, adapters, seated, handNumber, currentHand, handInProgress, tableStatus, hands,
                     requests, overrun>>,
         NEW q \in [hand : Nat, request : Nat], q.request = 0, NEW S,
         pending' = [b \in Agents |-> IF b \in S THEN q ELSE pending[b]],
         turns' \in [AllHands -> {Nobody} \cup TurnTypes],
         \A h \in AllHands \ {handNumber} : turns'[h] = Nobody,
         turns'[handNumber] \in {turn, Nobody},
         turns'[handNumber] = turn /\ turn # Nobody => turn.agent \notin S
  PROVE  TableInv' /\ hand' = hand /\ turn' = turns'[handNumber]
<1>1. Taken' = Taken
  BY DEF Taken
<1>2. \A b \in Agents : pending'[b] = IF b \in S THEN q ELSE pending[b]
  OBVIOUS
<1>3. pending' \in [Agents -> [hand : Nat, request : Nat]]
  BY DEF TableInv, TableTypes
<1>4. TableTypes'
  BY <1>3 DEF TableInv, TableTypes
<1>5. /\ hand' = hand /\ turn' = turns'[handNumber] /\ turn' \in {turn, Nobody}
      /\ turn' = turn /\ turn # Nobody => turn.agent \notin S
  BY DEF hand, turn
<1>6. Kept'
  <2>1. adapters' = {seats'[i].agent : i \in Taken'}
    BY <1>1 DEF TableInv, Kept
  <2> QED BY <1>1, <1>2, <1>5, <2>1 DEF TableInv, Kept
<1>7. Numbered'
  <2>1. \A b \in Agents : pending'[b].request <= requests'
    BY <1>2 DEF TableInv, TableTypes, Numbered
  <2>2. turn' # Nobody => turn' = turn /\ turn.agent \in Agents /\ pending'[turn.agent] = pending[turn.agent]
    BY <1>2, <1>5, NewestHand DEF TurnTypes
  <2> QED BY <1>1, <1>5, <2>1, <2>2 DEF TableInv, Numbered
<1>8. OthersQuiet'
  <2>1. \A h \in AllHands \ {handNumber} : ~UnderWay(h) /\ DOMAIN hands[h].chips = {}
    BY DEF TableInv, OthersQuiet, Quiet
  <2> QED BY <2>1 DEF OthersQuiet, Quiet, UnderWay
<1> QED BY <1>4, <1>5, <1>6, <1>7, <1>8 DEF TableInv

\* submitHumanAction: whatever request it settles, the one that is awaited of this
\* agent is no longer.
LEMMA SubmitStep ==
  ASSUME TableInv, NEW u \in Users, NEW h, Submit(u, h)
  PROVE  /\ TableInv' /\ requests' = requests /\ UNCHANGED <<seats, handNumber, currentHand, hands>>
         /\ hand' = hand /\ turn' \in {turn, Nobody}
         /\ \E i \in SeatsOf(u) : /\ seats[i].kind = "human"
                                  /\ turn # Nobody /\ turn.agent = seats[i].agent => turn' = Nobody
<1>1. PICK i \in SeatsOf(u) :
        /\ seats[i].kind = "human"
        /\ pending' = [pending EXCEPT ![seats[i].agent] = NoRequest]
        /\ turns' = TurnsWithout({seats[i].agent})
        /\ UNCHANGED <<table, spectators, hands, seated, requests, bank, overrun>>
  <2>1. SeatsOf(u) # {} /\ SeatsOf(u) \in SUBSET Seats
    BY DEF Submit, SeatsOf, Taken
  <2>2. Min(SeatsOf(u)) \in SeatsOf(u)
    BY <2>1, FirstSeat
  <2> QED BY <2>2 DEF Submit
<1>2. i \in Taken /\ seats[i].agent \in Agents
  BY SeatFacts DEF SeatsOf
<1>3. UNCHANGED <<seats, adapters, seated, handNumber, currentHand, handInProgress, tableStatus, hands,
                  requests, overrun>>
  BY <1>1 DEF table
<1>4. PICK a \in Agents : a = seats[i].agent
  BY <1>2
<1>5. /\ turns' \in [AllHands -> {Nobody} \cup TurnTypes]
      /\ \A g \in AllHands \ {handNumber} : turns'[g] = Nobody
      /\ turns'[handNumber] \in {turn, Nobody}
      /\ turn # Nobody /\ turn.agent \in {a} /\ pending[turn.agent].request = turn.request =>
           turns'[handNumber] = Nobody
  BY <1>1, <1>4, TurnsLeft
<1>6. turn # Nobody /\ turn.agent = a => turns'[handNumber] = Nobody
  <2> SUFFICES ASSUME turn # Nobody, turn.agent = a
               PROVE  turns'[handNumber] = Nobody
    OBVIOUS
  <2>1. pending[turn.agent].request = turn.request
    BY <1>1, <1>2, <1>4 DEF TableInv, Numbered
  <2> QED BY <1>5, <2>1
<1>7. pending' = [b \in Agents |-> IF b \in {a} THEN NoRequest ELSE pending[b]]
  BY <1>1, <1>4 DEF TableInv, TableTypes
<1>8. NoRequest \in [hand : Nat, request : Nat] /\ NoRequest.request = 0
  BY DEF NoRequest
<1>9. turns'[handNumber] = turn /\ turn # Nobody => turn.agent \notin {a}
  BY <1>6
<1>10. TableInv' /\ hand' = hand /\ turn' = turns'[handNumber]
  BY <1>3, <1>5, <1>7, <1>8, <1>9, SettleKeeps
<1> QED BY <1>1, <1>3, <1>4, <1>5, <1>6, <1>10

\* The turn is over without an answer of a human.
LEMMA TurnOverStep ==
  ASSUME TableInv, NEW h \in Hands, BotAnswers(h) \/ TimerFires(h)
  PROVE  /\ TableInv' /\ turn # Nobody /\ turn' = Nobody /\ hand' = hand
         /\ UNCHANGED <<seats, requests, handNumber, currentHand, hands>>
<1>1. h = handNumber
  BY NewestHand DEF BotAnswers, TimerFires, TurnTimerArmed
<1>2. /\ turn # Nobody /\ turns' = [turns EXCEPT ![handNumber] = Nobody]
      /\ UNCHANGED <<seats, adapters, seated, handNumber, currentHand, handInProgress, tableStatus, hands,
                     requests, overrun>>
      /\ pending' = pending
  BY <1>1 DEF BotAnswers, TimerFires, TurnTimerArmed, table, turn
<1>3. /\ turns' \in [AllHands -> {Nobody} \cup TurnTypes] /\ turns'[handNumber] = Nobody
      /\ \A g \in AllHands \ {handNumber} : turns'[g] = Nobody
  BY <1>2 DEF TableInv, TableTypes, OthersQuiet, Quiet
<1>4. PICK S : S = {}
  OBVIOUS
<1>5. pending' = [b \in Agents |-> IF b \in S THEN NoRequest ELSE pending[b]]
  BY <1>2, <1>4 DEF TableInv, TableTypes
<1>6. NoRequest \in [hand : Nat, request : Nat] /\ NoRequest.request = 0
  BY DEF NoRequest
<1>7. turns'[handNumber] \in {turn, Nobody} /\ (turns'[handNumber] = turn /\ turn # Nobody => turn.agent \notin S)
  BY <1>3, <1>4
<1>8. TableInv' /\ hand' = hand /\ turn' = turns'[handNumber]
  BY <1>2, <1>3, <1>5, <1>6, <1>7, SettleKeeps
<1> QED BY <1>2, <1>3, <1>8

\* A hand's entry is replaced.
LEMMA HandReplaced ==
  ASSUME TableInv, NEW h \in AllHands, NEW new, hands' = [hands EXCEPT ![h] = new]
  PROVE  /\ hands' = [g \in AllHands |-> hands'[g]] /\ hands'[h] = new
         /\ \A g \in AllHands \ {h} : hands'[g] = hands[g]
<1>1. hands = [g \in AllHands |-> hands[g]]
  BY DEF TableInv, TableTypes
<1>2. PICK f : f = hands
  OBVIOUS
<1>3. hands' = [[g \in AllHands |-> f[g]] EXCEPT ![h] = new]
  BY <1>1, <1>2
<1> QED BY <1>2, <1>3

\* The entry of a hand that goes on to its next stage, and of one that ends.
LEMMA NextEntry ==
  ASSUME NEW old, old = [stage |-> old.stage, chips |-> old.chips, dealer |-> old.dealer], NEW stage
  PROVE  /\ [old EXCEPT !.stage = stage]
              = [stage |-> stage, chips |-> old.chips, dealer |-> old.dealer]
         /\ [old EXCEPT !.stage = stage, !.chips = <<>>]
              = [stage |-> stage, chips |-> <<>>, dealer |-> old.dealer]
<1>1. PICK s, c, d : s = old.stage /\ c = old.chips /\ d = old.dealer
  OBVIOUS
<1>2. old = [stage |-> s, chips |-> c, dealer |-> d]
  BY <1>1
<1>3. [old EXCEPT !.stage = stage] = [stage |-> stage, chips |-> c, dealer |-> d]
  BY <1>2
<1>4. PICK e : e = <<>>
  OBVIOUS
<1>5. [[old EXCEPT !.stage = stage] EXCEPT !.chips = e] = [stage |-> stage, chips |-> e, dealer |-> d]
  <2>1. PICK next : next = [old EXCEPT !.stage = stage]
    OBVIOUS
  <2>2. next = [stage |-> stage, chips |-> c, dealer |-> d]
    BY <1>3, <2>1
  <2>3. [next EXCEPT !.chips = e] = [stage |-> stage, chips |-> e, dealer |-> d]
    BY <2>2
  <2> QED BY <2>1, <2>3
<1>6. [old EXCEPT !.stage = stage, !.chips = e] = [stage |-> stage, chips |-> e, dealer |-> d]
  BY <1>5
<1> QED BY <1>1, <1>3, <1>4, <1>6

LEMMA HandOverStep ==
  ASSUME TableInv, NEW h \in Hands, HandOver(h)
  PROVE  /\ TableInv' /\ UNCHANGED <<seats, turn, requests, handNumber, currentHand>> /\ turn = Nobody
         /\ hand'.chips = hand.chips /\ hand'.dealer = hand.dealer
<1>1. h = handNumber /\ h \in AllHands
  BY NewestHand DEF HandOver
<1>2. /\ hand.stage = "betting" /\ turn = Nobody /\ hands' = [hands EXCEPT ![h].stage = "saving"]
      /\ UNCHANGED <<seats, adapters, seated, handNumber, currentHand, handInProgress, tableStatus,
                     requests, pending, turns, overrun>>
  BY <1>1 DEF HandOver, table, hand, turn
<1>3. PICK new : /\ new = [hand EXCEPT !.stage = "saving"] /\ new.stage = "saving"
                 /\ new.chips = hand.chips /\ new.dealer = hand.dealer /\ new.dealer \in Nat
                 /\ new = [stage |-> new.stage, chips |-> new.chips, dealer |-> new.dealer]
  <2>1. PICK new : new = [stage |-> "saving", chips |-> hand.chips, dealer |-> hand.dealer]
    OBVIOUS
  <2>2. hand = [stage |-> hand.stage, chips |-> hand.chips, dealer |-> hand.dealer] /\ hand.dealer \in Nat
    BY NewestHand
  <2>3. [hand EXCEPT !.stage = "saving"] = [stage |-> "saving", chips |-> hand.chips, dealer |-> hand.dealer]
    BY <2>2, NextEntry
  <2>4. /\ new.stage = "saving" /\ new.chips = hand.chips /\ new.dealer = hand.dealer
        /\ new = [stage |-> new.stage, chips |-> new.chips, dealer |-> new.dealer]
    BY <2>1
  <2> QED BY <2>1, <2>2, <2>3, <2>4
<1>4. hands' = [hands EXCEPT ![h] = new]
  BY <1>1, <1>2, <1>3, NewestHand
<1>5. /\ hands' = [g \in AllHands |-> hands'[g]] /\ hands'[h] = new
      /\ \A g \in AllHands \ {h} : hands'[g] = hands[g]
  BY <1>1, <1>4, HandReplaced
<1>6. hand' = new /\ turn' = turn
  BY <1>1, <1>2, <1>5 DEF hand, turn
<1>7. TableTypes'
  BY <1>2, <1>3, <1>5 DEF TableInv, TableTypes, Stages
<1>8. Kept'
  BY <1>2, <1>3, <1>6 DEF TableInv, Kept, Taken
<1>9. Numbered'
  BY <1>2, <1>3, <1>6 DEF TableInv, Numbered, Taken
<1>10. OthersQuiet'
  BY <1>1, <1>2, <1>5 DEF TableInv, OthersQuiet, Quiet, UnderWay
<1> QED BY <1>2, <1>3, <1>6, <1>7, <1>8, <1>9, <1>10 DEF TableInv

\* Both ways in which a hand ends leave no request behind: whoever had one is
\* still in the map of agents.
LEMMA CancelClears ==
  ASSUME TableInv, pending' = AfterCancel
  PROVE  /\ pending' \in [Agents -> [hand : Nat, request : Nat]]
         /\ \A a \in Agents : pending'[a].request = 0
<1>1. /\ NoRequest \in [hand : Nat, request : Nat] /\ NoRequest.request = 0
  BY DEF NoRequest
<1>2. \A a \in Agents : pending[a].request # 0 => a \in adapters
  BY DEF TableInv, Kept
<1>3. \A a \in Agents : AfterCancel[a] = IF a \in adapters THEN NoRequest ELSE pending[a]
  BY DEF AfterCancel
<1>4. AfterCancel \in [Agents -> [hand : Nat, request : Nat]]
  BY <1>1 DEF AfterCancel, TableInv, TableTypes
<1> QED BY <1>1, <1>2, <1>3, <1>4

\* The entry of a hand that is over, or of which only the save is left.
LEMMA HandDone ==
  ASSUME TableInv, NEW h \in AllHands, NEW stage \in {"storing", "over"}, HandEnds(h, stage)
  PROVE  /\ hands' = [g \in AllHands |-> hands'[g]]
         /\ \A g \in AllHands \ {h} : hands'[g] = hands[g]
         /\ \A g \in AllHands :
              /\ hands'[g] = [stage |-> hands'[g].stage, chips |-> hands'[g].chips,
                              dealer |-> hands'[g].dealer]
              /\ hands'[g].stage \in Stages /\ hands'[g].dealer \in Nat
         /\ hands'[h].stage = stage /\ DOMAIN hands'[h].chips = {}
<1>1. PICK old : old = hands[h]
  OBVIOUS
<1>2. old = [stage |-> old.stage, chips |-> old.chips, dealer |-> old.dealer] /\ old.dealer \in Nat
  BY <1>1 DEF TableInv, TableTypes
<1>3. PICK new : /\ new = [old EXCEPT !.stage = stage, !.chips = <<>>]
                 /\ new = [stage |-> new.stage, chips |-> new.chips, dealer |-> new.dealer]
                 /\ new.stage = stage /\ new.chips = <<>> /\ new.dealer \in Nat
  <2>1. PICK new : new = [stage |-> stage, chips |-> <<>>, dealer |-> old.dealer]
    OBVIOUS
  <2>2. [old EXCEPT !.stage = stage, !.chips = <<>>] = [stage |-> stage, chips |-> <<>>, dealer |-> old.dealer]
    BY <1>2, NextEntry
  <2>3. /\ new.stage = stage /\ new.chips = <<>> /\ new.dealer = old.dealer
        /\ new = [stage |-> new.stage, chips |-> new.chips, dealer |-> new.dealer]
    BY <2>1
  <2> QED BY <1>2, <2>1, <2>2, <2>3
<1>4. hands' = [hands EXCEPT ![h] = new]
  BY <1>1, <1>2, <1>3 DEF HandEnds, TableInv, TableTypes
<1>5. /\ hands' = [g \in AllHands |-> hands'[g]] /\ hands'[h] = new
      /\ \A g \in AllHands \ {h} : hands'[g] = hands[g]
  BY <1>4, HandReplaced
<1>6. DOMAIN new.chips = {}
  BY <1>3
<1>7. new.stage \in Stages
  BY <1>3 DEF Stages
<1>8. \A g \in AllHands :
        /\ hands'[g] = [stage |-> hands'[g].stage, chips |-> hands'[g].chips, dealer |-> hands'[g].dealer]
        /\ hands'[g].stage \in Stages /\ hands'[g].dealer \in Nat
  BY <1>3, <1>5, <1>7 DEF TableInv, TableTypes
<1> QED BY <1>3, <1>5, <1>6, <1>8

\* A hand that is over leaves a table at rest; so does the end of an earlier hand's
\* save.
LEMMA RestKeeps ==
  ASSUME TableInv, turn = Nobody, pending' = AfterCancel, turns' = TurnsWithout(adapters),
         NEW h \in Hands, NEW stage \in {"storing", "over"}, HandEnds(h, stage),
         h = handNumber \/ ~handInProgress, ~handInProgress', tableStatus' # "in_hand",
         seats' \in [Seats -> Occupants \cup {Nobody}], Taken' \subseteq Taken,
         \A i \in Taken' : /\ seats'[i].agent = seats[i].agent
                           /\ seats'[i].owner = seats[i].owner /\ seats'[i].kind = seats[i].kind,
         adapters' = {seats'[i].agent : i \in Taken'},
         currentHand' \in Nat, UNCHANGED <<handNumber, seated, requests, overrun>>
  PROVE  TableInv' /\ turn' = Nobody /\ DOMAIN hand'.chips = {} /\ hand'.dealer \in Nat
<1>1. /\ pending' \in [Agents -> [hand : Nat, request : Nat]]
      /\ \A a \in Agents : pending'[a].request = 0
  BY CancelClears
<1>2. h \in AllHands /\ handNumber \in AllHands
  BY NewestHand, TableAssumption DEF Hands, AllHands
<1>3. /\ hands' = [g \in AllHands |-> hands'[g]]
      /\ \A g \in AllHands \ {h} : hands'[g] = hands[g]
      /\ \A g \in AllHands :
           /\ hands'[g] = [stage |-> hands'[g].stage, chips |-> hands'[g].chips, dealer |-> hands'[g].dealer]
           /\ hands'[g].stage \in Stages /\ hands'[g].dealer \in Nat
      /\ hands'[h].stage = stage /\ DOMAIN hands'[h].chips = {}
  BY <1>2, HandDone
<1>4. /\ turns' \in [AllHands -> {Nobody} \cup TurnTypes]
      /\ \A g \in AllHands : turns'[g] = Nobody
  BY <1>2, TurnsLeft
<1>5. \A g \in AllHands : hands'[g].stage \notin {"betting", "saving"} /\ DOMAIN hands'[g].chips = {}
  <2>1. ASSUME NEW g \in AllHands \ {h}
        PROVE  hands[g].stage \notin {"betting", "saving"} /\ DOMAIN hands[g].chips = {}
    <3>1. CASE g = handNumber
      <4>1. ~handInProgress
        BY <2>1, <3>1
      <4> QED BY <4>1, QuietTable DEF Quiet, UnderWay
    <3>2. CASE g # handNumber
      BY <3>2 DEF TableInv, OthersQuiet, Quiet, UnderWay
    <3> QED BY <3>1, <3>2
  <2> QED BY <1>3, <2>1
<1>6. OthersQuiet'
  BY <1>4, <1>5 DEF OthersQuiet, Quiet, UnderWay
<1>7. /\ turn' = Nobody /\ hand'.stage \notin {"betting", "saving"} /\ DOMAIN hand'.chips = {}
      /\ hand'.dealer \in Nat
  BY <1>2, <1>3, <1>4, <1>5 DEF hand, turn
<1>8. TableTypes'
  BY <1>1, <1>3, <1>4 DEF TableInv, TableTypes
<1>9. Kept'
  BY <1>1, <1>7 DEF TableInv, Kept
<1>10. Numbered'
  <2>1. requests \in Nat /\ \A i \in Taken : seats[i].agent <= seated
    BY DEF TableInv, TableTypes, Numbered
  <2>2. \A i \in Taken' : seats'[i].agent <= seated'
    BY <2>1
  <2>3. \A a \in Agents : pending'[a].request <= requests'
    BY <1>1, <2>1
  <2> QED BY <1>7, <2>2, <2>3 DEF Numbered
<1> QED BY <1>6, <1>7, <1>8, <1>9, <1>10 DEF TableInv

\* The catch branch, with its hand under way or with none.
LEMMA CatchStep ==
  ASSUME TableInv, turn = Nobody, NEW h \in Hands, Catch(h), overrun' = overrun,
         h = handNumber \/ ~handInProgress
  PROVE  /\ TableInv' /\ turn' = Nobody /\ UNCHANGED <<seats, requests, handNumber>>
         /\ DOMAIN hand'.chips = {} /\ hand'.dealer \in Nat
<1>1. /\ pending' = AfterCancel /\ turns' = TurnsWithout(adapters)
      /\ handInProgress' = FALSE /\ tableStatus' = StatusFor(seats)
      /\ HandEnds(h, "over")
      /\ UNCHANGED <<seats, adapters, currentHand, handNumber, seated, requests>>
  BY DEF Catch, Cancel
<1>2. StatusFor(seats) # "in_hand"
  BY DEF StatusFor
<1>3. seats' \in [Seats -> Occupants \cup {Nobody}] /\ Taken' = Taken
  BY <1>1 DEF TableInv, TableTypes, Taken
<1>4. adapters' = {seats'[i].agent : i \in Taken'}
  BY <1>1, <1>3 DEF TableInv, Kept
<1>5. currentHand' \in Nat
  BY <1>1 DEF TableInv, TableTypes
<1> QED BY <1>1, <1>2, <1>3, <1>4, <1>5, RestKeeps

LEMMA HandFailsStep ==
  ASSUME TableInv, NEW h \in Hands, HandFails(h)
  PROVE  /\ TableInv' /\ turn = Nobody /\ turn' = Nobody /\ UNCHANGED <<seats, requests, handNumber>>
         /\ DOMAIN hand'.chips = {} /\ hand'.dealer \in Nat
<1>1. h = handNumber /\ turn = Nobody /\ Catch(h) /\ overrun' = overrun
  BY NewestHand DEF HandFails, UnderWay, turn
<1> QED BY <1>1, CatchStep

\* A hand's last save is done, or refused while no other hand is under way.
LEMMA HandStoredStep ==
  ASSUME TableInv, NEW h \in Hands, HandStored(h)
  PROVE  /\ TableInv' /\ UNCHANGED <<seats, turn, requests, handNumber>>
         /\ hand'.chips = hand.chips \/ DOMAIN hand'.chips = {}
         /\ hand'.dealer \in Nat
<1>1. /\ hands[h].stage = "storing" /\ HandEnds(h, "over")
      /\ UNCHANGED <<table, turns, pending, seated, requests, overrun>>
  BY DEF HandStored
<1>2. h \in AllHands /\ handNumber \in AllHands
  BY NewestHand, TableAssumption DEF Hands, AllHands
<1>3. /\ hands' = [g \in AllHands |-> hands'[g]]
      /\ \A g \in AllHands \ {h} : hands'[g] = hands[g]
      /\ \A g \in AllHands :
           /\ hands'[g] = [stage |-> hands'[g].stage, chips |-> hands'[g].chips, dealer |-> hands'[g].dealer]
           /\ hands'[g].stage \in Stages /\ hands'[g].dealer \in Nat
      /\ hands'[h].stage = "over" /\ DOMAIN hands'[h].chips = {}
  BY <1>1, <1>2, HandDone
<1>4. handNumber' = handNumber /\ turn' = turn /\ hand' = hands'[handNumber] /\ hand = hands[handNumber]
  BY <1>1 DEF table, hand, turn
<1>5. /\ hand' = hand \/ (hand'.stage = "over" /\ DOMAIN hand'.chips = {} /\ hand.stage = "storing")
      /\ hand'.dealer \in Nat
  BY <1>1, <1>2, <1>3, <1>4
<1>6. TableTypes'
  BY <1>1, <1>3 DEF table, TableInv, TableTypes
<1>7. OthersQuiet'
  BY <1>1, <1>2, <1>3, <1>4 DEF TableInv, OthersQuiet, Quiet, UnderWay
<1>8. Taken' = Taken
  BY <1>1 DEF Taken, table
<1>9. Kept' /\ Numbered'
  <2>1. CASE hand' = hand
    BY <1>1, <1>4, <1>8, <2>1 DEF table, TableInv, Kept, Numbered
  <2>2. CASE hand'.stage = "over" /\ DOMAIN hand'.chips = {} /\ hand.stage = "storing"
    <3>1. ~handInProgress /\ turn = Nobody
      BY <2>2 DEF TableInv, Kept, Numbered
    <3>2. \A a \in Agents : pending[a].request = 0
      BY <3>1, QuietTable
    <3> QED BY <1>1, <1>4, <1>8, <2>2, <3>1, <3>2 DEF table, TableInv, Kept, Numbered
  <2> QED BY <1>5, <2>1, <2>2
<1> QED BY <1>1, <1>4, <1>5, <1>6, <1>7, <1>9 DEF TableInv, table

LEMMA HandSaveFailsStep ==
  ASSUME TableInv, NEW h \in Hands, HandSaveFails(h), ~overrun'
  PROVE  /\ TableInv' /\ turn = Nobody /\ turn' = Nobody /\ UNCHANGED <<seats, requests, handNumber>>
         /\ DOMAIN hand'.chips = {} /\ hand'.dealer \in Nat
<1>1. /\ Catch(h) /\ ~ \E g \in Hands : UnderWay(g)
      /\ overrun' = (overrun \/ \E g \in Hands : UnderWay(g))
  BY DEF HandSaveFails
<1>2. overrun' = overrun
  BY <1>1 DEF TableInv
<1>3. ~handInProgress
  <2>1. SUFFICES ASSUME handInProgress PROVE FALSE
    OBVIOUS
  <2>2. UnderWay(handNumber)
    BY <2>1 DEF TableInv, Kept, UnderWay, hand
  <2>3. handNumber \notin Hands
    BY <1>1, <2>2
  <2>4. handNumber = 0
    BY <2>3, TableAssumption DEF TableInv, TableTypes, AllHands, Hands
  <2> QED BY <2>1, <2>4 DEF TableInv, Numbered
<1>4. turn = Nobody
  BY <1>3, QuietTable
<1> QED BY <1>1, <1>2, <1>3, <1>4, CatchStep

\* The stacks are written back, and the busted leave.
Paid(d) ==
  [i \in Seats |-> IF i \in Taken /\ seats[i].agent \in DOMAIN d
                   THEN [seats[i] EXCEPT !.stack = d[seats[i].agent]] ELSE seats[i]]
Gone(d) == {i \in Taken : Leaves(Paid(d)[i])}

LEMMA SettledSeats ==
  ASSUME TableInv, NEW h \in Hands, HandSettled(h)
  PROVE  \E d \in Divisions(hand.chips) : LET paid == Paid(d) gone == Gone(d) IN
           /\ \A i \in Taken :
                /\ paid[i].agent = seats[i].agent /\ paid[i].owner = seats[i].owner
                /\ paid[i].kind = seats[i].kind
                /\ paid[i].stack = IF seats[i].agent \in DOMAIN d THEN d[seats[i].agent] ELSE seats[i].stack
           /\ seats' \in [Seats -> Occupants \cup {Nobody}]
           /\ Taken' = Taken \ gone /\ \A i \in Taken' : seats'[i] = paid[i]
           /\ adapters' = adapters \ {seats[i].agent : i \in gone}
           /\ bank' = bank - SumOf([i \in gone |-> paid[i].stack])
           /\ tableStatus' = StatusFor(seats')
<1>0. h = handNumber
  BY NewestHand DEF HandSettled
<1>1. PICK d \in Divisions(hand.chips) :
        LET paid == Paid(d) gone == Gone(d)
        IN /\ seats' = [i \in Seats |-> IF i \in gone THEN Nobody ELSE paid[i]]
           /\ adapters' = adapters \ {seats[i].agent : i \in gone}
           /\ bank' = bank - SumOf([i \in gone |-> paid[i].stack])
           /\ tableStatus' = StatusFor(seats')
  BY <1>0 DEF HandSettled, Paid, Gone, hand
<1> DEFINE paid == Paid(d)  gone == Gone(d)
<1>2. \A a \in DOMAIN d : d[a] \in Int
  <2>1. \A a \in DOMAIN d : d[a] \in 0 .. SumOf(hand.chips)
    BY DEF Divisions
  <2> QED BY <2>1
<1>3. \A i \in Taken :
        /\ paid[i].agent = seats[i].agent /\ paid[i].owner = seats[i].owner
        /\ paid[i].kind = seats[i].kind
        /\ paid[i].stack = IF seats[i].agent \in DOMAIN d THEN d[seats[i].agent] ELSE seats[i].stack
        /\ ~Leaves(paid[i]) => paid[i] \in Occupants
  <2> SUFFICES ASSUME NEW i \in Taken
               PROVE  /\ paid[i].agent = seats[i].agent /\ paid[i].owner = seats[i].owner
                      /\ paid[i].kind = seats[i].kind
                      /\ paid[i].stack = IF seats[i].agent \in DOMAIN d THEN d[seats[i].agent]
                                         ELSE seats[i].stack
                      /\ ~Leaves(paid[i]) => paid[i] \in Occupants
    OBVIOUS
  <2>1. i \in Seats /\ seats[i] \in Occupants
    BY SeatFacts
  <2>2. CASE seats[i].agent \in DOMAIN d
    <3>1. PICK k \in Int : k = d[seats[i].agent]
      BY <1>2, <2>2
    <3>2. paid[i] = [seats[i] EXCEPT !.stack = k]
      BY <2>1, <2>2, <3>1 DEF Paid
    <3> HIDE DEF paid
    <3>3. k > 0 => paid[i] \in Occupants
      BY <2>1, <3>2 DEF Occupants
    <3>4. paid[i].stack = k
      BY <2>1, <3>2 DEF Occupants
    <3>5. /\ paid[i].agent = seats[i].agent /\ paid[i].owner = seats[i].owner
          /\ paid[i].kind = seats[i].kind
      BY <2>1, <3>2 DEF Occupants
    <3> QED BY <2>2, <3>1, <3>3, <3>4, <3>5 DEF Leaves
  <2>3. CASE seats[i].agent \notin DOMAIN d
    BY <2>1, <2>3 DEF Paid
  <2> QED BY <2>2, <2>3
<1>4. \A i \in Seats \ Taken : paid[i] = Nobody
  BY DEF Taken, Paid
<1>5. seats' = [i \in Seats |-> IF i \in gone THEN Nobody ELSE paid[i]]
  BY <1>1
<1>6. gone \subseteq Taken /\ \A i \in Taken : i \notin gone => ~Leaves(paid[i])
  BY DEF Gone
<1>7. /\ adapters' = adapters \ {seats[i].agent : i \in gone}
      /\ bank' = bank - SumOf([i \in gone |-> paid[i].stack])
      /\ tableStatus' = StatusFor(seats')
  BY <1>1
<1> HIDE DEF paid, gone
<1>8. seats' \in [Seats -> Occupants \cup {Nobody}]
  BY <1>3, <1>4, <1>5, <1>6
<1>9. Taken' = Taken \ gone /\ \A i \in Taken' : seats'[i] = paid[i]
  <2>1. Taken \subseteq Seats /\ \A i \in Seats : i \in Taken' <=> seats'[i] # Nobody
    BY DEF Taken
  <2>2. \A i \in Taken \ gone : seats'[i] = paid[i] /\ paid[i] # Nobody
    BY <1>3, <1>5, <1>6, <2>1, TableAssumption
  <2>3. \A i \in Seats : i \in Taken' <=> i \in Taken \ gone
    BY <1>4, <1>5, <2>1, <2>2
  <2>4. Taken' \subseteq Seats
    BY DEF Taken
  <2>5. Taken' = Taken \ gone
    BY <2>1, <2>3, <2>4
  <2> QED BY <2>2, <2>5
<1>10. gone \in SUBSET Taken
  BY <1>6
<1> QED BY <1>3, <1>7, <1>8, <1>9, <1>10 DEF paid, gone

LEMMA HandSettledStep ==
  ASSUME TableInv, NEW h \in Hands, HandSettled(h)
  PROVE  /\ TableInv' /\ turn = Nobody /\ turn' = Nobody /\ UNCHANGED <<requests, handNumber>>
         /\ DOMAIN hand'.chips = {} /\ hand'.dealer \in Nat /\ handNumber = h
<1>1. PICK d \in Divisions(hand.chips) : LET paid == Paid(d) gone == Gone(d) IN
        /\ \A i \in Taken : /\ paid[i].agent = seats[i].agent /\ paid[i].owner = seats[i].owner
                            /\ paid[i].kind = seats[i].kind
        /\ seats' \in [Seats -> Occupants \cup {Nobody}]
        /\ Taken' = Taken \ gone /\ \A i \in Taken' : seats'[i] = paid[i]
        /\ adapters' = adapters \ {seats[i].agent : i \in gone}
        /\ tableStatus' = StatusFor(seats')
  BY SettledSeats
<1> DEFINE gone == Gone(d)
<1>2. /\ hands[h].stage = "saving" /\ pending' = AfterCancel /\ turns' = TurnsWithout(adapters)
      /\ currentHand' = 0 /\ handInProgress' = FALSE
      /\ HandEnds(h, "storing")
      /\ UNCHANGED <<handNumber, seated, requests, overrun>>
  BY DEF HandSettled, Cancel
<1>3. h = handNumber /\ turn = Nobody
  <2>1. h = handNumber
    BY <1>2, NewestHand
  <2> QED BY <1>2, <2>1 DEF TableInv, Numbered, hand
<1>4. \A i \in Taken' : /\ seats'[i].agent = seats[i].agent
                        /\ seats'[i].owner = seats[i].owner /\ seats'[i].kind = seats[i].kind
  BY <1>1
<1>5. adapters' = {seats'[i].agent : i \in Taken'}
  <2>1. adapters = {seats[i].agent : i \in Taken}
        /\ \A i, j \in Taken : seats[i].agent = seats[j].agent => i = j
    BY DEF TableInv, Kept
  <2>2. adapters' = {seats[i].agent : i \in Taken \ gone}
    BY <1>1, <2>1 DEF Gone
  <2> QED BY <1>1, <1>4, <2>2
<1>6. tableStatus' # "in_hand"
  BY <1>1 DEF StatusFor
<1>7. Taken' \subseteq Taken /\ currentHand' \in Nat /\ seats' \in [Seats -> Occupants \cup {Nobody}]
  BY <1>1, <1>2
<1> HIDE DEF gone
<1>8. TableInv' /\ turn' = Nobody /\ DOMAIN hand'.chips = {} /\ hand'.dealer \in Nat
  BY <1>2, <1>3, <1>4, <1>5, <1>6, <1>7, RestKeeps
<1> QED BY <1>2, <1>3, <1>8

\* Whatever else happens at the table, no other turn begins, and who is to move
\* keeps his seat.
LEMMA OthersStep ==
  ASSUME TableInv, Others, ~overrun'
  PROVE  /\ TableInv' /\ turn' \in {turn, Nobody} /\ UNCHANGED <<requests, handNumber>>
         /\ \A a \in Agents : turn # Nobody /\ MineHuman(a) => MineHuman(a)'
<1>1. CASE \E u \in Users, i \in Seats : RemoveAgent(u, i) \/ SitAsHuman(u, i) \/ SitAsAgent(u, i)
  <2>1. PICK u \in Users, i \in Seats : RemoveAgent(u, i) \/ SitAsHuman(u, i) \/ SitAsAgent(u, i)
    BY <1>1
  <2>2. TableInv' /\ UNCHANGED <<hands, turns, requests, handNumber>> /\ tableStatus # "in_hand"
    <3>1. CASE RemoveAgent(u, i)
      <4>1. i \in Taken /\ RemoveFrom(i)
        BY <3>1 DEF RemoveAgent, SeatsOf
      <4>2. UNCHANGED <<hands, turns, requests, handNumber>> /\ tableStatus # "in_hand"
        BY <4>1 DEF RemoveFrom, MayRemove
      <4> QED BY <4>1, <4>2, RemoveStep
    <3>2. CASE SitAsHuman(u, i) \/ SitAsAgent(u, i)
      <4>1. PICK kind : Sit(u, kind, i)
        BY <3>2 DEF SitAsHuman, SitAsAgent
      <4>2. UNCHANGED <<hands, turns, requests, handNumber>> /\ tableStatus # "in_hand"
        BY <4>1 DEF Sit
      <4> QED BY <4>1, <4>2, SitStep
    <3> QED BY <2>1, <3>1, <3>2
  <2>3. turn = Nobody
    BY <2>2, QuietTable DEF TableInv, Kept
  <2>4. turn' = turn
    BY <2>2, HandsRest
  <2> QED BY <2>2, <2>3, <2>4
<1>2. CASE \E u \in Users : LeaveSeat(u)
  <2>1. PICK u \in Users : LeaveSeat(u)
    BY <1>2
  <2>2. /\ TableInv' /\ UNCHANGED <<turn, requests, handNumber>>
        /\ turn # Nobody => \A i \in Taken : /\ i \in Taken' /\ seats'[i].agent = seats[i].agent
                                          /\ seats'[i].owner = seats[i].owner /\ seats'[i].kind = seats[i].kind
    BY <2>1, LeaveStep
  <2> QED BY <2>2 DEF MineHuman, SeatsOf
<1>3. CASE \E u \in Users : AddSpectator(u) \/ RemoveSpectator(u)
  <2>1. UNCHANGED <<table, hands, turns, pending, seated, requests, overrun>>
    BY <1>3 DEF AddSpectator, RemoveSpectator
  <2>2. hand' = hand /\ turn' = turn /\ OthersQuiet' /\ Taken' = Taken
    BY <2>1, HandsRest DEF table, Taken
  <2>3. TableTypes' /\ Kept' /\ Numbered'
    BY <2>1, <2>2 DEF table, TableInv, TableTypes, Kept, Numbered
  <2>4. \A a \in Agents : MineHuman(a) => MineHuman(a)'
    BY <2>1, <2>2 DEF table, MineHuman, SeatsOf
  <2>5. overrun' = FALSE /\ requests' = requests /\ handNumber' = handNumber
    BY <2>1 DEF table, TableInv
  <2> QED BY <2>2, <2>3, <2>4, <2>5 DEF TableInv
<1>4. ASSUME NEW h \in Hands, HandSettled(h) PROVE TableInv' /\ turn = Nobody /\ turn' = Nobody
                                                   /\ UNCHANGED <<requests, handNumber>>
  BY <1>4, HandSettledStep
<1>5. ASSUME NEW h \in Hands, HandFails(h) PROVE TableInv' /\ turn = Nobody /\ turn' = Nobody
                                                 /\ UNCHANGED <<requests, handNumber>>
  BY <1>5, HandFailsStep
<1>6. ASSUME NEW h \in Hands, HandSaveFails(h) PROVE TableInv' /\ turn = Nobody /\ turn' = Nobody
                                                     /\ UNCHANGED <<requests, handNumber>>
  BY <1>6, HandSaveFailsStep
<1>7. ASSUME NEW h \in Hands, HandStored(h)
      PROVE  TableInv' /\ UNCHANGED <<seats, turn, requests, handNumber>>
  BY <1>7, HandStoredStep
<1>8. ASSUME NEW h \in Hands, BotAnswers(h) \/ TimerFires(h)
      PROVE  TableInv' /\ turn' = Nobody /\ UNCHANGED <<seats, requests, handNumber>>
  BY <1>8, TurnOverStep
<1>9. ASSUME UNCHANGED seats, NEW a \in Agents, MineHuman(a) PROVE MineHuman(a)'
  BY <1>9 DEF MineHuman, SeatsOf, Taken
<1> QED BY <1>1, <1>2, <1>3, <1>4, <1>5, <1>6, <1>7, <1>8, <1>9 DEF Others

\* Once a hand has been overrun, it has been.
LEMMA OverrunStays ==
  ASSUME overrun \in BOOLEAN, [TableNext]_tableVars
  PROVE  overrun' \in BOOLEAN /\ (overrun => overrun')
<1>1. CASE \E h \in Hands : HandSaveFails(h)
  BY <1>1 DEF HandSaveFails
<1>2. CASE ~ \E h \in Hands : HandSaveFails(h)
  <2>1. overrun' = overrun
    BY <1>2 DEF TableNext, tableVars, RemoveAgent, RemoveFrom, Sit, SitAsHuman, SitAsAgent, LeaveSeat,
       AddSpectator, RemoveSpectator, CloseTable, DeleteTable, Submit, StartHand, RequestDecision,
       BotAnswers, TimerFires, HandOver, HandSettled, HandStored, HandFails
  <2> QED BY <2>1
<1> QED BY <1>1, <1>2

LEMMA TableStep ==
  ASSUME TableInv, [TableNext]_tableVars, ~overrun'
  PROVE  TableInv'
<1>1. CASE Others
  BY <1>1, OthersStep
<1>2. CASE \/ \E u \in Users : CloseTable(u) \/ DeleteTable(u)
           \/ UNCHANGED tableVars
  <2>1. UNCHANGED <<seats, currentHand, handNumber, adapters, handInProgress, hands, turns, pending,
                    seated, requests, overrun>>
    BY <1>2 DEF CloseTable, DeleteTable, tableVars, table
  <2>2. handInProgress' <=> tableStatus' = "in_hand"
    BY <1>2 DEF CloseTable, DeleteTable, tableVars, table, TableInv, Kept
  <2>3. hand' = hand /\ turn' = turn /\ OthersQuiet' /\ Taken' = Taken
    BY <2>1, HandsRest DEF Taken
  <2>4. TableTypes' /\ Kept' /\ Numbered'
    BY <2>1, <2>2, <2>3 DEF TableInv, TableTypes, Kept, Numbered
  <2> QED BY <2>1, <2>3, <2>4 DEF TableInv
<1>3. ASSUME NEW u \in Users, NEW h \in Hands, Submit(u, h) PROVE TableInv'
  BY <1>3, SubmitStep
<1>4. CASE StartHand
  BY <1>4, StartHandStep
<1>5. ASSUME NEW h \in Hands, RequestDecision(h) PROVE TableInv'
  BY <1>5, RequestDecisionStep
<1>6. ASSUME NEW h \in Hands, HandOver(h) PROVE TableInv'
  BY <1>6, HandOverStep
<1>7. TableNext \/ UNCHANGED tableVars
  OBVIOUS
<1> QED BY <1>1, <1>2, <1>3, <1>4, <1>5, <1>6, <1>7 DEF TableNext, Others

\* No hand has been played.
LEMMA FreshHands ==
  ASSUME hands = NoHands, turns = NoTurns, handNumber = 0
  PROVE  /\ turns \in [AllHands -> {Nobody} \cup TurnTypes] /\ hands = [h \in AllHands |-> hands[h]]
         /\ \A h \in AllHands :
              /\ hands[h] = [stage |-> hands[h].stage, chips |-> hands[h].chips, dealer |-> hands[h].dealer]
              /\ hands[h].stage \in Stages /\ hands[h].dealer \in Nat
              /\ turns[h] = Nobody /\ ~UnderWay(h) /\ DOMAIN hands[h].chips = {}
         /\ turn = Nobody /\ hand.stage = "over" /\ DOMAIN hand.chips = {} /\ handNumber \in AllHands
<1>1. hands = [h \in AllHands |-> [stage |-> IF h = 0 THEN "over" ELSE "none", chips |-> <<>>, dealer |-> 0]]
  BY DEF NoHands, AllHands
<1>2. turns = [h \in AllHands |-> Nobody]
  BY DEF NoTurns, AllHands
<1>3. 0 \in AllHands
  BY TableAssumption DEF AllHands
<1>4. ASSUME NEW h \in AllHands
      PROVE  /\ hands[h] = [stage |-> hands[h].stage, chips |-> hands[h].chips, dealer |-> hands[h].dealer]
             /\ hands[h].stage = (IF h = 0 THEN "over" ELSE "none") /\ hands[h].dealer = 0
             /\ DOMAIN hands[h].chips = {}
  <2>1. PICK s : s = IF h = 0 THEN "over" ELSE "none"
    OBVIOUS
  <2>2. hands[h] = [stage |-> s, chips |-> <<>>, dealer |-> 0]
    BY <1>1, <2>1
  <2> QED BY <2>1, <2>2
<1>5. ASSUME NEW h \in AllHands PROVE hands[h].stage \in Stages /\ ~UnderWay(h) /\ hands[h].dealer \in Nat
  <2>1. hands[h].stage = (IF h = 0 THEN "over" ELSE "none") /\ hands[h].dealer = 0
    BY <1>4
  <2>2. hands[h].stage \in {"over", "none"}
    BY <2>1
  <2> QED BY <2>1, <2>2 DEF Stages, UnderWay
<1>6. turn = Nobody /\ hand.stage = "over" /\ DOMAIN hand.chips = {}
  BY <1>2, <1>3, <1>4 DEF turn, hand
<1>7. turns \in [AllHands -> {Nobody} \cup TurnTypes] /\ hands = [h \in AllHands |-> hands[h]]
  <2>1. PICK f : f = [h \in AllHands |-> [stage |-> IF h = 0 THEN "over" ELSE "none", chips |-> <<>>, dealer |-> 0]]
    OBVIOUS
  <2>2. f = [h \in AllHands |-> f[h]]
    BY <2>1
  <2> QED BY <1>1, <1>2, <2>1, <2>2
<1> QED BY <1>2, <1>3, <1>4, <1>5, <1>6, <1>7

LEMMA TableStart ==
  TableInit => TableInv
<1> SUFFICES ASSUME TableInit PROVE TableInv
  OBVIOUS
<1>1. /\ seats = [i \in Seats |-> Nobody] /\ currentHand = 0 /\ handNumber = 0 /\ tableStatus = "preparing"
      /\ adapters = {} /\ handInProgress = FALSE
      /\ hands = NoHands /\ turns = NoTurns /\ overrun = FALSE
      /\ pending = [a \in Agents |-> NoRequest] /\ seated = 0 /\ requests = 0
  BY DEF TableInit
<1>2. Taken = {}
  BY <1>1 DEF Taken
<1>3. NoRequest \in [hand : Nat, request : Nat] /\ NoRequest.request = 0
  BY DEF NoRequest
<1>4. TableTypes
  BY <1>1, <1>3, FreshHands DEF TableTypes
<1>5. turn = Nobody /\ hand.stage = "over" /\ DOMAIN hand.chips = {}
  BY <1>1, FreshHands
<1>6. Kept
  BY <1>1, <1>2, <1>3, <1>5 DEF Kept
<1>7. Numbered
  BY <1>1, <1>2, <1>3, <1>5 DEF Numbered
<1>8. OthersQuiet
  BY <1>1, FreshHands DEF OthersQuiet, Quiet
<1> QED BY <1>1, <1>4, <1>6, <1>7, <1>8 DEF TableInv

\* What the invariant says is what HandKeepsItsPlayers does.
LEMMA KeptByAll ==
  ASSUME TableInv
  PROVE  HandKeepsItsPlayers
<1>1. handInProgress <=> UnderWay(handNumber)
  BY DEF TableInv, Kept, UnderWay, hand
<1>2. \A h \in Hands : UnderWay(h) \/ turns[h] # Nobody => h = handNumber
  BY NewestHand DEF UnderWay
<1> QED BY <1>1, <1>2 DEF TableInv, Kept, HandKeepsItsPlayers

\* A hand keeps its players from the first request to the last, whatever is asked
\* of the table meanwhile, and whichever save fails: the part of TableSound that is
\* about the orchestrator's control (addAgent, removeAgent, leaveSeat, startHand
\* with its catch branch, submitHumanAction), for any number of users, seats, hands
\* and requests.  The one exception is overrun, that a hand's last save was refused
\* when the next hand was already under way.
THEOREM TableKeepsItsPlayers == TableSpec => [](overrun \/ HandKeepsItsPlayers)
<1> DEFINE Inv == overrun \in BOOLEAN /\ (overrun \/ TableInv)
<1>1. TableInit => Inv
  BY TableStart DEF TableInit
<1>2. Inv /\ [TableNext]_tableVars => Inv'
  BY OverrunStays, TableStep
<1>3. Inv => overrun \/ HandKeepsItsPlayers
  BY KeptByAll
<1> QED BY <1>1, <1>2, <1>3, PTL DEF TableSpec

-----------------------------------------------------------------------------
(* The table: its chips, and the bounds of its types.                       *)

Stacks == [i \in Taken |-> seats[i].stack]

LEMMA StacksOf ==
  ASSUME NEW t \in SUBSET Seats, NEW s, \A i \in t : s[i] \in Occupants
  PROVE  LET stacks == [i \in t |-> s[i].stack]
         IN /\ Summable(stacks) /\ DOMAIN stacks = t
            /\ \A i \in t : stacks[i] = s[i].stack /\ stacks[i] \in Nat \ {0}
<1>1. IsFiniteSet(t)
  <2>1. IsFiniteSet(Seats)
    BY FS_Interval, TableAssumption DEF Seats
  <2> QED BY <2>1, FS_Subset
<1>2. \A i \in t : s[i].stack \in Nat \ {0}
  BY DEF Occupants
<1> QED BY <1>1, <1>2 DEF Summable

LEMMA StacksSummable ==
  ASSUME TableInv
  PROVE  /\ Summable(Stacks) /\ DOMAIN Stacks = Taken
         /\ \A i \in Taken : Stacks[i] = seats[i].stack /\ Stacks[i] \in Nat \ {0}
<1>1. Taken \in SUBSET Seats /\ \A i \in Taken : seats[i] \in Occupants
  BY SeatFacts DEF Taken
<1> QED BY <1>1, StacksOf DEF Stacks

\* A step that leaves the stacks, and deals nobody in, leaves the accounts.
LEMMA StacksRest ==
  ASSUME ChipsAccounted, Stacks' = Stacks, Taken' = Taken, bank' = bank,
         \A i \in Taken : seats'[i].agent = seats[i].agent,
         hand'.chips = hand.chips \/ DOMAIN hand'.chips = {}
  PROVE  ChipsAccounted'
<1>1. bank' = SumOf(Stacks')
  BY DEF ChipsAccounted, Stacks
<1>2. \A i \in Taken : seats'[i].stack = seats[i].stack
  <2>1. \A i \in Taken : Stacks[i] = seats[i].stack
    BY DEF Stacks
  <2>2. \A i \in Taken' : Stacks'[i] = seats'[i].stack
    BY DEF Stacks
  <2> QED BY <2>1, <2>2
<1>3. \A i \in Taken' : seats'[i].agent \in DOMAIN hand'.chips =>
        seats'[i].stack = hand'.chips[seats'[i].agent]
  BY <1>2 DEF ChipsAccounted
<1> QED BY <1>1, <1>3 DEF ChipsAccounted, Stacks

LEMMA NewOccupant ==
  ASSUME TableInv, NEW u \in Users, NEW kind \in {"human", "mock"}, seated < MaxAgents
  PROVE  [agent |-> seated + 1, owner |-> u, kind |-> kind, stack |-> BuyIn, sitOut |-> FALSE] # Nobody
<1>1. seated + 1 \in Agents /\ BuyIn \in Nat \ {0}
  BY TableAssumption DEF TableInv, TableTypes, Agents
<1>2. [agent |-> seated + 1, owner |-> u, kind |-> kind, stack |-> BuyIn, sitOut |-> FALSE] \in Occupants
  BY <1>1 DEF Occupants
<1> QED BY <1>2, TableAssumption

\* Who sits down brings what the bank books.
LEMMA SitAccounts ==
  ASSUME TableInv, TableInv', ChipsAccounted, NEW u \in Users, NEW kind, NEW i \in Seats, Sit(u, kind, i)
  PROVE  ChipsAccounted'
<1> DEFINE new == [agent |-> seated + 1, owner |-> u, kind |-> kind, stack |-> BuyIn, sitOut |-> FALSE]
<1>1. /\ i \notin Taken /\ seats' = [seats EXCEPT ![i] = new] /\ bank' = bank + BuyIn
      /\ hand' = hand /\ tableStatus # "in_hand" /\ seated < MaxAgents /\ kind \in {"human", "mock"}
  BY DEF Sit, hand
<1>2. new.stack = BuyIn
  OBVIOUS
<1> HIDE DEF new
<1>3. seats'[i] = new /\ \A j \in Seats \ {i} : seats'[j] = seats[j]
  BY <1>1 DEF TableInv, TableTypes
<1>4. Taken' = Taken \cup {i}
  <2>1. i \in Taken'
    BY <1>1, <1>3, NewOccupant DEF Taken, new
  <2> QED BY <1>3, <2>1 DEF Taken
<1>5. /\ Summable(Stacks') /\ DOMAIN Stacks' = Taken' /\ Stacks'[i] = BuyIn
      /\ \A j \in Taken' : Stacks'[j] = seats'[j].stack
  <2>1. Taken' \in SUBSET Seats /\ \A j \in Taken' : seats'[j] \in Occupants
    BY DEF TableInv, TableTypes, Taken
  <2>2. /\ Summable(Stacks') /\ DOMAIN Stacks' = Taken'
        /\ \A j \in Taken' : Stacks'[j] = seats'[j].stack
    BY <2>1, StacksOf DEF Stacks
  <2> QED BY <2>2, <1>2, <1>3, <1>4
<1>6. Restrict(Stacks', DOMAIN Stacks' \ {i}) = Stacks
  <2>1. DOMAIN Stacks' \ {i} = Taken
    BY <1>1, <1>4, <1>5
  <2>2. \A j \in Taken : Stacks'[j] = seats[j].stack
    BY <1>1, <1>3, <1>4, <1>5 DEF Taken
  <2> QED BY <2>1, <2>2 DEF Restrict, Stacks
<1>7. SumOf(Stacks') = BuyIn + SumOf(Stacks)
  BY <1>4, <1>5, <1>6, SumRemove
<1>8. bank' = SumOf(Stacks')
  <2>1. bank = SumOf(Stacks) /\ SumOf(Stacks) \in Int /\ BuyIn \in Nat
    BY StacksSummable, SumRemove, TableAssumption DEF ChipsAccounted, Stacks
  <2> QED BY <1>1, <1>7, <2>1
<1>9. DOMAIN hand'.chips = {}
  <2>1. ~handInProgress
    BY <1>1 DEF TableInv, Kept
  <2> QED BY <1>1, <2>1, QuietTable
<1> QED BY <1>8, <1>9 DEF ChipsAccounted, Stacks

\* Who leaves between two hands takes his stack.
LEMMA RemoveAccounts ==
  ASSUME TableInv, ChipsAccounted, NEW i \in Taken, RemoveFrom(i)
  PROVE  ChipsAccounted'
<1>1. /\ tableStatus # "in_hand" /\ seats' = [seats EXCEPT ![i] = Nobody]
      /\ bank' = bank - seats[i].stack /\ hand' = hand
  BY DEF RemoveFrom, MayRemove, hand
<1>2. Taken' = Taken \ {i} /\ \A j \in Taken \ {i} : seats'[j] = seats[j]
  BY <1>1 DEF TableInv, TableTypes, Taken
<1>3. Restrict(Stacks, DOMAIN Stacks \ {i}) = Stacks'
  <2>1. DOMAIN Stacks = Taken /\ \A j \in Taken : Stacks[j] = seats[j].stack
    BY DEF Stacks
  <2> QED BY <1>2, <2>1 DEF Restrict, Stacks
<1>4. /\ Summable(Stacks) /\ i \in DOMAIN Stacks /\ Stacks[i] = seats[i].stack /\ Stacks[i] \in Int
      /\ Stacks' = Restrict(Stacks, DOMAIN Stacks \ {i})
  BY <1>3, StacksSummable
<1>5. SumOf(Stacks) = seats[i].stack + SumOf(Stacks')
  BY <1>4, SumRemove
<1>6. bank' = SumOf(Stacks')
  <2>1. bank = SumOf(Stacks)
    BY DEF ChipsAccounted, Stacks
  <2>2. SumOf(Stacks') \in Int
    BY <1>4, RestrictSummable, SumRemove
  <2> QED BY <1>1, <1>4, <1>5, <2>1, <2>2
<1>7. DOMAIN hand'.chips = {}
  <2>1. ~handInProgress
    BY <1>1 DEF TableInv, Kept
  <2> QED BY <1>1, <2>1, QuietTable
<1> QED BY <1>6, <1>7 DEF ChipsAccounted, Stacks

LEMMA LeaveAccounts ==
  ASSUME TableInv, ChipsAccounted, NEW u \in Users, LeaveSeat(u)
  PROVE  ChipsAccounted'
<1>1. PICK i \in SeatsOf(u) :
        IF tableStatus = "in_hand"
        THEN /\ seats' = [seats EXCEPT ![i].sitOut = TRUE]
             /\ UNCHANGED <<hand, bank>>
        ELSE RemoveFrom(i)
  <2>1. SeatsOf(u) # {} /\ SeatsOf(u) \in SUBSET Seats
    BY DEF LeaveSeat, SeatsOf, Taken
  <2>2. Min(SeatsOf(u)) \in SeatsOf(u)
    BY <2>1, FirstSeat
  <2>3. UNCHANGED <<hands, handNumber, bank>> => UNCHANGED <<hand, bank>>
    BY DEF hand
  <2> QED BY <2>2, <2>3 DEF LeaveSeat
<1>2. i \in Taken
  BY DEF SeatsOf
<1>3. CASE tableStatus # "in_hand"
  BY <1>1, <1>2, <1>3, RemoveAccounts
<1>4. CASE tableStatus = "in_hand"
  <2> DEFINE marked == [seats[i] EXCEPT !.sitOut = TRUE]
  <2>1. seats[i] \in Occupants /\ i \in Seats
    BY <1>2, SeatFacts
  <2>2. marked \in Occupants /\ marked.agent = seats[i].agent /\ marked.stack = seats[i].stack
    BY <2>1 DEF Occupants
  <2>3. seats' = [seats EXCEPT ![i] = marked]
    BY <1>1, <1>4, <2>1 DEF TableInv, TableTypes
  <2>4. marked # Nobody
    BY <2>2, TableAssumption
  <2> HIDE DEF marked
  <2>5. /\ Taken' = Taken
        /\ \A j \in Taken : seats'[j].agent = seats[j].agent /\ seats'[j].stack = seats[j].stack
    BY <1>2, <2>1, <2>2, <2>3, <2>4 DEF TableInv, TableTypes, Taken
  <2>6. Stacks' = Stacks
    BY <2>5 DEF Stacks
  <2> QED BY <1>1, <1>4, <2>5, <2>6, StacksRest
<1> QED BY <1>3, <1>4

\* A hand begins with the stacks its players have.
LEMMA StartAccounts ==
  ASSUME TableInv, ChipsAccounted, StartHand
  PROVE  ChipsAccounted'
<1>1. /\ UNCHANGED <<seats, bank>>
      /\ hand'.chips = [a \in {seats[i].agent : i \in Playing} |-> seats[SeatOfAgent(a)].stack]
  <2>1. hand' = NewHand
    BY StartHandStep
  <2>2. NewHand.chips = [a \in {seats[i].agent : i \in Playing} |-> seats[SeatOfAgent(a)].stack]
    BY DEF NewHand
  <2> QED BY <2>1, <2>2 DEF StartHand
<1>2. Taken' = Taken
  BY <1>1 DEF Taken
<1>3. ASSUME NEW i \in Taken, seats[i].agent \in DOMAIN hand'.chips
      PROVE  seats[i].stack = hand'.chips[seats[i].agent]
  <2>1. SeatOfAgent(seats[i].agent) = i
    BY DEF SeatOfAgent, TableInv, Kept
  <2> QED BY <1>1, <1>3, <2>1
<1> QED BY <1>1, <1>2, <1>3 DEF ChipsAccounted

\* The seats of a hand's players, and any amounts of theirs: by seat or by agent
\* they add up to the same.
AtHand == {i \in Taken : seats[i].agent \in DOMAIN hand.chips}

LEMMA ByAgent ==
  ASSUME TableInv, NEW f, DOMAIN f = AtHand, NEW e, DOMAIN e = DOMAIN hand.chips,
         \A i \in AtHand : f[i] \in Int /\ f[i] = e[seats[i].agent]
  PROVE  SumOf(f) = SumOf(e)
<1> DEFINE m == [i \in AtHand |-> seats[i].agent]
<1>1. \A i, j \in AtHand : seats[i].agent = seats[j].agent => i = j
  BY DEF TableInv, Kept, AtHand
<1>2. \A a \in DOMAIN e : \E i \in AtHand : seats[i].agent = a
  BY DEF TableInv, Kept, AtHand
<1>3. Summable(e)
  <2>1. \A a \in DOMAIN e : e[a] \in Int
    BY <1>2
  <2>2. DOMAIN e \subseteq 1 .. MaxAgents
    BY <1>2, SeatFacts DEF Agents, AtHand
  <2>3. IsFiniteSet(1 .. MaxAgents)
    BY UpTo, TableAssumption
  <2>4. IsFiniteSet(DOMAIN e)
    BY <2>2, <2>3, FS_Subset
  <2> QED BY <2>1, <2>4 DEF Summable
<1>4. Summable(f)
  <2>1. AtHand \subseteq Seats /\ IsFiniteSet(Seats)
    <3>1. IsFiniteSet(Seats)
      BY FS_Interval, TableAssumption DEF Seats
    <3> QED BY <3>1 DEF AtHand, Taken
  <2>2. IsFiniteSet(AtHand)
    BY <2>1, FS_Subset
  <2> QED BY <2>2 DEF Summable
<1>5. \A i \in AtHand : seats[i].agent \in DOMAIN e
  BY DEF AtHand
<1>6. m \in [DOMAIN f -> DOMAIN e] /\ \A i \in AtHand : m[i] = seats[i].agent
  BY <1>5
<1> HIDE DEF m
<1>7. \A x, y \in DOMAIN f : m[x] = m[y] => x = y
  BY <1>1, <1>6
<1>8. \A z \in DOMAIN e : \E x \in DOMAIN f : m[x] = z
  BY <1>2, <1>6
<1>9. \A x \in DOMAIN f : f[x] = e[m[x]]
  BY <1>6
<1> QED BY <1>3, <1>4, <1>6, <1>7, <1>8, <1>9, SumReindex

\* A hand divides its players' chips among them; who is out leaves with what he has.
LEMMA SettledAccounts ==
  ASSUME TableInv, ChipsAccounted, NEW h \in Hands, HandSettled(h)
  PROVE  ChipsAccounted'
<1>1. PICK d \in Divisions(hand.chips) : LET paid == Paid(d) gone == Gone(d) IN
        /\ \A i \in Taken :
             paid[i].stack = IF seats[i].agent \in DOMAIN d THEN d[seats[i].agent] ELSE seats[i].stack
        /\ Taken' = Taken \ gone /\ \A i \in Taken' : seats'[i] = paid[i]
        /\ bank' = bank - SumOf([i \in gone |-> paid[i].stack])
  BY SettledSeats
<1> DEFINE paid == Paid(d)
           gone == Gone(d)
           P == [i \in Taken |-> paid[i].stack]
           Rest == Taken \ AtHand
           Stay == Taken \ gone
<1>2. DOMAIN d = DOMAIN hand.chips /\ SumOf(d) = SumOf(hand.chips) /\ \A a \in DOMAIN d : d[a] \in Int
  <2>1. /\ DOMAIN d = DOMAIN hand.chips /\ SumOf(d) = SumOf(hand.chips)
        /\ \A a \in DOMAIN d : d[a] \in 0 .. SumOf(hand.chips)
    BY DEF Divisions
  <2> QED BY <2>1
<1>3. Summable(Stacks) /\ DOMAIN Stacks = Taken /\ \A i \in Taken : Stacks[i] = seats[i].stack /\ Stacks[i] \in Int
  BY StacksSummable
<1>4. Summable(P) /\ DOMAIN P = Taken
      /\ \A i \in Taken : P[i] = IF i \in AtHand THEN d[seats[i].agent] ELSE Stacks[i]
  <2>1. \A i \in Taken : P[i] = IF i \in AtHand THEN d[seats[i].agent] ELSE Stacks[i]
    BY <1>1, <1>2, <1>3 DEF AtHand
  <2>2. DOMAIN P = Taken
    OBVIOUS
  <2> HIDE DEF P
  <2>3. \A i \in AtHand : d[seats[i].agent] \in Int
    BY <1>2 DEF AtHand
  <2> QED BY <1>3, <2>1, <2>2, <2>3 DEF Summable
<1>5. /\ AtHand \in SUBSET Taken /\ Stay \in SUBSET Taken /\ gone = Taken \ Stay /\ Rest = Taken \ AtHand
      /\ \A i \in Taken : paid[i].stack = P[i]
  BY DEF AtHand, Gone
<1>6. [i \in gone |-> paid[i].stack] = Restrict(P, gone)
  <2>1. \A i \in gone : P[i] = paid[i].stack
    BY <1>5
  <2> HIDE DEF P, gone, paid
  <2> QED BY <2>1 DEF Restrict
<1>7. Restrict(P, Stay) = Stacks'
  <2>1. Taken' = Stay /\ \A i \in Stay : seats'[i].stack = P[i]
    BY <1>1, <1>5
  <2> HIDE DEF P, Stay
  <2> QED BY <2>1 DEF Restrict, Stacks
<1>8. Restrict(P, Rest) = Restrict(Stacks, Rest)
  <2>1. \A i \in Rest : P[i] = Stacks[i]
    BY <1>4
  <2> HIDE DEF P, Rest
  <2> QED BY <2>1 DEF Restrict
<1>16. bank' = bank - SumOf(Restrict(P, gone))
  BY <1>1, <1>6
<1> HIDE DEF P, Rest, Stay, paid, gone
<1>9. SumOf(Restrict(P, AtHand)) = SumOf(d)
  <2>1. DOMAIN Restrict(P, AtHand) = AtHand /\ \A i \in AtHand : Restrict(P, AtHand)[i] = P[i]
    BY <1>4, <1>5, RestrictSummable
  <2>2. \A i \in AtHand : P[i] \in Int /\ P[i] = d[seats[i].agent]
    BY <1>4, <1>5 DEF Summable
  <2> QED BY <1>2, <2>1, <2>2, ByAgent
<1>10. SumOf(Restrict(Stacks, AtHand)) = SumOf(hand.chips)
  <2>1. DOMAIN Restrict(Stacks, AtHand) = AtHand
        /\ \A i \in AtHand : Restrict(Stacks, AtHand)[i] = Stacks[i]
    BY <1>3, <1>5, RestrictSummable
  <2>2. \A i \in AtHand : Stacks[i] \in Int /\ Stacks[i] = hand.chips[seats[i].agent]
    BY <1>3, <1>5 DEF ChipsAccounted, AtHand
  <2> QED BY <2>1, <2>2, ByAgent
<1>11. SumOf(P) = SumOf(Stacks)
  <2>1. SumOf(P) = SumOf(Restrict(P, AtHand)) + SumOf(Restrict(P, Rest))
    BY <1>4, <1>5, SumSplit
  <2>2. SumOf(Stacks) = SumOf(Restrict(Stacks, AtHand)) + SumOf(Restrict(Stacks, Rest))
    BY <1>3, <1>5, SumSplit
  <2> QED BY <1>2, <1>8, <1>9, <1>10, <2>1, <2>2
<1>12. SumOf(P) = SumOf(Restrict(P, Stay)) + SumOf(Restrict(P, gone))
  BY <1>4, <1>5, SumSplit
<1>13. SumOf(Restrict(P, Stay)) \in Int /\ SumOf(Restrict(P, gone)) \in Int
  <2>1. Summable(Restrict(P, Stay)) /\ Summable(Restrict(P, gone))
    BY <1>4, <1>5, RestrictSummable
  <2> QED BY <2>1, SumRemove
<1>14. bank' = SumOf(Stacks')
  <2>1. bank = SumOf(Stacks)
    BY DEF ChipsAccounted, Stacks
  <2>2. SumOf(Restrict(P, Stay)) = SumOf(Stacks')
    BY <1>7
  <2> DEFINE stays == SumOf(Restrict(P, Stay))  goes == SumOf(Restrict(P, gone))
  <2>3. bank = stays + goes /\ bank' = bank - goes /\ stays \in Int /\ goes \in Int
    BY <1>11, <1>12, <1>13, <1>16, <2>1
  <2> HIDE DEF stays, goes
  <2>4. bank' = stays
    BY <2>3
  <2> QED BY <2>2, <2>4 DEF stays
<1>15. DOMAIN hand'.chips = {}
  BY HandSettledStep
<1> QED BY <1>14, <1>15 DEF ChipsAccounted, Stacks

\* The bounds of the table's counters, and its other types.
BoundsInv ==
  /\ {live, handInProgress} \subseteq BOOLEAN
  /\ tableStatus \in {"preparing", "in_hand", "paused", "completed"}
  /\ currentHand \in 0 .. MaxHands
  /\ seated \in 0 .. MaxAgents /\ requests \in 0 .. MaxRequests
  /\ spectators \subseteq Users
  /\ \A a \in Agents : pending[a].hand <= MaxHands

\* A request is made in the hand that runs.
LEMMA AskBounds ==
  ASSUME TableInv, BoundsInv, NEW a \in Agents, NEW h \in 0 .. MaxHands, AskFor(a, h)
  PROVE  requests' \in 0 .. MaxRequests /\ \A b \in Agents : pending'[b].hand <= MaxHands
<1>1. requests' \in 0 .. MaxRequests
  BY TableAssumption DEF AskFor, BoundsInv
<1> DEFINE new == [hand |-> h, request |-> requests']
<1>2. new.hand <= MaxHands /\ pending' \in {pending, [pending EXCEPT ![a] = new]}
  BY TableAssumption DEF AskFor
<1> HIDE DEF new
<1>3. \A b \in Agents : pending'[b] \in {pending[b], new}
  BY <1>2 DEF TableInv, TableTypes
<1> QED BY <1>1, <1>2, <1>3 DEF BoundsInv

\* The catch branch leaves the bounds.
LEMMA CatchBounds ==
  ASSUME TableInv, BoundsInv, NEW h, Catch(h)
  PROVE  BoundsInv'
<1>1. MaxHands \in Nat /\ NoRequest.hand <= MaxHands
  BY TableAssumption DEF NoRequest
<1>2. StatusFor(seats) \in {"preparing", "paused"}
  BY DEF StatusFor
<1>3. \A b \in Agents : AfterCancel[b].hand <= MaxHands
  BY <1>1 DEF AfterCancel, BoundsInv
<1> QED BY <1>2, <1>3 DEF Catch, Cancel, BoundsInv

LEMMA BoundsStep ==
  ASSUME TableInv, BoundsInv, [TableNext]_tableVars
  PROVE  BoundsInv'
<1>0. /\ MaxHands \in Nat /\ NoRequest.hand <= MaxHands
      /\ AllHands = 0 .. MaxHands /\ handNumber \in AllHands
  BY TableAssumption, NewestHand DEF NoRequest, AllHands
<1>1. CASE StartHand
  <2>1. /\ handNumber' = handNumber + 1 /\ currentHand' = handNumber' /\ handNumber < MaxHands
        /\ handInProgress' = TRUE /\ tableStatus' = "in_hand" /\ UNCHANGED <<live, spectators, seated>>
    BY <1>1 DEF StartHand
  <2>2. handNumber' \in 0 .. MaxHands
    BY <1>0, <2>1
  <2>3. PICK i \in Playing : AskFor(seats[i].agent, handNumber')
    BY <1>1 DEF StartHand
  <2>4. seats[i].agent \in Agents
    BY SeatFacts DEF Playing
  <2>5. PICK a \in Agents, h \in 0 .. MaxHands : a = seats[i].agent /\ h = handNumber'
    BY <2>2, <2>4
  <2>6. requests' \in 0 .. MaxRequests /\ \A b \in Agents : pending'[b].hand <= MaxHands
    BY <2>3, <2>5, AskBounds
  <2> QED BY <2>1, <2>2, <2>6 DEF BoundsInv
<1>2. ASSUME NEW h \in Hands, RequestDecision(h) PROVE BoundsInv'
  <2>1. h = handNumber
    BY <1>2, RequestDecisionStep
  <2>2. PICK a \in DOMAIN hand.chips : AskFor(a, handNumber)
    BY <1>2, <2>1 DEF RequestDecision, hand
  <2>3. a \in Agents /\ handNumber \in 0 .. MaxHands
    <3>1. PICK i \in Taken : a = seats[i].agent
      BY DEF TableInv, Kept
    <3>2. a \in Agents
      BY <3>1, SeatFacts
    <3> QED BY <1>0, <3>2
  <2>4. requests' \in 0 .. MaxRequests /\ \A b \in Agents : pending'[b].hand <= MaxHands
    BY <2>2, <2>3, AskBounds
  <2> QED BY <1>2, <2>4 DEF RequestDecision, table, BoundsInv
<1>3. ASSUME NEW u \in Users, NEW h \in Hands, Submit(u, h) PROVE BoundsInv'
  <2>1. PICK a : pending' = [pending EXCEPT ![a] = NoRequest]
    BY <1>3 DEF Submit
  <2>2. \A b \in Agents : pending'[b] \in {pending[b], NoRequest}
    BY <2>1 DEF TableInv, TableTypes
  <2>3. UNCHANGED <<table, spectators, seated, requests>>
    BY <1>3 DEF Submit
  <2> QED BY <1>0, <2>2, <2>3 DEF BoundsInv, table
<1>4. ASSUME NEW h \in Hands, HandSettled(h) PROVE BoundsInv'
  <2>1. /\ pending' = AfterCancel /\ handInProgress' = FALSE /\ currentHand' = 0
        /\ tableStatus' = StatusFor(seats') /\ UNCHANGED <<live, spectators, seated, requests>>
    BY <1>4 DEF HandSettled, Cancel
  <2>2. tableStatus' \in {"preparing", "paused"}
    BY <2>1 DEF StatusFor
  <2>3. \A b \in Agents : pending'[b].hand <= MaxHands
    BY <1>0, <2>1 DEF AfterCancel, BoundsInv
  <2>4. currentHand' \in 0 .. MaxHands
    BY <1>0, <2>1
  <2> QED BY <2>1, <2>2, <2>3, <2>4 DEF BoundsInv
<1>5. ASSUME NEW h \in Hands, HandFails(h) \/ HandSaveFails(h) PROVE BoundsInv'
  BY <1>5, CatchBounds DEF HandFails, HandSaveFails
<1>6. ASSUME NEW h \in Hands, BotAnswers(h) \/ TimerFires(h) \/ HandOver(h) \/ HandStored(h)
      PROVE  BoundsInv'
  BY <1>6 DEF BotAnswers, TimerFires, HandOver, HandStored, table, BoundsInv
<1>7. CASE UNCHANGED tableVars
  BY <1>7 DEF tableVars, table, BoundsInv
<1>8. CASE \E u \in Users : AddSpectator(u) \/ RemoveSpectator(u) \/ CloseTable(u) \/ DeleteTable(u)
  BY <1>8 DEF AddSpectator, RemoveSpectator, CloseTable, DeleteTable, table, BoundsInv
<1>9. ASSUME NEW u \in Users, NEW kind, NEW i \in Seats, Sit(u, kind, i)
      PROVE  BoundsInv'
  <2>1. seated' \in 0 .. MaxAgents
    BY <1>9, TableAssumption DEF Sit, BoundsInv
  <2> QED BY <1>9, <2>1 DEF Sit, BoundsInv
<1>10. ASSUME NEW i, RemoveFrom(i) PROVE BoundsInv'
  BY <1>10 DEF RemoveFrom, BoundsInv
<1>11. ASSUME NEW u \in Users, LeaveSeat(u) PROVE BoundsInv'
  <2>1. CASE tableStatus = "in_hand"
    BY <1>11, <2>1 DEF LeaveSeat, BoundsInv
  <2>2. CASE tableStatus # "in_hand"
    BY <1>10, <1>11, <2>2 DEF LeaveSeat
  <2> QED BY <2>1, <2>2
<1>12. CASE \E u \in Users, i \in Seats : RemoveAgent(u, i) \/ SitAsHuman(u, i) \/ SitAsAgent(u, i)
  BY <1>9, <1>10, <1>12 DEF RemoveAgent, SitAsHuman, SitAsAgent
<1> QED BY <1>1, <1>2, <1>3, <1>4, <1>5, <1>6, <1>7, <1>8, <1>11, <1>12 DEF TableNext

\* Whatever leaves the seats and the bank alone, and deals nobody in, leaves the
\* accounts.
LEMMA SeatsRest ==
  ASSUME ChipsAccounted, UNCHANGED <<seats, bank>>,
         hand'.chips = hand.chips \/ DOMAIN hand'.chips = {}
  PROVE  ChipsAccounted'
<1>1. Taken' = Taken
  BY DEF Taken
<1>2. Stacks' = Stacks
  BY <1>1 DEF Stacks
<1> QED BY <1>1, <1>2, StacksRest

LEMMA AccountsStep ==
  ASSUME TableInv, TableInv', ChipsAccounted, [TableNext]_tableVars, ~overrun'
  PROVE  ChipsAccounted'
<1>1. CASE \E u \in Users, i \in Seats : RemoveAgent(u, i) \/ SitAsHuman(u, i) \/ SitAsAgent(u, i)
  <2>1. \A u \in Users, i \in Seats : RemoveAgent(u, i) => i \in Taken /\ RemoveFrom(i)
    BY DEF RemoveAgent, SeatsOf
  <2> QED BY <1>1, <2>1, SitAccounts, RemoveAccounts DEF SitAsHuman, SitAsAgent
<1>2. CASE \E u \in Users : LeaveSeat(u)
  BY <1>2, LeaveAccounts
<1>3. CASE StartHand
  BY <1>3, StartAccounts
<1>4. ASSUME NEW h \in Hands, HandSettled(h) PROVE ChipsAccounted'
  BY <1>4, SettledAccounts
<1>5. ASSUME NEW h \in Hands, HandFails(h) \/ HandSaveFails(h) PROVE ChipsAccounted'
  <2>1. DOMAIN hand'.chips = {}
    BY <1>5, HandFailsStep, HandSaveFailsStep
  <2>2. UNCHANGED <<seats, bank>>
    BY <1>5 DEF HandFails, HandSaveFails, Catch
  <2> QED BY <2>1, <2>2, SeatsRest
<1>6. ASSUME NEW h \in Hands, HandStored(h) \/ HandOver(h) PROVE ChipsAccounted'
  <2>1. hand'.chips = hand.chips \/ DOMAIN hand'.chips = {}
    BY <1>6, HandStoredStep, HandOverStep
  <2>2. UNCHANGED <<seats, bank>>
    BY <1>6 DEF HandStored, HandOver, table
  <2> QED BY <2>1, <2>2, SeatsRest
<1>7. CASE \/ \E u \in Users : \/ AddSpectator(u) \/ RemoveSpectator(u) \/ CloseTable(u) \/ DeleteTable(u)
                               \/ \E h \in Hands : Submit(u, h)
           \/ \E h \in Hands : RequestDecision(h) \/ BotAnswers(h) \/ TimerFires(h)
           \/ UNCHANGED tableVars
  <2>1. UNCHANGED <<seats, bank, hands, handNumber>>
    BY <1>7 DEF AddSpectator, RemoveSpectator, CloseTable, DeleteTable, Submit, RequestDecision,
                BotAnswers, TimerFires, tableVars, table
  <2>2. hand'.chips = hand.chips
    BY <2>1 DEF hand
  <2> QED BY <2>1, <2>2, SeatsRest
<1> QED BY <1>1, <1>2, <1>3, <1>4, <1>5, <1>6, <1>7 DEF TableNext

\* The types that TableTypeOK adds to the proof's.
LEMMA TypesByAll ==
  ASSUME TableInv, BoundsInv, bank \in Nat
  PROVE  TableTypeOK
<1>1. MaxHands \in Nat /\ AllHands = 0 .. MaxHands
  BY TableAssumption DEF AllHands
<1>2. adapters \subseteq Agents
  BY SeatFacts DEF TableInv, Kept
<1>3. turns \in [0 .. MaxHands -> {Nobody} \cup [agent : Agents, request : 1 .. MaxRequests]]
  <2>1. ASSUME turn # Nobody PROVE turn \in [agent : Agents, request : 1 .. MaxRequests]
    <3>1. turn \in TurnTypes /\ turn.request <= requests /\ requests <= MaxRequests /\ requests \in Nat
      <4>1. turn \in TurnTypes
        BY <2>1, NewestHand
      <4>2. turn.request <= requests
        BY <2>1 DEF TableInv, Numbered
      <4> QED BY <4>1, <4>2, TableAssumption DEF BoundsInv
    <3>2. turn.request \in 1 .. MaxRequests
      BY <3>1, TableAssumption DEF TurnTypes
    <3> QED BY <3>1, <3>2 DEF TurnTypes
  <2>2. ASSUME NEW h \in AllHands, h # handNumber PROVE turns[h] = Nobody
    BY <2>2 DEF TableInv, OthersQuiet, Quiet
  <2>3. ASSUME NEW h \in AllHands
        PROVE  turns[h] \in {Nobody} \cup [agent : Agents, request : 1 .. MaxRequests]
    BY <2>1, <2>2 DEF turn
  <2>4. turns \in [AllHands -> {Nobody} \cup TurnTypes]
    BY DEF TableInv, TableTypes
  <2> QED BY <1>1, <2>3, <2>4
<1>4. pending \in [Agents -> [hand : 0 .. MaxHands, request : 0 .. MaxRequests]]
  <2>1. ASSUME NEW a \in Agents PROVE pending[a] \in [hand : 0 .. MaxHands, request : 0 .. MaxRequests]
    <3>1. /\ pending[a] \in [hand : Nat, request : Nat] /\ pending[a].hand <= MaxHands
          /\ pending[a].request <= requests /\ requests <= MaxRequests /\ requests \in Nat
      BY TableAssumption DEF TableInv, TableTypes, Numbered, BoundsInv
    <3>2. pending[a].hand \in 0 .. MaxHands /\ pending[a].request \in 0 .. MaxRequests
      BY <3>1, TableAssumption
    <3> QED BY <3>1, <3>2
  <2> QED BY <2>1 DEF TableInv, TableTypes
<1>5. \A h \in 0 .. MaxHands : hands[h].stage \in Stages /\ hands[h].dealer \in Nat
  BY <1>1 DEF TableInv, TableTypes
<1> QED BY <1>1, <1>2, <1>3, <1>4, <1>5 DEF TableInv, TableTypes, BoundsInv, TableTypeOK

\* The table is sound, for any number of users, seats, hands and requests, and any
\* stacks: whatever happens between two steps of a hand (sitting down, leaving,
\* busting, closing, deleting, a save that fails), the orchestrator keeps the hand's
\* players, and every chip that was bought is in a stack until its owner leaves
\* with it; unless a hand's last save fails under the next hand.
THEOREM TableIsSound == TableSpec => []TableSound
<1> DEFINE Sound == TableInv /\ BoundsInv /\ ChipsAccounted
           Inv == overrun \in BOOLEAN /\ (overrun \/ Sound)
<1>1. TableInit => Inv
  <2> SUFFICES ASSUME TableInit PROVE Inv
    OBVIOUS
  <2>1. TableInv /\ overrun = FALSE
    BY TableStart DEF TableInit
  <2>2. BoundsInv
    <3>1. \A a \in Agents : pending[a].hand = 0
      BY DEF TableInit, NoRequest
    <3>2. 0 \in 0 .. MaxHands /\ 0 \in 0 .. MaxAgents /\ 0 \in 0 .. MaxRequests /\ 0 <= MaxHands
      BY TableAssumption
    <3> QED BY <3>1, <3>2 DEF TableInit, BoundsInv
  <2>3. ChipsAccounted
    <3>1. Taken = {}
      BY DEF TableInit, Taken
    <3>2. SumOf(Stacks) = 0
      BY <2>1, <3>1, StacksSummable, SumRemove
    <3> QED BY <3>1, <3>2 DEF TableInit, ChipsAccounted, Stacks
  <2> QED BY <2>1, <2>2, <2>3
<1>2. Inv /\ [TableNext]_tableVars => Inv'
  <2> SUFFICES ASSUME Inv, [TableNext]_tableVars PROVE Inv'
    OBVIOUS
  <2>1. overrun' \in BOOLEAN /\ (overrun => overrun')
    BY OverrunStays
  <2>2. ASSUME ~overrun' PROVE Sound'
    <3>1. TableInv /\ BoundsInv /\ ChipsAccounted
      BY <2>1, <2>2
    <3>2. TableInv'
      BY <2>2, <3>1, TableStep
    <3>3. BoundsInv'
      BY <3>1, BoundsStep
    <3> QED BY <2>2, <3>1, <3>2, <3>3, AccountsStep
  <2> QED BY <2>1, <2>2
<1>3. Inv => TableSound
  <2> SUFFICES ASSUME TableInv, BoundsInv, ChipsAccounted PROVE TableSound
    BY DEF TableSound
  <2>1. bank \in Nat
    <3>1. Summable(Stacks) /\ \A i \in DOMAIN Stacks : Stacks[i] >= 0
      BY StacksSummable
    <3>2. SumOf(Stacks) \in Nat
      BY <3>1, SumLeast
    <3> QED BY <3>2 DEF ChipsAccounted, Stacks
  <2>2. TableTypeOK
    BY <2>1, TypesByAll
  <2> QED BY <2>2, KeptByAll DEF TableSound
<1> HIDE DEF Inv
<1> QED BY <1>1, <1>2, <1>3, PTL DEF TableSpec

-----------------------------------------------------------------------------
(* The page: its invariant.                                                 *)

Frames ==
  [type : {"hand.started", "hand.completed"}]
    \cup [type : {"seat.hole_cards"}, hand : Nat \ {0}, agent : Agents]
    \cup [type : {"seat.action_requested"}, hand : Nat, agent : Agents, request : Nat \ {0}]
    \cup [type : {"action.applied"}, agent : Agents]

PageTypes ==
  /\ socket \in {"down", "subscribed"}
  /\ wire \in Seq(Frames)
  /\ view \in [hand : Nat, pending : [hand : Nat, agent : Nat, request : Nat],
               seats : SUBSET Agents, cards : SUBSET [agent : Agents, hand : Nat \ {0}]]
  /\ gets \subseteq [id : Nat, hand : Nat, seats : SUBSET Agents]
  /\ getsDone \in Nat /\ postsDone \in Nat
  /\ page \in [submitting : BOOLEAN, submitted : Nat]
  /\ posts \subseteq [id : Nat, hand : Nat, request : Nat, state : {"sent", "accepted", "failed"}]

\* A frame after which the page shows no buttons for a.
Clears(f, a) ==
  \/ f.type \in {"hand.started", "hand.completed"}
  \/ f.type = "action.applied" /\ f.agent = a

IsAwaited(a, r) == turn # Nobody /\ turn.agent = a /\ turn.request = r

\* A request shown, or on its way in the k-th frame: it is the one that is awaited,
\* or a frame behind it takes it away again.
AwaitedOrCleared(k, a, r) ==
  IsAwaited(a, r) \/ \E j \in 1 .. Len(wire) : j > k /\ Clears(wire[j], a)

\* Nothing was lost since the hand began.
InStep ==
  whole =>
    /\ socket = "subscribed"
    /\ view.pending # NoPending => AwaitedOrCleared(0, view.pending.agent, view.pending.request)
    /\ \A k \in 1 .. Len(wire) : wire[k].type = "seat.action_requested" =>
         AwaitedOrCleared(k, wire[k].agent, wire[k].request)

CardsInv == \A c \in view.cards : c.hand = view.hand

MyHumans == {seats[i].agent : i \in {j \in SeatsOf(Me) : seats[j].kind = "human"}}

\* What the page knows of a request: it was made, and if it is still awaited it is
\* the user's to answer.
Known(r) == r <= requests /\ (turn # Nobody /\ turn.request = r => turn.agent \in MyHumans)

KnownRequests ==
  /\ Known(view.pending.request)
  /\ \A k \in 1 .. Len(wire) : wire[k].type = "seat.action_requested" => Known(wire[k].request)
  /\ \A p \in posts : Known(p.request)
  /\ page.submitted <= requests

Settled(r) == turn = Nobody \/ turn.request # r

\* An accepted POST, although it names only the hand, settled the request it was
\* meant for; and the buttons are locked for a request that was settled or whose
\* POST is under way.
LocksInv ==
  /\ \A p \in posts : p.state = "accepted" => Settled(p.request)
  /\ Settled(page.submitted)
  /\ page.submitting =>
       \/ Settled(view.pending.request)
       \/ \E p \in posts : p.request = view.pending.request

PageInv == PageTypes /\ InStep /\ CardsInv /\ KnownRequests /\ LocksInv

LiveInv == TableInv /\ PageInv

-----------------------------------------------------------------------------
(* What the table publishes.                                                *)

LEMMA FrameFacts ==
  ASSUME NEW f \in Frames
  PROVE  /\ f.type \in {"hand.started", "hand.completed", "seat.hole_cards",
                        "seat.action_requested", "action.applied"}
         /\ f.type = "seat.hole_cards" => f.hand \in Nat \ {0} /\ f.agent \in Agents
         /\ f.type = "seat.action_requested" =>
              f.hand \in Nat /\ f.agent \in Agents /\ f.request \in Nat \ {0}
         /\ f.type = "action.applied" => f.agent \in Agents
BY DEF Frames

\* SetToSeq lists a finite set.
LEMMA SetToSeqLists ==
  ASSUME NEW S, IsFiniteSet(S)
  PROVE  SetToSeq(S) \in Seq(S) /\ Len(SetToSeq(S)) = Cardinality(S)
<1>1. Cardinality(S) \in Nat /\ ExistsBijection(1 .. Cardinality(S), S)
  BY FS_CardinalityType
<1>2. \E f \in [1 .. Cardinality(S) -> S] : IsInjective(f)
  BY <1>1 DEF ExistsBijection, Bijection, Injection
<1>3. SetToSeq(S) \in [1 .. Cardinality(S) -> S]
  BY <1>2 DEF SetToSeq
<1>4. PICK n \in Nat : n = Cardinality(S)
  BY <1>1
<1>6. PICK f \in [1 .. n -> S] : f = SetToSeq(S)
  BY <1>3, <1>4
<1>5. f \in Seq(S) /\ Len(f) = n
  OBVIOUS
<1> QED BY <1>4, <1>5, <1>6

\* Frames are published: whatever was in step stays so, when the frames of
\* requests ask for what is awaited, and either take away every other request or
\* follow the turn.
LEMMA PublishInStep ==
  ASSUME PageTypes, InStep, NEW frames \in Seq(Frames),
         wire' = IF socket = "subscribed" THEN wire \o frames ELSE wire,
         UNCHANGED <<socket, view>>,
         \A k \in 1 .. Len(frames) : frames[k].type = "seat.action_requested" =>
           IsAwaited(frames[k].agent, frames[k].request)',
         whole' => socket = "subscribed",
         \/ \E k \in 1 .. Len(frames) :
              /\ frames[k].type \in {"hand.started", "hand.completed"}
              /\ \A j \in 1 .. k : frames[j].type # "seat.action_requested"
         \/ /\ whole' => whole
            /\ \A a, r : IsAwaited(a, r) => IsAwaited(a, r)' \/ \E k \in 1 .. Len(frames) : Clears(frames[k], a)
  PROVE  wire' \in Seq(Frames) /\ InStep'
<1>1. wire' \in Seq(Frames)
  BY ConcatProperties DEF PageTypes
<1>2. SUFFICES ASSUME whole' PROVE InStep'
  BY <1>1 DEF InStep
<1>3. socket = "subscribed" /\ wire' = wire \o frames /\ wire \in Seq(Frames)
  BY <1>2 DEF PageTypes
<1>4. /\ Len(wire') = Len(wire) + Len(frames) /\ Len(wire) \in Nat /\ Len(frames) \in Nat
      /\ \A k \in 1 .. Len(wire) : wire'[k] = wire[k]
      /\ \A k \in 1 .. Len(frames) : wire'[Len(wire) + k] = frames[k]
  <2>1. Len(wire) \in Nat /\ Len(frames) \in Nat
    BY <1>3, LenProperties
  <2> QED BY <1>3, <2>1, ConcatProperties
<1>5. ASSUME NEW k \in 1 .. Len(wire'), k > Len(wire), wire'[k].type = "seat.action_requested"
      PROVE  IsAwaited(wire[k].agent, wire[k].request)'
  <2>1. PICK n \in 1 .. Len(frames) : k = Len(wire) + n
    <3>1. k - Len(wire) \in 1 .. Len(frames) /\ k = Len(wire) + (k - Len(wire))
      BY <1>4, <1>5
    <3> QED BY <3>1
  <2>2. wire'[k] = frames[n]
    BY <1>4, <2>1
  <2> QED BY <1>5, <2>2 DEF IsAwaited
<1>6. CASE \E k \in 1 .. Len(frames) :
              /\ frames[k].type \in {"hand.started", "hand.completed"}
              /\ \A j \in 1 .. k : frames[j].type # "seat.action_requested"
  <2>1. PICK n \in 1 .. Len(frames) :
              /\ frames[n].type \in {"hand.started", "hand.completed"}
              /\ \A j \in 1 .. n : frames[j].type # "seat.action_requested"
    BY <1>6
  <2>2. /\ Len(wire) + n \in 1 .. Len(wire') /\ \A a : Clears(wire'[Len(wire) + n], a)
    BY <1>4, <2>1 DEF Clears
  <2>3. ASSUME NEW k \in 0 .. Len(wire), NEW a, NEW r
        PROVE  AwaitedOrCleared(k, a, r)'
    <3>1. Len(wire) + n > k
      BY <1>4
    <3> QED BY <2>2, <3>1 DEF AwaitedOrCleared
  <2>4. ASSUME NEW k \in 1 .. Len(wire'), wire'[k].type = "seat.action_requested"
        PROVE  AwaitedOrCleared(k, wire[k].agent, wire[k].request)'
    <3>1. CASE k > Len(wire)
      BY <1>5, <2>4, <3>1 DEF AwaitedOrCleared, IsAwaited
    <3>2. CASE k <= Len(wire)
      <4>1. k \in 0 .. Len(wire)
        BY <1>4, <3>2
      <4>2. PICK a, r : a = wire'[k].agent /\ r = wire'[k].request
        OBVIOUS
      <4>3. \/ turn' # Nobody /\ turn'.agent = a /\ turn'.request = r
            \/ \E j \in 1 .. Len(wire') : j > k /\ Clears(wire'[j], a)
        BY <2>3, <4>1 DEF AwaitedOrCleared, IsAwaited
      <4> QED BY <4>2, <4>3 DEF AwaitedOrCleared, IsAwaited
    <3> QED BY <1>4, <3>1, <3>2
  <2>5. 0 \in 0 .. Len(wire)
    BY <1>4
  <2>6. PICK a, r : a = view'.pending.agent /\ r = view'.pending.request
    OBVIOUS
  <2>7. \/ turn' # Nobody /\ turn'.agent = a /\ turn'.request = r
        \/ \E j \in 1 .. Len(wire') : j > 0 /\ Clears(wire'[j], a)
    BY <2>3, <2>5 DEF AwaitedOrCleared, IsAwaited
  <2>8. AwaitedOrCleared(0, view.pending.agent, view.pending.request)'
    BY <2>6, <2>7 DEF AwaitedOrCleared, IsAwaited
  <2> QED BY <1>3, <2>4, <2>8 DEF InStep
<1>7. CASE /\ whole' => whole
           /\ \A a, r : IsAwaited(a, r) => IsAwaited(a, r)' \/ \E k \in 1 .. Len(frames) : Clears(frames[k], a)
  <2>1. whole
    BY <1>2, <1>7
  <2>2. ASSUME NEW k \in 0 .. Len(wire), NEW a, NEW r, AwaitedOrCleared(k, a, r)
        PROVE  AwaitedOrCleared(k, a, r)'
    <3>1. CASE IsAwaited(a, r)
      <4>1. CASE \E n \in 1 .. Len(frames) : Clears(frames[n], a)
        <5>1. PICK n \in 1 .. Len(frames) : Clears(frames[n], a)
          BY <4>1
        <5>2. Len(wire) + n \in 1 .. Len(wire') /\ Len(wire) + n > k /\ wire'[Len(wire) + n] = frames[n]
          BY <1>4
        <5>3. Clears(wire'[Len(wire) + n], a)
          BY <5>1, <5>2
        <5> QED BY <5>2, <5>3 DEF AwaitedOrCleared, Clears
      <4> QED BY <1>7, <3>1, <4>1 DEF AwaitedOrCleared
    <3>2. CASE \E j \in 1 .. Len(wire) : j > k /\ Clears(wire[j], a)
      <4>1. PICK j \in 1 .. Len(wire) : j > k /\ Clears(wire[j], a)
        BY <3>2
      <4>2. j \in 1 .. Len(wire') /\ wire'[j] = wire[j]
        BY <1>4
      <4>3. Clears(wire'[j], a)
        BY <4>1, <4>2
      <4> QED BY <4>1, <4>2, <4>3 DEF AwaitedOrCleared, Clears
    <3> QED BY <2>2, <3>1, <3>2 DEF AwaitedOrCleared
  <2>3. ASSUME NEW k \in 1 .. Len(wire'), wire'[k].type = "seat.action_requested"
        PROVE  AwaitedOrCleared(k, wire[k].agent, wire[k].request)'
    <3>1. CASE k > Len(wire)
      BY <1>5, <2>3, <3>1 DEF AwaitedOrCleared, IsAwaited
    <3>2. CASE k <= Len(wire)
      <4>1. k \in 1 .. Len(wire) /\ k \in 0 .. Len(wire) /\ wire'[k] = wire[k]
        BY <1>4, <3>2
      <4>2. AwaitedOrCleared(k, wire[k].agent, wire[k].request)
        BY <2>1, <2>3, <4>1 DEF InStep
      <4>3. PICK a, r : a = wire[k].agent /\ r = wire[k].request
        OBVIOUS
      <4>6. AwaitedOrCleared(k, a, r)
        BY <4>2, <4>3
      <4>4. \/ turn' # Nobody /\ turn'.agent = a /\ turn'.request = r
            \/ \E j \in 1 .. Len(wire') : j > k /\ Clears(wire'[j], a)
        BY <2>2, <4>1, <4>6 DEF AwaitedOrCleared, IsAwaited
      <4>5. a = wire'[k].agent /\ r = wire'[k].request
        BY <4>1, <4>3
      <4> QED BY <4>4, <4>5 DEF AwaitedOrCleared, IsAwaited
    <3> QED BY <1>4, <3>1, <3>2
  <2>4. view'.pending # NoPending => AwaitedOrCleared(0, view.pending.agent, view.pending.request)'
    <3>1. PICK a, r : a = view.pending.agent /\ r = view.pending.request
      OBVIOUS
    <3>2. 0 \in 0 .. Len(wire)
      BY <1>4
    <3>3. view.pending # NoPending => AwaitedOrCleared(0, a, r)'
      BY <2>1, <2>2, <3>1, <3>2 DEF InStep
    <3> QED BY <3>1, <3>3 DEF AwaitedOrCleared, IsAwaited
  <2> QED BY <1>3, <2>3, <2>4 DEF InStep, AwaitedOrCleared, IsAwaited
<1> QED BY <1>6, <1>7

\* A step of the table: the turn stays, with who is to move, or it is over, or a
\* new request is made.
TurnMoves ==
  /\ requests' \in Nat /\ requests <= requests'
  /\ turn' # Nobody => \/ turn' = turn /\ (turn.agent \in MyHumans => turn.agent \in MyHumans')
                     \/ turn'.request > requests

\* What the page knows of a request survives such a step.
LEMMA KnownKeeps ==
  ASSUME TableInv, TurnMoves, NEW r \in Nat
  PROVE  /\ Known(r) => Known(r)'
         /\ r <= requests => (Settled(r) => Settled(r)') /\ r <= requests'
<1>1. requests \in Nat
  BY DEF TableInv, TableTypes
<1>2. ASSUME r <= requests, turn' # Nobody, turn'.request = r
      PROVE  turn' = turn /\ (turn.agent \in MyHumans => turn.agent \in MyHumans')
  BY <1>1, <1>2 DEF TurnMoves
<1>3. r <= requests => r <= requests'
  BY <1>1 DEF TurnMoves
<1>4. Known(r) => Known(r)'
  BY <1>2, <1>3 DEF Known
<1>5. r <= requests => (Settled(r) => Settled(r)')
  BY <1>2 DEF Settled
<1> QED BY <1>3, <1>4, <1>5

\* The requests the page knows of are numbers.
LEMMA KnownAreNat ==
  ASSUME PageTypes
  PROVE  /\ view.pending.request \in Nat /\ page.submitted \in Nat
         /\ \A k \in 1 .. Len(wire) : wire[k].type = "seat.action_requested" => wire[k].request \in Nat
         /\ \A p \in posts : p.request \in Nat
<1>1. view.pending.request \in Nat /\ page.submitted \in Nat /\ \A p \in posts : p.request \in Nat
  BY DEF PageTypes
<1>2. \A k \in 1 .. Len(wire) : wire[k] \in Frames
  BY ElementOfSeq DEF PageTypes
<1> QED BY <1>1, <1>2, FrameFacts

\* Whatever the table does, the page's state being as it was, stays known.
LEMMA KnowledgeKeeps ==
  ASSUME TableInv, PageTypes, KnownRequests, TurnMoves, NEW frames \in Seq(Frames),
         wire' = IF socket = "subscribed" THEN wire \o frames ELSE wire,
         UNCHANGED <<view, page>>,
         \A p \in posts' : \E q \in posts : p.request = q.request,
         \A k \in 1 .. Len(frames) : frames[k].type = "seat.action_requested" => Known(frames[k].request)'
  PROVE  KnownRequests'
<1>1. Known(view.pending.request)'
  <2>1. PICK r \in Nat : r = view.pending.request
    BY KnownAreNat
  <2>2. Known(r)'
    BY <2>1, KnownKeeps DEF KnownRequests
  <2> QED BY <2>1, <2>2 DEF Known
<1>2. page'.submitted <= requests'
  <2>1. PICK r \in Nat : r = page.submitted
    BY KnownAreNat
  <2> QED BY <2>1, KnownKeeps DEF KnownRequests
<1>3. \A p \in posts' : Known(p.request)'
  <2>1. SUFFICES ASSUME NEW p \in posts' PROVE Known(p.request)'
    OBVIOUS
  <2>2. PICK q \in posts : p.request = q.request
    OBVIOUS
  <2>3. PICK r \in Nat : r = q.request
    BY KnownAreNat
  <2>4. Known(r)'
    BY <2>3, KnownKeeps DEF KnownRequests
  <2> QED BY <2>2, <2>3, <2>4 DEF Known
<1>4. ASSUME NEW k \in 1 .. Len(wire), wire[k].type = "seat.action_requested"
      PROVE  wire[k].request <= requests' /\ (turn' # Nobody /\ turn'.request = wire[k].request => turn'.agent \in MyHumans')
  <2>1. PICK r \in Nat : r = wire[k].request
    BY <1>4, KnownAreNat
  <2>2. Known(r)'
    BY <1>4, <2>1, KnownKeeps DEF KnownRequests
  <2> QED BY <2>1, <2>2 DEF Known
<1>5. ASSUME NEW k \in 1 .. Len(wire'), wire'[k].type = "seat.action_requested"
      PROVE  wire'[k].request <= requests'
             /\ (turn' # Nobody /\ turn'.request = wire'[k].request => turn'.agent \in MyHumans')
  <2>1. CASE wire' = wire
    BY <1>4, <1>5, <2>1
  <2>2. CASE wire' = wire \o frames
    <3>1. Len(wire) \in Nat /\ Len(frames) \in Nat /\ wire \in Seq(Frames)
      BY LenProperties DEF PageTypes
    <3>2. /\ Len(wire') = Len(wire) + Len(frames)
          /\ wire'[k] = IF k <= Len(wire) THEN wire[k] ELSE frames[k - Len(wire)]
      <4>1. Len(wire') = Len(wire) + Len(frames)
        BY <2>2, <3>1, ConcatProperties
      <4>2. k \in 1 .. Len(wire) + Len(frames)
        BY <4>1
      <4> QED BY <2>2, <3>1, <4>1, <4>2, ConcatProperties
    <3>3. CASE k <= Len(wire)
      <4>1. k \in 1 .. Len(wire) /\ wire'[k] = wire[k]
        BY <3>1, <3>2, <3>3
      <4> QED BY <1>4, <1>5, <4>1
    <3>4. CASE k > Len(wire)
      <4>1. PICK n \in 1 .. Len(frames) : n = k - Len(wire)
        BY <3>1, <3>2, <3>4
      <4>2. wire'[k] = frames[n]
        BY <3>1, <3>2, <3>4, <4>1
      <4> QED BY <1>5, <4>2 DEF Known
    <3> QED BY <3>1, <3>2, <3>3, <3>4
  <2> QED BY <2>1, <2>2
<1>6. \A k \in 1 .. Len(wire') : wire'[k].type = "seat.action_requested" => Known(wire[k].request)'
  BY <1>5 DEF Known
<1> QED BY <1>1, <1>2, <1>3, <1>6 DEF KnownRequests, Known

\* One step of the table that publishes some frames.
LEMMA PublishKeeps ==
  ASSUME TableInv, PageInv, TurnMoves, NEW frames \in Seq(Frames),
         wire' = IF socket = "subscribed" THEN wire \o frames ELSE wire,
         UNCHANGED <<socket, view, gets, page, posts, getsDone, postsDone>>,
         \A k \in 1 .. Len(frames) : frames[k].type = "seat.action_requested" =>
           Known(frames[k].request)' /\ IsAwaited(frames[k].agent, frames[k].request)',
         whole' => socket = "subscribed",
         \/ \E k \in 1 .. Len(frames) :
              /\ frames[k].type \in {"hand.started", "hand.completed"}
              /\ \A j \in 1 .. k : frames[j].type # "seat.action_requested"
         \/ /\ whole' => whole
            /\ \A a, r : IsAwaited(a, r) => IsAwaited(a, r)' \/ \E k \in 1 .. Len(frames) : Clears(frames[k], a)
  PROVE  PageInv'
<1>1. PageTypes /\ InStep /\ CardsInv /\ KnownRequests /\ LocksInv
  BY DEF PageInv
<1>2. wire' \in Seq(Frames) /\ InStep'
  BY <1>1, PublishInStep
<1>3. PageTypes'
  BY <1>1, <1>2 DEF PageTypes
<1>4. CardsInv'
  BY <1>1 DEF CardsInv
<1>5. KnownRequests'
  BY <1>1, KnowledgeKeeps
<1>6. \A r \in Nat : r <= requests /\ Settled(r) => Settled(r)'
  BY KnownKeeps
<1>7. LocksInv'
  <2>1. /\ \A p \in posts : p.request \in Nat /\ p.request <= requests
        /\ page.submitted \in Nat /\ page.submitted <= requests
        /\ view.pending.request \in Nat /\ view.pending.request <= requests
    BY <1>1, KnownAreNat DEF KnownRequests, Known
  <2>2. \A r \in Nat : r <= requests /\ Settled(r) => (turn' = Nobody \/ turn'.request # r)
    BY <1>6 DEF Settled
  <2>3. \A p \in posts' : p.state = "accepted" => turn' = Nobody \/ turn'.request # p.request
    BY <1>1, <2>1, <2>2 DEF LocksInv
  <2>4. turn' = Nobody \/ turn'.request # page'.submitted
    BY <1>1, <2>1, <2>2 DEF LocksInv
  <2>5. page'.submitting => \/ turn' = Nobody \/ turn'.request # view'.pending.request
                            \/ \E p \in posts' : p.request = view'.pending.request
    BY <1>1, <2>1, <2>2 DEF LocksInv
  <2> QED BY <2>3, <2>4, <2>5 DEF LocksInv, Settled
<1> QED BY <1>2, <1>3, <1>4, <1>5, <1>7 DEF PageInv

-----------------------------------------------------------------------------
(* The table's steps, seen by the page.                                     *)

LEMMA MineIsKnown ==
  ASSUME TableInv, NEW a
  PROVE  MineHuman(a) <=> a \in MyHumans
BY DEF MineHuman, MyHumans

LEMMA OneFrame ==
  ASSUME NEW f \in Frames
  PROVE  \E fr \in Seq(Frames) : fr = <<f>> /\ Len(fr) = 1 /\ fr[1] = f
<1>1. <<f>> \in Seq(Frames)
  OBVIOUS
<1>2. Len(<<f>>) = 1 /\ <<f>>[1] = f
  OBVIOUS
<1> QED BY <1>1, <1>2

\* The frame of a request names the one that is awaited, and its player is the
\* user's.
LEMMA RequestFramesFacts ==
  ASSUME TableInv', seats' = seats, NEW h, h = handNumber'
  PROVE  \E fr \in Seq(Frames) :
           /\ fr = RequestFrames(h)
           /\ \A k \in 1 .. Len(fr) : /\ Known(fr[k].request)'
                                      /\ IsAwaited(fr[k].agent, fr[k].request)'
<1>1. MyHumans' = MyHumans
  BY DEF MyHumans, SeatsOf, Taken
<1>0. turns'[h] = turn' /\ h \in Nat
  BY TableAssumption DEF turn, TableInv, TableTypes, AllHands
<1>2. CASE turn' # Nobody /\ MineHuman(turn'.agent)
  <2>1. turn' \in TurnTypes /\ turn'.request <= requests'
    <3>1. turn' \in TurnTypes
      BY <1>2 DEF TableInv, TableTypes, turn
    <3> QED BY <1>2, <3>1 DEF TableInv, Numbered
  <2>2. PICK f : f = ActionRequested(turn'.agent, h, turn'.request)
    OBVIOUS
  <2>3. /\ f \in [type : {"seat.action_requested"}, hand : Nat, agent : Agents, request : Nat \ {0}]
        /\ f.agent = turn'.agent /\ f.request = turn'.request
    BY <1>0, <2>1, <2>2 DEF ActionRequested, TurnTypes
  <2>4. f \in Frames
    BY <2>3 DEF Frames
  <2>5. PICK fr \in Seq(Frames) : fr = <<f>> /\ Len(fr) = 1 /\ fr[1] = f
    BY <2>4, OneFrame
  <2>6. turn'.agent \in MyHumans'
    BY <1>1, <1>2 DEF MineHuman, MyHumans
  <2>7. Known(f.request)' /\ IsAwaited(f.agent, f.request)'
    BY <1>2, <2>1, <2>3, <2>6 DEF Known, IsAwaited
  <2>8. RequestFrames(h) = <<f>>
    BY <1>0, <1>2, <2>2 DEF RequestFrames
  <2>9. \A k \in 1 .. Len(fr) : Known(fr[k].request)' /\ IsAwaited(fr[k].agent, fr[k].request)'
    BY <2>5, <2>7
  <2> QED BY <2>5, <2>8, <2>9
<1>3. CASE ~ (turn' # Nobody /\ MineHuman(turn'.agent))
  <2>1. RequestFrames(h) = <<>>
    BY <1>0, <1>3 DEF RequestFrames
  <2>2. PICK fr \in Seq(Frames) : fr = <<>> /\ Len(fr) = 0
    BY EmptySeq
  <2>3. 1 .. Len(fr) = {}
    BY <2>2
  <2> QED BY <2>1, <2>2, <2>3
<1> QED BY <1>2, <1>3

LEMMA CardFramesFacts ==
  ASSUME handNumber' \in Nat \ {0}, DOMAIN hand'.chips \subseteq Agents
  PROVE  \E fr \in Seq(Frames) :
           fr = CardFrames /\ \A k \in 1 .. Len(fr) : fr[k].type = "seat.hole_cards"
<1>1. PICK S : S = {a \in DOMAIN hand'.chips : Mine(a)}
  OBVIOUS
<1>2. PICK h \in Nat \ {0} : h = handNumber'
  OBVIOUS
<1> DEFINE T == {HoleCards(a, h) : a \in S}
           f == [a \in S |-> HoleCards(a, h)]
<1>3. IsFiniteSet(S)
  <2>1. IsFiniteSet(Agents)
    BY UpTo, TableAssumption DEF Agents
  <2>2. S \in SUBSET Agents
    BY <1>1
  <2> QED BY <2>1, <2>2, FS_Subset
<1>4. f \in Surjection(S, T)
  BY DEF Surjection
<1>5. IsFiniteSet(T)
  BY <1>3, <1>4, FS_Surjection
<1>6. T \subseteq Frames /\ \A x \in T : x.type = "seat.hole_cards"
  <2> SUFFICES ASSUME NEW a \in S
               PROVE  HoleCards(a, h) \in Frames /\ HoleCards(a, h).type = "seat.hole_cards"
    OBVIOUS
  <2>1. a \in Agents
    BY <1>1
  <2>2. HoleCards(a, h) \in [type : {"seat.hole_cards"}, hand : Nat \ {0}, agent : Agents]
    BY <2>1 DEF HoleCards
  <2> QED BY <2>2 DEF Frames
<1>7. CardFrames = SetToSeq(T)
  BY <1>1, <1>2 DEF CardFrames
<1> HIDE DEF T, f
<1>8. PICK fr \in Seq(T) : fr = SetToSeq(T)
  BY <1>5, SetToSeqLists
<1>9. fr \in Seq(Frames)
  BY <1>6, SeqMonotonic
<1>10. \A k \in 1 .. Len(fr) : fr[k].type = "seat.hole_cards"
  BY <1>6, ElementOfSeq
<1> QED BY <1>7, <1>8, <1>9, <1>10

\* The action of the player whose turn ends is announced, and nobody else's.
LEMMA DecidedFacts ==
  ASSUME TableInv, turn = Nobody \/ handNumber' = handNumber
  PROVE  \E fr \in Seq(Frames) :
           /\ fr = DecidedFrames
           /\ \A k \in 1 .. Len(fr) : fr[k].type # "seat.action_requested"
           /\ turn = Nobody => fr = <<>>
           /\ turn # Nobody /\ turn' # turn => \E k \in 1 .. Len(fr) : Clears(fr[k], turn.agent)
<1>1. \A h \in Hands : turns[h] # Nobody => h = handNumber
  BY NewestHand
<1>2. handNumber \in AllHands /\ turn = turns[handNumber] /\ (turn # Nobody => turn \in TurnTypes)
  BY NewestHand
<1>3. turn # Nobody => handNumber \in Hands
  <2>1. turn # Nobody => handInProgress
    BY DEF TableInv, Kept, Numbered
  <2>2. handInProgress => handNumber # 0
    BY DEF TableInv, Numbered
  <2> QED BY <1>2, <2>1, <2>2, TableAssumption DEF AllHands, Hands
<1>4. PICK T : T = {ActionApplied(turns[h].agent) : h \in TurnsEnded}
  OBVIOUS
<1>5. CASE turn # Nobody /\ turn' # turn
  <2>1. turns' [handNumber] # turns[handNumber] /\ handNumber \in Hands
    BY <1>2, <1>3, <1>5 DEF turn
  <2>2. TurnsEnded = {handNumber}
    BY <1>1, <1>2, <1>5, <2>1 DEF TurnsEnded
  <2>3. PICK f : f = ActionApplied(turn.agent)
    OBVIOUS
  <2>4. f \in Frames /\ f.type = "action.applied" /\ f.agent = turn.agent
    <3>1. turn.agent \in Agents
      BY <1>2, <1>5 DEF TurnTypes
    <3>2. f \in [type : {"action.applied"}, agent : Agents] /\ f.type = "action.applied" /\ f.agent = turn.agent
      BY <2>3, <3>1 DEF ActionApplied
    <3> QED BY <3>2 DEF Frames
  <2>5. T = {f}
    BY <1>2, <1>4, <2>2, <2>3
  <2>6. IsFiniteSet(T) /\ Cardinality(T) = 1
    BY <2>5, FS_Singleton
  <2>7. PICK fr \in Seq(T) : fr = SetToSeq(T) /\ Len(fr) = 1
    BY <2>6, SetToSeqLists
  <2>8. fr[1] = f
    BY <2>5, <2>7, ElementOfSeq
  <2>9. fr \in Seq(Frames)
    <3>1. T \subseteq Frames
      BY <2>4, <2>5
    <3> QED BY <3>1, SeqMonotonic
  <2>10. fr = DecidedFrames
    BY <1>4, <2>7 DEF DecidedFrames
  <2>11. /\ \A k \in 1 .. Len(fr) : fr[k].type # "seat.action_requested"
         /\ 1 \in 1 .. Len(fr) /\ Clears(fr[1], turn.agent)
    BY <2>4, <2>7, <2>8 DEF Clears
  <2> QED BY <1>5, <2>9, <2>10, <2>11
<1>6. CASE turn = Nobody \/ turn' = turn
  <2>1. ASSUME NEW h \in TurnsEnded PROVE FALSE
    <3>1. h \in Hands /\ turns[h] # Nobody /\ turns'[h] # turns[h]
      BY DEF TurnsEnded
    <3>2. h = handNumber /\ turn # Nobody
      BY <1>1, <1>2, <3>1
    <3>3. handNumber' = handNumber /\ turn' = turn
      BY <1>6, <3>2
    <3> QED BY <1>2, <3>1, <3>2, <3>3 DEF turn
  <2>2. T = {}
    BY <1>4, <2>1
  <2>3. IsFiniteSet(T) /\ Cardinality(T) = 0
    BY <2>2, FS_EmptySet
  <2>4. PICK fr \in Seq(T) : fr = SetToSeq(T) /\ Len(fr) = 0
    BY <2>3, SetToSeqLists
  <2>5. fr = <<>> /\ fr \in Seq(Frames)
    BY <2>4, EmptySeq
  <2>6. fr = DecidedFrames
    BY <1>4, <2>4 DEF DecidedFrames
  <2>7. 1 .. Len(fr) = {}
    BY <2>4
  <2> QED BY <1>6, <2>5, <2>6, <2>7
<1> QED BY <1>5, <1>6

LEMMA StartKeeps ==
  ASSUME LiveInv, LiveStart
  PROVE  LiveInv'
<1>1. /\ TableInv' /\ requests' = requests + 1 /\ turn'.request = requests' /\ turn = Nobody
      /\ seats' = seats /\ handNumber' \in Nat \ {0} /\ DOMAIN hand'.chips \subseteq Agents
  BY StartHandStep DEF LiveInv, LiveStart
<1>0. PICK h : h = handNumber'
  OBVIOUS
<1>2. PICK rf \in Seq(Frames) :
        /\ rf = RequestFrames(h)
        /\ \A k \in 1 .. Len(rf) : Known(rf[k].request)' /\ IsAwaited(rf[k].agent, rf[k].request)'
  BY <1>0, <1>1, RequestFramesFacts
<1>15. DecidedFrames = <<>>
  BY <1>1, DecidedFacts DEF LiveInv
<1>3. PICK cf \in Seq(Frames) :
        cf = CardFrames /\ \A k \in 1 .. Len(cf) : cf[k].type = "seat.hole_cards"
  BY <1>1, CardFramesFacts
<1>4. PICK f : f = HandStarted
  OBVIOUS
<1>5. f \in Frames /\ f.type = "hand.started"
  <2>1. f \in [type : {"hand.started", "hand.completed"}] /\ f.type = "hand.started"
    BY <1>4 DEF HandStarted
  <2> QED BY <2>1 DEF Frames
<1>6. PICK first \in Seq(Frames) : /\ first = <<f>> \o cf /\ Len(first) = 1 + Len(cf) /\ first[1] = f
                                   /\ \A k \in 2 .. Len(first) : first[k].type = "seat.hole_cards"
  <2>1. <<f>> \in Seq(Frames) /\ Len(<<f>>) = 1 /\ <<f>>[1] = f
    BY <1>5
  <2>2. Len(cf) \in Nat
    BY LenProperties
  <2>3. PICK first \in Seq(Frames) : first = <<f>> \o cf
    BY <2>1, ConcatProperties
  <2>4. Len(first) = 1 + Len(cf)
        /\ \A k \in 1 .. 1 + Len(cf) : first[k] = IF k <= 1 THEN <<f>>[k] ELSE cf[k - 1]
    BY <2>1, <2>3, ConcatProperties
  <2>5. \A k \in 2 .. Len(first) : first[k].type = "seat.hole_cards"
    <3>1. \A k \in 2 .. 1 + Len(cf) : k - 1 \in 1 .. Len(cf) /\ first[k] = cf[k - 1]
      BY <2>2, <2>4
    <3> QED BY <1>3, <2>4, <3>1
  <2>6. first[1] = f
    BY <2>1, <2>2, <2>4
  <2> QED BY <2>3, <2>4, <2>5, <2>6
<1>7. PICK fr \in Seq(Frames) :
        /\ fr = first \o rf /\ Len(fr) = Len(first) + Len(rf)
        /\ \A k \in 1 .. Len(first) + Len(rf) : fr[k] = IF k <= Len(first) THEN first[k] ELSE rf[k - Len(first)]
  <2>1. PICK fr : fr = first \o rf
    OBVIOUS
  <2>2. /\ fr \in Seq(Frames) /\ Len(fr) = Len(first) + Len(rf)
        /\ \A k \in 1 .. Len(first) + Len(rf) : fr[k] = IF k <= Len(first) THEN first[k] ELSE rf[k - Len(first)]
    BY <2>1, ConcatProperties
  <2> QED BY <2>1, <2>2
<1>8. Len(first) \in Nat \ {0} /\ Len(rf) \in Nat
  BY <1>6, LenProperties
<1>9. 1 \in 1 .. Len(fr) /\ fr[1].type = "hand.started"
  BY <1>5, <1>6, <1>7, <1>8
<1>10. ASSUME NEW k \in 1 .. Len(fr), fr[k].type = "seat.action_requested"
       PROVE  Known(fr[k].request)' /\ IsAwaited(fr[k].agent, fr[k].request)'
  <2>1. CASE k <= Len(first)
    <3>1. fr[k] = first[k] /\ (k = 1 \/ k \in 2 .. Len(first))
      BY <1>7, <1>8, <2>1
    <3> QED BY <1>5, <1>6, <1>10, <3>1
  <2>2. CASE k > Len(first)
    <3>1. k - Len(first) \in 1 .. Len(rf) /\ fr[k] = rf[k - Len(first)]
      BY <1>7, <1>8, <2>2
    <3> QED BY <1>2, <3>1
  <2> QED BY <1>7, <1>8, <2>1, <2>2
<1>11. /\ wire' = IF socket = "subscribed" THEN wire \o fr ELSE wire
       /\ UNCHANGED <<socket, view, gets, page, posts, getsDone, postsDone>>
       /\ whole' = (socket = "subscribed")
  <2>1. RequestFrames(handNumber') = rf
    BY <1>0, <1>2 DEF RequestFrames
  <2>2. fr \o DecidedFrames = fr
    BY <1>15, ConcatEmptySeq
  <2> QED BY <1>3, <1>4, <1>6, <1>7, <2>1, <2>2 DEF LiveStart, Publish
<1>12. TurnMoves
  BY <1>1 DEF TurnMoves, LiveInv, TableInv, TableTypes
<1>13. /\ fr[1].type \in {"hand.started", "hand.completed"}
       /\ \A j \in 1 .. 1 : fr[j].type # "seat.action_requested"
  BY <1>9
<1>14. PageInv'
  BY <1>9, <1>10, <1>11, <1>12, <1>13, PublishKeeps DEF LiveInv
<1> QED BY <1>1, <1>14 DEF LiveInv

LEMMA RequestKeeps ==
  ASSUME LiveInv, LiveRequest
  PROVE  LiveInv'
<1>0. PICK h \in Hands : RequestDecision(h) /\ Publish(RequestFrames(h) \o DecidedFrames)
  BY DEF LiveRequest
<1>1. /\ TableInv' /\ requests' = requests + 1 /\ turn'.request = requests'
      /\ turn = Nobody /\ seats' = seats /\ h = handNumber'
  BY <1>0, RequestDecisionStep DEF LiveInv
<1>2. PICK fr \in Seq(Frames) :
        /\ fr = RequestFrames(h)
        /\ \A k \in 1 .. Len(fr) : Known(fr[k].request)' /\ IsAwaited(fr[k].agent, fr[k].request)'
  BY <1>1, RequestFramesFacts
<1>3. /\ wire' = IF socket = "subscribed" THEN wire \o fr ELSE wire
      /\ UNCHANGED <<socket, view, gets, page, posts, getsDone, postsDone, whole>>
  <2>1. DecidedFrames = <<>>
    BY <1>1, DecidedFacts DEF LiveInv
  <2>2. fr \o DecidedFrames = fr
    BY <2>1, ConcatEmptySeq
  <2> QED BY <1>0, <1>2, <2>2 DEF LiveRequest, Publish
<1>4. TurnMoves
  BY <1>1 DEF TurnMoves, LiveInv, TableInv, TableTypes
<1>5. \A a, r : ~IsAwaited(a, r)
  BY <1>1 DEF IsAwaited
<1>6. whole' => socket = "subscribed" /\ whole
  BY <1>3 DEF LiveInv, PageInv, InStep
<1>7. PageInv'
  BY <1>2, <1>3, <1>4, <1>5, <1>6, PublishKeeps DEF LiveInv
<1> QED BY <1>1, <1>7 DEF LiveInv

LEMMA HandOverKeeps ==
  ASSUME LiveInv, LiveHandOver
  PROVE  LiveInv'
<1>0. PICK h \in Hands : HandOver(h) /\ Publish(<<HandCompleted>>)
  BY DEF LiveHandOver
<1>1. TableInv' /\ turn = Nobody /\ UNCHANGED <<seats, requests, turn>>
  BY <1>0, HandOverStep DEF LiveInv
<1>2. PICK f : f = HandCompleted
  OBVIOUS
<1>3. f \in Frames /\ f.type = "hand.completed"
  <2>1. f \in [type : {"hand.started", "hand.completed"}] /\ f.type = "hand.completed"
    BY <1>2 DEF HandCompleted
  <2> QED BY <2>1 DEF Frames
<1>4. PICK fr \in Seq(Frames) : fr = <<f>> /\ Len(fr) = 1 /\ fr[1] = f
  BY <1>3, OneFrame
<1>5. /\ wire' = IF socket = "subscribed" THEN wire \o fr ELSE wire
      /\ UNCHANGED <<socket, view, gets, page, posts, getsDone, postsDone, whole>>
  BY <1>0, <1>2, <1>4 DEF LiveHandOver, Publish
<1>6. TurnMoves
  BY <1>1 DEF TurnMoves, LiveInv, TableInv, TableTypes
<1>7. \A a, r : ~IsAwaited(a, r)
  BY <1>1 DEF IsAwaited
<1>8. \A k \in 1 .. Len(fr) : fr[k].type # "seat.action_requested"
  BY <1>3, <1>4
<1>9. whole' => socket = "subscribed" /\ whole
  BY <1>5 DEF LiveInv, PageInv, InStep
<1>10. PageInv'
  BY <1>4, <1>5, <1>6, <1>7, <1>8, <1>9, PublishKeeps DEF LiveInv
<1> QED BY <1>1, <1>10 DEF LiveInv

LEMMA OthersKeep ==
  ASSUME LiveInv, LiveOthers, ~overrun'
  PROVE  LiveInv'
<1>1. /\ TableInv' /\ turn' \in {turn, Nobody} /\ UNCHANGED <<requests, handNumber>>
      /\ \A a \in Agents : turn # Nobody /\ MineHuman(a) => MineHuman(a)'
  BY OthersStep DEF LiveInv, LiveOthers
<1>2. turn # Nobody /\ turn.agent \in MyHumans => turn.agent \in MyHumans'
  <2>1. turn # Nobody => turn.agent \in Agents
    BY NewestHand DEF LiveInv, TurnTypes
  <2>2. PICK a : a = turn.agent
    OBVIOUS
  <2>3. turn # Nobody /\ a \in MyHumans => a \in MyHumans'
    BY <1>1, <2>1, <2>2 DEF MineHuman, MyHumans
  <2> QED BY <2>2, <2>3
<1>3. TurnMoves
  BY <1>1, <1>2 DEF TurnMoves, LiveInv, TableInv, TableTypes
<1>4. PICK fr \in Seq(Frames) :
        /\ fr = DecidedFrames
        /\ \A k \in 1 .. Len(fr) : fr[k].type # "seat.action_requested"
        /\ turn # Nobody /\ turn' # turn => \E k \in 1 .. Len(fr) : Clears(fr[k], turn.agent)
  BY <1>1, DecidedFacts DEF LiveInv
<1>5. /\ wire' = IF socket = "subscribed" THEN wire \o fr ELSE wire
      /\ UNCHANGED <<socket, view, gets, page, posts, getsDone, postsDone, whole>>
  BY <1>4 DEF LiveOthers, Publish
<1>6. \A a, r : IsAwaited(a, r) => IsAwaited(a, r)' \/ \E k \in 1 .. Len(fr) : Clears(fr[k], a)
  BY <1>4 DEF IsAwaited
<1>7. whole' => socket = "subscribed" /\ whole
  BY <1>5 DEF LiveInv, PageInv, InStep
<1>8. PageInv'
  BY <1>3, <1>4, <1>5, <1>6, <1>7, PublishKeeps DEF LiveInv
<1> QED BY <1>1, <1>8 DEF LiveInv

-----------------------------------------------------------------------------
(* The socket's and the page's own steps.                                   *)

LEMMA TableRests ==
  ASSUME TableInv, UNCHANGED tableVars
  PROVE  TableInv' /\ UNCHANGED <<turn, requests, MyHumans>>
<1>1. UNCHANGED <<tableStatus, seats, currentHand, handNumber, adapters, handInProgress, hands, turns,
                  pending, seated, requests, overrun>>
  BY DEF tableVars, table
<1>2. TableInv'
  <2>1. ~overrun'
    BY <1>1 DEF TableInv
  <2> QED BY <2>1, TableStep
<1>3. MyHumans' = MyHumans
  BY <1>1 DEF MyHumans, SeatsOf, Taken
<1>4. turn' = turn
  BY <1>1, HandsRest
<1> QED BY <1>1, <1>2, <1>3, <1>4

LEMMA SocketKeeps ==
  ASSUME LiveInv, SocketOpens \/ SocketDrops
  PROVE  LiveInv'
<1>1. TableInv' /\ UNCHANGED <<turn, requests, MyHumans>>
  BY TableRests DEF LiveInv, SocketOpens, SocketDrops
<1>2. UNCHANGED <<view, gets, page, posts, getsDone, postsDone>> /\ ~whole'
  BY DEF SocketOpens, SocketDrops, LiveInv, PageInv, PageTypes, InStep
<1>3. socket' \in {"down", "subscribed"} /\ (wire' = wire \/ wire' = <<>>)
  BY DEF SocketOpens, SocketDrops
<1>4. /\ wire' \in Seq(Frames)
      /\ \A k \in 1 .. Len(wire') : k \in 1 .. Len(wire) /\ wire'[k] = wire[k]
  <2>1. CASE wire' = wire
    BY <2>1 DEF LiveInv, PageInv, PageTypes
  <2>2. CASE wire' = <<>>
    <3>1. wire' \in Seq(Frames) /\ Len(wire') = 0
      BY <2>2, EmptySeq
    <3> QED BY <3>1
  <2> QED BY <1>3, <2>1, <2>2
<1>5. PageTypes' /\ InStep' /\ CardsInv'
  BY <1>2, <1>3, <1>4 DEF LiveInv, PageInv, PageTypes, InStep, CardsInv
<1>6. KnownRequests'
  BY <1>1, <1>2, <1>4 DEF LiveInv, PageInv, KnownRequests, Known
<1>7. LocksInv'
  BY <1>1, <1>2 DEF LiveInv, PageInv, LocksInv, Settled
<1> QED BY <1>1, <1>5, <1>6, <1>7 DEF LiveInv, PageInv

ViewTypes ==
  [hand : Nat, pending : [hand : Nat, agent : Nat, request : Nat],
   seats : SUBSET Agents, cards : SUBSET [agent : Agents, hand : Nat \ {0}]]

\* What the reducer makes of a frame: the cards it keeps are of the hand it shows,
\* and the request it shows is none, the one it showed unless the frame clears
\* it, or the frame's.
LEMMA AfterFacts ==
  ASSUME PageTypes, CardsInv, NEW f \in Frames
  PROVE  /\ After(f) \in ViewTypes
         /\ \A c \in After(f).cards : c.hand = After(f).hand
         /\ \/ After(f).pending = NoPending
            \/ After(f).pending = view.pending /\ ~Clears(f, view.pending.agent)
            \/ /\ f.type = "seat.action_requested"
               /\ After(f).pending = [hand |-> f.hand, agent |-> f.agent, request |-> f.request]
<1>1. view \in ViewTypes /\ NoPending \in [hand : Nat, agent : Nat, request : Nat]
  BY DEF PageTypes, ViewTypes, NoPending
<1>2. CASE f.type = "hand.started"
  <2>1. After(f) = [view EXCEPT !.pending = NoPending, !.cards = {}]
    BY <1>2 DEF After
  <2> QED BY <1>1, <2>1 DEF ViewTypes
<1>3. CASE f.type = "seat.hole_cards"
  <2>1. f.hand \in Nat \ {0} /\ f.agent \in Agents
    BY <1>3, FrameFacts
  <2>2. PICK new : new = IF f.agent \in view.seats THEN {[agent |-> f.agent, hand |-> f.hand]} ELSE {}
    OBVIOUS
  <2>3. new \in SUBSET [agent : Agents, hand : Nat \ {0}] /\ \A c \in new : c.hand = f.hand
    BY <2>1, <2>2
  <2>4. After(f) = IF ~ForThisHand(f) THEN view
                   ELSE [view EXCEPT !.hand = f.hand, !.cards = @ \cup new]
    BY <1>3, <2>2 DEF After
  <2>5. ~Clears(f, view.pending.agent)
    BY <1>3 DEF Clears
  <2>6. CASE ~ForThisHand(f)
    BY <1>1, <2>4, <2>5, <2>6 DEF CardsInv
  <2>7. CASE ForThisHand(f)
    <3>1. \A c \in view.cards : c.hand = f.hand
      <4>1. view.hand = f.hand \/ view.cards = {}
        BY <1>1, <2>7 DEF ForThisHand, CardsInv, ViewTypes
      <4> QED BY <4>1 DEF CardsInv
    <3>2. After(f) = [view EXCEPT !.hand = f.hand, !.cards = @ \cup new]
      BY <2>4, <2>7
    <3>3. /\ After(f).hand = f.hand /\ After(f).cards = view.cards \cup new
          /\ After(f).pending = view.pending /\ After(f) \in ViewTypes
      BY <1>1, <2>1, <2>3, <3>2 DEF ViewTypes
    <3> QED BY <2>3, <2>5, <3>1, <3>3
  <2> QED BY <2>6, <2>7
<1>4. CASE f.type = "seat.action_requested"
  <2>1. f.hand \in Nat /\ f.agent \in Nat /\ f.request \in Nat
    BY <1>4, FrameFacts DEF Agents
  <2>2. PICK asked : asked = [hand |-> f.hand, agent |-> f.agent, request |-> f.request]
    OBVIOUS
  <2>3. asked \in [hand : Nat, agent : Nat, request : Nat]
    BY <2>1, <2>2
  <2>4. After(f) = IF ~ForThisHand(f) THEN view
                   ELSE [view EXCEPT !.hand = f.hand, !.pending = asked]
    BY <1>4, <2>2 DEF After
  <2>5. ~Clears(f, view.pending.agent)
    BY <1>4 DEF Clears
  <2>6. CASE ~ForThisHand(f)
    BY <1>1, <2>4, <2>5, <2>6 DEF CardsInv
  <2>7. CASE ForThisHand(f)
    <3>1. \A c \in view.cards : c.hand = f.hand
      <4>1. view.hand = f.hand \/ view.cards = {}
        BY <1>1, <2>7 DEF ForThisHand, CardsInv, ViewTypes
      <4> QED BY <4>1 DEF CardsInv
    <3>2. After(f) = [view EXCEPT !.hand = f.hand, !.pending = asked]
      BY <2>4, <2>7
    <3>3. /\ After(f).hand = f.hand /\ After(f).cards = view.cards
          /\ After(f).pending = asked /\ After(f) \in ViewTypes
      BY <1>1, <2>1, <2>3, <3>2 DEF ViewTypes
    <3> QED BY <1>4, <2>2, <3>1, <3>3
  <2> QED BY <2>6, <2>7
<1>5. CASE f.type = "action.applied"
  <2>1. After(f) = IF view.pending.agent = f.agent THEN [view EXCEPT !.pending = NoPending] ELSE view
    BY <1>5 DEF After, AfterApplied
  <2>2. CASE view.pending.agent = f.agent
    BY <1>1, <2>1, <2>2 DEF ViewTypes, CardsInv
  <2>3. CASE view.pending.agent # f.agent
    <3>1. ~Clears(f, view.pending.agent) /\ After(f) = view
      BY <1>5, <2>1, <2>3 DEF Clears
    <3> QED BY <1>1, <3>1 DEF CardsInv
  <2> QED BY <2>2, <2>3
<1>6. CASE f.type = "hand.completed"
  <2>1. After(f) = [view EXCEPT !.pending = NoPending]
    BY <1>6 DEF After
  <2> QED BY <1>1, <2>1 DEF ViewTypes, CardsInv
<1> QED BY <1>2, <1>3, <1>4, <1>5, <1>6, FrameFacts

\* The effect on the pending request keeps the locks: they change only when
\* another request is shown, and then they are open.
LEMMA ShowKeeps ==
  ASSUME LiveInv, NEW v \in ViewTypes, Show(v), Known(v.pending.request),
         UNCHANGED <<turn, requests, MyHumans, posts>>
  PROVE  /\ page' \in [submitting : BOOLEAN, submitted : Nat]
         /\ Known(view.pending.request)' /\ (page.submitted <= requests)'
         /\ LocksInv'
<1>1. view' = v /\ page' = IF v.pending.request = view.pending.request THEN page
                           ELSE [submitting |-> FALSE, submitted |-> 0]
  BY DEF Show, Unlocked
<1>2. Known(view.pending.request)'
  BY <1>1 DEF Known
<1>3. requests \in Nat /\ Settled(0)
  <2>1. turn # Nobody => turn \in TurnTypes
    BY NewestHand DEF LiveInv
  <2> QED BY <2>1 DEF LiveInv, TableInv, TableTypes, TurnTypes, Settled
<1>4. CASE v.pending.request = view.pending.request
  <2>1. page' = page /\ view'.pending.request = view.pending.request
    BY <1>1, <1>4
  <2> QED BY <1>2, <2>1 DEF LiveInv, PageInv, PageTypes, KnownRequests, LocksInv, Settled
<1>5. CASE v.pending.request # view.pending.request
  <2>1. page'.submitting = FALSE /\ page'.submitted = 0
        /\ page' \in [submitting : BOOLEAN, submitted : Nat]
    BY <1>1, <1>5
  <2>2. page'.submitted <= requests'
    BY <1>3, <2>1
  <2>3. LocksInv'
    BY <1>3, <2>1 DEF LiveInv, PageInv, LocksInv, Settled
  <2> QED BY <1>2, <2>1, <2>2, <2>3
<1> QED BY <1>4, <1>5

LEMMA FrameKeeps ==
  ASSUME LiveInv, FrameArrives
  PROVE  LiveInv'
<1>1. TableInv' /\ UNCHANGED <<turn, requests, MyHumans>>
  BY TableRests DEF LiveInv, FrameArrives
<1>2. /\ wire \in Seq(Frames) /\ wire # <<>> /\ wire' = Tail(wire)
      /\ UNCHANGED <<socket, gets, posts, getsDone, postsDone, whole>>
  BY DEF FrameArrives, LiveInv, PageInv, PageTypes
<1>3. PICK f \in Frames : f = Head(wire)
  BY <1>2, HeadTailProperties
<1>4. /\ wire' \in Seq(Frames) /\ Len(wire) \in Nat \ {0} /\ Len(wire') = Len(wire) - 1
      /\ \A k \in 1 .. Len(wire') : wire'[k] = wire[k + 1]
      /\ wire[1] = f
  BY <1>2, <1>3, HeadTailProperties, EmptySeq
<1>5. PICK v : v = After(f)
  OBVIOUS
<1>6. /\ v \in ViewTypes /\ \A c \in v.cards : c.hand = v.hand
      /\ \/ v.pending = NoPending
         \/ v.pending = view.pending /\ ~Clears(f, view.pending.agent)
         \/ /\ f.type = "seat.action_requested"
            /\ v.pending = [hand |-> f.hand, agent |-> f.agent, request |-> f.request]
  BY <1>5, AfterFacts DEF LiveInv, PageInv
<1>7. Show(v)
  BY <1>3, <1>5 DEF FrameArrives
<1>8. Known(v.pending.request)
  <2>1. CASE v.pending = NoPending
    <3>1. v.pending.request = 0
      BY <2>1 DEF NoPending
    <3>2. 0 <= requests /\ (turn # Nobody => turn.request # 0)
      <4>1. turn # Nobody => turn \in TurnTypes
        BY NewestHand DEF LiveInv
      <4> QED BY <4>1 DEF LiveInv, TableInv, TableTypes, TurnTypes
    <3> QED BY <3>1, <3>2 DEF Known
  <2>2. CASE v.pending = view.pending
    BY <2>2 DEF LiveInv, PageInv, KnownRequests
  <2>3. CASE f.type = "seat.action_requested" /\ v.pending.request = f.request
    <3>1. 1 \in 1 .. Len(wire)
      BY <1>4
    <3>2. Known(wire[1].request)
      BY <1>4, <2>3, <3>1 DEF LiveInv, PageInv, KnownRequests
    <3> QED BY <1>4, <2>3, <3>2
  <2> QED BY <1>6, <2>1, <2>2, <2>3
<1>9. /\ page' \in [submitting : BOOLEAN, submitted : Nat]
      /\ Known(view.pending.request)' /\ (page.submitted <= requests)'
      /\ LocksInv'
  BY <1>1, <1>2, <1>6, <1>7, <1>8, ShowKeeps
<1>10. view' = v
  BY <1>7 DEF Show
<1>11. PageTypes' /\ CardsInv'
  BY <1>2, <1>4, <1>6, <1>9, <1>10 DEF LiveInv, PageInv, PageTypes, CardsInv, ViewTypes
<1>12. KnownRequests'
  <2>1. ASSUME NEW k \in 1 .. Len(wire'), wire'[k].type = "seat.action_requested"
        PROVE  Known(wire'[k].request)
    <3>1. k + 1 \in 1 .. Len(wire) /\ wire'[k] = wire[k + 1]
      BY <1>4
    <3>2. Known(wire[k + 1].request)
      BY <2>1, <3>1 DEF LiveInv, PageInv, KnownRequests
    <3> QED BY <3>1, <3>2
  <2>2. \A k \in 1 .. Len(wire') : wire'[k].type = "seat.action_requested" => Known(wire[k].request)'
    BY <1>1, <2>1 DEF Known
  <2>3. \A p \in posts' : Known(p.request)'
    BY <1>1, <1>2 DEF Known, LiveInv, PageInv, KnownRequests
  <2> QED BY <1>9, <2>2, <2>3 DEF KnownRequests, Known
<1>13. ASSUME NEW k \in 0 .. Len(wire'), NEW a, NEW r, AwaitedOrCleared(k + 1, a, r)
       PROVE  \/ turn' # Nobody /\ turn'.agent = a /\ turn'.request = r
              \/ \E j \in 1 .. Len(wire') : j > k /\ Clears(wire'[j], a)
  <2>1. CASE IsAwaited(a, r)
    BY <1>1, <2>1 DEF IsAwaited
  <2>2. CASE \E j \in 1 .. Len(wire) : j > k + 1 /\ Clears(wire[j], a)
    <3>1. PICK j \in 1 .. Len(wire) : j > k + 1 /\ Clears(wire[j], a)
      BY <2>2
    <3>2. j - 1 \in 1 .. Len(wire') /\ j - 1 > k /\ wire'[j - 1] = wire[(j - 1) + 1] /\ (j - 1) + 1 = j
      BY <1>4, <3>1
    <3>3. Clears(wire'[j - 1], a)
      BY <3>1, <3>2
    <3> QED BY <3>2, <3>3
  <2> QED BY <1>13, <2>1, <2>2 DEF AwaitedOrCleared
<1>14. InStep'
  <2> SUFFICES ASSUME whole' PROVE InStep'
    BY DEF InStep
  <2>1. /\ whole /\ socket' = "subscribed"
        /\ view.pending # NoPending => AwaitedOrCleared(0, view.pending.agent, view.pending.request)
        /\ \A k \in 1 .. Len(wire) : wire[k].type = "seat.action_requested" =>
             AwaitedOrCleared(k, wire[k].agent, wire[k].request)
    BY <1>2 DEF LiveInv, PageInv, InStep
  <2>2. ASSUME NEW k \in 1 .. Len(wire'), wire'[k].type = "seat.action_requested"
        PROVE  AwaitedOrCleared(k, wire[k].agent, wire[k].request)'
    <3>1. k + 1 \in 1 .. Len(wire) /\ wire'[k] = wire[k + 1] /\ k \in 0 .. Len(wire')
      BY <1>4
    <3>2. PICK a, r : a = wire[k + 1].agent /\ r = wire[k + 1].request
      OBVIOUS
    <3>3. AwaitedOrCleared(k + 1, a, r)
      BY <2>1, <2>2, <3>1, <3>2
    <3>4. \/ turn' # Nobody /\ turn'.agent = a /\ turn'.request = r
          \/ \E j \in 1 .. Len(wire') : j > k /\ Clears(wire'[j], a)
      BY <1>13, <3>1, <3>3
    <3>5. a = wire'[k].agent /\ r = wire'[k].request
      BY <3>1, <3>2
    <3> QED BY <3>4, <3>5 DEF AwaitedOrCleared, IsAwaited
  <2>3. ASSUME view'.pending # NoPending
        PROVE  AwaitedOrCleared(0, view.pending.agent, view.pending.request)'
    <3>1. PICK a, r : a = v.pending.agent /\ r = v.pending.request
      OBVIOUS
    <3>2. AwaitedOrCleared(1, a, r)
      <4>1. CASE v.pending = view.pending /\ ~Clears(f, view.pending.agent)
        <5>1. AwaitedOrCleared(0, a, r) /\ ~Clears(wire[1], a)
          BY <1>4, <1>10, <2>1, <2>3, <3>1, <4>1
        <5>2. \A j \in 1 .. Len(wire) : Clears(wire[j], a) => j > 1
          BY <1>4, <5>1
        <5> QED BY <5>1, <5>2 DEF AwaitedOrCleared
      <4>2. CASE /\ f.type = "seat.action_requested"
                 /\ v.pending = [hand |-> f.hand, agent |-> f.agent, request |-> f.request]
        <5>1. 1 \in 1 .. Len(wire) /\ a = wire[1].agent /\ r = wire[1].request
          BY <1>4, <3>1, <4>2
        <5> QED BY <1>4, <2>1, <4>2, <5>1
      <4> QED BY <1>6, <1>10, <2>3, <4>1, <4>2
    <3>3. 0 \in 0 .. Len(wire') /\ 0 + 1 = 1
      BY <1>4
    <3>4. \/ turn' # Nobody /\ turn'.agent = a /\ turn'.request = r
          \/ \E j \in 1 .. Len(wire') : j > 0 /\ Clears(wire'[j], a)
      BY <1>13, <3>2, <3>3
    <3> QED BY <1>10, <3>1, <3>4 DEF AwaitedOrCleared, IsAwaited
  <2> QED BY <2>1, <2>2, <2>3 DEF InStep
<1> QED BY <1>1, <1>9, <1>11, <1>12, <1>14 DEF LiveInv, PageInv

\* The steps of the page that leave the wire and the request shown as they are.
LEMMA WireRests ==
  ASSUME LiveInv, UNCHANGED <<turn, requests, MyHumans, socket, wire, whole>>,
         view'.pending = view.pending
  PROVE  /\ InStep' /\ Known(view.pending.request)'
         /\ \A k \in 1 .. Len(wire') : wire'[k].type = "seat.action_requested" => Known(wire[k].request)'
<1>1. InStep /\ KnownRequests
  BY DEF LiveInv, PageInv
<1>2. InStep'
  BY <1>1 DEF InStep, AwaitedOrCleared, IsAwaited
<1>3. Known(view.pending.request)'
  BY <1>1 DEF KnownRequests, Known
<1>4. \A k \in 1 .. Len(wire') : wire'[k].type = "seat.action_requested" => Known(wire[k].request)'
  BY <1>1 DEF KnownRequests, Known
<1> QED BY <1>2, <1>3, <1>4

LEMMA SnapshotKeeps ==
  ASSUME LiveInv, Refresh \/ SnapshotLoaded
  PROVE  LiveInv'
<1>1. TableInv' /\ UNCHANGED <<turn, requests, MyHumans>>
  BY TableRests DEF LiveInv, Refresh, SnapshotLoaded
<1>2. CASE Refresh
  <2>1. /\ UNCHANGED <<socket, wire, view, page, posts, postsDone, whole>>
        /\ getsDone' = getsDone + 1
        /\ gets' = gets \cup {[id |-> getsDone', hand |-> currentHand, seats |-> adapters]}
    BY <1>2 DEF Refresh
  <2>2. adapters \subseteq Agents /\ currentHand \in Nat
    BY SeatFacts DEF LiveInv, TableInv, TableTypes, Kept
  <2>3. PageTypes'
    BY <2>1, <2>2 DEF LiveInv, PageInv, PageTypes
  <2>4. InStep' /\ KnownRequests'
    BY <1>1, <2>1, WireRests DEF LiveInv, PageInv, KnownRequests, Known
  <2>5. CardsInv' /\ LocksInv'
    BY <1>1, <2>1 DEF LiveInv, PageInv, CardsInv, LocksInv, Settled
  <2> QED BY <1>1, <2>3, <2>4, <2>5 DEF LiveInv, PageInv
<1>3. CASE SnapshotLoaded
  <2>1. PICK g \in gets :
          /\ gets' = gets \ {g}
          /\ Show([view EXCEPT !.hand = g.hand, !.seats = g.seats, !.cards = Preserved(g)])
          /\ UNCHANGED <<tableVars, socket, wire, posts, getsDone, postsDone, whole>>
    BY <1>3 DEF SnapshotLoaded
  <2>2. PICK v : v = [view EXCEPT !.hand = g.hand, !.seats = g.seats, !.cards = Preserved(g)]
    OBVIOUS
  <2>3. g.hand \in Nat /\ g.seats \subseteq Agents /\ view \in ViewTypes
    BY DEF LiveInv, PageInv, PageTypes, ViewTypes
  <2>4. Preserved(g) \subseteq view.cards /\ \A c \in Preserved(g) : c.hand = g.hand
    BY DEF Preserved, LiveInv, PageInv, CardsInv
  <2>5. Preserved(g) \in SUBSET [agent : Agents, hand : Nat \ {0}]
    BY <2>3, <2>4 DEF ViewTypes
  <2>6. /\ v \in ViewTypes /\ v.pending = view.pending /\ v.hand = g.hand /\ v.cards = Preserved(g)
    BY <2>2, <2>3, <2>5 DEF ViewTypes
  <2>7. Show(v) /\ view' = v
    BY <2>1, <2>2 DEF Show
  <2>8. Known(v.pending.request)
    BY <2>6 DEF LiveInv, PageInv, KnownRequests
  <2>9. /\ page' \in [submitting : BOOLEAN, submitted : Nat]
        /\ Known(view.pending.request)' /\ (page.submitted <= requests)'
        /\ LocksInv'
    BY <1>1, <2>1, <2>6, <2>7, <2>8, ShowKeeps
  <2>10. PageTypes' /\ CardsInv'
    BY <2>1, <2>4, <2>6, <2>7, <2>9 DEF LiveInv, PageInv, PageTypes, CardsInv, ViewTypes
  <2>11. InStep' /\ \A k \in 1 .. Len(wire') : wire'[k].type = "seat.action_requested" => Known(wire[k].request)'
    BY <1>1, <2>1, <2>6, <2>7, WireRests
  <2>12. \A p \in posts' : Known(p.request)'
    BY <1>1, <2>1 DEF Known, LiveInv, PageInv, KnownRequests
  <2>13. KnownRequests'
    BY <2>9, <2>11, <2>12 DEF KnownRequests
  <2> QED BY <1>1, <2>9, <2>10, <2>11, <2>13 DEF LiveInv, PageInv
<1> QED BY <1>2, <1>3

PostTypes == [id : Nat, hand : Nat, request : Nat, state : {"sent", "accepted", "failed"}]

LEMMA ClickKeeps ==
  ASSUME LiveInv, Click
  PROVE  LiveInv'
<1>1. TableInv' /\ UNCHANGED <<turn, requests, MyHumans>>
  BY TableRests DEF LiveInv, Click
<1>2. UNCHANGED <<socket, wire, view, gets, getsDone, whole>> /\ postsDone' = postsDone + 1
      /\ page' = [page EXCEPT !.submitting = TRUE]
  BY DEF Click
<1>3. PICK p : p = [id |-> postsDone', hand |-> view.pending.hand, request |-> view.pending.request,
                    state |-> "sent"]
  OBVIOUS
<1>4. posts' = posts \cup {p}
  BY <1>3 DEF Click
<1>5. p \in PostTypes /\ p.request = view.pending.request /\ p.state = "sent"
  BY <1>2, <1>3 DEF PostTypes, LiveInv, PageInv, PageTypes
<1>6. page' \in [submitting : BOOLEAN, submitted : Nat] /\ page'.submitted = page.submitted
  BY <1>2 DEF LiveInv, PageInv, PageTypes
<1>7. PageTypes'
  BY <1>2, <1>4, <1>5, <1>6 DEF LiveInv, PageInv, PageTypes, PostTypes
<1>8. InStep' /\ Known(view.pending.request)'
      /\ \A k \in 1 .. Len(wire') : wire'[k].type = "seat.action_requested" => Known(wire[k].request)'
  BY <1>1, <1>2, WireRests
<1>9. KnownRequests'
  BY <1>1, <1>4, <1>5, <1>6, <1>8 DEF LiveInv, PageInv, KnownRequests, Known
<1>10. CardsInv' /\ LocksInv'
  BY <1>1, <1>2, <1>4, <1>5, <1>6 DEF LiveInv, PageInv, CardsInv, LocksInv, Settled
<1> QED BY <1>1, <1>7, <1>8, <1>9, <1>10 DEF LiveInv, PageInv

\* An accepted POST names only the hand; the request it settles is the one it was
\* meant for, or that one was settled before.
LEMMA AcceptedKeeps ==
  ASSUME LiveInv, PostAccepted
  PROVE  LiveInv'
<1>1. PICK p \in posts :
        /\ p.state = "sent" /\ Submit(Me, p.hand) /\ Becomes(p, "accepted")
        /\ wire' = IF socket = "subscribed" THEN wire \o DecidedFrames ELSE wire
        /\ UNCHANGED <<socket, view, gets, page, drops, getsDone, postsDone, whole>>
  BY DEF PostAccepted
<1>2. /\ TableInv' /\ requests' = requests /\ UNCHANGED <<seats, handNumber, currentHand>>
      /\ turn' \in {turn, Nobody}
  BY <1>1, SubmitStep, LiveAssumption DEF LiveInv
<1>3. PICK i \in SeatsOf(Me) : /\ seats[i].kind = "human"
                               /\ turn # Nobody /\ turn.agent = seats[i].agent => turn' = Nobody
  BY <1>1, SubmitStep, LiveAssumption DEF LiveInv
<1>4. MyHumans' = MyHumans
  BY <1>2 DEF MyHumans, SeatsOf, Taken
<1>5. TurnMoves
  BY <1>2, <1>4 DEF TurnMoves, LiveInv, TableInv, TableTypes
<1>6. PICK fr \in Seq(Frames) :
        /\ wire' = IF socket = "subscribed" THEN wire \o fr ELSE wire
        /\ \A k \in 1 .. Len(fr) : fr[k].type # "seat.action_requested"
        /\ \A a, r : IsAwaited(a, r) => IsAwaited(a, r)' \/ \E k \in 1 .. Len(fr) : Clears(fr[k], a)
  <2>1. PICK fr \in Seq(Frames) :
          /\ fr = DecidedFrames
          /\ \A k \in 1 .. Len(fr) : fr[k].type # "seat.action_requested"
          /\ turn # Nobody /\ turn' # turn => \E k \in 1 .. Len(fr) : Clears(fr[k], turn.agent)
    BY <1>2, DecidedFacts DEF LiveInv
  <2>2. \A a, r : IsAwaited(a, r) => IsAwaited(a, r)' \/ \E k \in 1 .. Len(fr) : Clears(fr[k], a)
    BY <2>1 DEF IsAwaited
  <2> QED BY <1>1, <2>1, <2>2
<1>7. wire' \in Seq(Frames) /\ InStep'
  BY <1>1, <1>6, PublishInStep DEF LiveInv, PageInv, InStep
<1>8. PICK q : q = [p EXCEPT !.state = "accepted"]
  OBVIOUS
<1>9. q \in PostTypes /\ q.request = p.request /\ posts' = (posts \ {p}) \cup {q}
  BY <1>1, <1>8 DEF LiveInv, PageInv, PageTypes, PostTypes, Becomes
<1>10. KnownRequests'
  <2>1. \A x \in posts' : \E y \in posts : x.request = y.request
    BY <1>9
  <2> QED BY <1>1, <1>5, <1>6, <2>1, KnowledgeKeeps DEF LiveInv, PageInv
<1>11. PageTypes' /\ CardsInv'
  BY <1>1, <1>7, <1>9 DEF LiveInv, PageInv, PageTypes, CardsInv, PostTypes
<1>12. turn' = Nobody \/ turn'.request # p.request
  <2> SUFFICES ASSUME turn' # Nobody, turn'.request = p.request
               PROVE  FALSE
    OBVIOUS
  <2>1. turn' = turn /\ turn # Nobody /\ turn.request = p.request
    BY <1>2
  <2>2. turn.agent \in MyHumans
    BY <2>1 DEF LiveInv, PageInv, KnownRequests, Known
  <2>3. PICK j \in SeatsOf(Me) : seats[j].kind = "human" /\ seats[j].agent = turn.agent
    BY <2>2 DEF MyHumans
  <2>4. i = j
    BY <1>3, <2>3 DEF LiveInv, TableInv, Kept, SeatsOf
  <2> QED BY <1>3, <2>1, <2>3, <2>4
<1>13. \A r : Settled(r) => turn' = Nobody \/ turn'.request # r
  BY <1>2 DEF Settled
<1>14. LocksInv'
  <2>1. \A x \in posts' : x.state = "accepted" => turn' = Nobody \/ turn'.request # x.request
    BY <1>9, <1>12, <1>13 DEF LiveInv, PageInv, LocksInv
  <2>2. turn' = Nobody \/ turn'.request # page'.submitted
    BY <1>1, <1>13 DEF LiveInv, PageInv, LocksInv
  <2>3. page'.submitting => \/ turn' = Nobody \/ turn'.request # view'.pending.request
                            \/ \E x \in posts' : x.request = view'.pending.request
    BY <1>1, <1>9, <1>13 DEF LiveInv, PageInv, LocksInv
  <2> QED BY <2>1, <2>2, <2>3 DEF LocksInv, Settled
<1> QED BY <1>2, <1>7, <1>10, <1>11, <1>14 DEF LiveInv, PageInv

LEMMA RefusedKeeps ==
  ASSUME LiveInv, PostRefused
  PROVE  LiveInv'
<1>1. TableInv' /\ UNCHANGED <<turn, requests, MyHumans>>
  BY TableRests DEF LiveInv, PostRefused
<1>2. PICK p \in posts :
        /\ p.state = "sent" /\ Becomes(p, "failed")
        /\ UNCHANGED <<socket, wire, view, gets, page, getsDone, postsDone, whole>>
  BY DEF PostRefused
<1>3. PICK q : q = [p EXCEPT !.state = "failed"]
  OBVIOUS
<1>4. q \in PostTypes /\ q.request = p.request /\ q.state = "failed" /\ posts' = (posts \ {p}) \cup {q}
  BY <1>2, <1>3 DEF LiveInv, PageInv, PageTypes, PostTypes, Becomes
<1>5. PageTypes' /\ CardsInv'
  BY <1>2, <1>4 DEF LiveInv, PageInv, PageTypes, CardsInv, PostTypes
<1>6. InStep' /\ Known(view.pending.request)'
      /\ \A k \in 1 .. Len(wire') : wire'[k].type = "seat.action_requested" => Known(wire[k].request)'
  BY <1>1, <1>2, WireRests
<1>7. KnownRequests'
  BY <1>1, <1>2, <1>4, <1>6 DEF LiveInv, PageInv, KnownRequests, Known
<1>8. LocksInv'
  BY <1>1, <1>2, <1>4 DEF LiveInv, PageInv, LocksInv, Settled
<1> QED BY <1>1, <1>5, <1>6, <1>7, <1>8 DEF LiveInv, PageInv

LEMMA AnsweredKeeps ==
  ASSUME LiveInv, PostAnswered
  PROVE  LiveInv'
<1>1. TableInv' /\ UNCHANGED <<turn, requests, MyHumans>>
  BY TableRests DEF LiveInv, PostAnswered
<1>2. PICK p \in posts :
        /\ posts' = posts \ {p}
        /\ \/ p.state = "accepted" /\ page' = [page EXCEPT !.submitted = p.request]
           \/ page' = [page EXCEPT !.submitting = FALSE]
        /\ UNCHANGED <<socket, wire, view, gets, getsDone, postsDone, whole>>
  BY DEF PostAnswered
<1>3. p.request \in Nat /\ p.request <= requests /\ (p.state = "accepted" => Settled(p.request))
  BY KnownAreNat DEF LiveInv, PageInv, KnownRequests, Known, LocksInv
<1>4. /\ page' \in [submitting : BOOLEAN, submitted : Nat]
      /\ \/ p.state = "accepted" /\ page'.submitted = p.request /\ page'.submitting = page.submitting
         \/ page'.submitted = page.submitted /\ page'.submitting = FALSE
  BY <1>2, <1>3 DEF LiveInv, PageInv, PageTypes
<1>5. PageTypes' /\ CardsInv'
  BY <1>2, <1>4 DEF LiveInv, PageInv, PageTypes, CardsInv
<1>6. InStep' /\ Known(view.pending.request)'
      /\ \A k \in 1 .. Len(wire') : wire'[k].type = "seat.action_requested" => Known(wire[k].request)'
  BY <1>1, <1>2, WireRests
<1>7. page'.submitted <= requests'
  BY <1>1, <1>3, <1>4 DEF LiveInv, PageInv, KnownRequests
<1>8. KnownRequests'
  BY <1>1, <1>2, <1>6, <1>7 DEF LiveInv, PageInv, KnownRequests, Known
<1>9. LocksInv'
  BY <1>1, <1>2, <1>3, <1>4 DEF LiveInv, PageInv, LocksInv, Settled
<1> QED BY <1>1, <1>5, <1>6, <1>8, <1>9 DEF LiveInv, PageInv

-----------------------------------------------------------------------------
(* From the first state on.                                                 *)

LEMMA LiveStarts ==
  ASSUME Init
  PROVE  LiveInv
<1>1. /\ seats = [i \in Seats |-> IF i \in SeatedBy
                    THEN [agent |-> Seating[i].agent, owner |-> Seating[i].owner,
                          kind |-> Seating[i].kind, stack |-> BuyIn, sitOut |-> FALSE]
                    ELSE Nobody]
      /\ adapters = {Seating[i].agent : i \in SeatedBy} /\ seated = Cardinality(SeatedBy)
      /\ tableStatus = "preparing" /\ currentHand = 0 /\ handNumber = 0 /\ handInProgress = FALSE
      /\ hands = NoHands /\ turns = NoTurns /\ overrun = FALSE
      /\ pending = [a \in Agents |-> NoRequest] /\ requests = 0
      /\ socket = "down" /\ wire = <<>> /\ gets = {} /\ posts = {}
      /\ view = [hand |-> 0, pending |-> NoPending, seats |-> adapters, cards |-> {}]
      /\ page = [submitting |-> FALSE, submitted |-> 0]
      /\ getsDone = 0 /\ postsDone = 0 /\ whole = FALSE
  BY DEF Init
<1>2. SeatedBy \subseteq Seats /\ Cardinality(SeatedBy) \in Nat
  <2>1. IsFiniteSet(Seats)
    BY FS_Interval, TableAssumption DEF Seats
  <2>2. SeatedBy \in SUBSET Seats
    BY DEF SeatedBy
  <2> QED BY <2>1, <2>2, FS_Subset, FS_CardinalityType
<1>3. ASSUME NEW i \in SeatedBy
      PROVE  /\ seats[i] \in Occupants /\ seats[i] # Nobody
             /\ seats[i].agent = Seating[i].agent /\ seats[i].owner = Seating[i].owner
             /\ seats[i].kind = Seating[i].kind
             /\ Seating[i].agent \in Agents /\ Seating[i].agent <= Cardinality(SeatedBy)
  <2>1. Seating[i] \in [agent : Agents, owner : Users, kind : {"human", "mock"}]
    BY LiveAssumption
  <2>2. seats[i] = [agent |-> Seating[i].agent, owner |-> Seating[i].owner,
                    kind |-> Seating[i].kind, stack |-> BuyIn, sitOut |-> FALSE]
    BY <1>1, <1>2
  <2>3. BuyIn \in Nat \ {0}
    BY TableAssumption
  <2>4. seats[i] \in Occupants
    BY <2>1, <2>2, <2>3 DEF Occupants
  <2>5. Seating[i].agent \in 1 .. Cardinality(SeatedBy)
    BY LiveAssumption
  <2>6. Seating[i].agent <= Cardinality(SeatedBy)
    BY <1>2, <2>5
  <2>7. seats[i] # Nobody
    BY <2>4, TableAssumption
  <2>8. /\ seats[i].agent = Seating[i].agent /\ seats[i].owner = Seating[i].owner
        /\ seats[i].kind = Seating[i].kind
    BY <2>2
  <2> QED BY <2>1, <2>4, <2>6, <2>7, <2>8
<1>4. Taken = SeatedBy /\ seats \in [Seats -> Occupants \cup {Nobody}]
  <2>1. \A i \in Seats : i \in SeatedBy \/ seats[i] = Nobody
    BY <1>1
  <2>2. DOMAIN seats = Seats /\ \A i \in Seats : seats[i] \in Occupants \cup {Nobody}
    BY <1>1, <1>3, <2>1
  <2>3. seats = [i \in Seats |-> seats[i]]
    BY <1>1
  <2> QED BY <1>2, <1>3, <2>1, <2>2, <2>3 DEF Taken
<1>5. NoRequest \in [hand : Nat, request : Nat] /\ NoRequest.request = 0
  BY DEF NoRequest
<1>6. turn = Nobody /\ hand.stage = "over" /\ DOMAIN hand.chips = {}
  BY <1>1, FreshHands
<1>17. OthersQuiet
  BY <1>1, FreshHands DEF OthersQuiet, Quiet
<1>7. TableTypes
  BY <1>1, <1>2, <1>4, <1>5, FreshHands DEF TableTypes
<1>8. Kept
  <2>1. \A i, j \in Taken : seats[i].agent = seats[j].agent => i = j
    BY <1>3, <1>4, LiveAssumption
  <2>2. adapters = {seats[i].agent : i \in Taken}
    <3>1. adapters = {Seating[i].agent : i \in SeatedBy} /\ Taken = SeatedBy
      BY <1>1, <1>4
    <3>2. \A i \in SeatedBy : seats[i].agent = Seating[i].agent
      BY <1>3
    <3> QED BY <3>1, <3>2
  <2>3. \A i, j \in Taken : seats[i].owner = seats[j].owner
                            /\ seats[i].kind = "human" /\ seats[j].kind = "human" => i = j
    BY <1>3, <1>4, LiveAssumption
  <2> QED BY <1>1, <1>5, <1>6, <2>1, <2>2, <2>3 DEF Kept
<1>9. Numbered
  <2>1. \A i \in Taken : seats[i].agent <= seated
    <3>1. \A i \in SeatedBy : seats[i].agent <= Cardinality(SeatedBy)
      BY <1>3
    <3> QED BY <1>1, <1>4, <3>1
  <2>2. turn = Nobody /\ ~handInProgress /\ requests = 0
    BY <1>1, <1>6
  <2>3. \A a \in Agents : pending[a].request <= requests
    BY <1>1, <1>5
  <2> QED BY <1>6, <2>1, <2>2, <2>3 DEF Numbered
<1>10. NoPending \in [hand : Nat, agent : Nat, request : Nat] /\ NoPending.request = 0
  BY DEF NoPending
<1>11. adapters \subseteq Agents
  BY <1>1, <1>3
<1>12. wire \in Seq(Frames) /\ Len(wire) = 0 /\ 1 .. Len(wire) = {}
  BY <1>1, EmptySeq
<1>13. PageTypes
  BY <1>1, <1>10, <1>11, <1>12 DEF PageTypes
<1>14. InStep /\ CardsInv
  BY <1>1 DEF InStep, CardsInv
<1>15. KnownRequests
  BY <1>1, <1>6, <1>10, <1>12 DEF KnownRequests, Known
<1>16. LocksInv
  BY <1>1, <1>6 DEF LocksInv, Settled
<1> QED BY <1>1, <1>7, <1>8, <1>9, <1>17, <1>13, <1>14, <1>15, <1>16 DEF LiveInv, TableInv, PageInv

LEMMA LiveStep ==
  ASSUME LiveInv, [Next]_vars, ~overrun'
  PROVE  LiveInv'
<1>1. CASE UNCHANGED vars
  <2>1. UNCHANGED <<tableVars, socket, wire, view, gets, page, posts, getsDone, postsDone, whole>>
    BY <1>1 DEF vars, pageVars
  <2>2. TableInv' /\ UNCHANGED <<turn, requests, MyHumans>>
    BY <2>1, TableRests DEF LiveInv
  <2>3. InStep' /\ KnownRequests'
    BY <2>1, <2>2, WireRests DEF LiveInv, PageInv, KnownRequests, Known
  <2> QED BY <2>1, <2>2, <2>3 DEF LiveInv, PageInv, PageTypes, CardsInv, LocksInv, Settled
<1>2. CASE LiveStart
  BY <1>2, StartKeeps
<1>3. CASE LiveRequest
  BY <1>3, RequestKeeps
<1>4. CASE LiveOthers
  BY <1>4, OthersKeep
<1>5. CASE LiveHandOver
  BY <1>5, HandOverKeeps
<1>7. CASE SocketOpens \/ SocketDrops
  BY <1>7, SocketKeeps
<1>8. CASE FrameArrives
  BY <1>8, FrameKeeps
<1>9. CASE Refresh \/ SnapshotLoaded
  BY <1>9, SnapshotKeeps
<1>10. CASE Click
  BY <1>10, ClickKeeps
<1>11. CASE PostAccepted
  BY <1>11, AcceptedKeeps
<1>12. CASE PostRefused
  BY <1>12, RefusedKeeps
<1>13. CASE PostAnswered
  BY <1>13, AnsweredKeeps
<1> QED BY <1>1, <1>2, <1>3, <1>4, <1>5, <1>7, <1>8, <1>9, <1>10, <1>11, <1>12, <1>13 DEF Next

\* The page's own steps do not touch it.
LEMMA OverrunRemains ==
  ASSUME overrun \in BOOLEAN, [Next]_vars
  PROVE  overrun' \in BOOLEAN /\ (overrun => overrun')
<1>1. CASE LiveStart \/ LiveRequest \/ LiveHandOver \/ LiveOthers
  <2>1. [TableNext]_tableVars
    BY <1>1 DEF LiveStart, LiveRequest, LiveHandOver, LiveOthers, Others, TableNext
  <2> QED BY <2>1, OverrunStays
<1>2. CASE PostAccepted
  BY <1>2 DEF PostAccepted, Submit
<1>3. CASE \/ SocketOpens \/ SocketDrops \/ FrameArrives \/ Refresh \/ SnapshotLoaded
           \/ Click \/ PostRefused \/ PostAnswered \/ UNCHANGED vars
  <2>1. UNCHANGED tableVars
    BY <1>3 DEF SocketOpens, SocketDrops, FrameArrives, Refresh, SnapshotLoaded, Click, PostRefused,
                PostAnswered, vars
  <2> QED BY <2>1 DEF tableVars
<1> QED BY <1>1, <1>2, <1>3 DEF Next

\* The invariant of a table and a page that watches it, for any number of users,
\* seats, hands, requests, POSTs, refreshes and lost sockets, up to a save that
\* fails under the next hand.
THEOREM LiveInvariant == Spec => [](overrun \/ LiveInv)
<1> DEFINE Inv == overrun \in BOOLEAN /\ (overrun \/ LiveInv)
<1>1. Init => Inv
  BY LiveStarts DEF Init
<1>2. Inv /\ [Next]_vars => Inv'
  BY OverrunRemains, LiveStep
<1>3. Inv => overrun \/ LiveInv
  OBVIOUS
<1> QED BY <1>1, <1>2, <1>3, PTL DEF Spec

\* What the page shows is the hand that is played: no hole cards of another hand,
\* no buttons for a request that nobody awaits when no frame was lost, and no
\* buttons locked for one that is awaited (liveTableReducer, TablePage,
\* TableOrchestrator.submitHumanAction), unless a save failed under the next hand.
THEOREM LivePageInStep == Spec => []PageInStep
<1>1. overrun \/ LiveInv => PageInStep
  <2> SUFFICES ASSUME LiveInv PROVE PageShowsHand
    BY DEF PageInStep
  <2>1. \A c \in view.cards : c.hand = view.hand
    BY DEF LiveInv, PageInv, CardsInv
  <2>2. ASSUME whole, wire = <<>>, view.pending # NoPending
        PROVE  Awaited(view.pending)
    <3>1. 1 .. Len(wire) = {}
      BY <2>2, EmptySeq
    <3>2. IsAwaited(view.pending.agent, view.pending.request)
      BY <2>2, <3>1 DEF LiveInv, PageInv, InStep, AwaitedOrCleared
    <3>3. turn # Nobody /\ turn.agent = view.pending.agent /\ turn.request = view.pending.request
      BY <3>2 DEF IsAwaited
    <3>4. turn \in TurnTypes /\ turn = turns[handNumber] /\ handNumber \in AllHands
      BY <3>3, NewestHand DEF LiveInv
    <3>5. handNumber # 0
      BY <3>3 DEF LiveInv, TableInv, Kept, Numbered
    <3>6. handNumber \in Hands
      BY <3>4, <3>5, TableAssumption DEF AllHands, Hands
    <3>7. turn = [agent |-> view.pending.agent, request |-> view.pending.request]
      BY <3>3, <3>4 DEF TurnTypes
    <3> QED BY <3>4, <3>6, <3>7 DEF Awaited
  <2>3. ASSUME Locked, posts = {}, NEW h \in Hands,
               turns[h] = [agent |-> view.pending.agent, request |-> view.pending.request]
        PROVE  FALSE
    <3>1. Settled(view.pending.request)
      BY <2>3 DEF LiveInv, PageInv, LocksInv, Locked
    <3>2. turns[h] # Nobody
      <4>1. turns[h] \in [agent : Nat, request : Nat]
        BY <2>3 DEF LiveInv, PageInv, PageTypes
      <4> QED BY <4>1, TableAssumption
    <3>3. h = handNumber /\ turn = turns[handNumber]
      BY <3>2, NewestHand DEF LiveInv
    <3>4. turn.request = view.pending.request
      BY <2>3, <3>3
    <3> QED BY <3>1, <3>2, <3>3, <3>4 DEF Settled
  <2> QED BY <2>1, <2>2, <2>3 DEF PageShowsHand, Awaited
<1> QED BY <1>1, LiveInvariant, PTL

-----------------------------------------------------------------------------
(* Numbers in order.                                                        *)

\* A list without repetitions has as many elements as places.
OneToOne(m, s) == m \in Nat /\ \A i, j \in 1..m : s[i] = s[j] => i = j

LEMMA Distinct ==
  ASSUME NEW m, NEW s, OneToOne(m, s)
  PROVE  IsFiniteSet({s[i] : i \in 1..m}) /\ Cardinality({s[i] : i \in 1..m}) = m
<1> DEFINE T == {s[i] : i \in 1..m}  f == [i \in 1..m |-> s[i]]
<1>1. f \in Bijection(1..m, T)
  BY DEF OneToOne, Bijection, Injection, Surjection, IsInjective
<1>2. ExistsBijection(1..m, T)
  BY <1>1 DEF ExistsBijection
<1>3. IsFiniteSet(1..m) /\ Cardinality(1..m) = m
  BY UpTo DEF OneToOne
<1> QED BY <1>2, <1>3, FS_Bijection

\* The numbers of a list that falls.
Falls(m, s) ==
  /\ m \in Nat /\ s = [i \in 1..m |-> s[i]]
  /\ \A i \in 1..m : s[i] \in Int
  /\ \A i, j \in 1..m : i < j => s[i] > s[j]

\* Put in order, the numbers of a list that falls are the list.
LEMMA DescendingList ==
  ASSUME NEW m, NEW s, Falls(m, s)
  PROVE  Descending({s[i] : i \in 1..m}) = s
<1> DEFINE T == {s[i] : i \in 1..m}
<1>1. m \in Nat /\ DOMAIN s = 1..m /\ \A i, j \in 1..m : s[i] = s[j] => i = j
  <2>1. \A i, j \in 1..m : i < j \/ j < i \/ i = j
    OBVIOUS
  <2> QED BY <2>1 DEF Falls
<1>2. Cardinality({s[i] : i \in 1..m}) = m
  <2>1. OneToOne(m, s)
    BY <1>1 DEF OneToOne
  <2> QED BY <2>1, Distinct
<1>3. ASSUME NEW k \in 1..m
      PROVE  Cardinality({q \in T : q > s[k]}) = k - 1
  <2> DEFINE t == [i \in 1..(k - 1) |-> s[i]]
  <2>1. k - 1 \in Nat /\ \A i \in 1..(k - 1) : i \in 1..m /\ t[i] = s[i]
    BY <1>1
  <2>2. OneToOne(k - 1, t)
    BY <1>1, <2>1 DEF OneToOne
  <2>3. Cardinality({t[i] : i \in 1..(k - 1)}) = k - 1
    BY <2>2, Distinct
  <2>4. {q \in T : q > s[k]} = {t[i] : i \in 1..(k - 1)}
    <3>1. ASSUME NEW i \in 1..m, s[i] > s[k]
          PROVE  i \in 1..(k - 1)
      <4>1. ~(i >= k)
        BY <1>1, <3>1 DEF Falls
      <4> QED BY <1>1, <4>1
    <3>2. ASSUME NEW i \in 1..(k - 1)
          PROVE  s[i] > s[k]
      BY <1>1 DEF Falls
    <3> QED BY <2>1, <3>1, <3>2
  <2> QED BY <2>3, <2>4
<1>4. ASSUME NEW k \in 1..m
      PROVE  (CHOOSE r \in T : Cardinality({q \in T : q > r}) = k - 1) = s[k]
  <2>1. ASSUME NEW r \in T, Cardinality({q \in T : q > r}) = k - 1
        PROVE  r = s[k]
    <3>1. PICK j \in 1..m : r = s[j]
      OBVIOUS
    <3>2. j - 1 = k - 1
      BY <1>3, <2>1, <3>1
    <3> QED BY <1>1, <3>1, <3>2
  <2>2. s[k] \in T /\ Cardinality({q \in T : q > s[k]}) = k - 1
    BY <1>3
  <2> HIDE DEF T
  <2> QED BY <2>1, <2>2
<1>5. Descending(T) = [k \in 1..m |-> CHOOSE r \in T : Cardinality({q \in T : q > r}) = k - 1]
  BY <1>2 DEF Descending
<1>6. [k \in 1..m |-> CHOOSE r \in T : Cardinality({q \in T : q > r}) = k - 1]
        = [k \in 1..m |-> s[k]]
  BY <1>4
<1> QED BY <1>5, <1>6 DEF Falls

\* The lists that a hand has, written out.
LEMMA Descending0 == Descending({}) = <<>>
<1> DEFINE s == <<>>
<1>1. Falls(0, s)
  BY DEF Falls
<1>2. {s[i] : i \in 1..0} = {}
  OBVIOUS
<1> HIDE DEF s
<1>3. Descending({s[i] : i \in 1..0}) = s
  BY <1>1, DescendingList
<1> QED BY <1>2, <1>3 DEF s

LEMMA Descending1 ==
  ASSUME NEW a \in Int
  PROVE  Descending({a}) = <<a>>
<1> DEFINE s == <<a>>
<1>1. Falls(1, s)
  BY DEF Falls
<1>2. {s[i] : i \in 1..1} = {a}
  OBVIOUS
<1> HIDE DEF s
<1>3. Descending({s[i] : i \in 1..1}) = s
  BY <1>1, DescendingList
<1> QED BY <1>2, <1>3 DEF s

LEMMA Descending2 ==
  ASSUME NEW a \in Int, NEW b \in Int, a > b
  PROVE  Descending({a, b}) = <<a, b>>
<1> DEFINE s == <<a, b>>
<1>0. 1..2 = {1, 2}
  OBVIOUS
<1>1. Falls(2, s)
  BY <1>0 DEF Falls
<1>2. {s[i] : i \in 1..2} = {a, b}
  BY <1>0
<1> HIDE DEF s
<1>3. Descending({s[i] : i \in 1..2}) = s
  BY <1>1, DescendingList
<1> QED BY <1>2, <1>3 DEF s

LEMMA Descending3 ==
  ASSUME NEW a \in Int, NEW b \in Int, NEW c \in Int, a > b, b > c
  PROVE  Descending({a, b, c}) = <<a, b, c>>
<1> DEFINE s == <<a, b, c>>
<1>0. 1..3 = {1, 2, 3}
  OBVIOUS
<1>1. Falls(3, s)
  BY <1>0 DEF Falls
<1>2. {s[i] : i \in 1..3} = {a, b, c}
  BY <1>0
<1> HIDE DEF s
<1>3. Descending({s[i] : i \in 1..3}) = s
  BY <1>1, DescendingList
<1> QED BY <1>2, <1>3 DEF s

\* Five numbers that fall.
Five(a, b, c, d, e) ==
  /\ a \in Int /\ b \in Int /\ c \in Int /\ d \in Int /\ e \in Int
  /\ a > b /\ b > c /\ c > d /\ d > e

LEMMA Descending5 ==
  ASSUME NEW a, NEW b, NEW c, NEW d, NEW e, Five(a, b, c, d, e)
  PROVE  Descending({a, b, c, d, e}) = <<a, b, c, d, e>>
<1> DEFINE s == <<a, b, c, d, e>>
<1>0. 1..5 = {1, 2, 3, 4, 5}
  OBVIOUS
<1>1. Falls(5, s)
  BY <1>0 DEF Falls, Five
<1>2. {s[i] : i \in 1..5} = {a, b, c, d, e}
  BY <1>0
<1> HIDE DEF s
<1>3. Descending({s[i] : i \in 1..5}) = s
  BY <1>1, DescendingList
<1> QED BY <1>2, <1>3 DEF s

\* Of two lists of the same length the greater has more at the first difference.
Greater(m, s, u) ==
  \E i \in 1..m : s[i] > u[i] /\ \A j \in 1..(i - 1) : s[j] = u[j]

\* The highest number that only one of two sets has.
Tops(S, U) == \E w \in S \ U : \A v \in U \ S : w > v

\* Of two lists that fall, the one that has the highest number only one has is the
\* greater.
LEMMA GreaterTops ==
  ASSUME NEW m, NEW s, NEW u, Falls(m, s), Falls(m, u), Greater(m, s, u)
  PROVE  Tops({s[i] : i \in 1..m}, {u[i] : i \in 1..m})
<1>1. PICK i \in 1..m : s[i] > u[i] /\ \A j \in 1..(i - 1) : s[j] = u[j]
  BY DEF Greater
<1>2. m \in Nat /\ \A j \in 1..m : s[j] \in Int /\ u[j] \in Int
  BY DEF Falls
<1>3. ASSUME NEW j \in 1..m
      PROVE  j \in 1..(i - 1) \/ j = i \/ i < j
  BY <1>2
<1>4. ASSUME NEW j \in 1..m
      PROVE  u[j] # s[i]
  <2>1. CASE j \in 1..(i - 1)
    <3>1. u[j] = s[j]
      BY <1>1, <2>1
    <3>2. j < i
      BY <1>2, <2>1
    <3>3. s[j] > s[i]
      BY <3>2 DEF Falls
    <3> QED BY <1>2, <3>1, <3>3
  <2>2. CASE j = i
    BY <1>1, <1>2, <2>2
  <2>3. CASE i < j
    <3>1. u[i] > u[j]
      BY <2>3 DEF Falls
    <3> QED BY <1>1, <1>2, <3>1
  <2> QED BY <1>3, <2>1, <2>2, <2>3
<1>5. ASSUME NEW j \in 1..m, u[j] \notin {s[k] : k \in 1..m}
      PROVE  s[i] > u[j]
  <2>1. CASE j \in 1..(i - 1)
    <3>1. u[j] = s[j]
      BY <1>1, <2>1
    <3> QED BY <1>5, <3>1
  <2>2. CASE j = i
    BY <1>1, <2>2
  <2>3. CASE i < j
    <3>1. u[i] > u[j]
      BY <2>3 DEF Falls
    <3> QED BY <1>1, <1>2, <3>1
  <2> QED BY <1>3, <2>1, <2>2, <2>3
<1> QED BY <1>4, <1>5 DEF Tops

LEMMA TopsGreater ==
  ASSUME NEW m, NEW s, NEW u, Falls(m, s), Falls(m, u)
  PROVE  Tops({s[i] : i \in 1..m}, {u[i] : i \in 1..m}) <=> Greater(m, s, u)
<1> DEFINE S == {s[i] : i \in 1..m}  U == {u[i] : i \in 1..m}
<1>1. S \subseteq Int /\ U \subseteq Int /\ m \in Nat
  BY DEF Falls
<1>2. ASSUME Tops(S, U), ~Greater(m, s, u) PROVE FALSE
  <2> DEFINE D == {i \in 1..m : s[i] # u[i]}
  <2>1. CASE D = {}
    <3>1. S \subseteq U
      BY <2>1
    <3> QED BY <1>2, <3>1 DEF Tops
  <2>2. CASE D # {}
    <3>1. D \subseteq Nat
      BY <1>1
    <3> DEFINE i == Min(D)
    <3>2. i \in D /\ \A j \in D : i <= j
      <4> HIDE DEF D
      <4> QED BY <2>2, <3>1, MinOfNaturals
    <3> HIDE DEF i
    <3>3. i \in 1..m /\ s[i] # u[i] /\ s[i] \in Int /\ u[i] \in Int
      BY <3>2 DEF Falls
    <3>4. \A j \in 1..(i - 1) : s[j] = u[j]
      <4> TAKE j \in 1..(i - 1)
      <4>1. j \in 1..m /\ ~(i <= j)
        BY <1>1, <3>3
      <4> QED BY <3>2, <4>1
    <3>5. ~(s[i] > u[i])
      BY <1>2, <3>3, <3>4 DEF Greater
    <3>6. u[i] > s[i] /\ \A j \in 1..(i - 1) : u[j] = s[j]
      BY <3>3, <3>4, <3>5
    <3>7. Greater(m, u, s)
      BY <3>3, <3>6 DEF Greater
    <3>8. Tops(U, S)
      BY <3>7, GreaterTops
    <3>9. PICK w \in S \ U : \A v \in U \ S : w > v
      BY <1>2 DEF Tops
    <3>10. PICK v \in U \ S : \A x \in S \ U : v > x
      BY <3>8 DEF Tops
    <3>11. w > v /\ v > w /\ w \in Int /\ v \in Int
      BY <1>1, <3>9, <3>10
    <3> QED BY <3>11
  <2> QED BY <2>1, <2>2
<1> QED BY <1>2, GreaterTops

-----------------------------------------------------------------------------
(* The cards of a hand.                                                     *)

AllCards == [rank : 2..14, suit : CardSuits]
FewCards == {h \in SUBSET AllCards : IsFiniteSet(h)}
CardHands == {h \in FewCards : Cardinality(h) = 5}

\* There are 52 of them.
LEMMA CardsAreFew == IsFiniteSet(AllCards)
<1> DEFINE P == (2..14) \X CardSuits
           f == [x \in P |-> [rank |-> x[1], suit |-> x[2]]]
<1>1. IsFiniteSet(2..14)
  <2>1. IsFiniteSet(1..14)
    BY UpTo
  <2>2. 2..14 \subseteq 1..14
    OBVIOUS
  <2> QED BY <2>1, <2>2, FS_Subset
<1>2. IsFiniteSet(CardSuits)
  <2>1. IsFiniteSet({})
    BY FS_EmptySet
  <2>2. IsFiniteSet({} \cup {"c"})
    BY <2>1, FS_AddElement
  <2>3. IsFiniteSet({} \cup {"c"} \cup {"d"})
    BY <2>2, FS_AddElement
  <2>4. IsFiniteSet({} \cup {"c"} \cup {"d"} \cup {"h"})
    BY <2>3, FS_AddElement
  <2>5. IsFiniteSet({} \cup {"c"} \cup {"d"} \cup {"h"} \cup {"s"})
    BY <2>4, FS_AddElement
  <2>6. CardSuits = {} \cup {"c"} \cup {"d"} \cup {"h"} \cup {"s"}
    BY DEF CardSuits
  <2> QED BY <2>5, <2>6
<1>3. IsFiniteSet(P)
  BY <1>1, <1>2, FS_Product
<1>4. f \in Surjection(P, AllCards)
  <2>1. \A c \in AllCards : <<c.rank, c.suit>> \in P /\ f[<<c.rank, c.suit>>] = c
    BY DEF AllCards
  <2>2. f \in [P -> AllCards]
    BY DEF AllCards
  <2> HIDE DEF f, P
  <2> QED BY <2>1, <2>2 DEF Surjection
<1> HIDE DEF f, P
<1> QED BY <1>3, <1>4, FS_Surjection

OfRank(h, r) == {c \in h : c.rank = r}
Held(h, r) == Cardinality(OfRank(h, r))

\* Each rank has four cards.
LEMMA HeldBound ==
  ASSUME NEW h \in FewCards, NEW r \in Ranks(h)
  PROVE  r \in 2..14 /\ Held(h, r) \in 1..4 /\ IsFiniteSet(OfRank(h, r))
<1>1. r \in 2..14
  BY DEF FewCards, AllCards, Ranks
<1>2. IsFiniteSet(OfRank(h, r))
  BY FS_Subset DEF FewCards, OfRank
<1>3. Held(h, r) \in Nat /\ Held(h, r) # 0
  <2>1. OfRank(h, r) # {}
    BY DEF Ranks, OfRank
  <2> QED BY <1>2, <2>1, FS_EmptySet, FS_CardinalityType DEF Held
<1>4. Held(h, r) <= 4
  <2> DEFINE four == <<"c", "d", "h", "s">>
             f == [i \in 1..4 |-> [rank |-> r, suit |-> four[i]]]
             T == {[rank |-> r, suit |-> x] : x \in CardSuits}
  <2>1. f \in Surjection(1..4, T)
    <3>1. 1..4 = {1, 2, 3, 4}
      OBVIOUS
    <3>2. CardSuits = {four[i] : i \in 1..4}
      BY <3>1 DEF CardSuits
    <3> HIDE DEF four
    <3> QED BY <3>2 DEF Surjection
  <2>2. IsFiniteSet(1..4) /\ Cardinality(1..4) = 4
    BY UpTo
  <2>3. IsFiniteSet(T) /\ Cardinality(T) <= 4 /\ Cardinality(T) \in Nat
    <3> HIDE DEF f, T
    <3>1. IsFiniteSet(T) /\ Cardinality(T) <= 4
      BY <2>1, <2>2, FS_Surjection
    <3> QED BY <3>1, FS_CardinalityType
  <2>4. OfRank(h, r) \subseteq T
    BY DEF OfRank, FewCards, AllCards
  <2> HIDE DEF T
  <2>5. Cardinality(OfRank(h, r)) <= Cardinality(T)
    BY <2>3, <2>4, FS_Subset
  <2> QED BY <1>3, <2>3, <2>5 DEF Held
<1> QED BY <1>1, <1>2, <1>3, <1>4

\* Out of some cards the ones of the rank there is most of, and of equals the highest.
Peels(h, r, g) ==
  /\ r \in Ranks(h) /\ r \in 2..14 /\ Held(h, r) \in 1..4
  /\ \A q \in Ranks(h) \ {r} : Held(h, q) < Held(h, r) \/ (Held(h, q) = Held(h, r) /\ q < r)
  /\ g \in FewCards /\ Cardinality(g) = Cardinality(h) - Held(h, r)
  /\ Ranks(g) = Ranks(h) \ {r}
  /\ \A q \in Ranks(g) : Held(g, q) = Held(h, q)

LEMMA Peel ==
  ASSUME NEW h \in FewCards, Cardinality(h) # 0
  PROVE  \E r, g : Peels(h, r, g)
<1> DEFINE weight(r) == 15 * Held(h, r) + r
           W == {weight(r) : r \in Ranks(h)}
<1>1. Ranks(h) # {}
  BY FS_EmptySet DEF FewCards, Ranks
<1>2. \A r \in Ranks(h) : r \in 2..14 /\ Held(h, r) \in 1..4
  BY HeldBound
<1>3. W \subseteq Nat /\ W # {} /\ \A w \in W : w <= 74
  BY <1>1, <1>2
<1>4. PICK w \in W : \A v \in W : v <= w
  <2> HIDE DEF W
  <2>1. IsFiniteSet(W)
    BY <1>3, FS_BoundedSetOfNaturals
  <2>2. Max(W) \in W /\ \A v \in W : v <= Max(W)
    BY <1>3, <2>1, MaxOfNaturals
  <2> QED BY <2>2
<1>5. PICK r \in Ranks(h) : w = weight(r)
  OBVIOUS
<1>6. ASSUME NEW q \in Ranks(h) \ {r}
      PROVE  Held(h, q) < Held(h, r) \/ (Held(h, q) = Held(h, r) /\ q < r)
  <2>1. 15 * Held(h, q) + q <= 15 * Held(h, r) + r
    BY <1>4, <1>5
  <2>2. q \in 2..14 /\ r \in 2..14 /\ Held(h, q) \in 1..4 /\ Held(h, r) \in 1..4
    BY <1>2
  <2> QED BY <2>1, <2>2
<1> DEFINE g == h \ OfRank(h, r)
<1>7. g \in FewCards /\ Cardinality(g) = Cardinality(h) - Held(h, r)
  <2>1. h \cap OfRank(h, r) = OfRank(h, r)
    BY DEF OfRank
  <2>2. IsFiniteSet(g) /\ Cardinality(g) = Cardinality(h) - Cardinality(h \cap OfRank(h, r))
    BY FS_Difference DEF FewCards
  <2> QED BY <2>1, <2>2 DEF FewCards, Held
<1>8. Ranks(g) = Ranks(h) \ {r}
  BY DEF Ranks, OfRank
<1>9. \A q \in Ranks(g) : Held(g, q) = Held(h, q)
  <2> TAKE q \in Ranks(g)
  <2>1. q # r
    BY <1>8
  <2>2. OfRank(g, q) = OfRank(h, q)
    BY <2>1 DEF OfRank
  <2> QED BY <2>2 DEF Held
<1>10. Peels(h, r, g)
  BY <1>2, <1>6, <1>7, <1>8, <1>9 DEF Peels
<1> QED BY <1>10

-----------------------------------------------------------------------------
(* The shapes of a hand: how many cards it has of each of its ranks, most    *)
(* first, and the ranks, of equally many the higher first.                   *)

Shaped(h, m, ks, rs) ==
  /\ Ranks(h) = {rs[i] : i \in 1..m}
  /\ \A i \in 1..m : rs[i] \in 2..14 /\ Held(h, rs[i]) = ks[i]
  /\ \A i, j \in 1..m : i < j => ks[i] > ks[j] \/ (ks[i] = ks[j] /\ rs[i] > rs[j])
  /\ \A i, j \in 1..m : i < j => rs[i] # rs[j]

\* A hand without cards has no ranks.
LEMMA NoCards ==
  ASSUME NEW h \in FewCards
  PROVE  /\ Cardinality(h) \in Nat
         /\ Cardinality(h) = 0 => Ranks(h) = {}
<1>1. IsFiniteSet(h)
  BY DEF FewCards
<1>2. Cardinality(h) = 0 => h = {}
  BY <1>1, FS_EmptySet
<1> QED BY <1>1, <1>2, FS_CardinalityType DEF Ranks

\* Rank by rank, the cards of a hand come in one of six shapes.
LEMMA HandIsShaped ==
  ASSUME NEW h \in CardHands
  PROVE  \/ \E a, b : Shaped(h, 2, <<4, 1>>, <<a, b>>)
         \/ \E a, b : Shaped(h, 2, <<3, 2>>, <<a, b>>)
         \/ \E a, b, c : Shaped(h, 3, <<3, 1, 1>>, <<a, b, c>>)
         \/ \E a, b, c : Shaped(h, 3, <<2, 2, 1>>, <<a, b, c>>)
         \/ \E a, b, c, d : Shaped(h, 4, <<2, 1, 1, 1>>, <<a, b, c, d>>)
         \/ \E a, b, c, d, e : Shaped(h, 5, <<1, 1, 1, 1, 1>>, <<a, b, c, d, e>>)
<1>1. h \in FewCards /\ Cardinality(h) = 5
  BY DEF CardHands
<1>2. PICK a, h1 : Peels(h, a, h1)
  BY <1>1, Peel
<1> DEFINE i == Held(h, a)
<1>3. i \in 1..4 /\ a \in 2..14 /\ h1 \in FewCards /\ Cardinality(h1) = 5 - i
  BY <1>1, <1>2 DEF Peels
<1>4. PICK b, h2 : Peels(h1, b, h2)
  BY <1>3, Peel
<1> DEFINE j == Held(h, b)
<1>5. /\ j \in 1..4 /\ b \in 2..14 /\ h2 \in FewCards /\ Cardinality(h2) = 5 - i - j
      /\ i > j \/ (i = j /\ a > b)
      /\ a # b
      /\ Ranks(h2) = Ranks(h) \ {a, b} /\ {a, b} \subseteq Ranks(h)
      /\ \A q \in Ranks(h2) : /\ Held(h2, q) = Held(h, q)
                              /\ Held(h, q) < j \/ (Held(h, q) = j /\ q < b)
  BY <1>2, <1>3, <1>4 DEF Peels
<1> HIDE DEF i, j
<1>6. Cardinality(h2) \in Nat /\ (Cardinality(h2) = 0 => Ranks(h2) = {})
  BY <1>5, NoCards
<1>7. CASE Cardinality(h2) = 0
  <2>1. Ranks(h) = {a, b} /\ ((i = 4 /\ j = 1) \/ (i = 3 /\ j = 2))
    BY <1>3, <1>5, <1>6, <1>7
  <2>2. 1..2 = {1, 2}
    OBVIOUS
  <2>3. CASE i = 4 /\ j = 1
    <3>1. Shaped(h, 2, <<4, 1>>, <<a, b>>)
      BY <1>3, <1>5, <2>1, <2>2, <2>3 DEF Shaped, i, j
    <3> QED BY <3>1
  <2>4. CASE i = 3 /\ j = 2
    <3>1. Shaped(h, 2, <<3, 2>>, <<a, b>>)
      BY <1>3, <1>5, <2>1, <2>2, <2>4 DEF Shaped, i, j
    <3> QED BY <3>1
  <2> QED BY <2>1, <2>3, <2>4
<1>8. CASE Cardinality(h2) # 0
  <2>1. PICK c, h3 : Peels(h2, c, h3)
    BY <1>5, <1>8, Peel
  <2> DEFINE k == Held(h, c)
  <2>2. /\ k \in 1..4 /\ c \in 2..14 /\ h3 \in FewCards /\ Cardinality(h3) = 5 - i - j - k
        /\ j > k \/ (j = k /\ b > c)
        /\ c \notin {a, b}
        /\ Ranks(h3) = Ranks(h) \ {a, b, c} /\ {a, b, c} \subseteq Ranks(h)
        /\ \A q \in Ranks(h3) : /\ Held(h3, q) = Held(h, q)
                                /\ Held(h, q) < k \/ (Held(h, q) = k /\ q < c)
    BY <1>5, <2>1 DEF Peels
  <2> HIDE DEF k
  <2>3. Cardinality(h3) \in Nat /\ (Cardinality(h3) = 0 => Ranks(h3) = {})
    BY <2>2, NoCards
  <2>4. CASE Cardinality(h3) = 0
    <3>1. Ranks(h) = {a, b, c} /\ ((i = 3 /\ j = 1 /\ k = 1) \/ (i = 2 /\ j = 2 /\ k = 1))
      BY <1>3, <1>5, <2>2, <2>3, <2>4
    <3>2. 1..3 = {1, 2, 3}
      OBVIOUS
    <3>3. CASE i = 3 /\ j = 1 /\ k = 1
      <4>1. Shaped(h, 3, <<3, 1, 1>>, <<a, b, c>>)
        BY <1>3, <1>5, <2>2, <3>1, <3>2, <3>3 DEF Shaped, i, j, k
      <4> QED BY <4>1
    <3>4. CASE i = 2 /\ j = 2 /\ k = 1
      <4>1. Shaped(h, 3, <<2, 2, 1>>, <<a, b, c>>)
        BY <1>3, <1>5, <2>2, <3>1, <3>2, <3>4 DEF Shaped, i, j, k
      <4> QED BY <4>1
    <3> QED BY <3>1, <3>3, <3>4
  <2>5. CASE Cardinality(h3) # 0
    <3>1. PICK d, h4 : Peels(h3, d, h4)
      BY <2>2, <2>5, Peel
    <3> DEFINE l == Held(h, d)
    <3>2. /\ l \in 1..4 /\ d \in 2..14 /\ h4 \in FewCards /\ Cardinality(h4) = 5 - i - j - k - l
          /\ k > l \/ (k = l /\ c > d)
          /\ d \notin {a, b, c}
          /\ Ranks(h4) = Ranks(h) \ {a, b, c, d} /\ {a, b, c, d} \subseteq Ranks(h)
          /\ \A q \in Ranks(h4) : /\ Held(h4, q) = Held(h, q)
                                  /\ Held(h, q) < l \/ (Held(h, q) = l /\ q < d)
      BY <2>2, <3>1 DEF Peels
    <3> HIDE DEF l
    <3>3. Cardinality(h4) \in Nat /\ (Cardinality(h4) = 0 => Ranks(h4) = {})
      BY <3>2, NoCards
    <3>4. CASE Cardinality(h4) = 0
      <4>1. Ranks(h) = {a, b, c, d} /\ i = 2 /\ j = 1 /\ k = 1 /\ l = 1
        BY <1>3, <1>5, <2>2, <3>2, <3>3, <3>4
      <4>2. 1..4 = {1, 2, 3, 4}
        OBVIOUS
      <4>3. Shaped(h, 4, <<2, 1, 1, 1>>, <<a, b, c, d>>)
        BY <1>3, <1>5, <2>2, <3>2, <4>1, <4>2 DEF Shaped, i, j, k, l
      <4> QED BY <4>3
    <3>5. CASE Cardinality(h4) # 0
      <4>1. PICK e, h5 : Peels(h4, e, h5)
        BY <3>2, <3>5, Peel
      <4> DEFINE n == Held(h, e)
      <4>2. /\ n \in 1..4 /\ e \in 2..14 /\ h5 \in FewCards
            /\ Cardinality(h5) = 5 - i - j - k - l - n
            /\ l > n \/ (l = n /\ d > e)
            /\ e \notin {a, b, c, d}
            /\ Ranks(h5) = Ranks(h) \ {a, b, c, d, e} /\ {a, b, c, d, e} \subseteq Ranks(h)
        BY <3>2, <4>1 DEF Peels
      <4> HIDE DEF n
      <4>3. Cardinality(h5) \in Nat /\ (Cardinality(h5) = 0 => Ranks(h5) = {})
        BY <4>2, NoCards
      <4>4. i = 1 /\ j = 1 /\ k = 1 /\ l = 1 /\ n = 1 /\ Cardinality(h5) = 0
        BY <1>3, <1>5, <2>2, <3>2, <4>2, <4>3
      <4>5. Ranks(h) = {a, b, c, d, e}
        BY <4>2, <4>3, <4>4
      <4>6. 1..5 = {1, 2, 3, 4, 5}
        OBVIOUS
      <4>7. Shaped(h, 5, <<1, 1, 1, 1, 1>>, <<a, b, c, d, e>>)
        BY <1>3, <1>5, <2>2, <3>2, <4>2, <4>4, <4>5, <4>6 DEF Shaped, i, j, k, l, n
      <4> QED BY <4>7
    <3> QED BY <3>4, <3>5
  <2> QED BY <2>4, <2>5
<1> QED BY <1>7, <1>8

-----------------------------------------------------------------------------
(* What the code and the rules make of a hand.                              *)

\* How many tiebreakers a category has, and of how many cards they are.
LengthOf(cat) ==
  CASE cat \in {4, 8} -> 1 [] cat \in {6, 7} -> 2 [] cat \in {2, 3} -> 3
    [] cat = 1 -> 4 [] OTHER -> 5
ManyOf(cat) ==
  CASE cat = 7 -> <<4, 1>> [] cat = 6 -> <<3, 2>> [] cat = 3 -> <<3, 1, 1>>
    [] cat = 2 -> <<2, 2, 1>> [] cat = 1 -> <<2, 1, 1, 1>> [] OTHER -> <<1, 1, 1, 1, 1>>

\* The worths of its ranks, the highest first, and how many there are: the
\* tiebreaker of a straight stands for five ranks in a row.
PlacesOf(cat) == IF cat \in {4, 8} THEN 5 ELSE LengthOf(cat)
WorthsOf(cat, t) ==
  [i \in 1..PlacesOf(cat) |-> IF cat \in {4, 8} THEN 15 + ((t[1] + 1) - i)
                              ELSE 15 * ManyOf(cat)[i] + t[i]]

\* The code and the rules put a hand in the same category, and the rules find the
\* worths in it that the code's tiebreakers stand for.
Reads(h, cat, t) ==
  /\ cat \in 0..8 /\ t \in [1..LengthOf(cat) -> 2..14]
  /\ EvaluateHand(h) = [category |-> cat, tiebreakers |-> t, bestCards |-> h]
  /\ Sheet(h) = [class |-> cat, worths |-> {WorthsOf(cat, t)[i] : i \in 1..PlacesOf(cat)}]
  /\ Falls(PlacesOf(cat), WorthsOf(cat, t))

\* Two lists, joined.
LEMMA Joins ==
  ASSUME NEW S, NEW s \in Seq(S), NEW u \in Seq(S), NEW w \in Seq(S),
         Len(w) = Len(s) + Len(u),
         \A i \in 1..Len(w) : w[i] = IF i <= Len(s) THEN s[i] ELSE u[i - Len(s)]
  PROVE  s \o u = w
<1>1. /\ s \o u \in Seq(S) /\ Len(s \o u) = Len(w)
      /\ \A i \in 1..Len(w) : (s \o u)[i] = w[i]
  BY ConcatProperties
<1> QED BY <1>1, SeqEqual

LEMMA JoinOneOne ==
  ASSUME NEW a \in Int, NEW b \in Int
  PROVE  <<a>> \o <<b>> = <<a, b>>
<1>0. 1..2 = {1, 2}
  OBVIOUS
<1>1. <<a>> \in Seq(Int) /\ <<b>> \in Seq(Int) /\ <<a, b>> \in Seq(Int)
  OBVIOUS
<1>2. Len(<<a, b>>) = Len(<<a>>) + Len(<<b>>)
  OBVIOUS
<1>3. \A i \in 1..Len(<<a, b>>) :
        <<a, b>>[i] = IF i <= Len(<<a>>) THEN <<a>>[i] ELSE <<b>>[i - Len(<<a>>)]
  BY <1>0
<1> QED BY <1>1, <1>2, <1>3, Joins

LEMMA JoinOneTwo ==
  ASSUME NEW a \in Int, NEW b \in Int, NEW c \in Int
  PROVE  <<a>> \o <<b, c>> = <<a, b, c>>
<1>0. 1..3 = {1, 2, 3}
  OBVIOUS
<1>1. <<a>> \in Seq(Int) /\ <<b, c>> \in Seq(Int) /\ <<a, b, c>> \in Seq(Int)
  OBVIOUS
<1>2. Len(<<a, b, c>>) = Len(<<a>>) + Len(<<b, c>>)
  OBVIOUS
<1>3. \A i \in 1..Len(<<a, b, c>>) :
        <<a, b, c>>[i] = IF i <= Len(<<a>>) THEN <<a>>[i] ELSE <<b, c>>[i - Len(<<a>>)]
  BY <1>0
<1> QED BY <1>1, <1>2, <1>3, Joins

LEMMA JoinTwoOne ==
  ASSUME NEW a \in Int, NEW b \in Int, NEW c \in Int
  PROVE  <<a, b>> \o <<c>> = <<a, b, c>>
<1>0. 1..3 = {1, 2, 3}
  OBVIOUS
<1>1. <<a, b>> \in Seq(Int) /\ <<c>> \in Seq(Int) /\ <<a, b, c>> \in Seq(Int)
  OBVIOUS
<1>2. Len(<<a, b, c>>) = Len(<<a, b>>) + Len(<<c>>)
  OBVIOUS
<1>3. \A i \in 1..Len(<<a, b, c>>) :
        <<a, b, c>>[i] = IF i <= Len(<<a, b>>) THEN <<a, b>>[i] ELSE <<c>>[i - Len(<<a, b>>)]
  BY <1>0
<1> QED BY <1>1, <1>2, <1>3, Joins

LEMMA JoinOneThree ==
  ASSUME NEW a \in Int, NEW b \in Int, NEW c \in Int, NEW d \in Int
  PROVE  <<a>> \o <<b, c, d>> = <<a, b, c, d>>
<1>0. 1..4 = {1, 2, 3, 4}
  OBVIOUS
<1>1. <<a>> \in Seq(Int) /\ <<b, c, d>> \in Seq(Int) /\ <<a, b, c, d>> \in Seq(Int)
  OBVIOUS
<1>2. Len(<<a, b, c, d>>) = Len(<<a>>) + Len(<<b, c, d>>)
  OBVIOUS
<1>3. \A i \in 1..Len(<<a, b, c, d>>) :
        <<a, b, c, d>>[i] = IF i <= Len(<<a>>) THEN <<a>>[i] ELSE <<b, c, d>>[i - Len(<<a>>)]
  BY <1>0
<1> QED BY <1>1, <1>2, <1>3, Joins

LEMMA JoinNone ==
  ASSUME NEW a \in Int, NEW b \in Int, NEW c \in Int, NEW d \in Int, NEW e \in Int
  PROVE  <<>> \o <<a, b, c, d, e>> = <<a, b, c, d, e>>
<1>1. <<a, b, c, d, e>> \in Seq(Int)
  OBVIOUS
<1> QED BY <1>1, ConcatEmptySeq

\* Cards of one suit are of different ranks.
LEMMA FlushOnes ==
  ASSUME NEW h \in CardHands, IsFlush(h), NEW r \in Ranks(h)
  PROVE  Held(h, r) = 1
<1>1. h \subseteq AllCards /\ IsFiniteSet(h)
  BY DEF CardHands, FewCards
<1>2. IsFiniteSet(Suits(h))
  <2> DEFINE f == [c \in h |-> c.suit]
  <2>1. f \in Surjection(h, Suits(h))
    BY DEF Surjection, Suits
  <2> HIDE DEF f
  <2> QED BY <1>1, <2>1, FS_Surjection
<1>3. PICK x : Suits(h) = {x}
  BY <1>2, FS_Singleton DEF IsFlush
<1>4. \A c \in h : c = [rank |-> c.rank, suit |-> x]
  BY <1>1, <1>3 DEF AllCards, Suits
<1>5. PICK c \in h : c.rank = r
  BY DEF Ranks
<1>6. OfRank(h, r) = {c}
  BY <1>4, <1>5 DEF OfRank
<1> QED BY <1>6, FS_Singleton DEF Held

\* Of fewer than five ranks there is no straight, and no flush.
LEMMA FewRanks ==
  ASSUME NEW h \in CardHands, NEW m \in {2, 3, 4}, NEW ks, NEW rs, Shaped(h, m, ks, rs), ks[1] # 1
  PROVE  /\ ~IsFlush(h) /\ ~IsStraight(h) /\ ~IsRow(h)
         /\ Cardinality(Ranks(h)) = m /\ Ranks(h) # Wheel
<1>1. Cardinality(Ranks(h)) = m /\ IsFiniteSet(Ranks(h))
  <2>1. OneToOne(m, rs)
    <3>1. \A i, j \in 1..m : i < j \/ j < i \/ i = j
      OBVIOUS
    <3> QED BY <3>1 DEF Shaped, OneToOne
  <2>2. Cardinality({rs[i] : i \in 1..m}) = m /\ IsFiniteSet({rs[i] : i \in 1..m})
    BY <2>1, Distinct
  <2>3. Ranks(h) = {rs[i] : i \in 1..m}
    BY DEF Shaped
  <2> QED BY <2>2, <2>3
<1>2. ~(Wheel \subseteq Ranks(h))
  <2> DEFINE s == <<14, 2, 3, 4, 5>>
  <2>1. 1..5 = {1, 2, 3, 4, 5}
    OBVIOUS
  <2>2. OneToOne(5, s) /\ Wheel = {s[i] : i \in 1..5}
    BY <2>1 DEF OneToOne, Wheel
  <2> HIDE DEF s
  <2>3. Cardinality(Wheel) = 5
    BY <2>2, Distinct
  <2> SUFFICES ASSUME Wheel \subseteq Ranks(h) PROVE FALSE
    OBVIOUS
  <2>4. Cardinality(Wheel) <= Cardinality(Ranks(h))
    BY <1>1, FS_Subset
  <2> QED BY <1>1, <2>3, <2>4
<1>3. ~IsFlush(h)
  <2>1. rs[1] \in Ranks(h) /\ Held(h, rs[1]) # 1
    <3>1. 1 \in 1..m
      OBVIOUS
    <3> QED BY <3>1 DEF Shaped
  <2> QED BY <2>1, FlushOnes
<1> QED BY <1>1, <1>2, <1>3 DEF IsStraight, IsRow, InARow

\* The lists the code sorts are those of the ranks of which there are so many.
LEMMA RanksHeldAre ==
  ASSUME NEW h, NEW k
  PROVE  RanksHeld(h, k) = {r \in Ranks(h) : Held(h, r) = k}
BY DEF RanksHeld, Held, OfRank

\* Of the ranks the one there is more of is worth more, and of equals the higher.
LEMMA Heavier ==
  \A k, l \in 1..4 : \A r, q \in 2..14 :
    (k > l \/ (k = l /\ r > q)) => 15 * k + r > 15 * l + q
OBVIOUS

\* The code's lists and the rules' worths of a hand whose tiebreakers are its ranks.
LEMMA RanksRead ==
  ASSUME NEW h \in CardHands, NEW cat \in {0, 1, 2, 3, 5, 6, 7}, NEW t,
         t = [i \in 1..LengthOf(cat) |-> t[i]],
         Shaped(h, LengthOf(cat), ManyOf(cat), t), Ranks(h) # Wheel,
         Class(h) = cat, EvaluateHand(h) = [category |-> cat, tiebreakers |-> t, bestCards |-> h]
  PROVE  Reads(h, cat, t)
<1> DEFINE m == LengthOf(cat)  ks == ManyOf(cat)  w == WorthsOf(cat, t)
<1>1. m \in Nat /\ PlacesOf(cat) = m
  BY DEF LengthOf, PlacesOf
<1>2. w = [i \in 1..m |-> 15 * ks[i] + t[i]]
  BY <1>1 DEF WorthsOf
<1> HIDE DEF m, ks, w
<1>3. Shaped(h, m, ks, t)
  BY DEF m, ks
<1>4. \A i \in 1..m : t[i] \in 2..14 /\ t[i] \in Ranks(h) /\ Held(h, t[i]) = ks[i]
  BY <1>3 DEF Shaped
<1>5. \A i \in 1..m : ks[i] \in 1..4
  BY <1>4, HeldBound DEF CardHands
<1>6. Falls(m, w)
  <2>1. \A i \in 1..m : w[i] = 15 * ks[i] + t[i] /\ w[i] \in Int
    <3> TAKE i \in 1..m
    <3>1. w[i] = 15 * ks[i] + t[i]
      BY <1>2
    <3>2. ks[i] \in Int /\ t[i] \in Int
      BY <1>4, <1>5
    <3> QED BY <3>1, <3>2
  <2>2. ASSUME NEW i \in 1..m, NEW j \in 1..m, i < j
        PROVE  w[i] > w[j]
    <3>1. ks[i] > ks[j] \/ (ks[i] = ks[j] /\ t[i] > t[j])
      BY <1>3, <2>2 DEF Shaped
    <3>2. ks[i] \in 1..4 /\ ks[j] \in 1..4 /\ t[i] \in 2..14 /\ t[j] \in 2..14
      BY <1>4, <1>5
    <3>3. w[i] = 15 * ks[i] + t[i] /\ w[j] = 15 * ks[j] + t[j]
      BY <2>1
    <3>4. 15 * ks[i] + t[i] > 15 * ks[j] + t[j]
      BY <3>1, <3>2, Heavier
    <3> QED BY <3>3, <3>4
  <2> QED BY <1>1, <1>2, <2>1, <2>2 DEF Falls
<1>7. \A r \in Ranks(h) : Worth(h, r) = r + 15 * Held(h, r)
  BY DEF Worth, Held, OfRank
<1>8. {Worth(h, r) : r \in Ranks(h)} = {w[i] : i \in 1..m}
  <2>1. Ranks(h) = {t[i] : i \in 1..m}
    BY <1>3 DEF Shaped
  <2>2. ASSUME NEW i \in 1..m
        PROVE  Worth(h, t[i]) = w[i]
    <3>1. Worth(h, t[i]) = t[i] + 15 * ks[i]
      BY <1>4, <1>7
    <3>2. w[i] = 15 * ks[i] + t[i] /\ ks[i] \in Int /\ t[i] \in Int
      BY <1>2, <1>4, <1>5
    <3> QED BY <3>1, <3>2
  <2> HIDE DEF w
  <2>3. \A i \in 1..m : Worth(h, t[i]) = w[i]
    BY <2>2
  <2>4. \A i \in 1..m : \E r \in Ranks(h) : w[i] = Worth(h, r)
    BY <1>4, <2>3
  <2>5. \A r \in Ranks(h) : \E i \in 1..m : Worth(h, r) = w[i]
    BY <2>1, <2>3
  <2> QED BY <2>4, <2>5
<1>9. Sheet(h) = [class |-> cat, worths |-> {w[i] : i \in 1..m}]
  BY <1>8 DEF Sheet
<1>10. t \in [1..m -> 2..14]
  BY <1>4 DEF m
<1> QED BY <1>1, <1>6, <1>9, <1>10 DEF Reads, m, w

\* What EvaluateHand returns, from the lists.
LEMMA EvaluateIs ==
  ASSUME NEW h, NEW ones, NEW twos, NEW threes, NEW fours, NEW cat, NEW t,
         ones = Descending(RanksHeld(h, 1)), twos = Descending(RanksHeld(h, 2)),
         threes = Descending(RanksHeld(h, 3)), fours = Descending(RanksHeld(h, 4)),
         Categorize(h, ones, twos, threes, fours) = <<cat, t>>
  PROVE  EvaluateHand(h) = [category |-> cat, tiebreakers |-> t, bestCards |-> h]
<1> DEFINE ranked == Categorize(h, Descending(RanksHeld(h, 1)), Descending(RanksHeld(h, 2)),
                                Descending(RanksHeld(h, 3)), Descending(RanksHeld(h, 4)))
<1>1. ranked = <<cat, t>>
  OBVIOUS
<1>2. EvaluateHand(h) = [category |-> ranked[1], tiebreakers |-> ranked[2], bestCards |-> h]
  BY DEF EvaluateHand
<1> HIDE DEF ranked
<1> QED BY <1>1, <1>2

\* Four of a kind.
LEMMA QuadsRead ==
  ASSUME NEW h \in CardHands, NEW a, NEW b, Shaped(h, 2, <<4, 1>>, <<a, b>>)
  PROVE  Reads(h, 7, <<a, b>>)
<1>1. /\ a \in 2..14 /\ b \in 2..14
      /\ a # b
      /\ Ranks(h) = {a, b} /\ Held(h, a) = 4 /\ Held(h, b) = 1
  <2>1. 1..2 = {1, 2}
    OBVIOUS
  <2> QED BY <2>1 DEF Shaped
<1>2. /\ ~IsFlush(h) /\ ~IsStraight(h) /\ ~IsRow(h)
      /\ Cardinality(Ranks(h)) = 2 /\ Ranks(h) # Wheel
  BY FewRanks
<1>3. /\ RanksHeld(h, 1) = {b} /\ RanksHeld(h, 2) = {}
      /\ RanksHeld(h, 3) = {} /\ RanksHeld(h, 4) = {a}
  BY <1>1, RanksHeldAre
<1>4. EvaluateHand(h) = [category |-> 7, tiebreakers |-> <<a, b>>, bestCards |-> h]
  <2>0. a \in Int /\ b \in Int
    BY <1>1
  <2>1. /\ Descending({b}) = <<b>>
        /\ Descending({}) = <<>>
        /\ Descending({a}) = <<a>>
    BY <1>1, <2>0, Descending0, Descending1
  <2>2. /\ <<b>> = Descending(RanksHeld(h, 1)) /\ <<>> = Descending(RanksHeld(h, 2))
        /\ <<>> = Descending(RanksHeld(h, 3)) /\ <<a>> = Descending(RanksHeld(h, 4))
    BY <1>3, <2>1
  <2>3. <<a>> \o <<b>> = <<a, b>>
    BY <2>0, JoinOneOne
  <2>4. Categorize(h, <<b>>, <<>>, <<>>, <<a>>) = <<7, <<a, b>>>>
    BY <1>2, <2>3 DEF Categorize
  <2> QED BY <2>2, <2>4, EvaluateIs
<1>5. Class(h) = 7
  <2>1. RanksHeld(h, 3) = {} /\ RanksHeld(h, 4) # {}
    BY <1>3
  <2> QED BY <1>2, <2>1 DEF Class
<1>6. LengthOf(7) = 2 /\ ManyOf(7) = <<4, 1>>
  BY DEF LengthOf, ManyOf
<1> DEFINE t == <<a, b>>
<1>7. Shaped(h, LengthOf(7), ManyOf(7), t) /\ t = [i \in 1..LengthOf(7) |-> t[i]]
  BY <1>6
<1> HIDE DEF t
<1> QED BY <1>2, <1>4, <1>5, <1>7, RanksRead DEF t

\* Three and two of a kind.
LEMMA FullHouseRead ==
  ASSUME NEW h \in CardHands, NEW a, NEW b, Shaped(h, 2, <<3, 2>>, <<a, b>>)
  PROVE  Reads(h, 6, <<a, b>>)
<1>1. /\ a \in 2..14 /\ b \in 2..14
      /\ a # b
      /\ Ranks(h) = {a, b} /\ Held(h, a) = 3 /\ Held(h, b) = 2
  <2>1. 1..2 = {1, 2}
    OBVIOUS
  <2> QED BY <2>1 DEF Shaped
<1>2. /\ ~IsFlush(h) /\ ~IsStraight(h) /\ ~IsRow(h)
      /\ Cardinality(Ranks(h)) = 2 /\ Ranks(h) # Wheel
  BY FewRanks
<1>3. /\ RanksHeld(h, 1) = {} /\ RanksHeld(h, 2) = {b}
      /\ RanksHeld(h, 3) = {a} /\ RanksHeld(h, 4) = {}
  BY <1>1, RanksHeldAre
<1>4. EvaluateHand(h) = [category |-> 6, tiebreakers |-> <<a, b>>, bestCards |-> h]
  <2>0. a \in Int /\ b \in Int
    BY <1>1
  <2>1. /\ Descending({}) = <<>>
        /\ Descending({b}) = <<b>>
        /\ Descending({a}) = <<a>>
    BY <1>1, <2>0, Descending0, Descending1
  <2>2. /\ <<>> = Descending(RanksHeld(h, 1)) /\ <<b>> = Descending(RanksHeld(h, 2))
        /\ <<a>> = Descending(RanksHeld(h, 3)) /\ <<>> = Descending(RanksHeld(h, 4))
    BY <1>3, <2>1
  <2>3. <<a>> \o <<b>> = <<a, b>>
    BY <2>0, JoinOneOne
  <2>4. Categorize(h, <<>>, <<b>>, <<a>>, <<>>) = <<6, <<a, b>>>>
    BY <1>2, <2>3 DEF Categorize
  <2> QED BY <2>2, <2>4, EvaluateIs
<1>5. Class(h) = 6
  <2>1. RanksHeld(h, 3) # {} /\ RanksHeld(h, 4) = {}
    BY <1>3
  <2> QED BY <1>2, <2>1 DEF Class
<1>6. LengthOf(6) = 2 /\ ManyOf(6) = <<3, 2>>
  BY DEF LengthOf, ManyOf
<1> DEFINE t == <<a, b>>
<1>7. Shaped(h, LengthOf(6), ManyOf(6), t) /\ t = [i \in 1..LengthOf(6) |-> t[i]]
  BY <1>6
<1> HIDE DEF t
<1> QED BY <1>2, <1>4, <1>5, <1>7, RanksRead DEF t

\* Three of a kind.
LEMMA TripsRead ==
  ASSUME NEW h \in CardHands, NEW a, NEW b, NEW c, Shaped(h, 3, <<3, 1, 1>>, <<a, b, c>>)
  PROVE  Reads(h, 3, <<a, b, c>>)
<1>1. /\ a \in 2..14 /\ b \in 2..14 /\ c \in 2..14
      /\ a # b /\ a # c /\ b # c
      /\ b > c
      /\ Ranks(h) = {a, b, c} /\ Held(h, a) = 3 /\ Held(h, b) = 1 /\ Held(h, c) = 1
  <2>1. 1..3 = {1, 2, 3}
    OBVIOUS
  <2> QED BY <2>1 DEF Shaped
<1>2. /\ ~IsFlush(h) /\ ~IsStraight(h) /\ ~IsRow(h)
      /\ Cardinality(Ranks(h)) = 3 /\ Ranks(h) # Wheel
  BY FewRanks
<1>3. /\ RanksHeld(h, 1) = {b, c} /\ RanksHeld(h, 2) = {}
      /\ RanksHeld(h, 3) = {a} /\ RanksHeld(h, 4) = {}
  BY <1>1, RanksHeldAre
<1>4. EvaluateHand(h) = [category |-> 3, tiebreakers |-> <<a, b, c>>, bestCards |-> h]
  <2>0. a \in Int /\ b \in Int /\ c \in Int
    BY <1>1
  <2>1. /\ Descending({b, c}) = <<b, c>>
        /\ Descending({}) = <<>>
        /\ Descending({a}) = <<a>>
    BY <1>1, <2>0, Descending0, Descending1, Descending2
  <2>2. /\ <<b, c>> = Descending(RanksHeld(h, 1)) /\ <<>> = Descending(RanksHeld(h, 2))
        /\ <<a>> = Descending(RanksHeld(h, 3)) /\ <<>> = Descending(RanksHeld(h, 4))
    BY <1>3, <2>1
  <2>3. <<a>> \o <<b, c>> = <<a, b, c>>
    BY <2>0, JoinOneTwo
  <2>4. Categorize(h, <<b, c>>, <<>>, <<a>>, <<>>) = <<3, <<a, b, c>>>>
    BY <1>2, <2>3 DEF Categorize
  <2> QED BY <2>2, <2>4, EvaluateIs
<1>5. Class(h) = 3
  <2>1. RanksHeld(h, 3) # {} /\ RanksHeld(h, 4) = {}
    BY <1>3
  <2> QED BY <1>2, <2>1 DEF Class
<1>6. LengthOf(3) = 3 /\ ManyOf(3) = <<3, 1, 1>>
  BY DEF LengthOf, ManyOf
<1> DEFINE t == <<a, b, c>>
<1>7. Shaped(h, LengthOf(3), ManyOf(3), t) /\ t = [i \in 1..LengthOf(3) |-> t[i]]
  BY <1>6
<1> HIDE DEF t
<1> QED BY <1>2, <1>4, <1>5, <1>7, RanksRead DEF t

\* Two pairs.
LEMMA TwoPairRead ==
  ASSUME NEW h \in CardHands, NEW a, NEW b, NEW c, Shaped(h, 3, <<2, 2, 1>>, <<a, b, c>>)
  PROVE  Reads(h, 2, <<a, b, c>>)
<1>1. /\ a \in 2..14 /\ b \in 2..14 /\ c \in 2..14
      /\ a # b /\ a # c /\ b # c
      /\ a > b
      /\ Ranks(h) = {a, b, c} /\ Held(h, a) = 2 /\ Held(h, b) = 2 /\ Held(h, c) = 1
  <2>1. 1..3 = {1, 2, 3}
    OBVIOUS
  <2> QED BY <2>1 DEF Shaped
<1>2. /\ ~IsFlush(h) /\ ~IsStraight(h) /\ ~IsRow(h)
      /\ Cardinality(Ranks(h)) = 3 /\ Ranks(h) # Wheel
  BY FewRanks
<1>3. /\ RanksHeld(h, 1) = {c} /\ RanksHeld(h, 2) = {a, b}
      /\ RanksHeld(h, 3) = {} /\ RanksHeld(h, 4) = {}
  BY <1>1, RanksHeldAre
<1>4. EvaluateHand(h) = [category |-> 2, tiebreakers |-> <<a, b, c>>, bestCards |-> h]
  <2>0. a \in Int /\ b \in Int /\ c \in Int
    BY <1>1
  <2>1. /\ Descending({c}) = <<c>>
        /\ Descending({a, b}) = <<a, b>>
        /\ Descending({}) = <<>>
    BY <1>1, <2>0, Descending0, Descending1, Descending2
  <2>2. /\ <<c>> = Descending(RanksHeld(h, 1)) /\ <<a, b>> = Descending(RanksHeld(h, 2))
        /\ <<>> = Descending(RanksHeld(h, 3)) /\ <<>> = Descending(RanksHeld(h, 4))
    BY <1>3, <2>1
  <2>3. <<a, b>> \o <<c>> = <<a, b, c>>
    BY <2>0, JoinTwoOne
  <2>4. Categorize(h, <<c>>, <<a, b>>, <<>>, <<>>) = <<2, <<a, b, c>>>>
    BY <1>2, <2>3 DEF Categorize
  <2> QED BY <2>2, <2>4, EvaluateIs
<1>5. Class(h) = 2
  <2>1. RanksHeld(h, 3) = {} /\ RanksHeld(h, 4) = {}
    BY <1>3
  <2> QED BY <1>2, <2>1 DEF Class
<1>6. LengthOf(2) = 3 /\ ManyOf(2) = <<2, 2, 1>>
  BY DEF LengthOf, ManyOf
<1> DEFINE t == <<a, b, c>>
<1>7. Shaped(h, LengthOf(2), ManyOf(2), t) /\ t = [i \in 1..LengthOf(2) |-> t[i]]
  BY <1>6
<1> HIDE DEF t
<1> QED BY <1>2, <1>4, <1>5, <1>7, RanksRead DEF t

\* One pair.
LEMMA PairRead ==
  ASSUME NEW h \in CardHands, NEW a, NEW b, NEW c, NEW d, Shaped(h, 4, <<2, 1, 1, 1>>, <<a, b, c, d>>)
  PROVE  Reads(h, 1, <<a, b, c, d>>)
<1>1. /\ a \in 2..14 /\ b \in 2..14 /\ c \in 2..14 /\ d \in 2..14
      /\ a # b /\ a # c /\ a # d /\ b # c /\ b # d /\ c # d
      /\ b > c /\ c > d
      /\ Ranks(h) = {a, b, c, d} /\ Held(h, a) = 2 /\ Held(h, b) = 1 /\ Held(h, c) = 1 /\ Held(h, d) = 1
  <2>1. 1..4 = {1, 2, 3, 4}
    OBVIOUS
  <2> QED BY <2>1 DEF Shaped
<1>2. /\ ~IsFlush(h) /\ ~IsStraight(h) /\ ~IsRow(h)
      /\ Cardinality(Ranks(h)) = 4 /\ Ranks(h) # Wheel
  BY FewRanks
<1>3. /\ RanksHeld(h, 1) = {b, c, d} /\ RanksHeld(h, 2) = {a}
      /\ RanksHeld(h, 3) = {} /\ RanksHeld(h, 4) = {}
  BY <1>1, RanksHeldAre
<1>4. EvaluateHand(h) = [category |-> 1, tiebreakers |-> <<a, b, c, d>>, bestCards |-> h]
  <2>0. a \in Int /\ b \in Int /\ c \in Int /\ d \in Int
    BY <1>1
  <2>1. /\ Descending({b, c, d}) = <<b, c, d>>
        /\ Descending({a}) = <<a>>
        /\ Descending({}) = <<>>
    BY <1>1, <2>0, Descending0, Descending1, Descending3
  <2>2. /\ <<b, c, d>> = Descending(RanksHeld(h, 1)) /\ <<a>> = Descending(RanksHeld(h, 2))
        /\ <<>> = Descending(RanksHeld(h, 3)) /\ <<>> = Descending(RanksHeld(h, 4))
    BY <1>3, <2>1
  <2>3. <<a>> \o <<b, c, d>> = <<a, b, c, d>>
    BY <2>0, JoinOneThree
  <2>4. Categorize(h, <<b, c, d>>, <<a>>, <<>>, <<>>) = <<1, <<a, b, c, d>>>>
    BY <1>2, <2>3 DEF Categorize
  <2> QED BY <2>2, <2>4, EvaluateIs
<1>5. Class(h) = 1
  <2>1. RanksHeld(h, 3) = {} /\ RanksHeld(h, 4) = {}
    BY <1>3
  <2> QED BY <1>2, <2>1 DEF Class
<1>6. LengthOf(1) = 4 /\ ManyOf(1) = <<2, 1, 1, 1>>
  BY DEF LengthOf, ManyOf
<1> DEFINE t == <<a, b, c, d>>
<1>7. Shaped(h, LengthOf(1), ManyOf(1), t) /\ t = [i \in 1..LengthOf(1) |-> t[i]]
  BY <1>6
<1> HIDE DEF t
<1> QED BY <1>2, <1>4, <1>5, <1>7, RanksRead DEF t

\* Five ranks, from the highest to the lowest.
FiveRanks(h, a, b, c, d, e) ==
  /\ a \in 2..14 /\ b \in 2..14 /\ c \in 2..14 /\ d \in 2..14 /\ e \in 2..14
  /\ a > b /\ b > c /\ c > d /\ d > e
  /\ Ranks(h) = {a, b, c, d, e} /\ \A r \in Ranks(h) : Held(h, r) = 1
  /\ IsFiniteSet(Ranks(h)) /\ Cardinality(Ranks(h)) = 5

LEMMA FiveAre ==
  ASSUME NEW h, NEW a, NEW b, NEW c, NEW d, NEW e,
         Shaped(h, 5, <<1, 1, 1, 1, 1>>, <<a, b, c, d, e>>)
  PROVE  FiveRanks(h, a, b, c, d, e)
<1> DEFINE s == <<a, b, c, d, e>>
<1>1. 1..5 = {1, 2, 3, 4, 5}
  OBVIOUS
<1>2. /\ a \in 2..14 /\ b \in 2..14 /\ c \in 2..14 /\ d \in 2..14 /\ e \in 2..14
      /\ a > b /\ b > c /\ c > d /\ d > e
      /\ Ranks(h) = {a, b, c, d, e} /\ \A r \in Ranks(h) : Held(h, r) = 1
  BY <1>1 DEF Shaped
<1>3. OneToOne(5, s)
  BY <1>1, <1>2 DEF OneToOne
<1>4. {s[i] : i \in 1..5} = {a, b, c, d, e}
  BY <1>1
<1> HIDE DEF s
<1>5. IsFiniteSet({s[i] : i \in 1..5}) /\ Cardinality({s[i] : i \in 1..5}) = 5
  BY <1>3, Distinct
<1> QED BY <1>2, <1>4, <1>5 DEF FiveRanks

\* They are a straight if they follow each other, or are the wheel.
LEMMA StraightIs ==
  ASSUME NEW h, NEW a, NEW b, NEW c, NEW d, NEW e, FiveRanks(h, a, b, c, d, e)
  PROVE  /\ Max(Ranks(h)) = a
         /\ InARow(h) <=> a - e = 4
         /\ Ranks(h) = Wheel <=> (a = 14 /\ b = 5 /\ c = 4 /\ d = 3 /\ e = 2)
         /\ Wheel \subseteq Ranks(h) <=> Ranks(h) = Wheel
         /\ IsStraight(h) <=> IsRow(h)
<1>1. Max(Ranks(h)) = a /\ Min(Ranks(h)) = e
  <2>1. Ranks(h) \subseteq Nat /\ Ranks(h) # {}
    BY DEF FiveRanks
  <2>2. IsFiniteSet(Ranks(h))
    BY DEF FiveRanks
  <2>3. Max(Ranks(h)) \in Ranks(h) /\ \A y \in Ranks(h) : y <= Max(Ranks(h))
    BY <2>1, <2>2, MaxOfNaturals
  <2>4. Min(Ranks(h)) \in Ranks(h) /\ \A y \in Ranks(h) : Min(Ranks(h)) <= y
    BY <2>1, MinOfNaturals
  <2> QED BY <2>3, <2>4 DEF FiveRanks
<1>2. InARow(h) <=> a - e = 4
  BY <1>1 DEF InARow, FiveRanks
<1>3. Wheel \subseteq Ranks(h) <=> (a = 14 /\ b = 5 /\ c = 4 /\ d = 3 /\ e = 2)
  BY DEF Wheel, FiveRanks
<1>4. Ranks(h) = Wheel <=> (a = 14 /\ b = 5 /\ c = 4 /\ d = 3 /\ e = 2)
  <2>1. Ranks(h) = Wheel => Wheel \subseteq Ranks(h)
    OBVIOUS
  <2>2. (a = 14 /\ b = 5 /\ c = 4 /\ d = 3 /\ e = 2) => Ranks(h) = Wheel
    BY DEF Wheel, FiveRanks
  <2> QED BY <1>3, <2>1, <2>2
<1> QED BY <1>1, <1>2, <1>3, <1>4 DEF IsStraight, IsRow

\* No straight: a flush, or nothing but high cards.
LEMMA HighRead ==
  ASSUME NEW h \in CardHands, NEW a, NEW b, NEW c, NEW d, NEW e,
         Shaped(h, 5, <<1, 1, 1, 1, 1>>, <<a, b, c, d, e>>), ~IsStraight(h)
  PROVE  Reads(h, IF IsFlush(h) THEN 5 ELSE 0, <<a, b, c, d, e>>)
<1>1. FiveRanks(h, a, b, c, d, e)
  BY FiveAre
<1>2. ~IsRow(h) /\ Ranks(h) # Wheel
  BY <1>1, StraightIs DEF IsRow
<1>3. /\ RanksHeld(h, 1) = {a, b, c, d, e} /\ RanksHeld(h, 2) = {}
      /\ RanksHeld(h, 3) = {} /\ RanksHeld(h, 4) = {}
  BY <1>1, RanksHeldAre DEF FiveRanks
<1> DEFINE cat == IF IsFlush(h) THEN 5 ELSE 0
           t == <<a, b, c, d, e>>
<1>4. EvaluateHand(h) = [category |-> cat, tiebreakers |-> t, bestCards |-> h]
  <2>0. /\ a \in Int /\ b \in Int /\ c \in Int /\ d \in Int /\ e \in Int
        /\ a > b /\ b > c /\ c > d /\ d > e
    BY <1>1 DEF FiveRanks
  <2>1. Descending({}) = <<>> /\ Descending({a, b, c, d, e}) = t
    <3>1. Five(a, b, c, d, e)
      BY <2>0 DEF Five
    <3>2. Descending({a, b, c, d, e}) = t
      BY <3>1, Descending5
    <3> QED BY <3>2, Descending0
  <2>2. /\ t = Descending(RanksHeld(h, 1)) /\ <<>> = Descending(RanksHeld(h, 2))
        /\ <<>> = Descending(RanksHeld(h, 3)) /\ <<>> = Descending(RanksHeld(h, 4))
    BY <1>3, <2>1
  <2>3. <<>> \o t = t /\ Len(<<>>) = 0
    BY <2>0, JoinNone
  <2> HIDE DEF t
  <2>4. Categorize(h, t, <<>>, <<>>, <<>>) = <<cat, t>>
    BY <2>3 DEF Categorize
  <2> QED BY <2>2, <2>4, EvaluateIs
<1>5. Class(h) = cat
  BY <1>1, <1>2, <1>3 DEF Class, FiveRanks
<1>6. cat \in {0, 5} /\ LengthOf(cat) = 5 /\ ManyOf(cat) = <<1, 1, 1, 1, 1>>
  BY DEF LengthOf, ManyOf
<1> HIDE DEF cat
<1>7. Shaped(h, LengthOf(cat), ManyOf(cat), t) /\ t = [i \in 1..LengthOf(cat) |-> t[i]]
  BY <1>6
<1> HIDE DEF t
<1>8. Reads(h, cat, t)
  BY <1>2, <1>4, <1>5, <1>6, <1>7, RanksRead
<1> QED BY <1>8 DEF cat, t

\* A straight, of one suit or not: in the wheel the ace is the lowest.
LEMMA StraightRead ==
  ASSUME NEW h \in CardHands, NEW a, NEW b, NEW c, NEW d, NEW e,
         Shaped(h, 5, <<1, 1, 1, 1, 1>>, <<a, b, c, d, e>>), IsStraight(h)
  PROVE  Reads(h, IF IsFlush(h) THEN 8 ELSE 4, <<StraightHigh(h)>>)
<1>1. FiveRanks(h, a, b, c, d, e)
  BY FiveAre
<1>2. IsRow(h)
  BY <1>1, StraightIs
<1> DEFINE cat == IF IsFlush(h) THEN 8 ELSE 4
           high == StraightHigh(h)
           t == <<high>>
<1>3. /\ high \in 5..14
      /\ Ranks(h) # Wheel => /\ high = a /\ b = high - 1 /\ c = high - 2
                             /\ d = high - 3 /\ e = high - 4
      /\ Ranks(h) = Wheel => high = 5 /\ a = 14 /\ b = 5 /\ c = 4 /\ d = 3 /\ e = 2
  <2>1. /\ Max(Ranks(h)) = a
        /\ InARow(h) <=> a - e = 4
        /\ Ranks(h) = Wheel <=> (a = 14 /\ b = 5 /\ c = 4 /\ d = 3 /\ e = 2)
    BY <1>1, StraightIs
  <2>2. /\ a \in 2..14 /\ b \in 2..14 /\ c \in 2..14 /\ d \in 2..14 /\ e \in 2..14
        /\ a > b /\ b > c /\ c > d /\ d > e
    BY <1>1 DEF FiveRanks
  <2>3. InARow(h) \/ Ranks(h) = Wheel
    BY <1>2 DEF IsRow
  <2>4. high = IF InARow(h) THEN a ELSE 5
    BY <2>1 DEF StraightHigh
  <2> HIDE DEF high
  <2> QED BY <2>1, <2>2, <2>3, <2>4
<1>4. \A r \in Ranks(h) : Worth(h, r) = (IF r = 14 /\ Ranks(h) = Wheel THEN 1 ELSE r) + 15
  <2> TAKE r \in Ranks(h)
  <2>1. Held(h, r) = 1
    BY <1>1 DEF FiveRanks
  <2>2. Worth(h, r) = (IF r = 14 /\ Ranks(h) = Wheel THEN 1 ELSE r) + 15 * Held(h, r)
    BY DEF Worth, Held, OfRank
  <2> QED BY <2>1, <2>2
<1> DEFINE Nums == {15 + high, 15 + (high - 1), 15 + (high - 2), 15 + (high - 3), 15 + (high - 4)}
<1>5. {Worth(h, r) : r \in Ranks(h)} = Nums
  <2>1. Ranks(h) = {a, b, c, d, e} /\ a > b /\ b > c /\ c > d /\ d > e /\ a \in 2..14
        /\ b \in 2..14 /\ c \in 2..14 /\ d \in 2..14 /\ e \in 2..14
    BY <1>1 DEF FiveRanks
  <2>2. {Worth(h, r) : r \in Ranks(h)}
          = {Worth(h, a), Worth(h, b), Worth(h, c), Worth(h, d), Worth(h, e)}
    BY <2>1
  <2> HIDE DEF high
  <2>3. CASE Ranks(h) = Wheel
    <3>1. /\ Worth(h, a) = 1 + 15 /\ Worth(h, b) = 5 + 15 /\ Worth(h, c) = 4 + 15
          /\ Worth(h, d) = 3 + 15 /\ Worth(h, e) = 2 + 15
      BY <1>3, <1>4, <2>1, <2>3
    <3> QED BY <1>3, <2>2, <2>3, <3>1
  <2>4. CASE Ranks(h) # Wheel
    <3>1. /\ Worth(h, a) = 15 + high /\ Worth(h, b) = 15 + (high - 1)
          /\ Worth(h, c) = 15 + (high - 2)
          /\ Worth(h, d) = 15 + (high - 3) /\ Worth(h, e) = 15 + (high - 4)
      BY <1>3, <1>4, <2>1, <2>4
    <3> QED BY <2>2, <3>1
  <2> QED BY <2>3, <2>4
<1>6. Class(h) = cat
  BY <1>1, <1>2, RanksHeldAre DEF Class, FiveRanks
<1>7. EvaluateHand(h) = [category |-> cat, tiebreakers |-> t, bestCards |-> h]
  <2> DEFINE ones == Descending(RanksHeld(h, 1))
  <2>1. RanksHeld(h, 2) = {} /\ RanksHeld(h, 3) = {} /\ RanksHeld(h, 4) = {}
    BY <1>1, RanksHeldAre DEF FiveRanks
  <2>2. /\ <<>> = Descending(RanksHeld(h, 2)) /\ <<>> = Descending(RanksHeld(h, 3))
        /\ <<>> = Descending(RanksHeld(h, 4)) /\ ones = Descending(RanksHeld(h, 1))
    BY <2>1, Descending0
  <2> HIDE DEF ones
  <2>3. Categorize(h, ones, <<>>, <<>>, <<>>) = <<cat, t>>
    BY DEF Categorize
  <2> QED BY <2>2, <2>3, EvaluateIs
<1>8. cat \in {4, 8} /\ LengthOf(cat) = 1 /\ PlacesOf(cat) = 5
  BY DEF LengthOf, PlacesOf
<1> HIDE DEF cat, high
<1> DEFINE w == WorthsOf(cat, t)
<1>9. 1..5 = {1, 2, 3, 4, 5} /\ 1..1 = {1}
  OBVIOUS
<1>10. w = [i \in 1..5 |-> 15 + ((high + 1) - i)]
  BY <1>8 DEF WorthsOf
<1> HIDE DEF w
<1>11. Falls(5, w)
  BY <1>3, <1>10 DEF Falls
<1>12. {w[i] : i \in 1..5} = Nums
  <2>1. {w[i] : i \in 1..5} = {w[1], w[2], w[3], w[4], w[5]}
    BY <1>9
  <2>2. /\ w[1] = 15 + high /\ w[2] = 15 + (high - 1) /\ w[3] = 15 + (high - 2)
        /\ w[4] = 15 + (high - 3) /\ w[5] = 15 + (high - 4)
    BY <1>3, <1>10
  <2> QED BY <2>1, <2>2
<1>13. Sheet(h) = [class |-> cat, worths |-> {w[i] : i \in 1..5}]
  BY <1>5, <1>6, <1>12 DEF Sheet
<1>14. t \in [1..1 -> 2..14]
  BY <1>3, <1>9
<1>15. Reads(h, cat, t)
  <2> HIDE DEF t
  <2> QED BY <1>7, <1>8, <1>11, <1>13, <1>14 DEF Reads, w
<1> QED BY <1>15 DEF cat, high

\* Every hand is read alike.
LEMMA HandReads ==
  ASSUME NEW h \in CardHands
  PROVE  \E cat, t : Reads(h, cat, t)
BY HandIsShaped, QuadsRead, FullHouseRead, TripsRead, TwoPairRead, PairRead, HighRead, StraightRead

-----------------------------------------------------------------------------
(* Both orders of hands are that of a number.                               *)

\* Tiebreakers and category as the digits of a number, with nothing for the places
\* that a category has not.
Padded(cat, t) == [i \in 1..5 |-> IF i <= LengthOf(cat) THEN t[i] ELSE 0]
Horner(x) == 50625 * x[1] + 3375 * x[2] + 225 * x[3] + 15 * x[4] + x[5]
Num(cat, t) == 759375 * cat + Horner(Padded(cat, t))

Limit == 7000000  \* no number is greater

\* The strength of a hand.
Strength(h) == Num(EvaluateHand(h).category, EvaluateHand(h).tiebreakers)

Digit(x) == x \in Int /\ 0 <= x /\ x <= 14

LEMMA Digits ==
  ASSUME NEW a, NEW b, NEW c, NEW d, NEW e, NEW v, NEW w, NEW x, NEW y, NEW z,
         Digit(a), Digit(b), Digit(c), Digit(d), Digit(e),
         Digit(v), Digit(w), Digit(x), Digit(y), Digit(z)
  PROVE  /\ 50625 * a + 3375 * b + 225 * c + 15 * d + e \in Nat
         /\ 50625 * a + 3375 * b + 225 * c + 15 * d + e < 759375
         /\ (50625 * a + 3375 * b + 225 * c + 15 * d + e
                > 50625 * v + 3375 * w + 225 * x + 15 * y + z)
              <=> \/ a > v
                  \/ a = v /\ b > w
                  \/ a = v /\ b = w /\ c > x
                  \/ a = v /\ b = w /\ c = x /\ d > y
                  \/ a = v /\ b = w /\ c = x /\ d = y /\ e > z
BY DEF Digit

\* What the first difference of five says, written out.
Lex(x, y) ==
  \/ x[1] > y[1]
  \/ x[1] = y[1] /\ x[2] > y[2]
  \/ x[1] = y[1] /\ x[2] = y[2] /\ x[3] > y[3]
  \/ x[1] = y[1] /\ x[2] = y[2] /\ x[3] = y[3] /\ x[4] > y[4]
  \/ x[1] = y[1] /\ x[2] = y[2] /\ x[3] = y[3] /\ x[4] = y[4] /\ x[5] > y[5]

Numerals == [1..5 -> 0..14]

LEMMA HornerOrder ==
  ASSUME NEW x \in Numerals, NEW y \in Numerals
  PROVE  /\ Horner(x) \in Nat /\ Horner(x) < 759375
         /\ Horner(x) > Horner(y) <=> Greater(5, x, y)
<1>1. /\ Digit(x[1]) /\ Digit(x[2]) /\ Digit(x[3]) /\ Digit(x[4]) /\ Digit(x[5])
      /\ Digit(y[1]) /\ Digit(y[2]) /\ Digit(y[3]) /\ Digit(y[4]) /\ Digit(y[5])
  BY DEF Numerals, Digit
<1>2. Greater(5, x, y) <=> Lex(x, y)
  <2>1. /\ 1..5 = {1, 2, 3, 4, 5} /\ 1..(1 - 1) = {} /\ 1..(2 - 1) = {1} /\ 1..(3 - 1) = {1, 2}
        /\ 1..(4 - 1) = {1, 2, 3} /\ 1..(5 - 1) = {1, 2, 3, 4}
    OBVIOUS
  <2> QED BY <2>1 DEF Greater, Lex
<1>3. Horner(x) \in Nat /\ Horner(x) < 759375 /\ (Horner(x) > Horner(y) <=> Lex(x, y))
  BY <1>1, Digits DEF Horner, Lex
<1> QED BY <1>2, <1>3

\* Tiebreakers of a category, and what they are as digits.
Tiebreakers(cat) == [1..LengthOf(cat) -> 2..14]

LEMMA PaddedOrder ==
  ASSUME NEW cat \in 0..8, NEW t \in Tiebreakers(cat), NEW u \in Tiebreakers(cat)
  PROVE  /\ Padded(cat, t) \in Numerals
         /\ Greater(5, Padded(cat, t), Padded(cat, u)) <=> Greater(LengthOf(cat), t, u)
<1> DEFINE m == LengthOf(cat)  x == Padded(cat, t)  y == Padded(cat, u)
<1>1. m \in 1..5
  BY DEF LengthOf
<1>2. t \in [1..m -> 2..14] /\ u \in [1..m -> 2..14]
  BY DEF Tiebreakers
<1>3. /\ x = [i \in 1..5 |-> IF i <= m THEN t[i] ELSE 0]
      /\ y = [i \in 1..5 |-> IF i <= m THEN u[i] ELSE 0]
  BY DEF Padded
<1> HIDE DEF m, x, y
<1>4. x \in Numerals
  BY <1>1, <1>2, <1>3 DEF Numerals
<1>5. \A i \in 1..m : i \in 1..5 /\ x[i] = t[i] /\ y[i] = u[i]
  BY <1>1, <1>3
<1>6. \A i \in 1..5 : i \in 1..m \/ (x[i] = 0 /\ y[i] = 0)
  BY <1>1, <1>3
<1>7. ASSUME Greater(5, x, y) PROVE Greater(m, t, u)
  <2>1. PICK i \in 1..5 : x[i] > y[i] /\ \A j \in 1..(i - 1) : x[j] = y[j]
    BY <1>7 DEF Greater
  <2>2. i \in 1..m
    BY <1>6, <2>1
  <2>3. \A j \in 1..(i - 1) : j \in 1..m
    BY <1>1, <2>2
  <2> QED BY <1>5, <2>1, <2>2, <2>3 DEF Greater
<1>8. ASSUME Greater(m, t, u) PROVE Greater(5, x, y)
  <2>1. PICK i \in 1..m : t[i] > u[i] /\ \A j \in 1..(i - 1) : t[j] = u[j]
    BY <1>8 DEF Greater
  <2>2. \A j \in 1..(i - 1) : j \in 1..m
    BY <1>1
  <2> QED BY <1>5, <2>1, <2>2 DEF Greater
<1> QED BY <1>4, <1>7, <1>8 DEF m, x, y

\* First the category, then the tiebreakers.
LEMMA NumOrder ==
  ASSUME NEW cat \in 0..8, NEW t \in Tiebreakers(cat),
         NEW k \in 0..8, NEW u \in Tiebreakers(k)
  PROVE  /\ Num(cat, t) \in Nat /\ Num(cat, t) < Limit
         /\ Num(cat, t) > Num(k, u) <=> cat > k \/ (cat = k /\ Greater(LengthOf(cat), t, u))
<1> DEFINE x == Padded(cat, t)  y == Padded(k, u)
<1>1. x \in Numerals /\ y \in Numerals
  BY PaddedOrder
<1>2. Horner(x) \in Nat /\ Horner(x) < 759375 /\ Horner(y) \in Nat /\ Horner(y) < 759375
  BY <1>1, HornerOrder
<1>3. Num(cat, t) = 759375 * cat + Horner(x) /\ Num(k, u) = 759375 * k + Horner(y)
  BY DEF Num
<1>4. cat = k => (Horner(x) > Horner(y) <=> Greater(LengthOf(cat), t, u))
  BY <1>1, HornerOrder, PaddedOrder
<1> HIDE DEF x, y
<1>5. cat > k => Num(cat, t) > Num(k, u)
  BY <1>2, <1>3
<1>6. k > cat => ~(Num(cat, t) > Num(k, u))
  BY <1>2, <1>3
<1>7. cat = k => (Num(cat, t) > Num(k, u) <=> Horner(x) > Horner(y))
  BY <1>2, <1>3
<1> QED BY <1>2, <1>3, <1>4, <1>5, <1>6, <1>7 DEF Limit

\* compareHands goes by the strength.
LEMMA BeatsByStrength ==
  ASSUME NEW h \in CardHands, NEW g \in CardHands
  PROVE  /\ Strength(h) \in Nat /\ Strength(h) < Limit /\ Strength(g) \in Nat
         /\ Beats(EvaluateHand(h), EvaluateHand(g)) <=> Strength(h) > Strength(g)
<1>1. PICK cat, t : Reads(h, cat, t)
  BY HandReads
<1>2. PICK k, u : Reads(g, k, u)
  BY HandReads
<1>3. /\ cat \in 0..8 /\ k \in 0..8 /\ t \in Tiebreakers(cat) /\ u \in Tiebreakers(k)
      /\ EvaluateHand(h) = [category |-> cat, tiebreakers |-> t, bestCards |-> h]
      /\ EvaluateHand(g) = [category |-> k, tiebreakers |-> u, bestCards |-> g]
  BY <1>1, <1>2 DEF Reads, Tiebreakers
<1>4. Strength(h) = Num(cat, t) /\ Strength(g) = Num(k, u)
  BY <1>3 DEF Strength
<1>5. Beats(EvaluateHand(h), EvaluateHand(g)) <=>
        cat > k \/ (cat = k /\ Greater(LengthOf(cat), t, u))
  <2>1. DOMAIN t = 1..LengthOf(cat)
    BY <1>3 DEF Tiebreakers
  <2> QED BY <1>3, <2>1 DEF Beats, Greater
<1> QED BY <1>3, <1>4, <1>5, NumOrder

\* And so do the rules of the game.
LEMMA OutranksByStrength ==
  ASSUME NEW h \in CardHands, NEW g \in CardHands
  PROVE  Outranks(Sheet(h), Sheet(g)) <=> Strength(h) > Strength(g)
<1>1. PICK cat, t : Reads(h, cat, t)
  BY HandReads
<1>2. PICK k, u : Reads(g, k, u)
  BY HandReads
<1>3. /\ cat \in 0..8 /\ k \in 0..8 /\ t \in Tiebreakers(cat) /\ u \in Tiebreakers(k)
      /\ EvaluateHand(h) = [category |-> cat, tiebreakers |-> t, bestCards |-> h]
      /\ EvaluateHand(g) = [category |-> k, tiebreakers |-> u, bestCards |-> g]
  BY <1>1, <1>2 DEF Reads, Tiebreakers
<1>4. Strength(h) = Num(cat, t) /\ Strength(g) = Num(k, u)
  BY <1>3 DEF Strength
<1> DEFINE m == PlacesOf(cat)  w == WorthsOf(cat, t)  v == WorthsOf(cat, u)
<1>5. ASSUME cat = k
      PROVE  Outranks(Sheet(h), Sheet(g)) <=> Greater(m, w, v)
  <2>1. /\ Falls(m, w) /\ Sheet(h) = [class |-> cat, worths |-> {w[i] : i \in 1..m}]
        /\ Falls(m, v) /\ Sheet(g) = [class |-> cat, worths |-> {v[i] : i \in 1..m}]
    BY <1>1, <1>2, <1>5 DEF Reads
  <2> DEFINE W == {w[i] : i \in 1..m}  V == {v[i] : i \in 1..m}
  <2> HIDE DEF m, w, v
  <2>2. Tops(W, V) <=> Greater(m, w, v)
    BY <2>1, TopsGreater
  <2>3. Sheet(h).class = cat /\ Sheet(h).worths = W /\ Sheet(g).class = cat /\ Sheet(g).worths = V
    BY <2>1
  <2> HIDE DEF W, V
  <2>4. Outranks(Sheet(h), Sheet(g)) <=> Tops(W, V)
    BY <1>3, <2>3 DEF Outranks, Tops
  <2> QED BY <2>2, <2>4
<1>6. ASSUME cat = k
      PROVE  Greater(m, w, v) <=> Greater(LengthOf(cat), t, u)
  <2>0. t \in [1..LengthOf(cat) -> 2..14] /\ u \in [1..LengthOf(cat) -> 2..14]
    BY <1>3, <1>6 DEF Tiebreakers
  <2>1. CASE cat \in {4, 8}
    <3>1. LengthOf(cat) = 1 /\ m = 5
      BY <2>1 DEF LengthOf, PlacesOf
    <3>2. t[1] \in 2..14 /\ u[1] \in 2..14
      BY <2>0, <3>1
    <3>3. /\ w = [i \in 1..5 |-> 15 + ((t[1] + 1) - i)]
          /\ v = [i \in 1..5 |-> 15 + ((u[1] + 1) - i)]
      BY <2>1, <3>1 DEF WorthsOf
    <3> HIDE DEF w, v
    <3>4. \A i \in 1..5 : (w[i] > v[i] <=> t[1] > u[1]) /\ (w[i] = v[i] <=> t[1] = u[1])
      BY <3>2, <3>3
    <3>5. Greater(5, w, v) => t[1] > u[1]
      BY <3>4 DEF Greater
    <3>6. t[1] > u[1] => Greater(5, w, v)
      <4>1. 1 \in 1..5 /\ 1..(1 - 1) = {}
        OBVIOUS
      <4> QED BY <3>4, <4>1 DEF Greater
    <3>7. Greater(1, t, u) <=> t[1] > u[1]
      <4>1. 1..1 = {1} /\ 1..(1 - 1) = {}
        OBVIOUS
      <4> QED BY <4>1 DEF Greater
    <3> QED BY <3>1, <3>5, <3>6, <3>7
  <2>2. CASE cat \notin {4, 8}
    <3> DEFINE ks == ManyOf(cat)  n == LengthOf(cat)
    <3>1. m = n /\ n \in 1..5
      BY <2>2 DEF LengthOf, PlacesOf
    <3>2. w = [i \in 1..n |-> 15 * ks[i] + t[i]] /\ v = [i \in 1..n |-> 15 * ks[i] + u[i]]
      BY <2>2, <3>1 DEF WorthsOf
    <3>3. \A i \in 1..n : ks[i] \in Int
      <4>1. /\ 1..1 = {1} /\ 1..2 = {1, 2} /\ 1..3 = {1, 2, 3} /\ 1..4 = {1, 2, 3, 4}
            /\ 1..5 = {1, 2, 3, 4, 5}
        OBVIOUS
      <4> QED BY <1>3, <2>2, <4>1 DEF LengthOf, ManyOf
    <3> HIDE DEF m, n, ks, w, v
    <3>4. \A i \in 1..n : t[i] \in Int /\ u[i] \in Int
      BY <2>0 DEF n
    <3>5. \A i \in 1..n : (w[i] > v[i] <=> t[i] > u[i]) /\ (w[i] = v[i] <=> t[i] = u[i])
      <4> TAKE i \in 1..n
      <4>1. w[i] = 15 * ks[i] + t[i] /\ v[i] = 15 * ks[i] + u[i]
        BY <3>2
      <4>2. ks[i] \in Int /\ t[i] \in Int /\ u[i] \in Int
        BY <3>3, <3>4
      <4> QED BY <4>1, <4>2
    <3>6. \A i \in 1..n : \A j \in 1..(i - 1) : j \in 1..n
      BY <3>1
    <3>7. Greater(n, w, v) <=> Greater(n, t, u)
      BY <3>5, <3>6 DEF Greater
    <3> QED BY <3>1, <3>7 DEF n
  <2> QED BY <2>1, <2>2
<1>7. Outranks(Sheet(h), Sheet(g)) <=> cat > k \/ (cat = k /\ Greater(LengthOf(cat), t, u))
  <2>1. Sheet(h).class = cat /\ Sheet(g).class = k
    BY <1>1, <1>2 DEF Reads
  <2>2. cat > k => Outranks(Sheet(h), Sheet(g))
    BY <2>1 DEF Outranks
  <2>3. k > cat => ~Outranks(Sheet(h), Sheet(g))
    BY <1>3, <2>1 DEF Outranks
  <2> QED BY <1>3, <1>5, <1>6, <2>2, <2>3
<1> QED BY <1>3, <1>4, <1>7, NumOrder

\* Of any two hands of five cards of the deck, compareHands(evaluateHand(a),
\* evaluateHand(b)) prefers the one that the rules of the game prefer, and finds them
\* equal if neither is.
THEOREM HandsCompareByTheRules ==
  \A h, g \in CardHands : Beats(EvaluateHand(h), EvaluateHand(g)) <=> Outranks(Sheet(h), Sheet(g))
BY BeatsByStrength, OutranksByStrength

-----------------------------------------------------------------------------
(* The showdown.                                                            *)

\* Some cards, five at least, have a strongest hand, and bestHandFrom7 returns it.
LEMMA BestOfCards ==
  ASSUME NEW cards, cards \in FewCards, NEW h0 \in kSubset(5, cards)
  PROVE  /\ kSubset(5, cards) \subseteq CardHands
         /\ \E h \in kSubset(5, cards) :
              /\ BestHandFrom7(cards) = EvaluateHand(h)
              /\ \A g \in kSubset(5, cards) : Strength(g) <= Strength(h)
<1> DEFINE K == kSubset(5, cards)  E == {EvaluateHand(h) : h \in K}
           N == {Strength(h) : h \in K}
<1>1. K \subseteq CardHands
  <2> SUFFICES ASSUME NEW h \in K PROVE h \in CardHands
    OBVIOUS
  <2>1. h \subseteq cards /\ Cardinality(h) = 5
    BY DEF kSubset
  <2>2. IsFiniteSet(h)
    BY <2>1, FS_Subset DEF FewCards
  <2> QED BY <2>1, <2>2 DEF CardHands, FewCards
<1>2. N \subseteq Nat /\ N # {} /\ \A n \in N : n <= Limit
  <2>0. Limit \in Nat
    BY DEF Limit
  <2>1. \A h \in K : Strength(h) \in Nat /\ Strength(h) < Limit
    BY <1>1, BeatsByStrength
  <2> HIDE DEF K
  <2>2. h0 \in K
    BY DEF K
  <2> QED BY <2>0, <2>1, <2>2
<1>3. Max(N) \in N /\ \A n \in N : n <= Max(N)
  <2> HIDE DEF N
  <2>1. Limit \in Nat
    BY DEF Limit
  <2>2. IsFiniteSet(N)
    BY <1>2, <2>1, FS_BoundedSetOfNaturals
  <2> QED BY <1>2, <2>2, MaxOfNaturals
<1>4. PICK top \in K : \A g \in K : Strength(g) <= Strength(top)
  <2> HIDE DEF K
  <2> QED BY <1>3
<1> HIDE DEF K
<1>5. \A h, g \in K : /\ Strength(h) \in Nat /\ Strength(g) \in Nat
                      /\ Beats(EvaluateHand(h), EvaluateHand(g)) <=> Strength(h) > Strength(g)
  <2> TAKE h \in K, g \in K
  <2>1. h \in CardHands /\ g \in CardHands
    BY <1>1
  <2> QED BY <2>1, BeatsByStrength
<1>6. \A d \in E : ~Beats(d, EvaluateHand(top))
  <2> TAKE d \in E
  <2>1. PICK g \in K : d = EvaluateHand(g)
    OBVIOUS
  <2> QED BY <1>4, <1>5, <2>1
<1>7. PICK e \in E : e = BestHandFrom7(cards) /\ \A d \in E : ~Beats(d, e)
  <2>1. EvaluateHand(top) \in E
    OBVIOUS
  <2>2. BestHandFrom7(cards) = CHOOSE e \in E : \A d \in E : ~Beats(d, e)
    BY DEF BestHandFrom7, K
  <2> HIDE DEF E
  <2> QED BY <1>6, <2>1, <2>2
<1>8. PICK h \in K : e = EvaluateHand(h)
  OBVIOUS
<1>9. \A g \in K : Strength(g) <= Strength(h)
  <2> TAKE g \in K
  <2>1. ~Beats(EvaluateHand(g), EvaluateHand(h))
    BY <1>7, <1>8
  <2> QED BY <1>5, <2>1
<1> QED BY <1>1, <1>7, <1>8, <1>9 DEF K

\* The cards are a deck's, and everybody has his own.
DeckInv ==
  /\ undealt \in FewCards
  /\ hole \in [Contenders -> FewCards] /\ toldTo \in [Contenders -> FewCards]
  /\ board \in FewCards
  /\ undealt \cap board = {}
  /\ \A p \in Contenders : hole[p] \cap (undealt \cup board) = {}
  /\ \A p, q \in Contenders : p # q => hole[p] \cap hole[q] = {}
  /\ \A p \in Contenders : toldTo[p] \subseteq hole[p]

\* What the public has seen.
Seen == IF champions # {} /\ Cardinality(InHand) > 1
        THEN board \cup UNION {hole[p] : p \in InHand} ELSE board

SeenInv ==
  /\ board # {} \/ champions # {} => Dealt
  /\ streamed \subseteq Seen /\ archived \subseteq Seen

WinnersInv ==
  champions # {} /\ Cardinality(InHand) > 1 =>
    champions = {p \in InHand : Sheets(p) \cap BestSheets # {}}

DealInv == DeckInv /\ SeenInv /\ WinnersInv

\* A player's five best.
HandsOf(p) == kSubset(5, Cards(p))

LEMMA HandsOfPlayers ==
  ASSUME DeckInv, Cardinality(board) = 5, NEW p \in Contenders
  PROVE  /\ HandsOf(p) \subseteq CardHands
         /\ \E h \in HandsOf(p) : /\ BestHandFrom7(Cards(p)) = EvaluateHand(h)
                                  /\ \A g \in HandsOf(p) : Strength(g) <= Strength(h)
<1>1. Cards(p) \in FewCards
  <2>1. hole[p] \in FewCards /\ board \in FewCards
    BY DEF DeckInv
  <2>2. IsFiniteSet(hole[p] \cup board)
    BY <2>1, FS_Union DEF FewCards
  <2> QED BY <2>1, <2>2 DEF Cards, FewCards
<1>2. board \in kSubset(5, Cards(p))
  BY DEF kSubset, Cards
<1> QED BY <1>1, <1>2, BestOfCards DEF HandsOf

\* The strongest hands, and the players who have one.
Strongest == {p \in InHand : \E h \in HandsOf(p) :
                \A q \in InHand : \A g \in HandsOf(q) : Strength(g) <= Strength(h)}

\* By the rules of the game they are the winners.
LEMMA StrongestWin ==
  ASSUME DeckInv, Cardinality(board) = 5
  PROVE  Strongest = {p \in InHand : Sheets(p) \cap BestSheets # {}}
<1>1. \A p \in InHand : HandsOf(p) \subseteq CardHands
  BY HandsOfPlayers DEF InHand
<1>2. ASSUME NEW p \in InHand, NEW h \in HandsOf(p)
      PROVE  Sheet(h) \in BestSheets
               <=> \A q \in InHand : \A g \in HandsOf(q) : Strength(g) <= Strength(h)
  <2> DEFINE all == UNION {Sheets(q) : q \in InHand}
  <2>1. all = UNION {{Sheet(g) : g \in HandsOf(q)} : q \in InHand}
    BY DEF Sheets, HandsOf
  <2>2. BestSheets = {s \in all : \A o \in all : ~Outranks(o, s)}
    BY DEF BestSheets
  <2>3. Sheet(h) \in all
    BY <2>1
  <2>4. (\A o \in all : ~Outranks(o, Sheet(h)))
          <=> \A q \in InHand : \A g \in HandsOf(q) : ~Outranks(Sheet(g), Sheet(h))
    BY <2>1
  <2>5. \A q \in InHand : \A g \in HandsOf(q) :
          Outranks(Sheet(g), Sheet(h)) <=> ~(Strength(g) <= Strength(h))
    <3> TAKE q \in InHand
    <3> TAKE g \in HandsOf(q)
    <3>1. g \in CardHands /\ h \in CardHands
      BY <1>1
    <3>2. Strength(g) \in Nat /\ Strength(h) \in Nat
      BY <3>1, BeatsByStrength
    <3>3. Outranks(Sheet(g), Sheet(h)) <=> Strength(g) > Strength(h)
      BY <3>1, OutranksByStrength
    <3> QED BY <3>2, <3>3
  <2> HIDE DEF all
  <2> QED BY <2>2, <2>3, <2>4, <2>5
<1>3. \A p \in InHand : Sheets(p) = {Sheet(h) : h \in HandsOf(p)}
  BY DEF Sheets, HandsOf
<1>4. \A p \in InHand : Sheets(p) \cap BestSheets # {} <=> \E h \in HandsOf(p) : Sheet(h) \in BestSheets
  BY <1>3
<1>5. \A p \in InHand : p \in Strongest <=> Sheets(p) \cap BestSheets # {}
  BY <1>2, <1>4 DEF Strongest
<1>6. Strongest \subseteq InHand
  BY DEF Strongest
<1> QED BY <1>5, <1>6

\* And they are the ones that the code finds, if somebody is in the hand.
LEMMA StrongestFound ==
  ASSUME DeckInv, Cardinality(board) = 5
  PROVE  /\ Strongest = {p \in InHand : \A q \in InHand :
                            ~Beats(BestHandFrom7(Cards(q)), BestHandFrom7(Cards(p)))}
         /\ InHand # {} => Strongest # {}
<1> DEFINE Top(p, h) == /\ h \in HandsOf(p) /\ h \in CardHands
                        /\ BestHandFrom7(Cards(p)) = EvaluateHand(h)
                        /\ \A g \in HandsOf(p) : Strength(g) <= Strength(h)
<1>1. \A p \in InHand : \E h : Top(p, h)
  <2> TAKE p \in InHand
  <2>1. p \in Contenders
    BY DEF InHand
  <2> QED BY <2>1, HandsOfPlayers
<1>2. \A p \in InHand : \A g \in HandsOf(p) : Strength(g) \in Nat /\ Strength(g) < Limit
  <2> TAKE p \in InHand
  <2> TAKE g \in HandsOf(p)
  <2>1. p \in Contenders
    BY DEF InHand
  <2>2. g \in CardHands
    BY <2>1, HandsOfPlayers
  <2> QED BY <2>2, BeatsByStrength
<1>3. ASSUME NEW p \in InHand
      PROVE  p \in Strongest <=>
               \A q \in InHand : ~Beats(BestHandFrom7(Cards(q)), BestHandFrom7(Cards(p)))
  <2>1. PICK h : Top(p, h)
    BY <1>1
  <2>2. ASSUME NEW q \in InHand
        PROVE  Beats(BestHandFrom7(Cards(q)), BestHandFrom7(Cards(p)))
                 <=> \E g \in HandsOf(q) : ~(Strength(g) <= Strength(h))
    <3>1. PICK g : Top(q, g)
      BY <1>1
    <3>2. Strength(g) \in Nat /\ Strength(h) \in Nat
      BY <1>2, <2>1, <3>1
    <3>3. Beats(BestHandFrom7(Cards(q)), BestHandFrom7(Cards(p))) <=> Strength(g) > Strength(h)
      BY <2>1, <3>1, BeatsByStrength
    <3>4. \A k \in HandsOf(q) : Strength(k) \in Nat /\ Strength(k) <= Strength(g)
      BY <1>2, <3>1
    <3> QED BY <3>1, <3>2, <3>3, <3>4
  <2>3. p \in Strongest <=> \A q \in InHand : \A g \in HandsOf(q) : Strength(g) <= Strength(h)
    <3>1. ASSUME NEW k \in HandsOf(p),
                 \A q \in InHand : \A g \in HandsOf(q) : Strength(g) <= Strength(k)
          PROVE  \A q \in InHand : \A g \in HandsOf(q) : Strength(g) <= Strength(h)
      <4> TAKE q \in InHand
      <4> TAKE g \in HandsOf(q)
      <4>1. Strength(g) <= Strength(k) /\ Strength(k) <= Strength(h)
        BY <2>1, <3>1
      <4>2. Strength(g) \in Nat /\ Strength(k) \in Nat /\ Strength(h) \in Nat
        BY <1>2, <2>1
      <4> QED BY <4>1, <4>2
    <3> QED BY <2>1, <3>1 DEF Strongest
  <2> QED BY <2>2, <2>3
<1>4. Strongest \subseteq InHand
  BY DEF Strongest
<1>5. ASSUME InHand # {} PROVE Strongest # {}
  <2> DEFINE N == UNION {{Strength(h) : h \in HandsOf(p)} : p \in InHand}
  <2>1. N \subseteq Nat /\ \A n \in N : n <= Limit
    BY <1>2 DEF Limit
  <2>2. N # {}
    BY <1>1, <1>5
  <2>3. \A q \in InHand : \A g \in HandsOf(q) : Strength(g) \in N
    OBVIOUS
  <2>4. \A n \in N : \E p \in InHand : \E h \in HandsOf(p) : n = Strength(h)
    OBVIOUS
  <2> HIDE DEF N
  <2>5. IsFiniteSet(N)
    <3>1. Limit \in Nat
      BY DEF Limit
    <3> QED BY <2>1, <3>1, FS_BoundedSetOfNaturals
  <2>6. Max(N) \in N /\ \A n \in N : n <= Max(N)
    BY <2>1, <2>2, <2>5, MaxOfNaturals
  <2>7. PICK p \in InHand : \E h \in HandsOf(p) : Max(N) = Strength(h)
    BY <2>4, <2>6
  <2>8. p \in Strongest
    BY <2>3, <2>6, <2>7 DEF Strongest
  <2> QED BY <2>8
<1> QED BY <1>3, <1>4, <1>5

-----------------------------------------------------------------------------
(* The hand's cards, step by step.                                          *)

LEMMA DealInitInv == DealInit => DealInv
<1> SUFFICES ASSUME DealInit PROVE DealInv
  OBVIOUS
<1>1. DeckInv
  <2>1. undealt \in FewCards
    <3>1. undealt \subseteq AllCards
      BY ShowdownAssumption DEF DealInit, AllCards
    <3> QED BY <3>1, CardsAreFew, FS_Subset DEF FewCards
  <2>2. {} \in FewCards
    BY FS_EmptySet DEF FewCards
  <2> QED BY <2>1, <2>2 DEF DealInit, DeckInv
<1>2. SeenInv
  BY DEF DealInit, SeenInv
<1>3. WinnersInv
  BY DEF DealInit, WinnersInv
<1> QED BY <1>1, <1>2, <1>3 DEF DealInv

\* Some of the cards that are left.
LEMMA SomeLeft ==
  ASSUME DeckInv, NEW n, NEW cards \in kSubset(n, undealt)
  PROVE  /\ cards \in FewCards /\ cards \subseteq undealt /\ undealt \ cards \in FewCards
         /\ n # 0 => cards # {}
<1>1. cards \subseteq undealt /\ Cardinality(cards) = n
  BY DEF kSubset
<1>2. undealt \in FewCards
  BY DEF DeckInv
<1>3. IsFiniteSet(cards) /\ IsFiniteSet(undealt \ cards)
  BY <1>1, <1>2, FS_Subset DEF FewCards
<1> QED BY <1>1, <1>2, <1>3, FS_EmptySet DEF FewCards

\* What an event adds to what the public has seen: no card of a holeCards field.
LEMMA OpenCards ==
  ASSUME NEW type, NEW private, NEW open
  PROVE  /\ ToPublic(Event(type, private, open)) \subseteq open
         /\ ToArtifact(Event(type, private, open)) \subseteq open
         /\ type = "hole_cards.dealt" => /\ ToPublic(Event(type, private, open)) = {}
                                        /\ ToArtifact(Event(type, private, open)) = {}
BY DEF ToPublic, ToArtifact, Event, Scrubbed

LEMMA DealHoleCardsInv ==
  ASSUME DealInv, NEW p \in Contenders, DealHoleCards(p)
  PROVE  DealInv'
<1>1. hole[p] = {}
  BY DEF DealHoleCards
<1>2. PICK cards \in kSubset(2, undealt) :
        /\ hole' = [hole EXCEPT ![p] = cards]
        /\ undealt' = undealt \ cards
        /\ toldTo' = [toldTo EXCEPT ![p] = cards]
        /\ Broadcast({Event("hole_cards.dealt", cards, {})})
  BY DEF DealHoleCards
<1>3. UNCHANGED <<board, foldedHands, champions>>
  BY DEF DealHoleCards
<1>4. DeckInv
  BY DEF DealInv
<1>5. cards \in FewCards /\ cards \subseteq undealt /\ undealt \ cards \in FewCards
  BY <1>4, SomeLeft
<1>6. champions = {} /\ board = {}
  BY <1>1 DEF DealInv, SeenInv, Dealt
<1>7. DeckInv'
  BY <1>2, <1>3, <1>4, <1>5 DEF DeckInv
<1>8. SeenInv'
  <2>1. streamed' = streamed /\ archived' = archived
    BY <1>2, OpenCards DEF Broadcast
  <2>2. streamed \subseteq {} /\ archived \subseteq {}
    BY <1>6 DEF DealInv, SeenInv, Seen
  <2> QED BY <1>3, <1>6, <2>1, <2>2 DEF SeenInv
<1>9. WinnersInv'
  BY <1>3, <1>6 DEF WinnersInv
<1> QED BY <1>7, <1>8, <1>9 DEF DealInv

LEMMA DealBoardInv ==
  ASSUME DealInv, DealBoard
  PROVE  DealInv'
<1>1. champions = {} /\ Dealt
  BY DEF DealBoard
<1> DEFINE n == IF board = {} THEN 3 ELSE 1
<1>2. PICK cards \in kSubset(n, undealt) :
        /\ board' = board \cup cards
        /\ undealt' = undealt \ cards
        /\ Broadcast({Event("community_cards.dealt", {}, cards)})
  BY DEF DealBoard
<1>3. UNCHANGED <<hole, foldedHands, toldTo, champions>>
  BY DEF DealBoard
<1>4. DeckInv
  BY DEF DealInv
<1> HIDE DEF n
<1>5. cards \in FewCards /\ cards \subseteq undealt /\ undealt \ cards \in FewCards
  BY <1>4, SomeLeft
<1>6. DeckInv'
  <2>1. board' \in FewCards
    <3>1. board \in FewCards
      BY <1>4 DEF DeckInv
    <3> QED BY <1>2, <1>5, <3>1, FS_Union DEF FewCards
  <2> QED BY <1>2, <1>3, <1>4, <1>5, <2>1 DEF DeckInv
<1>7. SeenInv'
  <2>1. streamed' \subseteq streamed \cup cards /\ archived' \subseteq archived \cup cards
    BY <1>2, OpenCards DEF Broadcast
  <2>2. streamed \subseteq board /\ archived \subseteq board
    BY <1>1 DEF DealInv, SeenInv, Seen
  <2>3. streamed' \subseteq board' /\ archived' \subseteq board'
    BY <1>2, <2>1, <2>2
  <2> QED BY <1>1, <1>3, <2>3 DEF SeenInv, Seen, Dealt
<1>8. WinnersInv'
  BY <1>1, <1>3 DEF WinnersInv
<1> QED BY <1>6, <1>7, <1>8 DEF DealInv

LEMMA FoldHandInv ==
  ASSUME DealInv, NEW p \in Contenders, FoldHand(p)
  PROVE  DealInv'
<1>1. champions = {} /\ UNCHANGED <<undealt, hole, board, streamed, archived, toldTo, champions>>
  BY DEF FoldHand
<1>2. DeckInv'
  BY <1>1 DEF DealInv, DeckInv
<1>3. SeenInv'
  BY <1>1 DEF DealInv, SeenInv, Seen, Dealt
<1>4. WinnersInv'
  BY <1>1 DEF WinnersInv
<1> QED BY <1>2, <1>3, <1>4 DEF DealInv

LEMMA WinUncontestedInv ==
  ASSUME DealInv, WinUncontested
  PROVE  DealInv'
<1>1. /\ Dealt /\ champions = {} /\ Cardinality(InHand) = 1
      /\ UNCHANGED <<undealt, hole, board, foldedHands, streamed, archived, toldTo>>
  BY DEF WinUncontested
<1>2. DeckInv'
  BY <1>1 DEF DealInv, DeckInv
<1>3. InHand' = InHand /\ ~(Cardinality(InHand) > 1)
  BY <1>1 DEF InHand
<1>4. SeenInv'
  BY <1>1, <1>3 DEF DealInv, SeenInv, Seen, Dealt
<1>5. WinnersInv'
  BY <1>3 DEF WinnersInv
<1> QED BY <1>2, <1>4, <1>5 DEF DealInv

LEMMA ShowdownInv ==
  ASSUME DealInv, Showdown
  PROVE  DealInv'
<1> DEFINE results == {[player |-> p, hand |-> BestHandFrom7(Cards(p))] : p \in ShowsHands}
<1>1. /\ Cardinality(board) = 5 /\ champions = {} /\ Cardinality(InHand) > 1
      /\ UNCHANGED <<undealt, hole, board, foldedHands, toldTo>>
  BY DEF Showdown
<1>2. champions' = {r.player : r \in {r \in results : \A o \in results : ~Beats(o.hand, r.hand)}}
  BY DEF Showdown
<1>3. Broadcast({Event("showdown.started", UNION {hole[p] : p \in InHand}, {})}
        \cup {Event("showdown.result", hole[r.player], r.hand.bestCards) : r \in results})
  BY DEF Showdown
<1>4. DeckInv /\ SeenInv
  BY DEF DealInv
<1>5. board # {} /\ Dealt /\ InHand # {}
  <2>1. board # {} /\ InHand # {}
    BY <1>1, FS_EmptySet
  <2> QED BY <1>4, <2>1 DEF SeenInv
<1>6. champions' = Strongest
  <2>1. champions' = {p \in InHand : \A q \in InHand :
                        ~Beats(BestHandFrom7(Cards(q)), BestHandFrom7(Cards(p)))}
    <3> DEFINE result(p) == [player |-> p, hand |-> BestHandFrom7(Cards(p))]
               Unbeaten(r) == \A o \in results : ~Beats(o.hand, r.hand)
    <3>1. results = {result(p) : p \in InHand}
      BY DEF ShowsHands
    <3>2. \A p : result(p).player = p /\ result(p).hand = BestHandFrom7(Cards(p))
      OBVIOUS
    <3> HIDE DEF results, result
    <3>3. \A p \in InHand : Unbeaten(result(p)) <=>
            \A q \in InHand : ~Beats(BestHandFrom7(Cards(q)), BestHandFrom7(Cards(p)))
      BY <3>1, <3>2
    <3> HIDE DEF Unbeaten
    <3>4. champions' = {r.player : r \in {r \in results : Unbeaten(r)}}
      BY <1>2 DEF Unbeaten
    <3>5. champions' = {p \in InHand : Unbeaten(result(p))}
      BY <3>1, <3>2, <3>4
    <3> QED BY <3>3, <3>5
  <2> QED BY <1>1, <1>4, <2>1, StrongestFound
<1>7. /\ InHand' = InHand /\ Dealt' = Dealt
      /\ BestSheets' = BestSheets /\ \A p : Sheets(p)' = Sheets(p)
  BY <1>1 DEF InHand, Dealt, BestSheets, Sheets, Cards
<1>8. DeckInv'
  BY <1>1, <1>4 DEF DeckInv
<1>9. WinnersInv'
  <2>1. champions' = {p \in InHand : Sheets(p) \cap BestSheets # {}}
    BY <1>1, <1>4, <1>6, StrongestWin
  <2> QED BY <1>7, <2>1 DEF WinnersInv
<1>10. SeenInv'
  <2> DEFINE seen == board \cup UNION {hole[p] : p \in InHand}
  <2>1. Seen' = seen
    <3>1. champions' # {}
      BY <1>1, <1>4, <1>5, <1>6, StrongestFound
    <3> QED BY <1>1, <1>7, <3>1 DEF Seen
  <2>2. streamed \subseteq seen /\ archived \subseteq seen
    BY <1>1, <1>4 DEF SeenInv, Seen
  <2>3. \A r \in results : r.hand.bestCards \subseteq seen
    <3> SUFFICES ASSUME NEW p \in InHand
                 PROVE  BestHandFrom7(Cards(p)).bestCards \subseteq seen
      BY DEF ShowsHands
    <3>1. p \in Contenders
      BY DEF InHand
    <3>2. PICK h \in HandsOf(p) : BestHandFrom7(Cards(p)) = EvaluateHand(h)
      BY <1>1, <1>4, <3>1, HandsOfPlayers
    <3>3. EvaluateHand(h).bestCards = h
      BY DEF EvaluateHand
    <3>4. h \subseteq Cards(p)
      BY DEF HandsOf, kSubset
    <3> QED BY <3>2, <3>3, <3>4 DEF Cards
  <2> DEFINE events == {Event("showdown.started", UNION {hole[p] : p \in InHand}, {})}
                \cup {Event("showdown.result", hole[r.player], r.hand.bestCards) : r \in results}
  <2>4. \A e \in events : ToPublic(e) \subseteq seen /\ ToArtifact(e) \subseteq seen
    <3> HIDE DEF results, seen
    <3>1. ASSUME NEW r \in results
          PROVE  LET e == Event("showdown.result", hole[r.player], r.hand.bestCards)
                 IN ToPublic(e) \subseteq seen /\ ToArtifact(e) \subseteq seen
      BY <2>3, OpenCards
    <3>2. LET e == Event("showdown.started", UNION {hole[p] : p \in InHand}, {})
          IN ToPublic(e) \subseteq seen /\ ToArtifact(e) \subseteq seen
      BY OpenCards
    <3> QED BY <3>1, <3>2
  <2>5. /\ streamed' = streamed \cup UNION {ToPublic(e) : e \in events}
        /\ archived' = archived \cup UNION {ToArtifact(e) : e \in events}
    BY <1>3 DEF Broadcast
  <2> HIDE DEF events, seen
  <2>6. streamed' \subseteq seen /\ archived' \subseteq seen
    BY <2>2, <2>4, <2>5
  <2> QED BY <1>5, <1>7, <2>1, <2>6 DEF SeenInv
<1> QED BY <1>8, <1>9, <1>10 DEF DealInv

LEMMA DealStaysInv ==
  ASSUME DealInv, UNCHANGED dealVars
  PROVE  DealInv'
<1>1. UNCHANGED <<undealt, hole, board, foldedHands, streamed, archived, toldTo, champions>>
  BY DEF dealVars
<1>2. /\ InHand' = InHand /\ Dealt' = Dealt
      /\ BestSheets' = BestSheets /\ \A p : Sheets(p)' = Sheets(p)
  BY <1>1 DEF InHand, Dealt, BestSheets, Sheets, Cards
<1>3. DeckInv'
  BY <1>1 DEF DealInv, DeckInv
<1>4. SeenInv'
  BY <1>1, <1>2 DEF DealInv, SeenInv, Seen
<1>5. WinnersInv'
  BY <1>1, <1>2 DEF DealInv, WinnersInv
<1> QED BY <1>3, <1>4, <1>5 DEF DealInv

LEMMA DealNextInv == DealInv /\ [DealNext]_dealVars => DealInv'
<1> SUFFICES ASSUME DealInv, [DealNext]_dealVars PROVE DealInv'
  OBVIOUS
<1>1. ASSUME NEW p \in Contenders, DealHoleCards(p) PROVE DealInv'
  BY <1>1, DealHoleCardsInv
<1>2. ASSUME NEW p \in Contenders, FoldHand(p) PROVE DealInv'
  BY <1>2, FoldHandInv
<1>3. CASE DealBoard
  BY <1>3, DealBoardInv
<1>4. CASE WinUncontested
  BY <1>4, WinUncontestedInv
<1>5. CASE Showdown
  BY <1>5, ShowdownInv
<1>6. CASE UNCHANGED dealVars
  BY <1>6, DealStaysInv
<1> QED BY <1>1, <1>2, <1>3, <1>4, <1>5, <1>6 DEF DealNext

LEMMA DealInvIsSound == DealInv => ShowdownSound
<1> SUFFICES ASSUME DealInv PROVE ShowdownSound
  OBVIOUS
<1>1. champions # {} /\ Cardinality(InHand) > 1 =>
        champions = {p \in InHand : Sheets(p) \cap BestSheets # {}}
  BY DEF DealInv, WinnersInv
<1>2. \A p, q \in Contenders : p # q => hole[p] \cap (hole[q] \cup board) = {}
  BY DEF DealInv, DeckInv
<1>3. streamed \subseteq Seen /\ archived \subseteq Seen
  BY DEF DealInv, SeenInv
<1>4. \A p \in Contenders : toldTo[p] \subseteq hole[p]
  BY DEF DealInv, DeckInv
<1> QED BY <1>1, <1>2, <1>3, <1>4 DEF ShowdownSound, Seen

\* The best hand wins, whatever cards are dealt to however many players, and no cards
\* are shown but the board and those of a showdown.
THEOREM ShowdownIsSound == DealSpec => []ShowdownSound
<1>1. DealInit => DealInv
  BY DealInitInv
<1>2. DealInv /\ [DealNext]_dealVars => DealInv'
  BY DealNextInv
<1>3. DealInv => ShowdownSound
  BY DealInvIsSound
<1> QED BY <1>1, <1>2, <1>3, PTL DEF DealSpec

-----------------------------------------------------------------------------
(* The deck.                                                                *)

Waiting == {p \in Contenders : hole[p] = {}}

\* What is still to be dealt is left.
EnoughLeft ==
  /\ Cardinality(board) \in {0, 3, 4, 5}
  /\ Cardinality(undealt) >= 2 * Cardinality(Waiting) + (5 - Cardinality(board))

\* deal(deck, n) never throws: two cards are left for each player who has none, and the
\* next cards of the board.
DealsFindCards ==
  /\ \A p \in Contenders : hole[p] = {} => Cardinality(undealt) >= 2
  /\ Cardinality(board) < 5 => Cardinality(undealt) >= (IF board = {} THEN 3 ELSE 1)

LEMMA EnoughAtFirst == DealInit => EnoughLeft
<1> SUFFICES ASSUME DealInit PROVE EnoughLeft
  OBVIOUS
<1>1. Waiting = Contenders /\ board = {} /\ undealt \in Decks
  BY DEF DealInit, Waiting
<1>2. Cardinality(undealt) >= 2 * Cardinality(Contenders) + 5
  BY <1>1, ShowdownAssumption
<1>3. Cardinality(board) = 0
  BY <1>1, FS_EmptySet
<1> QED BY <1>1, <1>2, <1>3 DEF EnoughLeft

\* Cards that are dealt are fewer in the deck.
LEMMA DealtCards ==
  ASSUME DeckInv, NEW n \in Nat, NEW cards \in kSubset(n, undealt)
  PROVE  /\ IsFiniteSet(cards) /\ Cardinality(cards) = n /\ cards \subseteq undealt
         /\ Cardinality(undealt) \in Nat
         /\ Cardinality(undealt \ cards) = Cardinality(undealt) - n
<1>1. cards \subseteq undealt /\ Cardinality(cards) = n
  BY DEF kSubset
<1>2. IsFiniteSet(undealt) /\ IsFiniteSet(cards)
  BY <1>1, SomeLeft DEF DeckInv, FewCards
<1>3. Cardinality(undealt \ cards) = Cardinality(undealt) - Cardinality(undealt \cap cards)
  BY <1>2, FS_Difference
<1>4. undealt \cap cards = cards
  BY <1>1
<1> QED BY <1>1, <1>2, <1>3, <1>4, FS_CardinalityType

LEMMA EnoughStays ==
  ASSUME DealInv, EnoughLeft, [DealNext]_dealVars
  PROVE  EnoughLeft'
<1>1. DeckInv /\ SeenInv
  BY DEF DealInv
<1>2. IsFiniteSet(Waiting) /\ Cardinality(Waiting) \in Nat
  <2>1. Waiting \subseteq Contenders
    BY DEF Waiting
  <2> QED BY <2>1, ShowdownAssumption, FS_Subset, FS_CardinalityType
<1>3. ASSUME NEW p \in Contenders, DealHoleCards(p) PROVE EnoughLeft'
  <2>1. PICK cards \in kSubset(2, undealt) :
          hole' = [hole EXCEPT ![p] = cards] /\ undealt' = undealt \ cards
    BY <1>3 DEF DealHoleCards
  <2>2. board' = board /\ hole[p] = {}
    BY <1>3 DEF DealHoleCards
  <2>3. cards # {} /\ Cardinality(undealt') = Cardinality(undealt) - 2 /\ Cardinality(undealt) \in Nat
    <3>1. Cardinality(cards) = 2
      BY DEF kSubset
    <3> QED BY <1>1, <2>1, <3>1, DealtCards, FS_EmptySet
  <2>4. Waiting' = Waiting \ {p} /\ p \in Waiting
    BY <1>1, <2>1, <2>2, <2>3 DEF Waiting, DeckInv
  <2>5. Cardinality(Waiting') = Cardinality(Waiting) - 1
    BY <1>2, <2>4, FS_RemoveElement
  <2> QED BY <1>2, <2>2, <2>3, <2>5 DEF EnoughLeft
<1>4. CASE DealBoard
  <2> DEFINE n == IF board = {} THEN 3 ELSE 1
  <2>1. PICK cards \in kSubset(n, undealt) : board' = board \cup cards /\ undealt' = undealt \ cards
    BY <1>4 DEF DealBoard
  <2>2. hole' = hole /\ Dealt /\ Cardinality(board) < 5
    BY <1>4 DEF DealBoard
  <2>3. n \in Nat /\ (Cardinality(board) = 0 => n = 3) /\ (Cardinality(board) # 0 => n = 1)
    <3>1. IsFiniteSet(board)
      BY <1>1 DEF DeckInv, FewCards
    <3> QED BY <3>1, FS_EmptySet
  <2> HIDE DEF n
  <2>4. /\ IsFiniteSet(cards) /\ Cardinality(cards) = n /\ cards \subseteq undealt
        /\ Cardinality(undealt) \in Nat /\ Cardinality(undealt') = Cardinality(undealt) - n
    BY <1>1, <2>1, <2>3, DealtCards
  <2>5. Cardinality(board') = Cardinality(board) + n
    <3>1. IsFiniteSet(board) /\ board \cap cards = {}
      BY <1>1, <2>4 DEF DeckInv, FewCards
    <3>2. Cardinality(board \cup cards)
            = Cardinality(board) + Cardinality(cards) - Cardinality(board \cap cards)
      BY <2>4, <3>1, FS_Union
    <3>3. Cardinality(board \cap cards) = 0 /\ Cardinality(board) \in Nat
      BY <3>1, FS_EmptySet, FS_CardinalityType
    <3> QED BY <2>1, <2>3, <2>4, <3>2, <3>3
  <2>6. Waiting' = Waiting
    BY <2>2 DEF Waiting
  <2> QED BY <1>2, <2>2, <2>3, <2>4, <2>5, <2>6 DEF EnoughLeft
<1>5. ASSUME UNCHANGED <<undealt, hole, board>> PROVE EnoughLeft'
  BY <1>5 DEF EnoughLeft, Waiting
<1>6. ASSUME NEW p \in Contenders, FoldHand(p) PROVE EnoughLeft'
  BY <1>5, <1>6 DEF FoldHand
<1>7. CASE WinUncontested
  BY <1>5, <1>7 DEF WinUncontested
<1>8. CASE Showdown
  BY <1>5, <1>8 DEF Showdown
<1>9. CASE UNCHANGED dealVars
  BY <1>5, <1>9 DEF dealVars
<1> QED BY <1>3, <1>4, <1>6, <1>7, <1>8, <1>9 DEF DealNext

LEMMA EnoughIsFound == DealInv /\ EnoughLeft => DealsFindCards
<1> SUFFICES ASSUME DealInv, EnoughLeft PROVE DealsFindCards
  OBVIOUS
<1>1. IsFiniteSet(board) /\ IsFiniteSet(undealt) /\ IsFiniteSet(Waiting)
  <2>1. Waiting \subseteq Contenders
    BY DEF Waiting
  <2>2. IsFiniteSet(Waiting)
    BY <2>1, ShowdownAssumption, FS_Subset
  <2> QED BY <2>2 DEF DealInv, DeckInv, FewCards
<1>2. Cardinality(Waiting) \in Nat /\ Cardinality(undealt) \in Nat /\ (Waiting # {} => Cardinality(Waiting) # 0)
  BY <1>1, FS_CardinalityType, FS_EmptySet
<1>3. board = {} => Cardinality(board) = 0
  BY FS_EmptySet
<1>4. \A p \in Contenders : hole[p] = {} => Cardinality(undealt) >= 2
  <2> SUFFICES ASSUME NEW p \in Contenders, hole[p] = {} PROVE Cardinality(undealt) >= 2
    OBVIOUS
  <2>1. Waiting # {}
    BY DEF Waiting
  <2> QED BY <1>2, <2>1 DEF EnoughLeft
<1>5. Cardinality(board) < 5 => Cardinality(undealt) >= (IF board = {} THEN 3 ELSE 1)
  BY <1>2, <1>3 DEF EnoughLeft
<1> QED BY <1>4, <1>5 DEF DealsFindCards

\* Whoever plays, a deck that has two cards for each and five for the board is never
\* asked for a card that it has not.
THEOREM DeckNeverRunsOut == DealSpec => []DealsFindCards
<1>1. DealInit => DealInv /\ EnoughLeft
  BY DealInitInv, EnoughAtFirst
<1>2. (DealInv /\ EnoughLeft) /\ [DealNext]_dealVars => (DealInv /\ EnoughLeft)'
  BY DealNextInv, EnoughStays
<1>3. DealInv /\ EnoughLeft => DealsFindCards
  BY EnoughIsFound
<1> QED BY <1>1, <1>2, <1>3, PTL DEF DealSpec
=============================================================================
