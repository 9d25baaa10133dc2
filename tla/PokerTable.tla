------------------------------ MODULE PokerTable ------------------------------
(***************************************************************************)
(* One table of the TableOrchestrator (packages/table-orchestrator/src/     *)
(* orchestrator.ts): its entry in the orchestrator's map, the seats, the    *)
(* spectators and its hands, with the requests that HandRunner sends to     *)
(* human seats through HumanAgent and TimeoutHandler                        *)
(* (packages/agent-runtime/src).                                            *)
(*                                                                          *)
(* A hand runs across many awaits: between any two of its steps the table's *)
(* other operations are served, and while the last of its saves is awaited  *)
(* the next hand may already run.  How chips move inside a hand is          *)
(* PokerHand's business; here a hand ends with any division of the chips    *)
(* its players brought.  Agents are numbered in the order in which they sit *)
(* down, hands and requests in the order in which they are made; 0 stands   *)
(* for null.  The table store is written after every operation and never    *)
(* read here: its failures leave what is in memory as it is, and only       *)
(* startHand goes on after one.                                             *)
(***************************************************************************)
EXTENDS Integers, FiniteSetsExt, SequencesExt, Sums

CONSTANTS Users,         \* the signed-in users
          Owner,         \* the user who created the table
          MaxSeats,      \* config.maxSeats
          BuyIn,         \* the chips of whoever sits down
          MaxSpectators, \* config.maxSpectators
          Nobody,        \* an empty seat, nobody's turn
          MaxAgents, MaxHands, MaxRequests \* bounds of the model

Seats == 0 .. MaxSeats - 1
Agents == 1 .. MaxAgents
\* OccupiedSeat, as far as the operations read it
Occupants ==
  [agent : Agents, owner : Users, kind : {"human", "mock"}, stack : Nat \ {0}, sitOut : BOOLEAN]

ASSUME TableAssumption ==
  /\ Owner \in Users /\ Nobody \notin Occupants \cup [agent : Nat, request : Nat]
  /\ {MaxSeats, BuyIn} \subseteq Nat \ {0}
  /\ {MaxSpectators, MaxAgents, MaxHands, MaxRequests} \subseteq Nat

MinPlayers == 2

VARIABLES live,           \* the orchestrator's map has the table
          tableStatus, seats,  \* TableState
          currentHand, handNumber,
          button,         \* TableState.button
          adapters,       \* the keys of entry.agents
          handInProgress, \* entry.handInProgress
          spectators,     \* entry.spectators
          hands,          \* what startHand and HandRunner keep, by hand: the stage,
                          \* the players' chips, the dealer's seat; no hand is 0
          turns,          \* the request that TimeoutHandler has not settled, by hand
          pending,        \* HumanAgent.pending of every agent
          seated, requests, \* how many agents and requests there have been
          bank,           \* chips bought and not yet cashed out
          overrun         \* a hand's last save failed while a later hand was under way

table == <<live, tableStatus, seats, currentHand, handNumber, button, adapters, handInProgress>>
tableVars == <<table, spectators, hands, turns, pending, seated, requests, bank, overrun>>

Hands == 1 .. MaxHands
Stages == {"none", "betting", "saving", "storing", "over"}
\* The hand whose number the table has, and its turn
hand == hands[handNumber]
turn == turns[handNumber]
\* A hand that run() has not yet returned from
UnderWay(h) == hands[h].stage \in {"betting", "saving"}

-----------------------------------------------------------------------------
(* Seats.                                                                   *)

Taken == {i \in Seats : seats[i] # Nobody}
SeatsOf(u) == {i \in Taken : seats[i].owner = u}
SeatOfAgent(a) == CHOOSE i \in Taken : seats[i].agent = a
MaySit(u, kind) == kind = "human" => \A i \in SeatsOf(u) : seats[i].kind # "human"
NoRequest == [hand |-> 0, request |-> 0]

\* addAgent checks and writes in one go; without a seat index it takes the first
\* empty seat.
Sit(u, kind, i) ==
  /\ live /\ tableStatus \notin {"in_hand", "completed"}
  /\ i \in Seats \ Taken
  /\ kind \in {"human", "mock"} /\ MaySit(u, kind)
  /\ seated < MaxAgents /\ seated' = seated + 1
  /\ seats' = [seats EXCEPT ![i] =
       [agent |-> seated', owner |-> u, kind |-> kind, stack |-> BuyIn, sitOut |-> FALSE]]
  /\ adapters' = adapters \cup {seated'}
  /\ bank' = bank + BuyIn
  /\ UNCHANGED <<live, tableStatus, currentHand, handNumber, button, handInProgress,
                 spectators, hands, turns, pending, requests, overrun>>

\* POST /seats, and POST /seats/agent or /agents; "mock" stands for every agent
\* that is not a human.
SitAsHuman(u, i) == Sit(u, "human", i)
SitAsAgent(u, i) == Sit(u, "mock", i)

\* removeAgent
BugLeavesRunningHand == live
MayRemove == live /\ tableStatus # "in_hand"
RemoveFrom(i) ==
  /\ MayRemove
  /\ seats' = [seats EXCEPT ![i] = Nobody]
  /\ adapters' = adapters \ {seats[i].agent}
  /\ bank' = bank - seats[i].stack
  /\ UNCHANGED <<live, tableStatus, currentHand, handNumber, button, handInProgress,
                 spectators, hands, turns, pending, seated, requests, overrun>>

\* DELETE /agents/:agentId, for the seat's owner
RemoveAgent(u, i) == i \in SeatsOf(u) /\ RemoveFrom(i)

\* DELETE /seats/me: the first seat of the user, whichever kind it is.  During a
\* hand the seat is only marked.
LeaveSeat(u) ==
  /\ live /\ SeatsOf(u) # {}
  /\ LET i == Min(SeatsOf(u))
     IN IF tableStatus = "in_hand"
        THEN /\ seats' = [seats EXCEPT ![i].sitOut = TRUE]
             /\ UNCHANGED <<live, tableStatus, currentHand, handNumber, button, adapters, handInProgress,
                            spectators, hands, turns, pending, seated, requests, bank, overrun>>
        ELSE RemoveFrom(i)

AddSpectator(u) ==
  /\ live /\ u \notin spectators /\ Cardinality(spectators) < MaxSpectators
  /\ spectators' = spectators \cup {u}
  /\ UNCHANGED <<table, hands, turns, pending, seated, requests, bank, overrun>>

RemoveSpectator(u) ==
  /\ live /\ u \in spectators
  /\ spectators' = spectators \ {u}
  /\ UNCHANGED <<table, hands, turns, pending, seated, requests, bank, overrun>>

CloseTable(u) ==
  /\ live /\ u = Owner /\ tableStatus # "in_hand"
  /\ tableStatus' = "completed"
  /\ UNCHANGED <<live, seats, currentHand, handNumber, button, adapters, handInProgress,
                 spectators, hands, turns, pending, seated, requests, bank, overrun>>

\* DELETE /tables/:tableId; nothing asks whether a hand is running.
DeleteTable(u) ==
  /\ live /\ u = Owner
  /\ live' = FALSE
  /\ UNCHANGED <<tableStatus, seats, currentHand, handNumber, button, adapters, handInProgress,
                 spectators, hands, turns, pending, seated, requests, bank, overrun>>

-----------------------------------------------------------------------------
(* A hand.                                                                  *)

Playing == {i \in Taken : seats[i].stack > 0}

\* advanceButton: the next seat with a player after the button, or the first
ButtonSeat(S) == LET after == {i \in S : i > button} IN IF after # {} THEN Min(after) ELSE Min(S)

\* The turn of hand g waits for the pending request of a human among A.
Awaits(g, A) ==
  turns[g] # Nobody /\ turns[g].agent \in A /\ pending[turns[g].agent].request = turns[g].request
\* What is pending with the agents of A is settled: answered, or refused by the agent.
TurnsWithout(A) == [g \in 0 .. MaxHands |-> IF Awaits(g, A) THEN Nobody ELSE turns[g]]

\* One pass of the runner's loop up to its await: the request is emitted, and a
\* human's stays pending until somebody submits; the one he had before is refused.
\* Nobody waits for an agent that entry.agents no longer has: its fallback is
\* played at once.
IsHuman(a) == \E i \in Taken : seats[i].agent = a /\ seats[i].kind = "human"
AskFor(a, h) ==
  /\ requests < MaxRequests /\ requests' = requests + 1
  /\ turns' = [TurnsWithout({b \in {a} : IsHuman(b)}) EXCEPT ![h] =
       IF a \in adapters THEN [agent |-> a, request |-> requests'] ELSE Nobody]
  /\ pending' = IF IsHuman(a) THEN [pending EXCEPT ![a] = [hand |-> h, request |-> requests']]
                ELSE pending

\* startHand, and the runner's run() up to its first await
BugTwoHands == live
MayStart == live /\ ~handInProgress
StartHand ==
  /\ MayStart
  /\ Cardinality(Playing) >= MinPlayers
  /\ handNumber < MaxHands
  /\ handInProgress' = TRUE /\ tableStatus' = "in_hand"
  /\ handNumber' = handNumber + 1 /\ currentHand' = handNumber'
  /\ hands' = [hands EXCEPT ![handNumber'] =
       [stage |-> "betting",
        chips |-> [a \in {seats[i].agent : i \in Playing} |-> seats[SeatOfAgent(a)].stack],
        dealer |-> ButtonSeat(Playing)]]
  /\ \E i \in Playing : AskFor(seats[i].agent, handNumber')
  /\ UNCHANGED <<live, seats, button, adapters, spectators, seated, bank, overrun>>

RequestDecision(h) ==
  /\ hands[h].stage = "betting" /\ turns[h] = Nobody
  /\ \E a \in DOMAIN hands[h].chips : AskFor(a, h)
  /\ UNCHANGED <<table, spectators, hands, seated, bank, overrun>>

\* submitHumanAction: the user's first seat must be human and its agent must have
\* a pending request of the hand that the body names.  Whether TimeoutHandler
\* still waits for that request is not asked.
Submit(u, h) ==
  /\ live /\ SeatsOf(u) # {}
  /\ LET s == seats[Min(SeatsOf(u))]
     IN /\ s.kind = "human" /\ s.agent \in adapters
        /\ pending[s.agent].request # 0 /\ pending[s.agent].hand = h
        /\ pending' = [pending EXCEPT ![s.agent] = NoRequest]
        /\ turns' = TurnsWithout({s.agent})
  /\ UNCHANGED <<table, spectators, hands, seated, requests, bank, overrun>>

\* An agent in process or over HTTP settles its own request.
BotAnswers(h) ==
  /\ turns[h] # Nobody /\ pending[turns[h].agent].request # turns[h].request
  /\ turns' = [turns EXCEPT ![h] = Nobody]
  /\ UNCHANGED <<table, spectators, hands, pending, seated, requests, bank, overrun>>

\* TimeoutHandler's timer: the fallback is played, HumanAgent.pending stays.
BugNoTurnTimer(h) == FALSE
TurnTimerArmed(h) == turns[h] # Nobody
TimerFires(h) ==
  /\ TurnTimerArmed(h)
  /\ turns' = [turns EXCEPT ![h] = Nobody]
  /\ UNCHANGED <<table, spectators, hands, pending, seated, requests, bank, overrun>>

\* The hand is over and announced; its summary and events are being saved.
HandOver(h) ==
  /\ hands[h].stage = "betting" /\ turns[h] = Nobody
  /\ hands' = [hands EXCEPT ![h].stage = "saving"]
  /\ UNCHANGED <<table, spectators, turns, pending, seated, requests, bank, overrun>>

\* cancelStaleHumanRequests, which asks of no request whose hand it is of: every
\* pending one is refused, and its turn is the fallback's.
BugKeepsRequests == pending
AfterCancel == [a \in Agents |-> IF a \in adapters THEN NoRequest ELSE pending[a]]
Cancel == pending' = AfterCancel /\ turns' = TurnsWithout(adapters)
StatusFor(s) ==
  IF Cardinality({i \in Seats : s[i] # Nobody}) >= MinPlayers THEN "paused" ELSE "preparing"
HandEnds(h, stage) == hands' = [hands EXCEPT ![h].stage = stage, ![h].chips = <<>>]

\* Every division of the players' chips.  Who sits in the hand for his last chips
\* may lose them.
Divisions(chips) == {d \in [DOMAIN chips -> 0 .. SumOf(chips)] : SumOf(d) = SumOf(chips)}

\* startHand after run(), up to its await: stacks are written back by player, who
\* is busted or wants to sit out leaves, and the table may start the next hand.
BugBustedStays(s) == s.sitOut
Leaves(s) == s.stack <= 0 \/ s.sitOut
HandSettled(h) ==
  /\ hands[h].stage = "saving"
  /\ \E d \in Divisions(hands[h].chips) :
       LET paid == [i \in Seats |->
             IF i \in Taken /\ seats[i].agent \in DOMAIN d
             THEN [seats[i] EXCEPT !.stack = d[seats[i].agent]] ELSE seats[i]]
           gone == {i \in Taken : Leaves(paid[i])}
       IN /\ seats' = [i \in Seats |-> IF i \in gone THEN Nobody ELSE paid[i]]
          /\ adapters' = adapters \ {seats[i].agent : i \in gone}
          /\ bank' = bank - SumOf([i \in gone |-> paid[i].stack])
          /\ tableStatus' = StatusFor(seats')
  /\ Cancel
  /\ currentHand' = 0 /\ handInProgress' = FALSE
  /\ HandEnds(h, "storing")
  /\ UNCHANGED <<live, handNumber, button, spectators, seated, requests, overrun>>

\* The save that startHand awaits last, with the flags already reset
HandStored(h) ==
  /\ hands[h].stage = "storing"
  /\ HandEnds(h, "over")
  /\ UNCHANGED <<table, spectators, turns, pending, seated, requests, bank, overrun>>

\* The catch branch: the flags are reset, whatever they say by now; the seats, the
\* stacks and currentHandId stay as they are.
Catch(h) ==
  /\ Cancel
  /\ handInProgress' = FALSE
  /\ tableStatus' = StatusFor(seats)
  /\ HandEnds(h, "over")
  /\ UNCHANGED <<live, seats, currentHand, handNumber, button, adapters, spectators,
                 seated, requests, bank>>

\* run() throws: a decision's trace or the hand's summary cannot be saved.
HandFails(h) == UnderWay(h) /\ turns[h] = Nobody /\ Catch(h) /\ overrun' = overrun

\* The last save is refused: the table, which was settled and may be in the next
\* hand by now, goes through the same catch branch.
HandSaveFails(h) ==
  /\ hands[h].stage = "storing" /\ Catch(h)
  /\ overrun' = (overrun \/ \E g \in Hands : UnderWay(g))

-----------------------------------------------------------------------------
\* createTable
NoHands == [h \in 0 .. MaxHands |-> [stage |-> IF h = 0 THEN "over" ELSE "none",
                                    chips |-> <<>>, dealer |-> 0]]
NoTurns == [h \in 0 .. MaxHands |-> Nobody]
TableInit ==
  /\ live = TRUE /\ tableStatus = "preparing"
  /\ seats = [i \in Seats |-> Nobody]
  /\ currentHand = 0 /\ handNumber = 0 /\ button = 0
  /\ adapters = {} /\ handInProgress = FALSE /\ spectators = {}
  /\ hands = NoHands /\ turns = NoTurns
  /\ pending = [a \in Agents |-> NoRequest]
  /\ seated = 0 /\ requests = 0 /\ bank = 0 /\ overrun = FALSE

TableNext ==
  \/ \E u \in Users :
       \/ \E i \in Seats : RemoveAgent(u, i) \/ SitAsHuman(u, i) \/ SitAsAgent(u, i)
       \/ LeaveSeat(u) \/ AddSpectator(u) \/ RemoveSpectator(u)
       \/ CloseTable(u) \/ DeleteTable(u)
       \/ \E h \in Hands : Submit(u, h)
  \/ StartHand
  \/ \E h \in Hands :
       \/ RequestDecision(h) \/ BotAnswers(h) \/ TimerFires(h)
       \/ HandOver(h) \/ HandSettled(h) \/ HandStored(h) \/ HandFails(h) \/ HandSaveFails(h)

\* The runner's promises settle and its timers fire.
TableFairness ==
  \A h \in Hands :
    /\ WF_tableVars(TimerFires(h))
    /\ WF_tableVars(HandOver(h) \/ HandSettled(h) \/ HandFails(h))
    /\ WF_tableVars(HandStored(h) \/ HandSaveFails(h))

TableSpec == TableInit /\ [][TableNext]_tableVars /\ TableFairness

-----------------------------------------------------------------------------
(* Properties.                                                              *)

\* The types of the table's fields; nobody sits without chips.  (A part of
\* TableSound.)
TableTypeOK ==
  /\ {live, handInProgress, overrun} \subseteq BOOLEAN
  /\ tableStatus \in {"preparing", "in_hand", "paused", "completed"}
  /\ seats \in [Seats -> Occupants \cup {Nobody}]
  /\ currentHand \in 0 .. MaxHands /\ handNumber \in 0 .. MaxHands
  /\ adapters \subseteq Agents /\ spectators \subseteq Users
  /\ \A h \in 0 .. MaxHands : hands[h].stage \in Stages /\ hands[h].dealer \in Nat
  /\ turns \in [0 .. MaxHands -> {Nobody} \cup [agent : Agents, request : 1 .. MaxRequests]]
  /\ pending \in [Agents -> [hand : 0 .. MaxHands, request : 0 .. MaxRequests]]
  /\ seated \in 0 .. MaxAgents /\ requests \in 0 .. MaxRequests /\ bank \in Nat

\* A hand keeps its players from the first request to the last: whoever is dealt
\* in stays seated, with his agent in the map, whatever is asked of the table
\* meanwhile (leave, remove, close, delete, start again), and while the hand
\* before it is still being saved.  Only the newest hand is under way.  The seats
\* and the map agree, a user has one human seat, and no request outlives its
\* hand, so that none can be answered in the next one.
HandKeepsItsPlayers ==
  /\ \A i, j \in Taken : seats[i].agent = seats[j].agent => i = j
  /\ adapters = {seats[i].agent : i \in Taken}
  /\ \A i, j \in Taken : seats[i].owner = seats[j].owner
                         /\ seats[i].kind = "human" /\ seats[j].kind = "human" => i = j
  /\ handInProgress <=> tableStatus = "in_hand"
  /\ handInProgress <=> UnderWay(handNumber)
  /\ \A h \in Hands : UnderWay(h) \/ turns[h] # Nobody => h = handNumber
  /\ DOMAIN hand.chips \subseteq adapters
  /\ turn # Nobody => turn.agent \in DOMAIN hand.chips
  /\ \A a \in Agents : pending[a].request # 0 =>
       handInProgress /\ a \in DOMAIN hand.chips /\ pending[a].hand = currentHand

\* Every chip bought is in a stack of the table until its owner leaves with it or
\* busts, and during a hand the stacks are what the players brought to it.
ChipsAccounted ==
  /\ bank = SumOf([i \in Taken |-> seats[i].stack])
  /\ \A i \in Taken : seats[i].agent \in DOMAIN hand.chips =>
       seats[i].stack = hand.chips[seats[i].agent]

\* The table is sound: leaving, busting, closing and deleting while a hand runs
\* change neither whom the hand is played by nor what the players have; neither
\* does a failing save, with one exception that the code has.  startHand resets
\* its flags before the last save, so that the next hand may start meanwhile; if
\* that save is refused then, the catch branch resets the flags of the hand under
\* way, which its players can leave from there on, and a third hand may start.
TableSound == overrun \/ (TableTypeOK /\ HandKeepsItsPlayers /\ ChipsAccounted)

\* Every hand that starts ends, although a human may never answer, and although
\* saves may fail: even under the catch branch of an earlier hand.
HandsEnd == \A h \in Hands : hands[h].stage = "betting" ~> hands[h].stage = "over"
=============================================================================
