--------------------------- MODULE WerewolfEngine ---------------------------
(***************************************************************************)
(* The rules engine of the werewolf game (packages/werewolf-engine).  The  *)
(* engine is a reducer: applyAction takes a game state and one action and  *)
(* returns the next state or throws.  Here the game state is the state of  *)
(* the specification, each kind of action is an action, and "throws" is    *)
(* "is not enabled".                                                       *)
(*                                                                         *)
(* What is abstracted: names, seeds, speech text, and the history, of      *)
(* which only the death entries are kept (deaths).  The set of recorded    *)
(* causes of a player plays the role of his death entries.                 *)
(*                                                                         *)
(* An operator whose name starts with Bug is a mutation: the definition    *)
(* that follows it as a plausible slip would have written it.  No formula  *)
(* uses it; PROJECT.json pairs it with the property it would violate.      *)
(***************************************************************************)
EXTENDS Naturals, FiniteSets

CONSTANTS
  Players,      \* the player ids, "p1".."p9" in the code
  Role,         \* the role each player drew in createGame
  MaxPkRounds,  \* WEREWOLF_MAX_PK_ROUNDS
  MaxNights,    \* bound of the model: no wolf votes after night MaxNights
  None,         \* null where a player id is expected; as a ballot: abstain
  NotVoted      \* undefined: no vote of this player is recorded

RoleNames == {"werewolf", "villager", "seer", "witch", "hunter"}
Causes == {"wolf-kill", "witch-poison", "banishment", "hunter-shoot"}
Phases == {"setup", "night-werewolf-vote", "night-witch", "night-seer",
           "day-speeches", "day-vote", "hunter-shoot", "game-over"}
NightPhases == {"night-werewolf-vote", "night-witch", "night-seer"}

PlayersWith(roles, A) == {p \in A : Role[p] \in roles}
Wolves(A) == PlayersWith({"werewolf"}, A)
Villagers(A) == PlayersWith({"villager"}, A)
Gods(A) == PlayersWith({"seer", "witch", "hunter"}, A)
NonWolves(A) == A \ Wolves(A)

BugWolflessGameGoesOn(A) ==
  IF \/ Villagers(A) = {}
     \/ Gods(A) = {}
     \/ Cardinality(Wolves(A)) >= Cardinality(Villagers(A)) + Cardinality(Gods(A))
  THEN "werewolf" ELSE "none"
\* checkWinCondition: the side that has won when A is the set of the living.
WinnerOf(A) ==
  IF Wolves(A) = {} THEN "good"
  ELSE IF \/ Villagers(A) = {}
          \/ Gods(A) = {}
          \/ Cardinality(Wolves(A)) >= Cardinality(Villagers(A)) + Cardinality(Gods(A))
       THEN "werewolf"
       ELSE "none"

ASSUME RolesAssumption ==
  /\ IsFiniteSet(Players)
  /\ Role \in [Players -> RoleNames]
  /\ None \notin Players /\ NotVoted \notin Players /\ None # NotVoted
\* The distribution of roles leaves a game to be played, with one witch, one
\* seer and one hunter at most.
ASSUME DistributionAssumption ==
  /\ WinnerOf(Players) = "none"
  /\ \A r \in {"seer", "witch", "hunter"} :
       \A p, q \in PlayersWith({r}, Players) : p = q
ASSUME BoundsAssumption == MaxPkRounds \in Nat /\ MaxNights \in Nat

VARIABLES
  phase, nightNumber, dayNumber, winner,
  alive,                \* the players whose alive flag is set
  deaths,               \* the causes of the death entries of each player
  witchPotions,
  pendingNight,         \* what the night's actors have decided so far
  pendingDaySpeeches,   \* who has spoken today
  pendingDayVote,       \* the ballot in progress, or the last one decided
  pendingHunterShoot

vars == <<phase, nightNumber, dayNumber, winner, alive, deaths, witchPotions,
          pendingNight, pendingDaySpeeches, pendingDayVote, pendingHunterShoot>>

EmptyPendingNight ==
  [werewolfVotes |-> [p \in Players |-> NotVoted], witchSaveDecisionMade |-> FALSE,
   witchSaved |-> None, witchPoisoned |-> None, seerTarget |-> None]
NewBallot(round, candidates) ==
  [votes |-> [p \in Players |-> NotVoted], banished |-> None,
   pkRound |-> round, pkCandidates |-> candidates]
NoHunter == [hunterId |-> None, cause |-> "none"]

-----------------------------------------------------------------------------
(* Counting votes: the tally loops of computeWolfKillTarget, applyDayVote.  *)

Voters(votes) == {p \in Players : votes[p] # NotVoted}
VotesFor(votes, t) == Cardinality({p \in Players : votes[p] = t})
BugAbstentionIsATarget(votes) == {votes[p] : p \in Voters(votes)}
Targets(votes) == {votes[p] : p \in Players} \cap Players
Leaders(votes) ==
  LET on == Targets(votes)
  IN {t \in on : \A u \in on : VotesFor(votes, u) <= VotesFor(votes, t)}
BugFirstOfTied(votes) ==
  IF Leaders(votes) # {} THEN CHOOSE t \in Leaders(votes) : TRUE ELSE None
Plurality(votes) ==
  LET top == Leaders(votes)
  IN IF \E t \in top : top = {t} THEN CHOOSE t \in top : TRUE ELSE None

-----------------------------------------------------------------------------
(* Phase changes (phases.ts).                                               *)

Bury(victims, cause, log) ==
  [p \in Players |-> IF p \in victims THEN log[p] \cup {cause} ELSE log[p]]

\* The victims of a night: the wolves' unless saved, the witch's unless the
\* wolves had chosen him too.
Killed(n) == {Plurality(n.werewolfVotes)} \ {n.witchSaved, None}
BugPoisonedTwice(n) == {n.witchPoisoned} \ {None}
Poisoned(n) == {n.witchPoisoned} \ {Plurality(n.werewolfVotes), None}

\* resolveNightAndAdvance with the completed night n: the deaths, the win
\* check, and only then the detour to a hunter the wolves killed.
ResolveNight(n) ==
  \E killed \in {Killed(n)}, poisoned \in {Poisoned(n)} :
  \E living \in {alive \ (killed \cup poisoned)}, hunter \in {PlayersWith({"hunter"}, killed)} :
     /\ alive' = living
     /\ deaths' = Bury(poisoned, "witch-poison", Bury(killed, "wolf-kill", deaths))
     /\ dayNumber' = dayNumber + 1
     /\ pendingNight' = EmptyPendingNight
     /\ \/ /\ WinnerOf(living) # "none"
           /\ phase' = "game-over"
           /\ winner' = WinnerOf(living)
           /\ pendingHunterShoot' = NoHunter
           /\ UNCHANGED pendingDaySpeeches
        \/ /\ WinnerOf(living) = "none" /\ hunter # {}
           /\ phase' = "hunter-shoot"
           /\ pendingHunterShoot' = [hunterId |-> Plurality(n.werewolfVotes), cause |-> "wolf-kill"]
           /\ UNCHANGED <<winner, pendingDaySpeeches>>
        \/ /\ WinnerOf(living) = "none" /\ hunter = {}
           /\ phase' = "day-speeches"
           /\ pendingDaySpeeches' = {}
           /\ UNCHANGED <<winner, pendingHunterShoot>>
     /\ UNCHANGED <<nightNumber, pendingDayVote>>

SameDay == UNCHANGED <<dayNumber, nightNumber, winner, alive, deaths,
                       pendingDaySpeeches, pendingDayVote, pendingHunterShoot>>

AdvanceToNightSeer(n) ==
  \/ /\ PlayersWith({"seer"}, alive) # {}
     /\ phase' = "night-seer" /\ pendingNight' = n
     /\ SameDay
  \/ /\ PlayersWith({"seer"}, alive) = {}
     /\ ResolveNight(n)

AdvanceToNightWitch(n) ==
  \/ /\ PlayersWith({"witch"}, alive) # {}
     /\ phase' = "night-witch" /\ pendingNight' = n
     /\ SameDay
  \/ /\ PlayersWith({"witch"}, alive) = {}
     /\ AdvanceToNightSeer(n)

\* startNextNight: nobody has spoken, no ballot is open, nothing is pending.
StartNextNight ==
  /\ phase' = "night-werewolf-vote"
  /\ nightNumber' = nightNumber + 1
  /\ pendingDaySpeeches' = {}
  /\ pendingDayVote' = NewBallot(0, {})
  /\ pendingNight' = EmptyPendingNight
  /\ UNCHANGED winner

BugWinnerFromOldState(living) ==
  /\ WinnerOf(living) # "none"
  /\ phase' = "game-over"
  /\ winner' = IF Wolves(alive) = {} THEN "good" ELSE "werewolf"
  /\ UNCHANGED <<nightNumber, pendingDaySpeeches, pendingNight>>
GameOver(living) ==
  /\ WinnerOf(living) # "none"
  /\ phase' = "game-over"
  /\ winner' = WinnerOf(living)
  /\ UNCHANGED <<nightNumber, pendingDaySpeeches, pendingNight>>

-----------------------------------------------------------------------------
(* applyAction: the guard of each kind of action and its effect.  (\E n \in *)
(* {e} binds n to the value of e, once.)                                    *)

CanWerewolfVote(v, t) ==
  /\ phase = "night-werewolf-vote"
  /\ v \in Wolves(alive)
  /\ t \in NonWolves(alive)

WerewolfVote(v, t) ==
  /\ CanWerewolfVote(v, t)
  /\ nightNumber <= MaxNights
  /\ \E n \in {[pendingNight EXCEPT !.werewolfVotes[v] = t]} :
        \/ /\ \A w \in Wolves(alive) : n.werewolfVotes[w] # NotVoted
           /\ AdvanceToNightWitch(n)
        \/ /\ \E w \in Wolves(alive) : n.werewolfVotes[w] = NotVoted
           /\ pendingNight' = n
           /\ UNCHANGED phase /\ SameDay
  /\ UNCHANGED witchPotions

CanWitchSave(t) ==
  /\ phase = "night-witch"
  /\ witchPotions.hasSave
  /\ ~pendingNight.witchSaveDecisionMade
  /\ pendingNight.witchSaved = None /\ pendingNight.witchPoisoned = None
  /\ t # None /\ t = Plurality(pendingNight.werewolfVotes)

BugSavePotionRefills(t) ==
  /\ CanWitchSave(t)
  /\ pendingNight' = [pendingNight EXCEPT !.witchSaveDecisionMade = TRUE, !.witchSaved = t]
  /\ UNCHANGED <<phase, witchPotions>> /\ SameDay
WitchSave(t) ==
  /\ CanWitchSave(t)
  /\ witchPotions' = [witchPotions EXCEPT !.hasSave = FALSE]
  /\ pendingNight' = [pendingNight EXCEPT !.witchSaveDecisionMade = TRUE, !.witchSaved = t]
  /\ UNCHANGED phase /\ SameDay

CanWitchSkipSave ==
  /\ phase = "night-witch"
  /\ ~pendingNight.witchSaveDecisionMade

WitchSkipSave ==
  /\ CanWitchSkipSave
  /\ pendingNight' = [pendingNight EXCEPT !.witchSaveDecisionMade = TRUE]
  /\ UNCHANGED <<phase, witchPotions>> /\ SameDay

BugSaveAndPoison(t) ==
  /\ phase = "night-witch"
  /\ pendingNight.witchSaveDecisionMade
  /\ witchPotions.hasPoison
  /\ t \in alive /\ Role[t] # "witch"
BugPoisonRefills(t) ==
  /\ phase = "night-witch"
  /\ pendingNight.witchSaveDecisionMade
  /\ pendingNight.witchSaved = None
  /\ t \in alive /\ Role[t] # "witch"
CanWitchPoison(t) ==
  /\ phase = "night-witch"
  /\ pendingNight.witchSaveDecisionMade
  /\ witchPotions.hasPoison
  /\ pendingNight.witchSaved = None
  /\ t \in alive /\ Role[t] # "witch"

WitchPoison(t) ==
  /\ CanWitchPoison(t)
  /\ witchPotions' = [witchPotions EXCEPT !.hasPoison = FALSE]
  /\ \E n \in {[pendingNight EXCEPT !.witchPoisoned = t]} : AdvanceToNightSeer(n)

CanWitchSkipPoison ==
  /\ phase = "night-witch"
  /\ pendingNight.witchSaveDecisionMade

WitchSkipPoison ==
  /\ CanWitchSkipPoison
  /\ \E n \in {pendingNight} : AdvanceToNightSeer(n)
  /\ UNCHANGED witchPotions

CanSeerDivine(t) ==
  /\ phase = "night-seer"
  /\ t \in alive
  /\ \E seer \in PlayersWith({"seer"}, alive) : t # seer

SeerDivine(t) ==
  /\ CanSeerDivine(t)
  /\ \E n \in {[pendingNight EXCEPT !.seerTarget = t]} : ResolveNight(n)
  /\ UNCHANGED witchPotions

CanSpeak(p) ==
  /\ phase = "day-speeches"
  /\ p \in alive
  /\ p \notin pendingDaySpeeches

Speak(p) ==
  /\ CanSpeak(p)
  /\ pendingDaySpeeches' = pendingDaySpeeches \cup {p}
  /\ \/ /\ Cardinality(pendingDaySpeeches') = Cardinality(alive)
        /\ phase' = "day-vote"
        /\ pendingDayVote' = NewBallot(0, {})
     \/ /\ Cardinality(pendingDaySpeeches') # Cardinality(alive)
        /\ UNCHANGED <<phase, pendingDayVote>>
  /\ UNCHANGED <<nightNumber, dayNumber, winner, alive, deaths, witchPotions,
                 pendingNight, pendingHunterShoot>>

\* The ballot paper: in a PK round only the candidates, if there are any.
OnBallot(t) ==
  \/ pendingDayVote.pkRound = 0
  \/ pendingDayVote.pkCandidates = {}
  \/ t \in pendingDayVote.pkCandidates

BugVoteForAnyone(v, t) ==
  /\ phase = "day-vote"
  /\ v \in alive
  /\ pendingDayVote.votes[v] = NotVoted
  /\ t # None => t \in alive \ {v}
CanDayVote(v, t) ==
  /\ phase = "day-vote"
  /\ v \in alive
  /\ pendingDayVote.votes[v] = NotVoted
  /\ t # None => /\ t \in alive \ {v}
                 /\ OnBallot(t)

\* advanceFromDayResolve for the decided ballot b.  A banished hunter shoots
\* before the win check.
AdvanceFromDayResolve(b) ==
  LET out    == {b.banished} \ {None}
      living == alive \ out
      hunter == PlayersWith({"hunter"}, out)
  IN /\ alive' = living
     /\ deaths' = Bury(out, "banishment", deaths)
     /\ \/ /\ hunter # {}
           /\ phase' = "hunter-shoot"
           /\ pendingHunterShoot' = [hunterId |-> b.banished, cause |-> "banishment"]
           /\ pendingDayVote' = b
           /\ UNCHANGED <<nightNumber, winner, pendingDaySpeeches, pendingNight>>
        \/ /\ hunter = {}
           /\ GameOver(living)
           /\ pendingDayVote' = b
           /\ UNCHANGED pendingHunterShoot
        \/ /\ hunter = {} /\ WinnerOf(living) = "none"
           /\ StartNextNight
           /\ UNCHANGED pendingHunterShoot

\* Who stands in the next PK round.
BugBallotWidens(b) == Leaders(b.votes)
NextCandidates(b) ==
  IF Leaders(b.votes) # {} THEN Leaders(b.votes) ELSE b.pkCandidates

DayVote(v, t) ==
  /\ CanDayVote(v, t)
  /\ \E b \in {[pendingDayVote EXCEPT !.votes[v] = t]}, tied \in BOOLEAN :
     /\ tied = (Plurality(b.votes) = None)
     /\ \/ /\ Cardinality(Voters(b.votes)) # Cardinality(alive)
           /\ pendingDayVote' = b
           /\ UNCHANGED <<phase, nightNumber, winner, alive, deaths,
                          pendingDaySpeeches, pendingNight, pendingHunterShoot>>
        \/ /\ Cardinality(Voters(b.votes)) = Cardinality(alive)
           /\ tied /\ b.pkRound < MaxPkRounds
           /\ pendingDayVote' = NewBallot(b.pkRound + 1, NextCandidates(b))
           /\ UNCHANGED <<phase, nightNumber, winner, alive, deaths,
                          pendingDaySpeeches, pendingNight, pendingHunterShoot>>
        \/ /\ Cardinality(Voters(b.votes)) = Cardinality(alive)
           /\ ~tied \/ b.pkRound >= MaxPkRounds
           /\ \E top \in {Plurality(b.votes)} : AdvanceFromDayResolve([b EXCEPT !.banished = top])
  /\ UNCHANGED <<dayNumber, witchPotions>>

CanHunterShoot(t) ==
  /\ phase = "hunter-shoot"
  /\ pendingHunterShoot # NoHunter
  /\ t # None => t \in alive \ {pendingHunterShoot.hunterId}

HunterShoot(t) ==
  /\ CanHunterShoot(t)
  /\ LET victims == {t} \ {None}
         living  == alive \ victims
     IN /\ alive' = living
        /\ deaths' = Bury(victims, "hunter-shoot", deaths)
        /\ pendingHunterShoot' = NoHunter
        /\ \/ GameOver(living) /\ UNCHANGED pendingDayVote
           \/ /\ WinnerOf(living) = "none"
              /\ pendingHunterShoot.cause = "banishment"
              /\ StartNextNight
           \/ /\ WinnerOf(living) = "none"
              /\ pendingHunterShoot.cause # "banishment"
              /\ phase' = "day-speeches" /\ pendingDaySpeeches' = {}
              /\ UNCHANGED <<nightNumber, winner, pendingNight, pendingDayVote>>
  /\ UNCHANGED <<dayNumber, witchPotions>>

\* startFirstNight, called once by the match runner.
StartFirstNight ==
  /\ phase = "setup"
  /\ phase' = "night-werewolf-vote"
  /\ nightNumber' = nightNumber + 1
  /\ pendingNight' = EmptyPendingNight
  /\ UNCHANGED <<dayNumber, winner, alive, deaths, witchPotions,
                 pendingDaySpeeches, pendingDayVote, pendingHunterShoot>>

-----------------------------------------------------------------------------
Act(type, target) == [type |-> type, target |-> target]

\* applyAction does not throw on action a in the name of player p.
Accepts(p, a) ==
  \/ a.type = "werewolf-vote" /\ CanWerewolfVote(p, a.target)
  \/ a.type = "witch-save" /\ CanWitchSave(a.target)
  \/ a.type = "witch-skip-save" /\ CanWitchSkipSave
  \/ a.type = "witch-poison" /\ CanWitchPoison(a.target)
  \/ a.type = "witch-skip-poison" /\ CanWitchSkipPoison
  \/ a.type = "seer-divine" /\ CanSeerDivine(a.target)
  \/ a.type = "speak" /\ CanSpeak(p)
  \/ a.type = "day-vote" /\ CanDayVote(p, a.target)
  \/ a.type = "hunter-shoot" /\ CanHunterShoot(a.target)

\* applyAction's dispatch on the type of the action.
Apply(p, a) ==
  \/ a.type = "werewolf-vote" /\ WerewolfVote(p, a.target)
  \/ a.type = "witch-save" /\ WitchSave(a.target)
  \/ a.type = "witch-skip-save" /\ WitchSkipSave
  \/ a.type = "witch-poison" /\ WitchPoison(a.target)
  \/ a.type = "witch-skip-poison" /\ WitchSkipPoison
  \/ a.type = "seer-divine" /\ SeerDivine(a.target)
  \/ a.type = "speak" /\ Speak(p)
  \/ a.type = "day-vote" /\ DayVote(p, a.target)
  \/ a.type = "hunter-shoot" /\ HunterShoot(a.target)

\* getValidActions: the menu the runner sends to player p.
HunterMenu(p) ==
  {Act("hunter-shoot", t) : t \in (alive \ {p}) \cup {None}}
WolfMenu(p) ==
  IF Role[p] = "werewolf" /\ pendingNight.werewolfVotes[p] = NotVoted
  THEN {Act("werewolf-vote", t) : t \in NonWolves(alive)} ELSE {}
WitchMenu(p) ==
  LET killTarget == Plurality(pendingNight.werewolfVotes)
  IN IF Role[p] # "witch" THEN {}
     ELSE IF ~pendingNight.witchSaveDecisionMade
     THEN {Act("witch-skip-save", None)} \cup
          (IF witchPotions.hasSave /\ killTarget # None
           THEN {Act("witch-save", killTarget)} ELSE {})
     ELSE {Act("witch-skip-poison", None)} \cup
          (IF witchPotions.hasPoison /\ pendingNight.witchSaved = None
           THEN {Act("witch-poison", t) : t \in alive \ {p}} ELSE {})
SeerMenu(p) ==
  IF Role[p] = "seer" THEN {Act("seer-divine", t) : t \in alive \ {p}} ELSE {}
SpeakMenu(p) ==
  IF p \notin pendingDaySpeeches THEN {Act("speak", None)} ELSE {}
BugMenuIgnoresPk(p) ==
  IF pendingDayVote.votes[p] = NotVoted
  THEN {Act("day-vote", t) : t \in (alive \ {p}) \cup {None}} ELSE {}
BallotMenu(p) ==
  IF pendingDayVote.votes[p] = NotVoted
  THEN {Act("day-vote", t) : t \in {x \in alive \ {p} : OnBallot(x)} \cup {None}} ELSE {}

ValidActions(p) ==
  IF phase = "hunter-shoot"
  THEN IF pendingHunterShoot.hunterId = p THEN HunterMenu(p) ELSE {}
  ELSE IF p \notin alive THEN {}
  ELSE CASE phase = "night-werewolf-vote" -> WolfMenu(p)
         [] phase = "night-witch" -> WitchMenu(p)
         [] phase = "night-seer" -> SeerMenu(p)
         [] phase = "day-speeches" -> SpeakMenu(p)
         [] phase = "day-vote" -> BallotMenu(p)
         [] OTHER -> {}

-----------------------------------------------------------------------------
\* createGame
Init ==
  /\ phase = "setup" /\ nightNumber = 0 /\ dayNumber = 0 /\ winner = "none"
  /\ alive = Players
  /\ deaths = [p \in Players |-> {}]
  /\ witchPotions = [hasSave |-> TRUE, hasPoison |-> TRUE]
  /\ pendingNight = EmptyPendingNight
  /\ pendingDaySpeeches = {}
  /\ pendingDayVote = NewBallot(0, {})
  /\ pendingHunterShoot = NoHunter

Next ==
  \/ StartFirstNight
  \/ \E t \in Players : \/ \E v \in Players : WerewolfVote(v, t)
                          \/ WitchSave(t) \/ WitchPoison(t) \/ SeerDivine(t)
  \/ WitchSkipSave \/ WitchSkipPoison
  \/ \E p \in Players : Speak(p)
  \/ \E t \in Players \cup {None} : \/ \E v \in Players : DayVote(v, t)
                                   \/ HunterShoot(t)

Spec == Init /\ [][Next]_vars

-----------------------------------------------------------------------------
(* Properties.                                                              *)

\* The type of every field of WerewolfGameState.
TypeOK ==
  /\ phase \in Phases
  /\ nightNumber \in Nat /\ dayNumber \in Nat
  /\ winner \in {"none", "good", "werewolf"}
  /\ alive \subseteq Players
  /\ deaths \in [Players -> SUBSET Causes]
  /\ witchPotions \in [hasSave : BOOLEAN, hasPoison : BOOLEAN]
  /\ pendingNight \in [werewolfVotes : [Players -> Players \cup {NotVoted}],
                       witchSaveDecisionMade : BOOLEAN,
                       witchSaved : Players \cup {None},
                       witchPoisoned : Players \cup {None},
                       seerTarget : Players \cup {None}]
  /\ pendingDaySpeeches \subseteq Players
  /\ pendingDayVote \in [votes : [Players -> Players \cup {None, NotVoted}],
                         banished : Players \cup {None},
                         pkRound : Nat, pkCandidates : SUBSET Players]
  /\ pendingHunterShoot \in [hunterId : Players \cup {None},
                             cause : {"none", "wolf-kill", "banishment"}]

\* The runner stops a match with "deadlock: phase has no actor with valid
\* actions" when every menu is empty.  The win check at each resolution is
\* what prevents it: while the game is on, somebody has a menu.
SomeoneCanAct ==
  phase \notin {"setup", "game-over"} => \E p \in Players : ValidActions(p) # {}

\* getValidActions and applyAction are two pieces of code that must agree: the
\* engine never throws on an action it has offered, so the runner may apply an
\* agent's choice, or the fallback, without a further check.
MenusAccepted ==
  \A p \in Players : \A a \in ValidActions(p) : Accepts(p, a)

\* The death entries of the history and the alive flags tell the same story:
\* exactly the dead have an entry, and nobody dies of two causes, although the
\* wolves, the witch, the village and the hunter may choose the same victim.
DeathLedger ==
  /\ \A p \in Players : p \in alive <=> deaths[p] = {}
  /\ \A p \in Players : \A c, d \in deaths[p] : c = d

\* The wolves never kill one of theirs, the witch does not poison herself, and
\* there is one poisoning a game.
KillsFitRoles ==
  /\ \A p \in Players : "wolf-kill" \in deaths[p] => Role[p] # "werewolf"
  /\ \A p \in Players : "witch-poison" \in deaths[p] => Role[p] # "witch"
  /\ \A p, q \in Players :
       "witch-poison" \in deaths[p] /\ "witch-poison" \in deaths[q] => p = q

\* A shot needs a hunter that the wolves or the village killed: the code's house
\* rule that a poisoned hunter loses the shot, which the guide for agent authors
\* contradicts (HunterAlwaysShoots).
ShotNeedsHunter ==
  (\E p \in Players : "hunter-shoot" \in deaths[p]) =>
     \E h \in PlayersWith({"hunter"}, Players \ alive) :
       deaths[h] \cap {"wolf-kill", "banishment"} # {}

\* What docs/werewolf-http-agent-guide.md promises the hunter's agent: when the
\* hunter dies of a banishment, of poison or of the wolves and the game goes on,
\* the next phase is his shot.  The engine refuses it to a poisoned hunter.
HunterAlwaysShoots ==
  [][ \A h \in PlayersWith({"hunter"}, alive) :
        h \notin alive' => phase' \in {"hunter-shoot", "game-over"} ]_vars

\* A game is over exactly when a side has won, with that side as the winner;
\* only a hunter about to shoot still acts after the position is decided.
GameOverWhenDecided ==
  /\ phase = "game-over" <=> winner # "none"
  /\ phase = "game-over" => winner = WinnerOf(alive)
  /\ phase \notin {"game-over", "hunter-shoot"} => WinnerOf(alive) = "none"

\* A night on which the witch saved the victim is bloodless, because she may not
\* use the poison in it; and whoever dies, in whatever order her potions, the
\* wolves, the village and the hunter come, dies of what can kill his role.
PotionsSound ==
  /\ [](KillsFitRoles /\ ShotNeedsHunter)
  /\ [][ pendingNight.witchSaved # None /\ dayNumber' > dayNumber
         => alive' = alive ]_vars

\* A PK ballot names living players, never a single one, and every vote already
\* cast in it is for one of them.
BallotOfTheLiving ==
  phase = "day-vote" =>
    /\ pendingDayVote.pkCandidates \subseteq alive
    /\ Cardinality(pendingDayVote.pkCandidates) # 1
    /\ \A p \in Players : pendingDayVote.votes[p] \notin {None, NotVoted} =>
         OnBallot(pendingDayVote.votes[p])

\* Who is banished got strictly more votes than anybody else, in a ballot in which
\* every player then alive voted.
BanishedByPlurality ==
  LET b == pendingDayVote.banished
  IN b # None =>
       /\ deaths[b] = {"banishment"}
       /\ \A t \in Players \ {b} :
            VotesFor(pendingDayVote.votes, t) < VotesFor(pendingDayVote.votes, b)
       /\ alive \subseteq Voters(pendingDayVote.votes)

\* Voting is sound from the candidates to the result, and from one PK round to the
\* next the ballot only narrows, a round of abstentions included ("doesn't
\* accidentally widen the ballot").
VotesSound ==
  /\ [](BallotOfTheLiving /\ BanishedByPlurality)
  /\ [][ /\ phase = "day-vote" /\ phase' = "day-vote"
         /\ pendingDayVote.pkCandidates # {}
         => /\ pendingDayVote'.pkCandidates # {}
            /\ pendingDayVote'.pkCandidates \subseteq pendingDayVote.pkCandidates ]_vars

\* The engine implements the rules as a spectator knows them: a death is final,
\* a verdict is the survivors', comes with a death or with the hunter's last
\* decision, and ends the game.
Rules == INSTANCE WerewolfRules WITH SideWinning <- WinnerOf
ImplementsRules == Rules!Spec
=============================================================================
