-------------------------- MODULE WerewolfProofs --------------------------
(***************************************************************************)
(* Proofs about a game of werewolf.  First the rules engine, for every     *)
(* number of players, every distribution of roles that leaves a game to be *)
(* played, and every number of PK rounds.  Then the match: the runner's    *)
(* loop around the engine, whatever its agents answer, and the board the   *)
(* lobby keeps of it; then a match among built-in players, what they say   *)
(* and what they are shown.  A step of either match is a step of the       *)
(* engine, whose invariant is taken over.  And last what a spectator is    *)
(* shown: the page of a running game, whatever the network does to it, and *)
(* the timeline of a match, event by event.                                *)
(***************************************************************************)
EXTENDS WerewolfMatch, WerewolfNpc, SpectatorRoom, SpectatorTimeline, FiniteSetTheorems, WellFoundedInduction, TLAPS

PendingNights ==
  [werewolfVotes : [Players -> Players \cup {NotVoted}],
   witchSaveDecisionMade : BOOLEAN,
   witchSaved : Players \cup {None},
   witchPoisoned : Players \cup {None},
   seerTarget : Players \cup {None}]
Ballots ==
  [votes : [Players -> Players \cup {None, NotVoted}], banished : Players \cup {None},
   pkRound : Nat, pkCandidates : SUBSET Players]

-----------------------------------------------------------------------------
(* The inductive invariant.                                                 *)

\* What the night's decisions may name: the wolves' targets live and are not
\* wolves, whoever is to be poisoned lives.
NightOK(n) ==
  /\ n \in PendingNights
  /\ \A w \in Players : n.werewolfVotes[w] # NotVoted => n.werewolfVotes[w] \in NonWolves(alive)
  /\ n.witchPoisoned \in alive \cup {None}

NightInv ==
  /\ NightOK(pendingNight)
  /\ phase \notin NightPhases => pendingNight = EmptyPendingNight
  /\ phase = "night-werewolf-vote" =>
       /\ \E w \in Wolves(alive) : pendingNight.werewolfVotes[w] = NotVoted
       /\ ~pendingNight.witchSaveDecisionMade
       /\ pendingNight.witchSaved = None /\ pendingNight.witchPoisoned = None
  /\ phase = "night-witch" =>
       /\ PlayersWith({"witch"}, alive) # {}
       /\ ~pendingNight.witchSaveDecisionMade => pendingNight.witchSaved = None
       /\ pendingNight.witchPoisoned = None
  /\ phase = "night-seer" => PlayersWith({"seer"}, alive) # {}

\* Somebody has not spoken yet, or has not voted yet; votes are for the living.
DayInv ==
  /\ phase = "day-speeches" => pendingDaySpeeches \subseteq alive /\ pendingDaySpeeches # alive
  /\ phase = "day-vote" =>
       /\ Voters(pendingDayVote.votes) \subseteq alive
       /\ Voters(pendingDayVote.votes) # alive
       /\ Targets(pendingDayVote.votes) \subseteq alive

HunterInv ==
  phase = "hunter-shoot" => pendingHunterShoot.hunterId \in PlayersWith({"hunter"}, Players \ alive)

IInv == TypeOK /\ DeathLedger /\ GameOverWhenDecided /\ NightInv /\ DayInv /\ HunterInv

-----------------------------------------------------------------------------
(* Lemmas about the operators.                                              *)

\* A plurality is one of the targets voted for, or there is none.
LEMMA PluralityIsTarget ==
  ASSUME NEW votes
  PROVE  Plurality(votes) \in Targets(votes) \cup {None}
BY DEF Plurality, Leaders

\* checkWinCondition names a side or nobody, and while it names nobody there
\* are a wolf and a villager among the living.
LEMMA WinnerOfIsSide ==
  ASSUME NEW A
  PROVE  /\ WinnerOf(A) \in {"none", "good", "werewolf"}
         /\ WinnerOf(A) = "none" => Wolves(A) # {} /\ Villagers(A) # {}
BY DEF WinnerOf

\* The empty records are well typed, and nobody has voted in them.
LEMMA EmptyRecords ==
  /\ EmptyPendingNight \in PendingNights
  /\ \A r \in Nat, C \in SUBSET Players :
       NewBallot(r, C) \in Ballots /\ Voters(NewBallot(r, C).votes) = {}
BY RolesAssumption DEF EmptyPendingNight, PendingNights, NewBallot, Ballots, Voters

\* A night without decisions is in order whoever lives.
LEMMA EmptyNightOK == NightOK(EmptyPendingNight) /\ NightOK(EmptyPendingNight)'
BY EmptyRecords, RolesAssumption DEF NightOK, EmptyPendingNight, PendingNights

\* The victims of a night in order are living players, the wolves' no wolf, and
\* no victim is counted twice.
LEMMA NightVictims ==
  ASSUME NEW n, NightOK(n), alive \subseteq Players
  PROVE  /\ Killed(n) \subseteq NonWolves(alive)
         /\ Poisoned(n) \subseteq alive
         /\ Killed(n) \cap Poisoned(n) = {}
         /\ \E t \in Players \cup {None} : Killed(n) \subseteq {t} /\ t = Plurality(n.werewolfVotes)
         /\ \E t \in Players \cup {None} : Poisoned(n) \subseteq {t}
<1>1. Plurality(n.werewolfVotes) \in NonWolves(alive) \cup {None}
  <2>1. Targets(n.werewolfVotes) \subseteq NonWolves(alive)
    BY RolesAssumption DEF Targets, NightOK, PendingNights
  <2> QED BY <2>1, PluralityIsTarget
<1> QED
  BY <1>1 DEF Killed, Poisoned, NightOK, NonWolves, PendingNights

-----------------------------------------------------------------------------
(* The phase changes preserve the invariant.                                *)

Potions == [hasSave : BOOLEAN, hasPoison : BOOLEAN]

\* The end of a night, whatever led to it.
LEMMA ResolveNightKeeps ==
  ASSUME IInv, phase \in NightPhases, witchPotions' \in Potions,
         NEW n, NightOK(n), ResolveNight(n)
  PROVE  IInv'
<1> DEFINE killed == Killed(n)
           poisoned == Poisoned(n)
           living == alive \ (killed \cup poisoned)
           hunter == PlayersWith({"hunter"}, killed)
<1>1. /\ killed \subseteq alive /\ poisoned \subseteq alive /\ killed \cap poisoned = {}
      /\ Plurality(n.werewolfVotes) \in Players \cup {None}
      /\ killed \subseteq {Plurality(n.werewolfVotes)}
  BY NightVictims DEF IInv, TypeOK, NonWolves
<1>2. /\ alive' = living
      /\ deaths' = Bury(poisoned, "witch-poison", Bury(killed, "wolf-kill", deaths))
      /\ dayNumber' = dayNumber + 1
      /\ pendingNight' = EmptyPendingNight
      /\ nightNumber' = nightNumber /\ pendingDayVote' = pendingDayVote
  BY DEF ResolveNight
<1>3. \/ /\ WinnerOf(living) # "none" /\ phase' = "game-over" /\ winner' = WinnerOf(living)
         /\ pendingHunterShoot' = NoHunter /\ pendingDaySpeeches' = pendingDaySpeeches
      \/ /\ WinnerOf(living) = "none" /\ hunter # {} /\ phase' = "hunter-shoot"
         /\ pendingHunterShoot' = [hunterId |-> Plurality(n.werewolfVotes), cause |-> "wolf-kill"]
         /\ winner' = winner /\ pendingDaySpeeches' = pendingDaySpeeches
      \/ /\ WinnerOf(living) = "none" /\ hunter = {} /\ phase' = "day-speeches"
         /\ pendingDaySpeeches' = {} /\ winner' = winner
         /\ pendingHunterShoot' = pendingHunterShoot
  BY DEF ResolveNight
<1>4. winner = "none"
  BY DEF IInv, GameOverWhenDecided, NightPhases
<1>5. /\ deaths' \in [Players -> SUBSET Causes]
      /\ DeathLedger'
  BY <1>1, <1>2 DEF IInv, TypeOK, DeathLedger, Bury, Causes
<1>6. TypeOK'
  BY <1>1, <1>2, <1>3, <1>4, <1>5, WinnerOfIsSide, EmptyRecords
  DEF IInv, TypeOK, Phases, NoHunter, Potions, PendingNights
<1>7. GameOverWhenDecided'
  BY <1>2, <1>3, <1>4, WinnerOfIsSide DEF GameOverWhenDecided
<1>8. NightInv'
  BY <1>2, <1>3, EmptyNightOK DEF NightInv, NightPhases
<1>9. DayInv'
  <2>1. phase' = "day-speeches" => alive' # {}
    BY <1>2, <1>3, WinnerOfIsSide DEF Wolves, PlayersWith
  <2> QED BY <1>3, <2>1 DEF DayInv
<1>10. HunterInv'
  BY <1>1, <1>2, <1>3 DEF HunterInv, PlayersWith, IInv, TypeOK
<1> QED BY <1>5, <1>6, <1>7, <1>8, <1>9, <1>10 DEF IInv

\* Going on to the seer, or straight to the morning, with the night n keeps the
\* invariant.
LEMMA AdvanceToNightSeerKeeps ==
  ASSUME IInv, phase \in NightPhases, witchPotions' \in Potions,
         NEW n, NightOK(n), AdvanceToNightSeer(n)
  PROVE  IInv'
<1>1. CASE ResolveNight(n)
  BY <1>1, ResolveNightKeeps
<1>2. CASE /\ PlayersWith({"seer"}, alive) # {}
           /\ phase' = "night-seer" /\ pendingNight' = n /\ SameDay
  <2>1. TypeOK' /\ DeathLedger' /\ GameOverWhenDecided'
    BY <1>2 DEF IInv, TypeOK, DeathLedger, GameOverWhenDecided, SameDay, Potions, Phases,
                NightOK, PendingNights, NightPhases
  <2>2. NightInv'
    BY <1>2 DEF NightInv, NightOK, SameDay, NightPhases
  <2> QED BY <1>2, <2>1, <2>2 DEF IInv, DayInv, HunterInv
<1> QED BY <1>1, <1>2 DEF AdvanceToNightSeer

\* Going on to the witch, when the last wolf has voted, keeps the invariant.
LEMMA AdvanceToNightWitchKeeps ==
  ASSUME IInv, phase = "night-werewolf-vote", witchPotions' = witchPotions,
         NEW n, NightOK(n), ~n.witchSaveDecisionMade, n.witchSaved = None,
         n.witchPoisoned = None, AdvanceToNightWitch(n)
  PROVE  IInv'
<1>0. phase \in NightPhases /\ witchPotions' \in Potions
  BY DEF NightPhases, IInv, TypeOK, Potions
<1>1. CASE AdvanceToNightSeer(n)
  BY <1>0, <1>1, AdvanceToNightSeerKeeps
<1>2. CASE /\ PlayersWith({"witch"}, alive) # {}
           /\ phase' = "night-witch" /\ pendingNight' = n /\ SameDay
  <2>1. TypeOK' /\ DeathLedger' /\ GameOverWhenDecided'
    BY <1>2 DEF IInv, TypeOK, DeathLedger, GameOverWhenDecided, SameDay, Phases,
                NightOK, PendingNights
  <2>2. NightInv'
    BY <1>2 DEF NightInv, NightOK, SameDay, NightPhases
  <2> QED BY <1>2, <2>1, <2>2 DEF IInv, DayInv, HunterInv
<1> QED BY <1>1, <1>2 DEF AdvanceToNightWitch

\* The end of a day or of a shot: the living have become living, the ledger
\* knows it, and the game is over or goes into the next night.
LEMMA NextNightOrOver ==
  ASSUME IInv, phase \in {"day-vote", "hunter-shoot"},
         NEW living, living \subseteq Players, alive' = living,
         deaths' \in [Players -> SUBSET Causes], DeathLedger',
         dayNumber' = dayNumber, witchPotions' = witchPotions,
         pendingHunterShoot' \in {pendingHunterShoot, NoHunter},
         \/ GameOver(living) /\ pendingDayVote' \in Ballots
         \/ WinnerOf(living) = "none" /\ StartNextNight
  PROVE  IInv'
<1>1. winner = "none" /\ pendingNight = EmptyPendingNight
  BY DEF IInv, GameOverWhenDecided, NightInv, NightPhases
<1>2. /\ phase' \in {"game-over", "night-werewolf-vote"}
      /\ pendingNight' = EmptyPendingNight
      /\ pendingDayVote' \in Ballots
      /\ nightNumber' \in Nat
      /\ pendingDaySpeeches' \subseteq Players
      /\ winner' \in {"none", "good", "werewolf"}
  BY <1>1, EmptyRecords, WinnerOfIsSide DEF GameOver, StartNextNight, IInv, TypeOK
<1>3. TypeOK'
  BY <1>2, EmptyRecords DEF IInv, TypeOK, Phases, Ballots, PendingNights, NoHunter
<1>4. GameOverWhenDecided'
  BY <1>1, WinnerOfIsSide DEF GameOverWhenDecided, GameOver, StartNextNight
<1>5. NightInv'
  <2>1. phase' = "night-werewolf-vote" => Wolves(alive)' # {}
    BY WinnerOfIsSide DEF GameOver, StartNextNight
  <2> QED
    BY <1>2, <2>1, EmptyNightOK DEF NightInv, NightPhases, EmptyPendingNight, Wolves, PlayersWith, IInv, TypeOK
<1> QED BY <1>2, <1>3, <1>4, <1>5 DEF IInv, DayInv, HunterInv

\* A decided ballot, whoever it banishes, keeps the invariant.
LEMMA AdvanceFromDayResolveKeeps ==
  ASSUME IInv, phase = "day-vote", UNCHANGED <<dayNumber, witchPotions>>,
         NEW b \in Ballots, b.banished \in alive \cup {None}, AdvanceFromDayResolve(b)
  PROVE  IInv'
<1> DEFINE out == {b.banished} \ {None}
           living == alive \ out
           hunter == PlayersWith({"hunter"}, out)
<1>1. /\ out \subseteq alive /\ living \subseteq Players
      /\ alive' = living /\ deaths' = Bury(out, "banishment", deaths)
  BY DEF AdvanceFromDayResolve, IInv, TypeOK
<1>2. deaths' \in [Players -> SUBSET Causes] /\ DeathLedger'
  BY <1>1 DEF IInv, TypeOK, DeathLedger, Bury, Causes
<1>3. CASE hunter = {}
  BY <1>1, <1>2, <1>3, NextNightOrOver DEF AdvanceFromDayResolve
<1>4. CASE hunter # {}
  <2>1. /\ phase' = "hunter-shoot"
        /\ pendingHunterShoot' = [hunterId |-> b.banished, cause |-> "banishment"]
        /\ pendingDayVote' = b
        /\ UNCHANGED <<nightNumber, winner, pendingDaySpeeches, pendingNight>>
    BY <1>4 DEF AdvanceFromDayResolve
  <2>2. TypeOK' /\ GameOverWhenDecided'
    BY <1>1, <1>2, <2>1 DEF IInv, TypeOK, Phases, Ballots, GameOverWhenDecided
  <2>3. NightInv'
    BY <2>1, EmptyNightOK DEF IInv, NightInv, NightPhases
  <2>4. HunterInv'
    BY <1>1, <1>4, <2>1 DEF HunterInv, PlayersWith, IInv, TypeOK
  <2> QED BY <1>2, <2>1, <2>2, <2>3, <2>4 DEF IInv, DayInv
<1> QED BY <1>3, <1>4
-----------------------------------------------------------------------------
(* Every step preserves the invariant.                                      *)

\* What the invariant says of a state in which the night goes on under the
\* same phase, whatever pendingNight has become.
LEMMA SameDayKeeps ==
  ASSUME IInv, phase \in NightPhases, phase' = phase, SameDay, witchPotions' \in Potions, NightInv'
  PROVE  IInv'
<1>1. TypeOK' /\ DeathLedger' /\ GameOverWhenDecided'
  BY DEF IInv, TypeOK, DeathLedger, GameOverWhenDecided, SameDay, Potions, NightInv, NightOK, PendingNights
<1> QED BY <1>1 DEF IInv, DayInv, HunterInv, NightPhases

\* A wolf's vote, the last of the pack's included.
LEMMA WerewolfVoteKeeps ==
  ASSUME IInv, NEW v \in Players, NEW t \in Players, WerewolfVote(v, t)
  PROVE  IInv'
<1> DEFINE n == [pendingNight EXCEPT !.werewolfVotes[v] = t]
<1>1. phase = "night-werewolf-vote" /\ t \in NonWolves(alive)
  BY DEF WerewolfVote, CanWerewolfVote
<1>2. /\ NightOK(n) /\ ~n.witchSaveDecisionMade
      /\ n.witchSaved = None /\ n.witchPoisoned = None
  BY <1>1 DEF IInv, NightInv, NightOK, PendingNights
<1>3. witchPotions' = witchPotions
  BY DEF WerewolfVote
<1>4. CASE AdvanceToNightWitch(n)
  BY <1>1, <1>2, <1>3, <1>4, AdvanceToNightWitchKeeps
<1>5. CASE /\ \E w \in Wolves(alive) : n.werewolfVotes[w] = NotVoted
           /\ pendingNight' = n /\ phase' = phase /\ SameDay
  <2>1. NightInv'
    BY <1>1, <1>2, <1>5 DEF NightInv, NightOK, NightPhases, SameDay
  <2> QED BY <1>1, <1>3, <1>5, <2>1, SameDayKeeps DEF NightPhases, IInv, TypeOK, Potions
<1> QED BY <1>4, <1>5 DEF WerewolfVote

\* The four decisions of the witch.
LEMMA WitchKeeps ==
  ASSUME IInv, NEW t \in Players,
         WitchSave(t) \/ WitchSkipSave \/ WitchPoison(t) \/ WitchSkipPoison
  PROVE  IInv'
<1>1. phase = "night-witch" /\ phase \in NightPhases
  BY DEF WitchSave, CanWitchSave, WitchSkipSave, CanWitchSkipSave, WitchPoison, CanWitchPoison,
         WitchSkipPoison, CanWitchSkipPoison, NightPhases
<1>2. witchPotions' \in Potions
  BY DEF WitchSave, WitchSkipSave, WitchPoison, WitchSkipPoison, IInv, TypeOK, Potions
<1>3. CASE WitchSave(t) \/ WitchSkipSave
  <2>1. phase' = phase /\ SameDay
    BY <1>3 DEF WitchSave, WitchSkipSave
  <2>2. NightInv'
    BY <1>1, <1>3, <2>1 DEF WitchSave, WitchSkipSave, SameDay, IInv, NightInv, NightOK, PendingNights, NightPhases
  <2> QED BY <1>1, <1>2, <2>1, <2>2, SameDayKeeps
<1>4. CASE WitchPoison(t)
  <2>1. NightOK([pendingNight EXCEPT !.witchPoisoned = t])
    BY <1>4 DEF WitchPoison, CanWitchPoison, IInv, NightInv, NightOK, PendingNights
  <2> QED BY <1>1, <1>2, <1>4, <2>1, AdvanceToNightSeerKeeps DEF WitchPoison
<1>5. CASE WitchSkipPoison
  BY <1>1, <1>2, <1>5, AdvanceToNightSeerKeeps DEF WitchSkipPoison, IInv, NightInv
<1> QED BY <1>3, <1>4, <1>5

\* The seer's choice, which ends the night.
LEMMA SeerDivineKeeps ==
  ASSUME IInv, NEW t \in Players, SeerDivine(t)
  PROVE  IInv'
<1>1. phase \in NightPhases /\ witchPotions' \in Potions
  BY DEF SeerDivine, CanSeerDivine, NightPhases, IInv, TypeOK, Potions
<1>2. NightOK([pendingNight EXCEPT !.seerTarget = t])
  BY DEF IInv, NightInv, NightOK, PendingNights
<1> QED BY <1>1, <1>2, ResolveNightKeeps DEF SeerDivine

\* A part of the living as numerous as the living is all of them: the code
\* compares the lengths of two lists.
LEMMA EverybodyDidIt ==
  ASSUME NEW A, alive \subseteq Players, A \subseteq alive
  PROVE  Cardinality(A) = Cardinality(alive) <=> A = alive
<1>1. IsFiniteSet(alive)
  BY RolesAssumption, FS_Subset
<1> QED BY <1>1, FS_Subset

\* A speech: the last one opens a ballot on which nobody has voted.
LEMMA SpeakKeeps ==
  ASSUME IInv, NEW p \in Players, Speak(p)
  PROVE  IInv'
<1>1. /\ phase = "day-speeches" /\ alive \subseteq Players
      /\ pendingDaySpeeches' \subseteq alive
      /\ UNCHANGED <<nightNumber, dayNumber, winner, alive, deaths, witchPotions,
                     pendingNight, pendingHunterShoot>>
  BY DEF Speak, CanSpeak, IInv, TypeOK, DayInv
<1>2. \/ phase' = "day-vote" /\ pendingDayVote' = NewBallot(0, {})
      \/ phase' = phase /\ pendingDayVote' = pendingDayVote /\ pendingDaySpeeches' # alive
  BY <1>1 DEF Speak
<1>3. alive # {}
  BY <1>1, WinnerOfIsSide DEF IInv, GameOverWhenDecided, Wolves, PlayersWith
<1>4. NewBallot(0, {}) \in Ballots /\ Voters(NewBallot(0, {}).votes) = {}
      /\ Targets(NewBallot(0, {}).votes) = {}
  BY EmptyRecords, RolesAssumption DEF NewBallot, Targets
<1>5. TypeOK' /\ DeathLedger' /\ GameOverWhenDecided'
  BY <1>1, <1>2, <1>4 DEF IInv, TypeOK, DeathLedger, GameOverWhenDecided, Ballots, Phases
<1>6. NightInv' /\ HunterInv'
  BY <1>1, <1>2 DEF IInv, NightInv, NightOK, HunterInv, NightPhases
<1>7. DayInv'
  BY <1>1, <1>2, <1>3, <1>4 DEF DayInv
<1> QED BY <1>5, <1>6, <1>7 DEF IInv

\* Casting a vote adds the voter to the voters and a living target, if any, to
\* the targets.
LEMMA VoteCast ==
  ASSUME NEW b \in Ballots, NEW v \in Players, NEW t \in Players \cup {None}
  PROVE  LET c == [b EXCEPT !.votes[v] = t]
         IN /\ c \in Ballots
            /\ c.banished = b.banished /\ c.pkRound = b.pkRound /\ c.pkCandidates = b.pkCandidates
            /\ Voters(c.votes) = Voters(b.votes) \cup {v}
            /\ Targets(c.votes) \subseteq Targets(b.votes) \cup ({t} \ {None})
BY RolesAssumption DEF Ballots, Voters, Targets

\* A vote: the ballot goes on, goes into a PK round, or is decided.
LEMMA DayVoteKeeps ==
  ASSUME IInv, NEW v \in Players, NEW t \in Players \cup {None}, DayVote(v, t)
  PROVE  IInv'
<1> DEFINE b == [pendingDayVote EXCEPT !.votes[v] = t]
<1>1. /\ phase = "day-vote" /\ alive \subseteq Players /\ v \in alive
      /\ t \in alive \cup {None}
      /\ UNCHANGED <<dayNumber, witchPotions>>
  BY DEF DayVote, CanDayVote, IInv, TypeOK
<1>2. /\ b \in Ballots
      /\ Voters(b.votes) \subseteq alive
      /\ Targets(b.votes) \subseteq alive
  <2>1. pendingDayVote \in Ballots
    BY DEF IInv, TypeOK, Ballots
  <2>2. /\ b \in Ballots
        /\ Voters(b.votes) = Voters(pendingDayVote.votes) \cup {v}
        /\ Targets(b.votes) \subseteq Targets(pendingDayVote.votes) \cup ({t} \ {None})
    BY <2>1, VoteCast
  <2> HIDE DEF b
  <2> QED BY <1>1, <2>2 DEF IInv, DayInv
<1>3. CASE /\ phase' = phase
           /\ \/ Voters(b.votes) # alive /\ pendingDayVote' = b
              \/ pendingDayVote' = NewBallot(b.pkRound + 1, NextCandidates(b))
           /\ UNCHANGED <<nightNumber, winner, alive, deaths,
                          pendingDaySpeeches, pendingNight, pendingHunterShoot>>
  <2> DEFINE fresh == NewBallot(b.pkRound + 1, NextCandidates(b))
  <2>1. NextCandidates(b) \in SUBSET Players /\ b.pkRound + 1 \in Nat
    BY <1>1, <1>2 DEF NextCandidates, Leaders, Ballots
  <2>2. fresh \in Ballots /\ Voters(fresh.votes) = {} /\ Targets(fresh.votes) = {}
    BY <2>1, EmptyRecords, RolesAssumption DEF NewBallot, Targets
  <2>3. TypeOK' /\ DeathLedger' /\ GameOverWhenDecided'
    BY <1>1, <1>2, <1>3, <2>2 DEF IInv, TypeOK, DeathLedger, GameOverWhenDecided, Ballots
  <2>4. NightInv' /\ HunterInv'
    BY <1>1, <1>3 DEF IInv, NightInv, NightOK, HunterInv, NightPhases
  <2>5. DayInv'
    BY <1>1, <1>2, <1>3, <2>2 DEF DayInv
  <2> QED BY <2>3, <2>4, <2>5 DEF IInv
<1>4. CASE AdvanceFromDayResolve([b EXCEPT !.banished = Plurality(b.votes)])
  <2>1. Plurality(b.votes) \in alive \cup {None}
    BY <1>2, PluralityIsTarget
  <2>2. /\ [b EXCEPT !.banished = Plurality(b.votes)] \in Ballots
        /\ [b EXCEPT !.banished = Plurality(b.votes)].banished = Plurality(b.votes)
    BY <1>1, <1>2, <2>1 DEF Ballots
  <2> QED BY <1>1, <1>4, <2>1, <2>2, AdvanceFromDayResolveKeeps
<1> QED BY <1>2, <1>3, <1>4 DEF DayVote

\* The hunter's shot or pass, in the morning or after a banishment.
LEMMA HunterShootKeeps ==
  ASSUME IInv, NEW t \in Players \cup {None}, HunterShoot(t)
  PROVE  IInv'
<1> DEFINE victims == {t} \ {None}
           living == alive \ victims
<1>1. /\ phase = "hunter-shoot"
      /\ victims \subseteq alive /\ living \subseteq Players
      /\ alive' = living /\ deaths' = Bury(victims, "hunter-shoot", deaths)
      /\ pendingHunterShoot' = NoHunter
      /\ UNCHANGED <<dayNumber, witchPotions>>
  BY DEF HunterShoot, CanHunterShoot, IInv, TypeOK
<1>2. deaths' \in [Players -> SUBSET Causes] /\ DeathLedger'
  BY <1>1 DEF IInv, TypeOK, DeathLedger, Bury, Causes
<1>3. CASE \/ GameOver(living) /\ UNCHANGED pendingDayVote
           \/ WinnerOf(living) = "none" /\ StartNextNight
  <2>1. /\ dayNumber' = dayNumber /\ witchPotions' = witchPotions
        /\ pendingHunterShoot' \in {pendingHunterShoot, NoHunter}
        /\ phase \in {"day-vote", "hunter-shoot"}
    BY <1>1
  <2>2. pendingDayVote \in Ballots
    BY DEF IInv, TypeOK, Ballots
  <2> HIDE DEF living
  <2>3. \/ GameOver(living) /\ pendingDayVote' \in Ballots
        \/ WinnerOf(living) = "none" /\ StartNextNight
    BY <1>3, <2>2
  <2> QED BY <1>1, <1>2, <2>1, <2>3, NextNightOrOver
<1>4. CASE /\ WinnerOf(living) = "none"
           /\ phase' = "day-speeches" /\ pendingDaySpeeches' = {}
           /\ UNCHANGED <<nightNumber, winner, pendingNight, pendingDayVote>>
  <2>1. TypeOK' /\ GameOverWhenDecided'
    BY <1>1, <1>2, <1>4 DEF IInv, TypeOK, Phases, NoHunter, GameOverWhenDecided
  <2>2. NightInv'
    BY <1>1, <1>4, EmptyNightOK DEF IInv, NightInv, NightPhases
  <2>3. DayInv' /\ HunterInv'
    BY <1>1, <1>4, WinnerOfIsSide DEF DayInv, HunterInv, Wolves, PlayersWith
  <2> QED BY <1>2, <2>1, <2>2, <2>3 DEF IInv
<1> QED BY <1>3, <1>4 DEF HunterShoot

\* The step out of setup.
LEMMA StartFirstNightKeeps ==
  ASSUME IInv, StartFirstNight
  PROVE  IInv'
<1>1. TypeOK' /\ DeathLedger' /\ GameOverWhenDecided'
  BY EmptyRecords DEF StartFirstNight, IInv, TypeOK, DeathLedger, GameOverWhenDecided, Phases, PendingNights
<1>2. NightInv'
  <2>1. Wolves(alive) # {} /\ alive \subseteq Players
    BY WinnerOfIsSide DEF StartFirstNight, IInv, GameOverWhenDecided, TypeOK
  <2> QED BY <2>1, EmptyNightOK DEF StartFirstNight, NightInv, NightPhases, EmptyPendingNight, Wolves, PlayersWith
<1> QED BY <1>1, <1>2 DEF StartFirstNight, IInv, DayInv, HunterInv

-----------------------------------------------------------------------------
(* The theorems.                                                            *)

\* The initial state satisfies the invariant.
LEMMA InitIInv == Init => IInv
<1> SUFFICES ASSUME Init PROVE IInv
  OBVIOUS
<1>1. TypeOK /\ DeathLedger
  BY EmptyRecords DEF Init, TypeOK, DeathLedger, Phases, NoHunter, PendingNights, NewBallot, Ballots
<1>2. GameOverWhenDecided
  BY DistributionAssumption DEF Init, GameOverWhenDecided
<1>3. NightInv /\ DayInv /\ HunterInv
  BY EmptyNightOK DEF Init, NightInv, NightPhases, DayInv, HunterInv
<1> QED BY <1>1, <1>2, <1>3 DEF IInv

\* Every step of the engine, whoever takes it, preserves the invariant.
LEMMA NextIInv == IInv /\ [Next]_vars => IInv'
<1> SUFFICES ASSUME IInv, [Next]_vars PROVE IInv'
  OBVIOUS
<1>1. CASE StartFirstNight
  BY <1>1, StartFirstNightKeeps
<1>2. ASSUME NEW t \in Players, NEW v \in Players, WerewolfVote(v, t) PROVE IInv'
  BY <1>2, WerewolfVoteKeeps
<1>3. ASSUME NEW t \in Players, WitchSave(t) \/ WitchPoison(t) PROVE IInv'
  BY <1>3, WitchKeeps
<1>4. CASE WitchSkipSave \/ WitchSkipPoison
  <2>1. Players # {}
    BY DistributionAssumption DEF WinnerOf, Wolves, PlayersWith
  <2> QED BY <1>4, <2>1, WitchKeeps
<1>5. ASSUME NEW t \in Players, SeerDivine(t) PROVE IInv'
  BY <1>5, SeerDivineKeeps
<1>6. ASSUME NEW p \in Players, Speak(p) PROVE IInv'
  BY <1>6, SpeakKeeps
<1>7. ASSUME NEW t \in Players \cup {None}, NEW v \in Players, DayVote(v, t) PROVE IInv'
  BY <1>7, DayVoteKeeps
<1>8. ASSUME NEW t \in Players \cup {None}, HunterShoot(t) PROVE IInv'
  BY <1>8, HunterShootKeeps
<1>9. CASE UNCHANGED vars
  BY <1>9 DEF vars, IInv, TypeOK, DeathLedger, GameOverWhenDecided, NightInv, NightOK, DayInv, HunterInv
<1> QED BY <1>1, <1>2, <1>3, <1>4, <1>5, <1>6, <1>7, <1>8, <1>9 DEF Next

\* The inductive invariant holds in every reachable state.
THEOREM EngineInvariant == Spec => []IInv
BY InitIInv, NextIInv, PTL DEF Spec

\* Every field of the game state keeps its type.
THEOREM EngineTypeOK == Spec => []TypeOK
<1>1. IInv => TypeOK
  BY DEF IInv
<1> QED BY <1>1, EngineInvariant, PTL

\* Exactly the dead have a death entry, and everyone dies of one cause.
THEOREM EngineDeathLedger == Spec => []DeathLedger
<1>1. IInv => DeathLedger
  BY DEF IInv
<1> QED BY <1>1, EngineInvariant, PTL

\* The game is over exactly when it is decided, with the right winner.
THEOREM EngineGameOverWhenDecided == Spec => []GameOverWhenDecided
<1>1. IInv => GameOverWhenDecided
  BY DEF IInv
<1> QED BY <1>1, EngineInvariant, PTL
\* The invariant gives somebody a menu while the game is on.
LEMMA IInvSomeoneCanAct == IInv => SomeoneCanAct
<1> SUFFICES ASSUME IInv, phase \notin {"setup", "game-over"}
             PROVE  \E p \in Players : ValidActions(p) # {}
  BY DEF SomeoneCanAct
<1>1. alive \subseteq Players /\ phase \in Phases
  BY DEF IInv, TypeOK
<1>2. phase # "hunter-shoot" => WinnerOf(alive) = "none"
  BY DEF IInv, GameOverWhenDecided
<1>3. CASE phase = "hunter-shoot"
  <2>1. /\ pendingHunterShoot.hunterId \in Players
        /\ Act("hunter-shoot", None) \in ValidActions(pendingHunterShoot.hunterId)
    BY <1>3 DEF IInv, HunterInv, PlayersWith, ValidActions, HunterMenu
  <2> QED BY <2>1
<1>4. CASE phase = "night-werewolf-vote"
  <2>1. PICK w \in Wolves(alive) : pendingNight.werewolfVotes[w] = NotVoted
    BY <1>4 DEF IInv, NightInv
  <2>2. PICK v \in Villagers(alive) : TRUE
    BY <1>2, <1>4, WinnerOfIsSide
  <2>3. /\ w \in Players /\ v \in NonWolves(alive)
        /\ Act("werewolf-vote", v) \in ValidActions(w)
    BY <1>1, <1>4, <2>1 DEF ValidActions, WolfMenu, Wolves, Villagers, NonWolves, PlayersWith
  <2> QED BY <2>3
<1>5. CASE phase = "night-witch"
  <2>1. PICK x \in PlayersWith({"witch"}, alive) : TRUE
    BY <1>5 DEF IInv, NightInv
  <2>2. \/ Act("witch-skip-save", None) \in ValidActions(x)
        \/ Act("witch-skip-poison", None) \in ValidActions(x)
    BY <1>5 DEF ValidActions, WitchMenu, PlayersWith
  <2> QED BY <1>1, <2>2 DEF PlayersWith
<1>6. CASE phase = "night-seer"
  <2>1. PICK s \in PlayersWith({"seer"}, alive) : TRUE
    BY <1>6 DEF IInv, NightInv
  <2>2. PICK w \in Wolves(alive) : TRUE
    BY <1>2, <1>6, WinnerOfIsSide
  <2>3. Act("seer-divine", w) \in ValidActions(s)
    BY <1>6 DEF ValidActions, SeerMenu, PlayersWith, Wolves
  <2> QED BY <1>1, <2>3 DEF PlayersWith
<1>7. CASE phase = "day-speeches"
  <2>1. PICK p \in alive : p \notin pendingDaySpeeches
    BY <1>7 DEF IInv, DayInv
  <2>2. Act("speak", None) \in ValidActions(p)
    BY <1>7, <2>1 DEF ValidActions, SpeakMenu
  <2> QED BY <1>1, <2>2
<1>8. CASE phase = "day-vote"
  <2>1. PICK p \in alive : pendingDayVote.votes[p] = NotVoted
    BY <1>1, <1>8 DEF IInv, DayInv, Voters
  <2>2. Act("day-vote", None) \in ValidActions(p)
    BY <1>8, <2>1 DEF ValidActions, BallotMenu
  <2> QED BY <1>1, <2>2
<1> QED BY <1>1, <1>3, <1>4, <1>5, <1>6, <1>7, <1>8 DEF Phases

\* While a game is on, getValidActions gives somebody something to do: the
\* runner's "deadlock" exception is unreachable.
THEOREM EngineSomeoneCanAct == Spec => []SomeoneCanAct
BY IInvSomeoneCanAct, EngineInvariant, PTL

\* Under the invariant applyAction accepts what getValidActions offers.
LEMMA IInvMenusAccepted == IInv => MenusAccepted
<1> SUFFICES ASSUME IInv, NEW p \in Players, NEW a \in ValidActions(p)
             PROVE  Accepts(p, a)
  BY DEF MenusAccepted
<1>1. alive \subseteq Players
  BY DEF IInv, TypeOK
<1>2. CASE phase = "hunter-shoot"
  <2>1. pendingHunterShoot.hunterId = p /\ a \in HunterMenu(p)
    BY <1>2 DEF ValidActions
  <2>2. CanHunterShoot(a.target) /\ a.type = "hunter-shoot"
    BY <1>2, <2>1, RolesAssumption DEF HunterMenu, Act, CanHunterShoot, NoHunter
  <2> QED BY <2>2 DEF Accepts
<1>3. CASE phase = "night-werewolf-vote"
  <2>1. p \in alive /\ a \in WolfMenu(p)
    BY <1>3 DEF ValidActions
  <2>2. CanWerewolfVote(p, a.target) /\ a.type = "werewolf-vote"
    BY <1>3, <2>1 DEF WolfMenu, Act, CanWerewolfVote, Wolves, PlayersWith
  <2> QED BY <2>2 DEF Accepts
<1>4. CASE phase = "night-witch"
  <2>1. p \in alive /\ a \in WitchMenu(p) /\ Role[p] = "witch"
    BY <1>4 DEF ValidActions, WitchMenu
  <2>2. \A t \in alive \ {p} : Role[t] # "witch"
    BY <1>1, <2>1, DistributionAssumption DEF PlayersWith
  <2>3. \/ a = Act("witch-skip-save", None) /\ CanWitchSkipSave
        \/ /\ a = Act("witch-save", Plurality(pendingNight.werewolfVotes))
           /\ CanWitchSave(Plurality(pendingNight.werewolfVotes))
        \/ a = Act("witch-skip-poison", None) /\ CanWitchSkipPoison
        \/ \E t \in alive \ {p} : a = Act("witch-poison", t) /\ CanWitchPoison(t)
    BY <1>4, <2>1, <2>2 DEF WitchMenu, IInv, NightInv, CanWitchSkipSave, CanWitchSave,
                            CanWitchSkipPoison, CanWitchPoison
  <2> QED BY <2>3 DEF Accepts, Act
<1>5. CASE phase = "night-seer"
  <2>1. p \in alive /\ a \in SeerMenu(p)
    BY <1>5 DEF ValidActions
  <2>2. CanSeerDivine(a.target) /\ a.type = "seer-divine"
    BY <1>5, <2>1 DEF SeerMenu, Act, CanSeerDivine, PlayersWith
  <2> QED BY <2>2 DEF Accepts
<1>6. CASE phase = "day-speeches"
  <2>1. p \in alive /\ a \in SpeakMenu(p)
    BY <1>6 DEF ValidActions
  <2> QED BY <1>6, <2>1 DEF SpeakMenu, Act, CanSpeak, Accepts
<1>7. CASE phase = "day-vote"
  <2>1. p \in alive /\ a \in BallotMenu(p)
    BY <1>7 DEF ValidActions
  <2>2. CanDayVote(p, a.target) /\ a.type = "day-vote"
    BY <1>7, <2>1 DEF BallotMenu, Act, CanDayVote
  <2> QED BY <2>2 DEF Accepts
<1>8. phase \in {"hunter-shoot", "night-werewolf-vote", "night-witch", "night-seer",
                "day-speeches", "day-vote"}
  BY DEF ValidActions, IInv, TypeOK, Phases
<1> QED BY <1>2, <1>3, <1>4, <1>5, <1>6, <1>7, <1>8

\* getValidActions and applyAction agree: what is offered is accepted.
THEOREM EngineMenusAccepted == Spec => []MenusAccepted
BY IInvMenusAccepted, EngineInvariant, PTL

-----------------------------------------------------------------------------
(* The engine implements the rules.                                         *)

\* Victims at most two, with the verdict on the survivors or none yet, is a step
\* of the rules, or none at all.
LEMMA RulesStep ==
  ASSUME winner = "none",
         NEW A \in SUBSET alive, NEW B \in SUBSET alive, NEW s, NEW t,
         A \subseteq {s}, B \subseteq {t},
         alive' = alive \ (A \cup B),
         winner' \in {"none", WinnerOf(alive')}
  PROVE  Rules!Next \/ UNCHANGED <<alive, winner>>
<1>1. CASE A \cup B = {}
  BY <1>1 DEF Rules!Next, Rules!Declare
<1>2. CASE A \cup B # {}
  <2>1. PICK p \in alive, q \in alive : A \cup B = {p, q}
    BY <1>2
  <2>2. Rules!Die(p, q)
    BY <2>1 DEF Rules!Die
  <2> QED BY <2>2 DEF Rules!Next
<1> QED BY <1>1, <1>2

\* One player leaves the living, or none does (a banishment, a hunter's shot).
LEMMA RulesStepOfOne ==
  ASSUME winner = "none", NEW x,
         alive' = alive \ ({x} \ {None}),
         winner' \in {winner, WinnerOf(alive')}
  PROVE  Rules!Next \/ UNCHANGED <<alive, winner>>
<1>1. CASE x \in alive /\ x # None
  <2>1. alive' = alive \ {x, x} /\ winner' \in {"none", WinnerOf(alive')}
    BY <1>1
  <2>2. Rules!Die(x, x)
    BY <1>1, <2>1 DEF Rules!Die
  <2> QED BY <1>1, <2>2 DEF Rules!Next
<1>2. CASE ~(x \in alive /\ x # None)
  <2>1. alive' = alive
    BY <1>2
  <2> QED BY <2>1 DEF Rules!Next, Rules!Declare
<1> QED BY <1>1, <1>2

\* The morning is a step of WerewolfRules, or a stutter when nobody died: two
\* victims at most, and the verdict is on those who are left.
LEMMA ResolveNightImplements ==
  ASSUME IInv, phase \in NightPhases, NEW n, NightOK(n),
         AdvanceToNightWitch(n) \/ AdvanceToNightSeer(n) \/ ResolveNight(n)
  PROVE  Rules!Next \/ UNCHANGED <<alive, winner>>
<1>1. CASE ResolveNight(n)
  <2>1. /\ alive' = alive \ (Killed(n) \cup Poisoned(n))
        /\ winner' \in {winner, WinnerOf(alive')}
    BY <1>1 DEF ResolveNight
  <2>2. winner = "none"
    BY DEF IInv, GameOverWhenDecided, NightPhases
  <2>3. PICK s \in Players \cup {None}, t \in Players \cup {None} :
          Killed(n) \subseteq {s} /\ Poisoned(n) \subseteq {t}
    BY NightVictims DEF IInv, TypeOK
  <2>4. Killed(n) \in SUBSET alive /\ Poisoned(n) \in SUBSET alive
    BY NightVictims DEF IInv, TypeOK, NonWolves
  <2> QED BY <2>1, <2>2, <2>3, <2>4, RulesStep
<1>2. CASE SameDay
  BY <1>2 DEF SameDay
<1> QED BY <1>1, <1>2 DEF AdvanceToNightWitch, AdvanceToNightSeer

\* Every step of the engine is a step of the rules or leaves what the rules
\* speak of alone.
LEMMA NextImplements ==
  ASSUME IInv, [Next]_vars
  PROVE  [Rules!Next]_<<alive, winner>>
<1>1. ASSUME NEW t \in Players, NEW v \in Players, WerewolfVote(v, t)
      PROVE  Rules!Next \/ UNCHANGED <<alive, winner>>
  <2> DEFINE n == [pendingNight EXCEPT !.werewolfVotes[v] = t]
  <2>1. NightOK(n) /\ phase \in NightPhases
    BY <1>1 DEF WerewolfVote, CanWerewolfVote, IInv, NightInv, NightOK, PendingNights, NightPhases
  <2> QED BY <1>1, <2>1, ResolveNightImplements DEF WerewolfVote, SameDay
<1>2. ASSUME NEW t \in Players, WitchPoison(t)
      PROVE  Rules!Next \/ UNCHANGED <<alive, winner>>
  <2>1. NightOK([pendingNight EXCEPT !.witchPoisoned = t]) /\ phase \in NightPhases
    BY <1>2 DEF WitchPoison, CanWitchPoison, IInv, NightInv, NightOK, PendingNights, NightPhases
  <2> QED BY <1>2, <2>1, ResolveNightImplements DEF WitchPoison
<1>3. CASE WitchSkipPoison
  BY <1>3, ResolveNightImplements DEF WitchSkipPoison, CanWitchSkipPoison, IInv, NightInv, NightPhases
<1>4. ASSUME NEW t \in Players, SeerDivine(t)
      PROVE  Rules!Next \/ UNCHANGED <<alive, winner>>
  <2>1. NightOK([pendingNight EXCEPT !.seerTarget = t]) /\ phase \in NightPhases
    BY <1>4 DEF SeerDivine, CanSeerDivine, IInv, NightInv, NightOK, PendingNights, NightPhases
  <2> QED BY <1>4, <2>1, ResolveNightImplements DEF SeerDivine
<1>5. ASSUME NEW t \in Players \cup {None}, NEW v \in Players, DayVote(v, t)
      PROVE  Rules!Next \/ UNCHANGED <<alive, winner>>
  <2> DEFINE b == [pendingDayVote EXCEPT !.votes[v] = t]
             c == [b EXCEPT !.banished = Plurality(b.votes)]
  <2>1. CASE UNCHANGED <<alive, winner>>
    BY <2>1
  <2>2. CASE AdvanceFromDayResolve(c)
    <3>1. /\ alive' = alive \ ({c.banished} \ {None})
          /\ winner' \in {winner, WinnerOf(alive')}
      BY <2>2 DEF AdvanceFromDayResolve, GameOver, StartNextNight
    <3>2. winner = "none"
      BY <1>5 DEF DayVote, CanDayVote, IInv, GameOverWhenDecided
    <3> HIDE DEF c
    <3> QED BY <3>1, <3>2, RulesStepOfOne
  <2> QED BY <1>5, <2>1, <2>2 DEF DayVote
<1>6. ASSUME NEW t \in Players \cup {None}, HunterShoot(t)
      PROVE  Rules!Next \/ UNCHANGED <<alive, winner>>
  <2>1. /\ alive' = alive \ ({t} \ {None})
        /\ winner' \in {winner, WinnerOf(alive')}
    BY <1>6 DEF HunterShoot, GameOver, StartNextNight
  <2>2. winner = "none"
    BY <1>6 DEF HunterShoot, CanHunterShoot, IInv, GameOverWhenDecided
  <2> QED BY <2>1, <2>2, RulesStepOfOne
<1>7. ASSUME \/ StartFirstNight \/ WitchSkipSave
             \/ \E t \in Players : WitchSave(t)
             \/ \E p \in Players : Speak(p)
             \/ UNCHANGED vars
      PROVE  UNCHANGED <<alive, winner>>
  BY <1>7 DEF StartFirstNight, WitchSkipSave, WitchSave, Speak, SameDay, vars
<1> QED BY <1>1, <1>2, <1>3, <1>4, <1>5, <1>6, <1>7 DEF Next

\* A death is final, at most two die at a time, and a verdict is the survivors'
\* and ends the game.
THEOREM EngineImplementsRules == Spec => ImplementsRules
<1>1. Init => Rules!Init
  BY DEF Init, Rules!Init
<1> QED BY <1>1, EngineInvariant, NextImplements, PTL DEF Spec, ImplementsRules, Rules!Spec

-----------------------------------------------------------------------------
(* Voting.                                                                  *)

\* A decided ballot lasts until the game is over or the banished hunter has
\* shot; and a ballot in its first round has no list of candidates.
VotesInv ==
  /\ pendingDayVote.banished # None =>
       phase = "game-over" \/ (phase = "hunter-shoot" /\ pendingHunterShoot.cause = "banishment")
  /\ phase = "day-vote" /\ pendingDayVote.pkRound = 0 => pendingDayVote.pkCandidates = {}
  /\ BallotOfTheLiving /\ BanishedByPlurality

\* How many votes a target has is a number, and not zero for a target.
LEMMA VotesForIsNatural ==
  ASSUME NEW votes, NEW t
  PROVE  /\ VotesFor(votes, t) \in Nat
         /\ t \in Targets(votes) => VotesFor(votes, t) > 0
         /\ t \in Players /\ t \notin Targets(votes) => VotesFor(votes, t) = 0
<1> DEFINE who == {p \in Players : votes[p] = t}
<1>1. IsFiniteSet(who)
  <2>1. who \subseteq Players
    OBVIOUS
  <2> HIDE DEF who
  <2> QED BY <2>1, RolesAssumption, FS_Subset
<1>2. Cardinality(who) \in Nat /\ (Cardinality(who) = 0 <=> who = {})
  <2> HIDE DEF who
  <2> QED BY <1>1, FS_CardinalityType, FS_EmptySet
<1>3. t \in Targets(votes) => who # {}
  BY DEF Targets
<1>4. t \in Players /\ t \notin Targets(votes) => who = {}
  BY DEF Targets
<1>5. VotesFor(votes, t) = Cardinality(who)
  BY DEF VotesFor
<1> HIDE DEF who
<1> QED BY <1>2, <1>3, <1>4, <1>5

\* A plurality has more votes than anybody else.
LEMMA PluralityLeads ==
  ASSUME NEW votes, NEW t \in Players, Plurality(votes) = t
  PROVE  \A u \in Players \ {t} : VotesFor(votes, u) < VotesFor(votes, t)
<1>1. Leaders(votes) = {t}
  BY RolesAssumption DEF Plurality
<1>2. t \in Targets(votes) /\ \A u \in Targets(votes) : VotesFor(votes, u) <= VotesFor(votes, t)
  BY <1>1 DEF Leaders
<1>3. TAKE u \in Players \ {t}
<1>4. VotesFor(votes, u) \in Nat /\ VotesFor(votes, t) \in Nat /\ VotesFor(votes, t) > 0
  BY <1>2, VotesForIsNatural
<1>5. CASE u \notin Targets(votes)
  BY <1>4, <1>5, VotesForIsNatural
<1>6. CASE u \in Targets(votes)
  <2>1. u \notin Leaders(votes)
    BY <1>1
  <2>2. PICK w \in Targets(votes) : ~(VotesFor(votes, w) <= VotesFor(votes, u))
    BY <1>6, <2>1 DEF Leaders
  <2>3. VotesFor(votes, w) \in Nat /\ VotesFor(votes, w) <= VotesFor(votes, t)
    BY <1>2, VotesForIsNatural
  <2> QED BY <1>4, <2>2, <2>3
<1> QED BY <1>5, <1>6

\* A tie has no leader or several.
LEMMA TiedLeaders ==
  ASSUME NEW votes, Plurality(votes) = None
  PROVE  Cardinality(Leaders(votes)) # 1
<1>1. Leaders(votes) \subseteq Players
  BY DEF Leaders, Targets
<1>2. IsFiniteSet(Leaders(votes))
  BY <1>1, RolesAssumption, FS_Subset
<1>3. ASSUME NEW t, Leaders(votes) = {t} PROVE FALSE
  <2>1. Plurality(votes) = t
    BY <1>3 DEF Plurality
  <2> QED BY <1>1, <1>3, <2>1, RolesAssumption
<1> QED BY <1>2, <1>3, FS_Singleton

\* A step that leaves the ballot as it is outside of the vote.
LEMMA BallotAtRest ==
  ASSUME VotesInv, phase \notin {"game-over", "hunter-shoot"},
         pendingDayVote' = pendingDayVote, phase' # "day-vote"
  PROVE  VotesInv'
BY DEF VotesInv, BallotOfTheLiving, BanishedByPlurality

\* A vote that does not end the ballot, and the candidates it leaves.
LEMMA BallotNarrows ==
  ASSUME IInv, VotesInv, NEW v \in Players, NEW t \in Players \cup {None}, DayVote(v, t),
         phase' = "day-vote"
  PROVE  /\ VotesInv'
         /\ pendingDayVote.pkCandidates # {}
            => /\ pendingDayVote'.pkCandidates # {}
               /\ pendingDayVote'.pkCandidates \subseteq pendingDayVote.pkCandidates
<1> DEFINE b == [pendingDayVote EXCEPT !.votes[v] = t]
<1>1. /\ phase = "day-vote" /\ v \in alive /\ t \in alive \cup {None}
      /\ t # None => OnBallot(t)
      /\ alive \subseteq Players /\ pendingDayVote \in Ballots
      /\ pendingDayVote.banished = None
  BY DEF DayVote, CanDayVote, IInv, TypeOK, Ballots, VotesInv
<1>2. /\ b \in Ballots /\ b.banished = None
      /\ b.pkRound = pendingDayVote.pkRound /\ b.pkCandidates = pendingDayVote.pkCandidates
      /\ Targets(b.votes) \subseteq Targets(pendingDayVote.votes) \cup ({t} \ {None})
  BY <1>1, VoteCast
<1>3. \A p \in Players : b.votes[p] = IF p = v THEN t ELSE pendingDayVote.votes[p]
  BY <1>1 DEF Ballots
<1> HIDE DEF b
<1>4. Targets(b.votes) \subseteq alive
  BY <1>1, <1>2 DEF IInv, DayInv
<1>5. \A p \in Players : b.votes[p] \notin {None, NotVoted} => OnBallot(b.votes[p])
  BY <1>1, <1>3 DEF VotesInv, BallotOfTheLiving
<1>6. CASE pendingDayVote' = b /\ UNCHANGED <<alive, phase>>
  <2>1. BallotOfTheLiving'
    BY <1>1, <1>2, <1>5, <1>6 DEF VotesInv, BallotOfTheLiving, OnBallot
  <2>2. BanishedByPlurality'
    BY <1>2, <1>6 DEF BanishedByPlurality
  <2> QED BY <1>1, <1>2, <1>6, <2>1, <2>2 DEF VotesInv
<1>7. CASE /\ Plurality(b.votes) = None
           /\ pendingDayVote' = NewBallot(b.pkRound + 1, NextCandidates(b))
           /\ UNCHANGED <<alive, phase>>
  <2> DEFINE C == NextCandidates(b)
  <2>1. C \subseteq alive /\ Cardinality(C) # 1
    BY <1>1, <1>2, <1>4, <1>7, TiedLeaders DEF NextCandidates, Leaders, VotesInv, BallotOfTheLiving
  <2>2. pendingDayVote.pkCandidates # {} => C # {} /\ C \subseteq pendingDayVote.pkCandidates
    <3>1. CASE Leaders(b.votes) = {}
      BY <1>2, <3>1 DEF NextCandidates
    <3>2. CASE Leaders(b.votes) # {} /\ pendingDayVote.pkCandidates # {}
      <4>1. pendingDayVote.pkRound # 0
        BY <1>1, <3>2 DEF VotesInv
      <4>2. Targets(b.votes) \subseteq pendingDayVote.pkCandidates
        BY <1>5, <3>2, <4>1, RolesAssumption DEF Targets, OnBallot
      <4> QED BY <3>2, <4>2 DEF NextCandidates, Leaders
    <3> QED BY <3>1, <3>2
  <2> HIDE DEF C
  <2>3. /\ pendingDayVote'.banished = None /\ pendingDayVote'.pkCandidates = C
        /\ pendingDayVote'.pkRound = b.pkRound + 1
        /\ \A p \in Players : pendingDayVote'.votes[p] = NotVoted
    BY <1>7 DEF NewBallot, C
  <2>4. b.pkRound + 1 # 0
    BY <1>2 DEF Ballots
  <2>5. BallotOfTheLiving' /\ BanishedByPlurality'
    BY <1>7, <2>1, <2>3 DEF BallotOfTheLiving, BanishedByPlurality
  <2> QED BY <2>2, <2>3, <2>4, <2>5 DEF VotesInv
<1> QED BY <1>1, <1>6, <1>7 DEF DayVote, AdvanceFromDayResolve, GameOver, StartNextNight, b

\* The vote that decides: whoever is banished had the plurality.
LEMMA BallotDecides ==
  ASSUME IInv, VotesInv, NEW v \in Players, NEW t \in Players \cup {None}, DayVote(v, t),
         phase' # "day-vote"
  PROVE  VotesInv'
<1> DEFINE b == [pendingDayVote EXCEPT !.votes[v] = t]
           c == [b EXCEPT !.banished = Plurality(b.votes)]
<1>1. /\ phase = "day-vote" /\ v \in alive /\ t \in alive \cup {None}
      /\ alive \subseteq Players /\ pendingDayVote \in Ballots
  BY DEF DayVote, CanDayVote, IInv, TypeOK, Ballots
<1>2. /\ b \in Ballots
      /\ Voters(b.votes) = Voters(pendingDayVote.votes) \cup {v}
      /\ Targets(b.votes) \subseteq Targets(pendingDayVote.votes) \cup ({t} \ {None})
  BY <1>1, VoteCast
<1>3. Cardinality(Voters(b.votes)) = Cardinality(alive) /\ AdvanceFromDayResolve(c)
  BY <1>1 DEF DayVote
<1> HIDE DEF b
<1>4. Targets(b.votes) \subseteq alive /\ Voters(b.votes) \subseteq alive
  BY <1>1, <1>2 DEF IInv, DayInv
<1>5. Voters(b.votes) = alive
  BY <1>1, <1>3, <1>4, EverybodyDidIt
<1>6. Plurality(b.votes) \in alive \cup {None}
  BY <1>4, PluralityIsTarget
<1>7. c.votes = b.votes /\ c.banished = Plurality(b.votes)
  BY <1>1, <1>2, <1>6 DEF Ballots
<1> HIDE DEF c
<1>8. CASE pendingDayVote' = NewBallot(0, {})
  <2>1. pendingDayVote'.banished = None
    BY <1>8 DEF NewBallot
  <2> QED BY <2>1 DEF VotesInv, BallotOfTheLiving, BanishedByPlurality
<1>9. CASE /\ pendingDayVote' = c
           /\ \/ phase' = "game-over"
              \/ phase' = "hunter-shoot" /\ pendingHunterShoot'.cause = "banishment"
  <2>1. /\ alive' \subseteq alive
        /\ deaths' = Bury({c.banished} \ {None}, "banishment", deaths)
    BY <1>3 DEF AdvanceFromDayResolve
  <2>2. CASE c.banished # None
    <3>1. c.banished \in alive /\ deaths[c.banished] = {}
      BY <1>1, <1>6, <1>7, <2>2 DEF IInv, DeathLedger
    <3>2. deaths'[c.banished] = {"banishment"}
      BY <1>1, <2>1, <2>2, <3>1 DEF Bury
    <3>3. \A u \in Players \ {c.banished} : VotesFor(c.votes, u) < VotesFor(c.votes, c.banished)
      BY <1>1, <1>7, <3>1, PluralityLeads
    <3>4. BanishedByPlurality'
      BY <1>5, <1>7, <1>9, <2>1, <3>2, <3>3 DEF BanishedByPlurality, VotesFor, Voters
    <3> QED BY <1>9, <3>4 DEF VotesInv, BallotOfTheLiving
  <2>3. CASE c.banished = None
    BY <1>9, <2>3 DEF VotesInv, BallotOfTheLiving, BanishedByPlurality
  <2> QED BY <2>2, <2>3
<1> QED BY <1>3, <1>8, <1>9 DEF AdvanceFromDayResolve, GameOver, StartNextNight

\* The hunter's shot is at somebody else than the banished, if it is he.
LEMMA ShotKeepsVotes ==
  ASSUME IInv, VotesInv, NEW t \in Players \cup {None}, HunterShoot(t)
  PROVE  VotesInv'
<1>1. phase = "hunter-shoot" /\ phase' # "day-vote" /\ phase' # "hunter-shoot"
  BY DEF HunterShoot, CanHunterShoot, GameOver, StartNextNight
<1>2. CASE pendingDayVote'.banished = None
  BY <1>1, <1>2 DEF VotesInv, BallotOfTheLiving, BanishedByPlurality
<1>3. CASE pendingDayVote'.banished # None
  <2>1. pendingDayVote' = pendingDayVote /\ phase' = "game-over"
    BY <1>1, <1>3 DEF HunterShoot, GameOver, StartNextNight, NewBallot, VotesInv
  <2> DEFINE b == pendingDayVote.banished
  <2>2. b # None /\ b \in Players /\ deaths[b] = {"banishment"} /\ b \notin alive
    BY <1>3, <2>1 DEF VotesInv, BanishedByPlurality, IInv, TypeOK, DeathLedger
  <2>3. alive' \subseteq alive /\ deaths' = Bury({t} \ {None}, "hunter-shoot", deaths)
        /\ t \in alive \cup {None}
    BY DEF HunterShoot, CanHunterShoot
  <2>4. deaths'[b] = {"banishment"}
    BY <2>2, <2>3 DEF Bury
  <2> HIDE DEF b
  <2>5. BanishedByPlurality'
    BY <1>1, <2>1, <2>2, <2>3, <2>4 DEF b, VotesInv, BanishedByPlurality, VotesFor, Voters
  <2> QED BY <1>1, <2>1, <2>5 DEF VotesInv, BallotOfTheLiving
<1> QED BY <1>2, <1>3

\* Every step keeps the votes sound.
LEMMA NextVotesInv ==
  ASSUME IInv, VotesInv, [Next]_vars
  PROVE  VotesInv'
<1>1. CASE StartFirstNight
  <2>1. phase = "setup" /\ phase' = "night-werewolf-vote" /\ pendingDayVote' = pendingDayVote
    BY <1>1 DEF StartFirstNight
  <2> QED BY <2>1, BallotAtRest
<1>2. ASSUME \/ \E n : AdvanceToNightWitch(n) \/ AdvanceToNightSeer(n) \/ ResolveNight(n) \/ SameDay,
             phase \in NightPhases,
             phase' # "day-vote"
      PROVE  VotesInv'
  <2>1. pendingDayVote' = pendingDayVote
    BY <1>2 DEF AdvanceToNightWitch, AdvanceToNightSeer, ResolveNight, SameDay
  <2> QED BY <1>2, <2>1, BallotAtRest DEF NightPhases
<1>3. \A n : AdvanceToNightWitch(n) \/ AdvanceToNightSeer(n) \/ ResolveNight(n) => phase' # "day-vote"
  BY DEF AdvanceToNightWitch, AdvanceToNightSeer, ResolveNight
<1>4. ASSUME NEW t \in Players, NEW v \in Players, WerewolfVote(v, t) PROVE VotesInv'
  BY <1>2, <1>3, <1>4 DEF WerewolfVote, CanWerewolfVote, NightPhases
<1>5. ASSUME NEW t \in Players, WitchSave(t) PROVE VotesInv'
  BY <1>2, <1>5 DEF WitchSave, CanWitchSave, NightPhases
<1>6. CASE WitchSkipSave
  BY <1>2, <1>6 DEF WitchSkipSave, CanWitchSkipSave, NightPhases
<1>7. ASSUME NEW t \in Players, WitchPoison(t) PROVE VotesInv'
  BY <1>2, <1>3, <1>7 DEF WitchPoison, CanWitchPoison, NightPhases
<1>8. CASE WitchSkipPoison
  BY <1>2, <1>3, <1>8 DEF WitchSkipPoison, CanWitchSkipPoison, NightPhases
<1>9. ASSUME NEW t \in Players, SeerDivine(t) PROVE VotesInv'
  BY <1>2, <1>3, <1>9 DEF SeerDivine, CanSeerDivine, NightPhases
<1>10. ASSUME NEW p \in Players, Speak(p) PROVE VotesInv'
  <2>1. phase = "day-speeches"
    BY <1>10 DEF Speak, CanSpeak
  <2>2. CASE phase' # "day-vote" /\ pendingDayVote' = pendingDayVote
    BY <2>1, <2>2, BallotAtRest
  <2>3. CASE pendingDayVote' = NewBallot(0, {})
    <3>1. /\ pendingDayVote'.banished = None /\ pendingDayVote'.pkCandidates = {}
          /\ \A q \in Players : pendingDayVote'.votes[q] = NotVoted
      BY <2>3 DEF NewBallot
    <3> QED BY <3>1, FS_EmptySet DEF VotesInv, BallotOfTheLiving, BanishedByPlurality
  <2> QED BY <1>10, <2>1, <2>2, <2>3 DEF Speak
<1>11. ASSUME NEW t \in Players \cup {None}, NEW v \in Players, DayVote(v, t) PROVE VotesInv'
  BY <1>11, BallotNarrows, BallotDecides
<1>12. ASSUME NEW t \in Players \cup {None}, HunterShoot(t) PROVE VotesInv'
  BY <1>12, ShotKeepsVotes
<1>13. CASE UNCHANGED vars
  BY <1>13 DEF vars, VotesInv, BallotOfTheLiving, BanishedByPlurality, OnBallot
<1> QED BY <1>1, <1>4, <1>5, <1>6, <1>7, <1>8, <1>9, <1>10, <1>11, <1>12, <1>13 DEF Next

\* From one PK round to the next the candidates only become fewer.
Narrows ==
  /\ phase = "day-vote" /\ phase' = "day-vote"
  /\ pendingDayVote.pkCandidates # {}
  => /\ pendingDayVote'.pkCandidates # {}
     /\ pendingDayVote'.pkCandidates \subseteq pendingDayVote.pkCandidates

LEMMA NextNarrows ==
  ASSUME IInv, VotesInv, [Next]_vars
  PROVE  Narrows
<1> SUFFICES ASSUME phase = "day-vote", phase' = "day-vote" PROVE Narrows
  BY DEF Narrows
<1>1. ASSUME NEW t \in Players \cup {None}, NEW v \in Players, DayVote(v, t) PROVE Narrows
  BY <1>1, BallotNarrows DEF Narrows
<1>2. CASE UNCHANGED vars
  BY <1>2 DEF vars, Narrows
<1>3. CASE \E t \in Players \cup {None}, v \in Players : DayVote(v, t)
  BY <1>1, <1>3
<1> QED
  BY <1>2, <1>3 DEF Next, StartFirstNight, WerewolfVote, CanWerewolfVote, WitchSave, CanWitchSave,
    WitchSkipSave, CanWitchSkipSave, WitchPoison, CanWitchPoison, WitchSkipPoison, CanWitchSkipPoison,
    SeerDivine, CanSeerDivine, Speak, CanSpeak, HunterShoot, CanHunterShoot

\* Nothing has been voted on when the game is created.
LEMMA InitVotesInv == Init => VotesInv
<1> SUFFICES ASSUME Init PROVE VotesInv
  OBVIOUS
<1>1. phase = "setup" /\ pendingDayVote.banished = None
  BY DEF Init, NewBallot
<1> QED BY <1>1 DEF VotesInv, BallotOfTheLiving, BanishedByPlurality

\* Candidates live and are never one alone, votes are for candidates, the
\* banished had more votes than anybody with everybody voting, and a PK round
\* never adds a candidate.
THEOREM EngineVotesSound == Spec => VotesSound
<1>1. VotesInv => BallotOfTheLiving /\ BanishedByPlurality
  BY DEF VotesInv
<1>2. Narrows => (/\ phase = "day-vote" /\ phase' = "day-vote"
                  /\ pendingDayVote.pkCandidates # {}
                  => /\ pendingDayVote'.pkCandidates # {}
                     /\ pendingDayVote'.pkCandidates \subseteq pendingDayVote.pkCandidates)
  BY DEF Narrows
<1> QED
  BY <1>1, <1>2, InitVotesInv, NextVotesInv, NextNarrows, EngineInvariant, PTL DEF Spec, VotesSound

-----------------------------------------------------------------------------
(* Potions, and who dies of what.                                           *)

Unpoisoned == \A p \in Players : "witch-poison" \notin deaths[p]

\* What a night holds of the witch: she saved the victim of the wolves or
\* nobody, and did not poison on top; whom she poisons is not a witch, and is
\* the first one.
PotionsOf(n, unused) ==
  /\ n.witchSaved # None =>
       n.witchSaved = Plurality(n.werewolfVotes) /\ n.witchPoisoned = None
  /\ n.witchPoisoned # None => Role[n.witchPoisoned] # "witch" /\ ~unused /\ Unpoisoned

PotionsInv ==
  /\ PotionsOf(pendingNight, witchPotions.hasPoison)
  /\ witchPotions.hasPoison => Unpoisoned
  /\ phase = "hunter-shoot" =>
       deaths[pendingHunterShoot.hunterId] \cap {"wolf-kill", "banishment"} # {}
  /\ KillsFitRoles /\ ShotNeedsHunter

\* The part of the invariant that is about the dead only: it stays true while
\* causes other than the wolves', the witch's and the hunter's are added.
LEMMA ShotNeedsHunterGrows ==
  ASSUME IInv, ShotNeedsHunter, alive' \subseteq alive,
         \A p \in Players : /\ deaths[p] \subseteq deaths'[p]
                            /\ "hunter-shoot" \in deaths'[p] => "hunter-shoot" \in deaths[p]
  PROVE  ShotNeedsHunter'
<1> SUFFICES ASSUME NEW p \in Players, "hunter-shoot" \in deaths'[p]
             PROVE  \E h \in PlayersWith({"hunter"}, Players \ alive') :
                      deaths'[h] \cap {"wolf-kill", "banishment"} # {}
  BY DEF ShotNeedsHunter, PlayersWith
<1>1. PICK h \in PlayersWith({"hunter"}, Players \ alive) :
             deaths[h] \cap {"wolf-kill", "banishment"} # {}
  BY DEF ShotNeedsHunter
<1>2. h \in PlayersWith({"hunter"}, Players \ alive') /\ h \in Players
  BY <1>1 DEF PlayersWith
<1> QED BY <1>1, <1>2

\* The morning: a saved victim lives, and the potion kills once.
LEMMA ResolveNightPotions ==
  ASSUME IInv, PotionsInv, NEW n, NightOK(n), PotionsOf(n, witchPotions'.hasPoison),
         witchPotions'.hasPoison => witchPotions.hasPoison,
         ResolveNight(n)
  PROVE  PotionsInv' /\ (n.witchSaved # None => alive' = alive)
<1> DEFINE killed == Killed(n)
           poisoned == Poisoned(n)
<1>1. /\ alive' = alive \ (killed \cup poisoned)
      /\ deaths' = Bury(poisoned, "witch-poison", Bury(killed, "wolf-kill", deaths))
      /\ pendingNight' = EmptyPendingNight
      /\ phase' = "hunter-shoot" =>
           /\ PlayersWith({"hunter"}, killed) # {}
           /\ pendingHunterShoot'.hunterId = Plurality(n.werewolfVotes)
  BY DEF ResolveNight
<1>2. /\ killed \subseteq NonWolves(alive) /\ killed \subseteq {Plurality(n.werewolfVotes)}
      /\ poisoned \subseteq alive /\ poisoned \subseteq {n.witchPoisoned} \ {None}
      /\ alive \subseteq Players
  BY NightVictims DEF IInv, TypeOK, Poisoned
<1>3. n.witchSaved # None => killed = {} /\ poisoned = {}
  BY <1>2 DEF PotionsOf, Killed
<1> HIDE DEF killed, poisoned
<1>4. \A p \in Players : /\ deaths[p] \subseteq deaths'[p]
                         /\ "wolf-kill" \in deaths'[p] <=> "wolf-kill" \in deaths[p] \/ p \in killed
                         /\ "witch-poison" \in deaths'[p] <=> "witch-poison" \in deaths[p] \/ p \in poisoned
                         /\ "hunter-shoot" \in deaths'[p] <=> "hunter-shoot" \in deaths[p]
  BY <1>1 DEF Bury
<1>5. KillsFitRoles'
  <2>1. \A p \in killed : Role[p] # "werewolf"
    BY <1>2 DEF NonWolves, Wolves, PlayersWith
  <2>2. \A p \in poisoned : Role[p] # "witch" /\ Unpoisoned /\ p = n.witchPoisoned
    BY <1>2 DEF PotionsOf
  <2> QED BY <1>4, <2>1, <2>2 DEF PotionsInv, KillsFitRoles, Unpoisoned
<1>6. ShotNeedsHunter'
  BY <1>1, <1>4, ShotNeedsHunterGrows DEF PotionsInv
<1>7. phase' = "hunter-shoot" =>
        deaths'[pendingHunterShoot'.hunterId] \cap {"wolf-kill", "banishment"} # {}
  <2> SUFFICES ASSUME phase' = "hunter-shoot"
               PROVE  "wolf-kill" \in deaths'[pendingHunterShoot'.hunterId]
    OBVIOUS
  <2>1. PICK h \in killed : TRUE
    BY <1>1 DEF PlayersWith
  <2>2. h = pendingHunterShoot'.hunterId /\ h \in Players
    BY <1>1, <1>2, <2>1 DEF NonWolves
  <2> QED BY <1>4, <2>1, <2>2
<1>8. PotionsOf(EmptyPendingNight, witchPotions.hasPoison)'
  BY DEF PotionsOf, EmptyPendingNight
<1>9. witchPotions'.hasPoison => Unpoisoned'
  <2>1. witchPotions'.hasPoison => poisoned = {}
    BY <1>2 DEF PotionsOf
  <2> QED BY <1>4, <2>1 DEF PotionsInv, Unpoisoned
<1> QED BY <1>1, <1>3, <1>5, <1>6, <1>7, <1>8, <1>9 DEF PotionsInv, PotionsOf, EmptyPendingNight

\* Going on in the night, with what the witch has decided.
LEMMA NightPotions ==
  ASSUME IInv, PotionsInv, phase \in NightPhases,
         NEW n, NightOK(n), PotionsOf(n, witchPotions'.hasPoison),
         witchPotions'.hasPoison => witchPotions.hasPoison,
         \/ AdvanceToNightWitch(n) \/ AdvanceToNightSeer(n) \/ ResolveNight(n)
         \/ SameDay /\ pendingNight' = n /\ phase' = phase
  PROVE  PotionsInv' /\ (n.witchSaved # None /\ dayNumber' > dayNumber => alive' = alive)
<1>1. CASE ResolveNight(n)
  BY <1>1, ResolveNightPotions
<1>2. CASE SameDay /\ pendingNight' = n /\ phase' # "hunter-shoot"
  <2>1. PotionsOf(pendingNight, witchPotions.hasPoison)'
    BY <1>2 DEF PotionsOf, SameDay, Unpoisoned
  <2>2. PotionsInv'
    BY <1>2, <2>1 DEF PotionsInv, SameDay, KillsFitRoles, ShotNeedsHunter, Unpoisoned, PlayersWith
  <2> QED BY <1>2, <2>2 DEF SameDay
<1> QED BY <1>1, <1>2 DEF AdvanceToNightWitch, AdvanceToNightSeer, NightPhases

\* A day's death, by the village or the hunter, with nothing pending of a night.
LEMMA DayPotions ==
  ASSUME IInv, PotionsInv, phase \in {"day-vote", "hunter-shoot"},
         pendingNight' \in {pendingNight, EmptyPendingNight}, witchPotions' = witchPotions,
         alive' \subseteq alive,
         NEW out, NEW cause \in {"banishment", "hunter-shoot"}, deaths' = Bury(out, cause, deaths),
         ShotNeedsHunter',
         phase' = "hunter-shoot" =>
           deaths'[pendingHunterShoot'.hunterId] \cap {"wolf-kill", "banishment"} # {}
  PROVE  PotionsInv'
<1>1. pendingNight = EmptyPendingNight
  BY DEF IInv, NightInv, NightPhases
<1>2. \A p \in Players : /\ "wolf-kill" \in deaths'[p] <=> "wolf-kill" \in deaths[p]
                         /\ "witch-poison" \in deaths'[p] <=> "witch-poison" \in deaths[p]
  BY DEF Bury
<1>3. KillsFitRoles' /\ (witchPotions'.hasPoison => Unpoisoned')
  BY <1>2 DEF PotionsInv, KillsFitRoles, Unpoisoned
<1>4. PotionsOf(pendingNight, witchPotions.hasPoison)'
  BY <1>1 DEF PotionsOf, EmptyPendingNight
<1> QED BY <1>3, <1>4 DEF PotionsInv

\* The bloodless night of the action property.
SavedIsBloodless ==
  pendingNight.witchSaved # None /\ dayNumber' > dayNumber => alive' = alive

\* The night's actors.
LEMMA NightActorsPotions ==
  ASSUME IInv, PotionsInv, NEW t \in Players, NEW v \in Players,
         \/ WerewolfVote(v, t) \/ SeerDivine(t)
         \/ WitchSave(t) \/ WitchSkipSave \/ WitchPoison(t) \/ WitchSkipPoison
  PROVE  PotionsInv' /\ SavedIsBloodless
<1> USE DEF SavedIsBloodless
<1>0. /\ pendingNight \in PendingNights /\ NightOK(pendingNight)
      /\ PotionsOf(pendingNight, witchPotions.hasPoison)
      /\ witchPotions \in Potions
  BY DEF IInv, TypeOK, NightInv, NightOK, PotionsInv, Potions
<1>1. CASE WerewolfVote(v, t)
  <2> DEFINE n == [pendingNight EXCEPT !.werewolfVotes[v] = t]
  <2>1. phase = "night-werewolf-vote" /\ t \in NonWolves(alive) /\ witchPotions' = witchPotions
    BY <1>1 DEF WerewolfVote, CanWerewolfVote
  <2>2. NightOK(n) /\ n.witchSaved = None /\ n.witchPoisoned = None /\ pendingNight.witchSaved = None
    BY <2>1 DEF IInv, NightInv, NightOK, PendingNights
  <2>3. PotionsOf(n, witchPotions'.hasPoison)
    BY <2>2 DEF PotionsOf
  <2>4. \/ AdvanceToNightWitch(n)
        \/ SameDay /\ pendingNight' = n /\ phase' = phase
    BY <1>1 DEF WerewolfVote
  <2> HIDE DEF n
  <2> QED BY <2>1, <2>2, <2>3, <2>4, NightPotions DEF NightPhases
<1>2. CASE WitchSave(t) \/ WitchSkipSave
  <2>1. /\ phase = "night-witch" /\ SameDay /\ phase' = phase
        /\ witchPotions'.hasPoison = witchPotions.hasPoison
    BY <1>0, <1>2 DEF WitchSave, CanWitchSave, WitchSkipSave, CanWitchSkipSave, Potions
  <2>2. NightOK(pendingNight') /\ PotionsOf(pendingNight', witchPotions'.hasPoison)
    BY <1>0, <1>2, <2>1 DEF WitchSave, CanWitchSave, WitchSkipSave, NightOK, PotionsOf, PendingNights
  <2>3. PICK n : n = pendingNight'
    OBVIOUS
  <2>4. PotionsInv'
    BY <2>1, <2>2, <2>3, NightPotions DEF NightPhases
  <2> QED BY <2>1, <2>4 DEF SameDay
<1>3. CASE WitchPoison(t)
  <2> DEFINE n == [pendingNight EXCEPT !.witchPoisoned = t]
  <2>1. /\ phase = "night-witch" /\ t \in alive /\ Role[t] # "witch" /\ witchPotions.hasPoison
        /\ pendingNight.witchSaved = None /\ AdvanceToNightSeer(n)
        /\ witchPotions'.hasPoison = FALSE
    BY <1>0, <1>3 DEF WitchPoison, CanWitchPoison, Potions
  <2>2. NightOK(n) /\ n.witchSaved = None /\ n.witchPoisoned = t
    BY <1>0, <2>1 DEF NightOK, PendingNights
  <2>3. PotionsOf(n, witchPotions'.hasPoison)
    BY <2>1, <2>2 DEF PotionsOf, PotionsInv
  <2> HIDE DEF n
  <2> QED BY <2>1, <2>2, <2>3, NightPotions DEF NightPhases
<1>4. CASE WitchSkipPoison
  BY <1>0, <1>4, NightPotions DEF WitchSkipPoison, CanWitchSkipPoison, NightPhases
<1>5. CASE SeerDivine(t)
  <2> DEFINE n == [pendingNight EXCEPT !.seerTarget = t]
  <2>1. phase = "night-seer" /\ ResolveNight(n) /\ witchPotions' = witchPotions
    BY <1>5 DEF SeerDivine, CanSeerDivine
  <2>2. NightOK(n) /\ n.witchSaved = pendingNight.witchSaved
        /\ n.witchPoisoned = pendingNight.witchPoisoned /\ n.werewolfVotes = pendingNight.werewolfVotes
    BY <1>0 DEF NightOK, PendingNights
  <2> HIDE DEF n
  <2>3. PotionsOf(n, witchPotions'.hasPoison)
    BY <1>0, <2>1, <2>2 DEF PotionsOf
  <2> QED BY <2>1, <2>2, <2>3, NightPotions DEF NightPhases
<1> QED BY <1>1, <1>2, <1>3, <1>4, <1>5

\* The vote that banishes, and the hunter's shot.
LEMMA DayActorsPotions ==
  ASSUME IInv, PotionsInv, NEW v \in Players, NEW t \in Players \cup {None},
         DayVote(v, t) \/ HunterShoot(t)
  PROVE  PotionsInv'
<1>1. CASE UNCHANGED <<phase, alive, deaths, pendingNight, pendingHunterShoot, witchPotions>>
  BY <1>1 DEF PotionsInv, PotionsOf, KillsFitRoles, ShotNeedsHunter, Unpoisoned, PlayersWith
<1>2. CASE DayVote(v, t) /\ \E b : AdvanceFromDayResolve(b)
  <2>1. PICK b : AdvanceFromDayResolve(b)
    BY <1>2
  <2>2. /\ phase = "day-vote" /\ witchPotions' = witchPotions
        /\ alive' \subseteq alive
        /\ deaths' = Bury({b.banished} \ {None}, "banishment", deaths)
        /\ pendingNight' \in {pendingNight, EmptyPendingNight}
        /\ phase' = "hunter-shoot" =>
             /\ PlayersWith({"hunter"}, {b.banished} \ {None}) # {}
             /\ pendingHunterShoot'.hunterId = b.banished
    <3>1. phase = "day-vote" /\ witchPotions' = witchPotions
      BY <1>2 DEF DayVote, CanDayVote
    <3> QED BY <2>1, <3>1 DEF AdvanceFromDayResolve, GameOver, StartNextNight
  <2>3. ShotNeedsHunter'
    <3>1. \A p \in Players : /\ deaths[p] \subseteq deaths'[p]
                             /\ "hunter-shoot" \in deaths'[p] => "hunter-shoot" \in deaths[p]
      BY <2>2 DEF Bury
    <3> QED BY <2>2, <3>1, ShotNeedsHunterGrows DEF PotionsInv
  <2>4. phase' = "hunter-shoot" => "banishment" \in deaths'[pendingHunterShoot'.hunterId]
    <3> SUFFICES ASSUME phase' = "hunter-shoot" PROVE "banishment" \in deaths'[b.banished]
      BY <2>2
    <3>1. b.banished # None
      BY <2>2 DEF PlayersWith
    <3>2. pendingHunterShoot'.hunterId \in Players
      <4>1. IInv'
        BY <1>2, DayVoteKeeps
      <4> QED BY <4>1 DEF IInv, HunterInv, PlayersWith
    <3> QED BY <2>2, <3>1, <3>2 DEF Bury
  <2>5. phase' = "hunter-shoot" =>
          deaths'[pendingHunterShoot'.hunterId] \cap {"wolf-kill", "banishment"} # {}
    BY <2>4
  <2> QED BY <2>2, <2>3, <2>5, DayPotions
<1>3. CASE HunterShoot(t)
  <2>1. /\ phase = "hunter-shoot" /\ phase' # "hunter-shoot" /\ witchPotions' = witchPotions
        /\ alive' \subseteq alive
        /\ deaths' = Bury({t} \ {None}, "hunter-shoot", deaths)
        /\ pendingNight' \in {pendingNight, EmptyPendingNight}
    BY <1>3 DEF HunterShoot, CanHunterShoot, GameOver, StartNextNight
  <2>2. ShotNeedsHunter'
    <3> DEFINE h == pendingHunterShoot.hunterId
    <3>1. h \in PlayersWith({"hunter"}, Players \ alive) /\ deaths[h] \cap {"wolf-kill", "banishment"} # {}
      BY <2>1 DEF IInv, HunterInv, PotionsInv
    <3> HIDE DEF h
    <3>2. h \in Players /\ h \in PlayersWith({"hunter"}, Players \ alive')
      BY <2>1, <3>1 DEF PlayersWith
    <3>3. deaths'[h] \cap {"wolf-kill", "banishment"} # {}
      BY <2>1, <3>1, <3>2 DEF Bury
    <3> QED BY <3>2, <3>3 DEF ShotNeedsHunter, PlayersWith
  <2> QED BY <2>1, <2>2, DayPotions
<1> QED BY <1>1, <1>2, <1>3 DEF DayVote

\* Every step keeps the potions and the causes of death in order, and no saved
\* night is bloody.
LEMMA NextPotionsInv ==
  ASSUME IInv, PotionsInv, [Next]_vars
  PROVE  PotionsInv' /\ SavedIsBloodless
<1>1. CASE StartFirstNight
  <2>1. /\ pendingNight' = EmptyPendingNight /\ phase' # "hunter-shoot"
        /\ UNCHANGED <<alive, deaths, witchPotions, dayNumber>>
    BY <1>1 DEF StartFirstNight
  <2>2. PotionsOf(pendingNight, witchPotions.hasPoison)'
    BY <2>1 DEF PotionsOf, EmptyPendingNight
  <2>3. KillsFitRoles' /\ ShotNeedsHunter'
    BY <2>1 DEF PotionsInv, KillsFitRoles, ShotNeedsHunter, PlayersWith
  <2> QED BY <2>1, <2>2, <2>3 DEF PotionsInv, Unpoisoned, SavedIsBloodless
<1>2. ASSUME NEW t \in Players, NEW v \in Players, WerewolfVote(v, t)
      PROVE  PotionsInv' /\ SavedIsBloodless
  BY <1>2, NightActorsPotions
<1>3. ASSUME NEW t \in Players,
             \/ WitchSave(t) \/ WitchSkipSave \/ WitchPoison(t) \/ WitchSkipPoison \/ SeerDivine(t)
      PROVE  PotionsInv' /\ SavedIsBloodless
  BY <1>3, NightActorsPotions
<1>4. Players # {}
  BY DistributionAssumption DEF WinnerOf, Wolves, PlayersWith
<1>5. CASE WitchSkipSave \/ WitchSkipPoison
  BY <1>3, <1>4, <1>5
<1>6. ASSUME NEW p \in Players, Speak(p) PROVE PotionsInv' /\ SavedIsBloodless
  <2>1. /\ UNCHANGED <<alive, deaths, witchPotions, dayNumber, pendingNight, pendingHunterShoot>>
        /\ phase' # "hunter-shoot"
    BY <1>6 DEF Speak, CanSpeak
  <2> QED BY <2>1 DEF PotionsInv, PotionsOf, KillsFitRoles, ShotNeedsHunter, Unpoisoned, PlayersWith,
                      SavedIsBloodless
<1>7. ASSUME NEW t \in Players \cup {None}, NEW v \in Players, DayVote(v, t)
      PROVE  PotionsInv' /\ SavedIsBloodless
  <2>1. dayNumber' = dayNumber /\ dayNumber \in Nat
    BY <1>7 DEF DayVote, IInv, TypeOK
  <2> QED BY <1>7, <2>1, DayActorsPotions DEF SavedIsBloodless
<1>8. ASSUME NEW t \in Players \cup {None}, HunterShoot(t)
      PROVE  PotionsInv' /\ SavedIsBloodless
  <2>1. dayNumber' = dayNumber /\ dayNumber \in Nat
    BY <1>8 DEF HunterShoot, IInv, TypeOK
  <2> QED BY <1>4, <1>8, <2>1, DayActorsPotions DEF SavedIsBloodless
<1>9. CASE UNCHANGED vars
  BY <1>9 DEF vars, PotionsInv, PotionsOf, KillsFitRoles, ShotNeedsHunter, Unpoisoned, PlayersWith,
              SavedIsBloodless
<1> QED BY <1>1, <1>2, <1>3, <1>5, <1>6, <1>7, <1>8, <1>9 DEF Next

\* Nobody has died when the game is created.
LEMMA InitPotionsInv == Init => PotionsInv
BY DEF Init, PotionsInv, PotionsOf, KillsFitRoles, ShotNeedsHunter, Unpoisoned, EmptyPendingNight

\* A night on which the witch saved is bloodless; the wolves kill no wolf, the
\* witch no witch and at most one player a game; only a dead hunter shoots.
THEOREM EnginePotionsSound == Spec => PotionsSound
<1>1. PotionsInv => KillsFitRoles /\ ShotNeedsHunter
  BY DEF PotionsInv
<1>2. SavedIsBloodless =>
        (pendingNight.witchSaved # None /\ dayNumber' > dayNumber => alive' = alive)
  BY DEF SavedIsBloodless
<1> QED BY <1>1, <1>2, InitPotionsInv, NextPotionsInv, EngineInvariant, PTL DEF Spec, PotionsSound

-----------------------------------------------------------------------------
(* The match: the runner, the engine it drives and the lobby's board.        *)

\* The request in flight was made in the state the game is still in: its menu
\* is the player's menu now.
CallOK ==
  call # NoCall =>
    /\ status = "running" /\ artifact = "none"
    /\ call.player \in Players
    /\ call.menu = ValidActions(call.player) /\ call.menu # {}
    /\ stepCount < MaxSteps

\* What each stage of a match implies.
StatusInv ==
  /\ status = "preparing" => phase = "setup" /\ board.phase = "pre-match"
  /\ status = "running" => phase # "setup"
  /\ status = "failed" => winner = "none"
  /\ failure \in {"none", "missing agent", "too many steps"}

MatchInv == IInv /\ MatchTypeOK /\ StatusInv /\ CallOK /\ BoardShowsGame

-----------------------------------------------------------------------------
(* Least and greatest elements: what the CHOOSEs of the runner choose.      *)

\* A set of natural numbers with an element has a least one.
LEMMA LeastNatural ==
  ASSUME NEW S \in SUBSET Nat, S # {}
  PROVE  \E x \in S : \A y \in S : x <= y
<1>1. PICK x \in S : \A y \in S : ~ (<<y, x>> \in OpToRel(<, Nat))
  <2> DEFINE R == OpToRel(<, Nat)
  <2>1. IsWellFoundedOn(R, Nat)
    BY NatLessThanWellFounded
  <2> HIDE DEF R
  <2>2. \E x \in S : \A y \in S : ~ (<<y, x>> \in R)
    BY <2>1, WFMin
  <2> QED BY <2>2 DEF R
<1>2. ASSUME NEW y \in S PROVE x <= y
  <2>1. ~ (y < x)
    BY <1>1 DEF OpToRel
  <2> QED BY <2>1
<1> QED BY <1>2

\* A finite set with an element has one of the greatest measure.
LEMMA GreatestElement ==
  ASSUME NEW S, IsFiniteSet(S), S # {}, NEW f \in [S -> Nat]
  PROVE  \E x \in S : \A y \in S : f[x] >= f[y]
<1> DEFINE HasGreatest(T) == \E x \in T : \A y \in T : f[x] >= f[y]
           Bad == {k \in Nat : \E T \in SUBSET S :
                     IsFiniteSet(T) /\ T # {} /\ Cardinality(T) = k /\ ~HasGreatest(T)}
<1>1. SUFFICES ASSUME ~HasGreatest(S) PROVE FALSE
  OBVIOUS
<1>2. Bad # {}
  <2>1. Cardinality(S) \in Nat
    BY FS_CardinalityType
  <2> QED BY <1>1, <2>1
<1>3. PICK k \in Bad : \A j \in Bad : k <= j
  <2>1. Bad \in SUBSET Nat
    OBVIOUS
  <2> HIDE DEF Bad
  <2> QED BY <1>2, <2>1, LeastNatural
<1>4. PICK T \in SUBSET S : IsFiniteSet(T) /\ T # {} /\ Cardinality(T) = k /\ ~HasGreatest(T)
  BY <1>3
<1>5. PICK x \in T : TRUE
  BY <1>4
<1>6. IsFiniteSet(T \ {x}) /\ Cardinality(T \ {x}) = k - 1 /\ k \in Nat /\ k - 1 \in Nat
  <2>1. IsFiniteSet(T \ {x}) /\ Cardinality(T \ {x}) = Cardinality(T) - 1
    BY <1>4, <1>5, FS_RemoveElement
  <2>2. Cardinality(T \ {x}) \in Nat
    BY <2>1, FS_CardinalityType
  <2> QED BY <1>3, <1>4, <2>1, <2>2
<1>7. T \ {x} # {}
  BY <1>4, <1>5
<1>8. HasGreatest(T \ {x})
  <2>1. k - 1 \notin Bad
    BY <1>3, <1>6
  <2> QED BY <1>6, <1>7, <2>1
<1>9. PICK z \in T \ {x} : \A y \in T \ {x} : f[z] >= f[y]
  BY <1>8
<1>10. HasGreatest(T)
  <2>1. \A y \in T : f[y] \in Nat
    OBVIOUS
  <2>2. CASE f[x] >= f[z]
    <3>1. \A y \in T : f[x] >= f[y]
      BY <1>5, <1>9, <2>1, <2>2
    <3> QED BY <1>5, <3>1
  <2>3. CASE ~(f[x] >= f[z])
    <3>1. \A y \in T : f[z] >= f[y]
      BY <1>5, <1>9, <2>1, <2>3
    <3> QED BY <1>9, <3>1
  <2> QED BY <2>2, <2>3
<1> QED BY <1>4, <1>10

\* The player to act is one of those who can.
LEMMA NextActorActs ==
  ASSUME NEW actors \in SUBSET Players, actors # {}
  PROVE  NextActor(actors) \in actors
<1> DEFINE seats == {Seat[p] : p \in actors}
<1>1. seats \in SUBSET Nat /\ seats # {}
  BY MatchAssumption
<1>2. PICK s \in seats : \A y \in seats : s <= y
  <2> HIDE DEF seats
  <2> QED BY <1>1, LeastNatural
<1>3. \E p \in actors : \A q \in actors : Seat[p] <= Seat[q]
  BY <1>2
<1> QED BY <1>3 DEF NextActor

\* The place of an action in its menu is a number.
LEMMA PositionIsNatural ==
  ASSUME NEW a, a.target \in Players \cup {None}
  PROVE  Position(a) \in Nat
<1>1. Players # {} /\ IsFiniteSet(Players) /\ Seat \in [Players -> Nat]
  BY RolesAssumption, DistributionAssumption, MatchAssumption DEF WinnerOf, Wolves, PlayersWith
<1>2. \E p \in Players : \A q \in Players : Seat[p] >= Seat[q]
  BY <1>1, GreatestElement
<1>3. (CHOOSE p \in Players : \A q \in Players : Seat[p] >= Seat[q]) \in Players
  BY <1>2
<1> QED BY <1>1, <1>3 DEF Position

\* The fallback is an action of the menu.
LEMMA FallbackIsOffered ==
  ASSUME NEW menu, menu # {}, \A a \in menu : a.target \in Players \cup {None}
  PROVE  Fallback(menu) \in menu
<1> DEFINE places == {Position(a) : a \in menu}
<1>1. places \in SUBSET Nat /\ places # {}
  BY PositionIsNatural
<1>2. PICK s \in places : \A y \in places : s <= y
  <2> HIDE DEF places
  <2> QED BY <1>1, LeastNatural
<1>3. \E a \in menu : \A b \in menu : Position(a) <= Position(b)
  BY <1>2
<1> QED BY <1>3 DEF Fallback

-----------------------------------------------------------------------------
(* The engine's steps as the runner takes them.                             *)

\* Every action offered is aimed at a player or at nobody.
LEMMA MenuTargets ==
  ASSUME IInv, NEW p \in Players, NEW a \in ValidActions(p)
  PROVE  a.target \in Players \cup {None}
<1>1. alive \subseteq Players
  BY DEF IInv, TypeOK
<1>2. Plurality(pendingNight.werewolfVotes) \in Players \cup {None}
  BY PluralityIsTarget DEF Targets
<1> QED BY <1>1, <1>2 DEF ValidActions, HunterMenu, WolfMenu, WitchMenu, SeerMenu, SpeakMenu,
                          BallotMenu, NonWolves, Act

\* Applying an action is a step of the engine.
LEMMA ApplyIsStep ==
  ASSUME alive \subseteq Players, NEW p \in Players, NEW a, a.target \in Players \cup {None},
         Accepts(p, a), Apply(p, a)
  PROVE  Next /\ phase # "setup"
<1>1. Next
  <2>1. CASE a.type = "werewolf-vote" /\ WerewolfVote(p, a.target)
    <3>1. a.target \in Players
      BY <2>1, RolesAssumption DEF WerewolfVote, CanWerewolfVote, NonWolves, Wolves, PlayersWith
    <3> QED BY <2>1, <3>1 DEF Next
  <2>2. CASE WitchSave(a.target) \/ WitchPoison(a.target) \/ SeerDivine(a.target)
    <3>1. a.target \in Players
      BY <2>2 DEF WitchSave, CanWitchSave, WitchPoison, CanWitchPoison, SeerDivine, CanSeerDivine
    <3> QED BY <2>2, <3>1 DEF Next
  <2>3. CASE \/ WitchSkipSave \/ WitchSkipPoison \/ Speak(p)
            \/ DayVote(p, a.target) \/ HunterShoot(a.target)
    BY <2>3 DEF Next
  <2> QED BY <2>1, <2>2, <2>3 DEF Apply
<1>2. phase # "setup"
  BY DEF Accepts, CanWerewolfVote, CanWitchSave, CanWitchSkipSave, CanWitchPoison,
         CanWitchSkipPoison, CanSeerDivine, CanSpeak, CanDayVote, CanHunterShoot
<1> QED BY <1>1, <1>2

\* How a step goes on in a game that has begun.
Continues ==
  /\ phase' # "setup"
  /\ phase' = phase => UNCHANGED <<alive, nightNumber, dayNumber>>

\* A step that changes the phase starts no second game; one that does not is
\* nobody's death and no new night or day.
LEMMA StepUnderTheSamePhase ==
  ASSUME IInv, Next, phase # "setup"
  PROVE  Continues
<1>0. /\ \A n : ResolveNight(n) => phase' \in {"game-over", "hunter-shoot", "day-speeches"}
      /\ \A n : AdvanceToNightSeer(n) =>
           phase' \in {"night-seer", "game-over", "hunter-shoot", "day-speeches"}
      /\ \A n : AdvanceToNightWitch(n) =>
           phase' \in {"night-witch", "night-seer", "game-over", "hunter-shoot", "day-speeches"}
  BY DEF ResolveNight, AdvanceToNightSeer, AdvanceToNightWitch
<1>1. ASSUME NEW t \in Players, NEW v \in Players, WerewolfVote(v, t) PROVE Continues
  <2>1. phase = "night-werewolf-vote"
    BY <1>1 DEF WerewolfVote, CanWerewolfVote
  <2> QED BY <1>0, <1>1, <2>1 DEF Continues, WerewolfVote, SameDay
<1>2. ASSUME NEW t \in Players, WitchSave(t) PROVE Continues
  BY <1>2 DEF Continues, WitchSave, CanWitchSave, SameDay
<1>3. ASSUME NEW t \in Players, WitchPoison(t) PROVE Continues
  BY <1>0, <1>3 DEF Continues, WitchPoison, CanWitchPoison
<1>4. ASSUME NEW t \in Players, SeerDivine(t) PROVE Continues
  BY <1>0, <1>4 DEF Continues, SeerDivine, CanSeerDivine
<1>5. ASSUME NEW p \in Players, Speak(p) PROVE Continues
  BY <1>5 DEF Continues, Speak, CanSpeak
<1>6. ASSUME NEW v \in Players, NEW t \in Players \cup {None}, DayVote(v, t) PROVE Continues
  <2> DEFINE b == [pendingDayVote EXCEPT !.votes[v] = t]
  <2>1. phase = "day-vote" /\ b.pkRound = pendingDayVote.pkRound /\ b.pkRound \in Nat
        /\ dayNumber' = dayNumber
    BY <1>6 DEF DayVote, CanDayVote, IInv, TypeOK
  <2>2. CASE AdvanceFromDayResolve([b EXCEPT !.banished = Plurality(b.votes)])
    BY <2>1, <2>2 DEF Continues, AdvanceFromDayResolve, GameOver, StartNextNight
  <2>3. NewBallot(b.pkRound + 1, NextCandidates(b)).pkRound = b.pkRound + 1
    BY DEF NewBallot
  <2> HIDE DEF b
  <2>4. CASE /\ \/ pendingDayVote' = b
                \/ pendingDayVote' = NewBallot(b.pkRound + 1, NextCandidates(b))
             /\ UNCHANGED <<phase, nightNumber, alive>>
    <3>1. pendingDayVote'.pkRound \in {b.pkRound, b.pkRound + 1}
      BY <2>3, <2>4
    <3>2. pendingDayVote'.pkRound >= pendingDayVote.pkRound
      BY <2>1, <3>1
    <3> QED BY <2>1, <2>4, <3>2 DEF Continues
  <2> QED BY <1>6, <2>2, <2>4 DEF DayVote, b
<1>7. ASSUME NEW t \in Players \cup {None}, HunterShoot(t) PROVE Continues
  BY <1>7 DEF Continues, HunterShoot, CanHunterShoot, GameOver, StartNextNight
<1>8. CASE StartFirstNight
  BY <1>8 DEF Continues, StartFirstNight
<1>9. CASE WitchSkipSave \/ WitchSkipPoison
  BY <1>0, <1>9 DEF Continues, WitchSkipSave, CanWitchSkipSave, WitchSkipPoison, CanWitchSkipPoison, SameDay
<1> QED
  BY <1>1, <1>2, <1>3, <1>4, <1>5, <1>6, <1>7, <1>8, <1>9 DEF Next

\* Nobody comes back to life.
LEMMA DeathIsFinal ==
  ASSUME IInv, Next
  PROVE  alive' \subseteq alive
<1>1. Rules!Next \/ UNCHANGED <<alive, winner>>
  BY NextImplements
<1> QED BY <1>1 DEF Rules!Next, Rules!Die, Rules!Declare

-----------------------------------------------------------------------------
(* Every step of a match preserves the invariant.                           *)

\* What the runner settles on, an action of the menu, is accepted and applied,
\* and the board follows.
LEMMA SettleKeeps ==
  ASSUME MatchInv, call # NoCall, NEW a \in call.menu, Settle(a)
  PROVE  MatchInv'
<1> DEFINE actor == call.player
<1>1. actor \in Players /\ a \in ValidActions(actor) /\ status = "running" /\ artifact = "none"
      /\ stepCount < MaxSteps
  BY DEF MatchInv, CallOK
<1>2. a.target \in Players \cup {None} /\ Accepts(actor, a) /\ alive \subseteq Players
  BY <1>1, MenuTargets, IInvMenusAccepted DEF MatchInv, MenusAccepted, IInv, TypeOK
<1>3. /\ Apply(actor, a)
      /\ \/ PhaseChanges /\ OnPhaseChanged
         \/ ~PhaseChanges /\ UNCHANGED board
      /\ stepCount' = stepCount + 1 /\ call' = NoCall
      /\ UNCHANGED <<status, agents, failure, artifact, offline>>
  BY <1>2 DEF Settle
<1>4. Next /\ phase # "setup"
  BY <1>1, <1>2, <1>3, ApplyIsStep
<1>5. IInv' /\ phase' # "setup" /\ alive' \subseteq alive
  BY <1>4, NextIInv, StepUnderTheSamePhase, DeathIsFinal DEF MatchInv, Continues
<1>6. BoardShowsGame'
  <2>1. CASE PhaseChanges /\ OnPhaseChanged
    <3>1. Eliminated(deaths, deaths') \cup (Players \ alive) = Players \ alive'
      <4>1. \A q \in Players : (q \in alive <=> deaths[q] = {}) /\ (q \in alive' <=> deaths'[q] = {})
        BY <1>5 DEF MatchInv, IInv, DeathLedger
      <4>2. alive' \subseteq alive
        BY <1>5
      <4>3. alive \subseteq Players
        BY <1>2
      <4>4. ASSUME NEW q \in Players
            PROVE  q \in Eliminated(deaths, deaths') \cup (Players \ alive) <=> q \notin alive'
        <5>1. q \in Eliminated(deaths, deaths') <=> deaths'[q] # deaths[q]
          BY DEF Eliminated
        <5>2. q \in alive' => deaths'[q] = deaths[q] /\ q \in alive
          BY <4>1, <4>2
        <5>3. q \in alive /\ q \notin alive' => deaths'[q] # deaths[q]
          BY <4>1
        <5> QED BY <5>1, <5>2, <5>3
      <4>5. Eliminated(deaths, deaths') \subseteq Players
        BY DEF Eliminated
      <4> QED BY <4>4, <4>5
    <3>2. /\ board'.dead = board.dead \cup Eliminated(deaths, deaths')
          /\ board'.phase = phase' /\ board'.night = nightNumber' /\ board'.day = dayNumber'
      BY <2>1 DEF OnPhaseChanged
    <3>3. phase' # "pre-match"
      BY <1>5 DEF IInv, TypeOK, Phases
    <3> QED BY <3>1, <3>2, <3>3 DEF MatchInv, BoardShowsGame
  <2>2. CASE ~PhaseChanges /\ UNCHANGED board
    <3>1. phase' = phase
      BY <2>2 DEF PhaseChanges
    <3>2. UNCHANGED <<alive, nightNumber, dayNumber>>
      BY <1>4, <3>1, StepUnderTheSamePhase DEF MatchInv, Continues
    <3> QED BY <2>2, <3>1, <3>2 DEF MatchInv, BoardShowsGame
  <2> QED BY <1>3, <2>1, <2>2
<1>7. MatchTypeOK'
  <2>1. board'.phase \in Phases \cup {"pre-match"} /\ board'.dead \subseteq Players
    <3>1. phase' \in Phases /\ Eliminated(deaths, deaths') \subseteq Players
      BY <1>5 DEF IInv, TypeOK, Eliminated
    <3>2. board.phase \in Phases \cup {"pre-match"} /\ board.dead \subseteq Players
      BY DEF MatchInv, MatchTypeOK
    <3> QED BY <1>3, <3>1, <3>2 DEF OnPhaseChanged
  <2>2. stepCount' \in 0 .. MaxSteps
    <3>1. stepCount \in 0 .. MaxSteps
      BY DEF MatchInv, MatchTypeOK
    <3> QED BY <1>1, <1>3, <3>1, MatchAssumption
  <2> QED BY <1>3, <2>1, <2>2 DEF MatchInv, MatchTypeOK, NoCall
<1> QED BY <1>1, <1>3, <1>5, <1>6, <1>7 DEF MatchInv, StatusInv, CallOK

\* Registering an agent, and the start of the match or its refusal.
LEMMA StartKeeps ==
  ASSUME MatchInv, (\E p \in Players : RegisterAgent(p)) \/ RunMatch
  PROVE  MatchInv'
<1>1. status = "preparing" /\ phase = "setup" /\ board.phase = "pre-match" /\ call = NoCall
      /\ winner = "none"
  BY DEF RegisterAgent, RunMatch, MatchInv, StatusInv, CallOK, IInv, GameOverWhenDecided
<1>2. CASE \/ \E p \in Players : RegisterAgent(p)
           \/ Throw("missing agent")
  <2>1. IInv' /\ BoardShowsGame'
    <3>1. UNCHANGED vars /\ UNCHANGED board
      BY <1>2 DEF RegisterAgent, Throw
    <3>2. IInv'
      BY <3>1, NextIInv DEF MatchInv
    <3> QED BY <3>1, <3>2 DEF MatchInv, BoardShowsGame, vars
  <2>2. MatchTypeOK'
    BY <1>1, <1>2 DEF RegisterAgent, Throw, MatchInv, MatchTypeOK, NoCall
  <2>3. StatusInv' /\ CallOK'
    BY <1>1, <1>2 DEF RegisterAgent, Throw, MatchInv, StatusInv, CallOK, vars
  <2> QED BY <2>1, <2>2, <2>3 DEF MatchInv
<1>3. CASE /\ status' = "running" /\ StartFirstNight
           /\ UNCHANGED <<agents, stepCount, call, failure, artifact, offline, board>>
  <2>1. IInv'
    BY <1>3, StartFirstNightKeeps DEF MatchInv
  <2>2. MatchTypeOK'
    BY <1>3 DEF MatchInv, MatchTypeOK
  <2>3. BoardShowsGame'
    BY <1>1, <1>3 DEF StartFirstNight, MatchInv, BoardShowsGame
  <2>4. StatusInv' /\ CallOK'
    BY <1>1, <1>3 DEF StartFirstNight, MatchInv, StatusInv, CallOK
  <2> QED BY <2>1, <2>2, <2>3, <2>4 DEF MatchInv
<1> QED BY <1>2, <1>3 DEF RunMatch

\* The head of the loop: a request to the next actor, or the step limit.  That
\* nobody can act does not happen, by IInvSomeoneCanAct.
LEMMA RequestKeeps ==
  ASSUME MatchInv, Request
  PROVE  MatchInv'
<1>1. status = "running" /\ call = NoCall /\ artifact = "none" /\ phase # "game-over"
      /\ phase # "setup" /\ winner = "none"
  BY DEF Request, AtLoopHead, MatchInv, StatusInv, IInv, GameOverWhenDecided
<1>2. Actors # {}
  BY <1>1, IInvSomeoneCanAct DEF MatchInv, SomeoneCanAct, Actors
<1>3. UNCHANGED <<vars, agents, stepCount, artifact, offline, board>>
  BY DEF Request, Throw
<1>4. IInv' /\ BoardShowsGame'
  <2>1. IInv'
    BY <1>3, NextIInv DEF MatchInv
  <2> QED BY <1>3, <2>1 DEF MatchInv, BoardShowsGame, vars
<1>5. CASE Throw("too many steps")
  <2>1. MatchTypeOK'
    BY <1>5 DEF Throw, MatchInv, MatchTypeOK, NoCall
  <2>2. StatusInv' /\ CallOK'
    BY <1>1, <1>5 DEF Throw, MatchInv, StatusInv, CallOK, vars
  <2> QED BY <1>4, <2>1, <2>2 DEF MatchInv
<1>6. CASE /\ StepsLeft
           /\ \E actors \in {Actors} \ {{}} : \E p \in {NextActor(actors)} :
                call' = [player |-> p, menu |-> ValidActions(p)]
           /\ UNCHANGED <<vars, status, failure>>
  <2>1. NextActor(Actors) \in Players /\ ValidActions(NextActor(Actors)) # {}
    BY <1>2, NextActorActs DEF Actors
  <2>2. PICK p \in Players : ValidActions(p) # {} /\ call' = [player |-> p, menu |-> ValidActions(p)]
    BY <1>6, <2>1
  <2>3. call'.player = p /\ call'.menu = ValidActions(p)
    BY <2>2
  <2>4. ValidActions(p)' = ValidActions(p)
    BY <1>6 DEF vars, ValidActions, HunterMenu, WolfMenu, WitchMenu, SeerMenu, SpeakMenu, BallotMenu,
                OnBallot
  <2>5. stepCount < MaxSteps
    BY <1>6 DEF StepsLeft
  <2>6. CallOK'
    BY <1>1, <1>3, <1>6, <2>2, <2>3, <2>4, <2>5 DEF CallOK
  <2>7. MatchTypeOK'
    BY <1>3, <1>6, <2>2, <2>3, RolesAssumption DEF MatchInv, MatchTypeOK
  <2>8. StatusInv'
    BY <1>3, <1>6 DEF MatchInv, StatusInv, vars
  <2> QED BY <1>4, <2>6, <2>7, <2>8 DEF MatchInv
<1> QED BY <1>2, <1>5, <1>6 DEF Request

\* The answer of an agent, or none in time.
LEMMA AnswerKeeps ==
  ASSUME MatchInv, (\E a : AgentAnswers(a)) \/ AgentTimesOut
  PROVE  MatchInv'
<1>1. call # NoCall
  BY DEF AgentAnswers, AgentTimesOut, TimerArmed
<1>2. Fallback(call.menu) \in call.menu
  <2>1. \A a \in call.menu : a.target \in Players \cup {None}
    BY <1>1, MenuTargets DEF MatchInv, CallOK
  <2> QED BY <1>1, <2>1, FallbackIsOffered DEF MatchInv, CallOK
<1>3. \E a \in call.menu : Settle(a)
  <2>1. ASSUME NEW b, AgentAnswers(b) PROVE \E a \in call.menu : Settle(a)
    <3>1. (IF Validates(b, call.menu) THEN b ELSE Fallback(call.menu)) \in call.menu
      BY <1>2 DEF Validates
    <3> QED BY <2>1, <3>1 DEF AgentAnswers
  <2> QED BY <1>2, <2>1 DEF AgentTimesOut
<1> QED BY <1>1, <1>3, SettleKeeps

\* The end of a match and the fate of its artifact.  That a finished game has
\* no winner does not happen, by GameOverWhenDecided.
LEMMA EndKeeps ==
  ASSUME MatchInv, AgentsGoOffline \/ Complete \/ PersistArtifact
  PROVE  MatchInv'
<1>1. UNCHANGED <<vars, agents, stepCount, call, failure, board>> /\ status' \in {status, "completed"}
  BY DEF AgentsGoOffline, Complete, PersistArtifact, Throw, AtLoopHead, MatchInv, IInv,
         GameOverWhenDecided, StatusAfterFailedSave
<1>2. IInv' /\ BoardShowsGame'
  <2>1. IInv'
    BY <1>1, NextIInv DEF MatchInv
  <2> QED BY <1>1, <2>1 DEF MatchInv, BoardShowsGame, vars
<1>3. MatchTypeOK'
  BY <1>1 DEF AgentsGoOffline, Complete, PersistArtifact, Throw, MatchInv, MatchTypeOK
<1>4. StatusInv'
  BY <1>1 DEF MatchInv, StatusInv, vars
<1>5. CallOK'
  <2>1. call # NoCall => artifact' = artifact /\ status' = status
    BY DEF AgentsGoOffline, Complete, PersistArtifact, AtLoopHead, MatchInv, CallOK
  <2>2. ValidActions(call.player)' = ValidActions(call.player)
    BY <1>1 DEF vars, ValidActions, HunterMenu, WolfMenu, WitchMenu, SeerMenu, SpeakMenu, BallotMenu,
                OnBallot
  <2> QED BY <1>1, <2>1, <2>2 DEF MatchInv, CallOK
<1> QED BY <1>2, <1>3, <1>4, <1>5 DEF MatchInv

-----------------------------------------------------------------------------
(* The theorems.                                                            *)

\* A created match satisfies the invariant.
LEMMA InitMatchInv == MatchInit => MatchInv
<1> SUFFICES ASSUME MatchInit PROVE MatchInv
  OBVIOUS
<1>1. IInv
  BY InitIInv DEF MatchInit
<1>2. MatchTypeOK
  <2>1. 0 \in 0 .. MaxSteps
    BY MatchAssumption
  <2>2. call.player = None /\ call.menu = {}
    BY DEF MatchInit, NoCall
  <2> QED BY <2>1, <2>2 DEF MatchInit, MatchTypeOK
<1>3. StatusInv /\ CallOK
  BY DEF MatchInit, Init, StatusInv, CallOK
<1>4. BoardShowsGame
  <2>1. alive = Players /\ phase = "setup"
    BY DEF MatchInit, Init
  <2>2. board.dead = {} /\ board.phase = "pre-match"
    BY DEF MatchInit
  <2> QED BY <2>1, <2>2 DEF BoardShowsGame
<1> QED BY <1>1, <1>2, <1>3, <1>4 DEF MatchInv

\* Every step of a match preserves it.
LEMMA NextMatchInv == MatchInv /\ [MatchNext]_allVars => MatchInv'
<1> SUFFICES ASSUME MatchInv, [MatchNext]_allVars PROVE MatchInv'
  OBVIOUS
<1>1. CASE UNCHANGED allVars
  <2>1. UNCHANGED vars /\ UNCHANGED matchVars
    BY <1>1 DEF allVars
  <2>2. IInv'
    BY <2>1, NextIInv DEF MatchInv
  <2>3. MatchTypeOK' /\ StatusInv' /\ BoardShowsGame'
    <3>1. MatchTypeOK'
      BY <2>1 DEF MatchInv, MatchTypeOK, matchVars
    <3>2. StatusInv'
      BY <2>1 DEF MatchInv, StatusInv, vars, matchVars
    <3>3. BoardShowsGame'
      BY <2>1 DEF MatchInv, BoardShowsGame, vars, matchVars
    <3> QED BY <3>1, <3>2, <3>3
  <2>4. ValidActions(call.player)' = ValidActions(call.player)
    BY <2>1 DEF vars, matchVars, ValidActions, HunterMenu, WolfMenu, WitchMenu, SeerMenu, SpeakMenu,
                BallotMenu, OnBallot
  <2>5. CallOK'
    BY <2>1, <2>4 DEF MatchInv, CallOK, matchVars
  <2> QED BY <2>2, <2>3, <2>5 DEF MatchInv
<1> QED BY <1>1, StartKeeps, RequestKeeps, AnswerKeeps, EndKeeps DEF MatchNext

\* The inductive invariant holds in every reachable state of a match.
THEOREM MatchInvariant == MatchSpec => []MatchInv
BY InitMatchInv, NextMatchInv, PTL DEF MatchSpec

\* Whatever the agents answer, run() throws only for a seat without an agent or
\* at the step limit, and never after the game was decided.
THEOREM MatchOnlyStepsRunOut == MatchSpec => []OnlyStepsRunOut
<1>1. MatchInv => OnlyStepsRunOut
  BY DEF MatchInv, StatusInv, OnlyStepsRunOut
<1> QED BY <1>1, MatchInvariant, PTL

\* The board the lobby rebuilds from phase.changed events shows the game.
THEOREM MatchBoardShowsGame == MatchSpec => []BoardShowsGame
<1>1. MatchInv => BoardShowsGame
  BY DEF MatchInv
<1> QED BY <1>1, MatchInvariant, PTL

-----------------------------------------------------------------------------
(* The invariant of a match among NPCs.                                     *)

\* While the save potion is there nobody has been saved tonight.
SaveInv == witchPotions.hasSave => pendingNight.witchSaved = None

NpcInv == IInv /\ PotionsInv /\ SaveInv

-----------------------------------------------------------------------------
(* A match among NPCs is a game of the engine.                              *)

\* Every move of an NPC is a move the reducer knows, of players.
LEMMA NpcNextIsNext ==
  ASSUME alive \subseteq Players, [NpcNext]_npcVars
  PROVE  [Next]_vars
<1>1. CASE UNCHANGED npcVars
  BY <1>1 DEF npcVars
<1>2. CASE StartFirstNight
  BY <1>2 DEF Next
<1>3. ASSUME NEW p \in Players, NpcActs(p) PROVE Next
  <2>1. PICK a \in ValidActions(p) : Apply(p, a)
    BY <1>3 DEF NpcActs
  <2>2. CASE WerewolfVote(p, a.target)
    <3>1. a.target \in Players
      BY <2>2 DEF WerewolfVote, CanWerewolfVote, NonWolves
    <3> QED BY <2>2, <3>1 DEF Next
  <2>3. CASE WitchSave(a.target)
    <3>1. a.target \in Players
      BY <2>3, PluralityIsTarget DEF WitchSave, CanWitchSave, Targets
    <3> QED BY <2>3, <3>1 DEF Next
  <2>4. CASE WitchPoison(a.target)
    <3>1. a.target \in Players
      BY <2>4 DEF WitchPoison, CanWitchPoison
    <3> QED BY <2>4, <3>1 DEF Next
  <2>5. CASE SeerDivine(a.target)
    <3>1. a.target \in Players
      BY <2>5 DEF SeerDivine, CanSeerDivine
    <3> QED BY <2>5, <3>1 DEF Next
  <2>6. CASE DayVote(p, a.target)
    <3>1. a.target \in Players \cup {None}
      BY <2>6 DEF DayVote, CanDayVote
    <3> QED BY <2>6, <3>1 DEF Next
  <2>7. CASE HunterShoot(a.target)
    <3>1. a.target \in Players \cup {None}
      BY <2>7 DEF HunterShoot, CanHunterShoot
    <3> QED BY <2>7, <3>1 DEF Next
  <2>8. CASE WitchSkipSave \/ WitchSkipPoison \/ Speak(p)
    BY <2>8 DEF Next
  <2> QED BY <2>1, <2>2, <2>3, <2>4, <2>5, <2>6, <2>7, <2>8 DEF Apply
<1> QED BY <1>1, <1>2, <1>3 DEF NpcNext

\* The engine's steps keep SaveInv: saving takes the potion, and whatever starts a
\* night anew clears the decision.
LEMMA NextSaveInv ==
  ASSUME IInv, SaveInv, [Next]_vars
  PROVE  SaveInv'
<1>0. pendingNight \in PendingNights /\ witchPotions \in Potions
  BY DEF IInv, NightInv, NightOK, TypeOK, Potions
<1>1. EmptyPendingNight.witchSaved = None
  BY DEF EmptyPendingNight
<1>2. ASSUME NEW n, n.witchSaved = pendingNight.witchSaved,
             \/ AdvanceToNightWitch(n) \/ AdvanceToNightSeer(n) \/ ResolveNight(n)
      PROVE  pendingNight'.witchSaved \in {None, pendingNight.witchSaved}
  BY <1>1, <1>2 DEF AdvanceToNightWitch, AdvanceToNightSeer, ResolveNight
<1>3. ASSUME NEW t, NEW v, WerewolfVote(v, t) PROVE SaveInv'
  <2> DEFINE n == [pendingNight EXCEPT !.werewolfVotes[v] = t]
  <2>1. n.witchSaved = pendingNight.witchSaved
    BY <1>0 DEF PendingNights
  <2>2. witchPotions' = witchPotions /\ (AdvanceToNightWitch(n) \/ pendingNight' = n)
    BY <1>3 DEF WerewolfVote
  <2> HIDE DEF n
  <2> QED BY <1>2, <2>1, <2>2 DEF SaveInv
<1>4. ASSUME NEW t, WitchSave(t) \/ WitchSkipSave PROVE SaveInv'
  BY <1>0, <1>4 DEF WitchSave, WitchSkipSave, SaveInv, Potions, PendingNights
<1>5. ASSUME NEW t, WitchPoison(t) PROVE SaveInv'
  <2> DEFINE n == [pendingNight EXCEPT !.witchPoisoned = t]
  <2>1. n.witchSaved = pendingNight.witchSaved
    BY <1>0 DEF PendingNights
  <2>2. witchPotions'.hasSave = witchPotions.hasSave /\ AdvanceToNightSeer(n)
    BY <1>0, <1>5 DEF WitchPoison, Potions
  <2> HIDE DEF n
  <2> QED BY <1>2, <2>1, <2>2 DEF SaveInv
<1>6. CASE WitchSkipPoison
  BY <1>2, <1>6 DEF WitchSkipPoison, SaveInv
<1>7. ASSUME NEW t, SeerDivine(t) PROVE SaveInv'
  <2> DEFINE n == [pendingNight EXCEPT !.seerTarget = t]
  <2>1. n.witchSaved = pendingNight.witchSaved
    BY <1>0 DEF PendingNights
  <2>2. witchPotions' = witchPotions /\ ResolveNight(n)
    BY <1>7 DEF SeerDivine
  <2> HIDE DEF n
  <2> QED BY <1>2, <2>1, <2>2 DEF SaveInv
<1>8. ASSUME NEW t, NEW v, StartFirstNight \/ Speak(v) \/ DayVote(v, t) \/ HunterShoot(t) PROVE SaveInv'
  <2>1. witchPotions' = witchPotions /\ pendingNight' \in {pendingNight, EmptyPendingNight}
    BY <1>8 DEF StartFirstNight, Speak, DayVote, HunterShoot, AdvanceFromDayResolve, GameOver, StartNextNight
  <2> QED BY <1>1, <2>1 DEF SaveInv
<1>9. CASE UNCHANGED vars
  BY <1>9 DEF vars, SaveInv
<1> QED BY <1>3, <1>4, <1>5, <1>6, <1>7, <1>8, <1>9 DEF Next

\* NpcInv holds throughout a match of NPCs, which is a game of the engine.
THEOREM NpcInvariant == NpcSpec => Spec /\ []NpcInv
<1>1. NpcInit => Init /\ NpcInv
  <2>1. Init => SaveInv
    BY DEF Init, SaveInv, EmptyPendingNight
  <2> QED BY <2>1, InitIInv, InitPotionsInv DEF NpcInit, NpcInv
<1>2. NpcInv /\ [NpcNext]_npcVars => [Next]_vars
  BY NpcNextIsNext DEF NpcInv, IInv, TypeOK
<1>3. NpcInv /\ [Next]_vars => NpcInv'
  BY NextIInv, NextPotionsInv, NextSaveInv DEF NpcInv
<1> QED BY <1>1, <1>2, <1>3, PTL DEF NpcSpec, Spec

-----------------------------------------------------------------------------
(* What the NPC says.                                                       *)

\* Whom a speaker may accuse: somebody, who lives and is not himself; a wolf
\* spares wolves, and a seer names the wolf he found if that one lives.
LEMMA AccusesInCharacter ==
  ASSUME IInv, NEW p \in alive, phase = "day-speeches"
  PROVE  LET on == AccusationTargets(PublicState, PrivateState(p))
         IN /\ on # {} /\ on \subseteq alive \ {p}
            /\ Role[p] = "werewolf" => \A t \in on : Role[t] # "werewolf"
            /\ Role[p] = "seer" =>
                 \A w \in Wolves(alive) : Wolves(divined) = {w} => on = {w}
<1> DEFINE pub == PublicState
           priv == PrivateState(p)
           others == alive \ {p}
           safe == others \ KnownAllies(p)
           found == {k.target : k \in {j \in priv.seerKnowledge : j.side = "werewolf"}}
<1>1. /\ pub.living = alive /\ priv.selfId = p /\ priv.selfRole = Role[p]
      /\ priv.knownAllies = KnownAllies(p)
  BY DEF PublicState, PrivateState
<1>2. alive \subseteq Players /\ WinnerOf(alive) = "none"
  BY DEF IInv, TypeOK, GameOverWhenDecided
<1>3. PICK w \in Wolves(alive), v \in Villagers(alive) : TRUE
  BY <1>2, WinnerOfIsSide
<1>4. others # {}
  BY <1>3 DEF Wolves, Villagers, PlayersWith
<1>5. Role[p] = "seer" => found = Wolves(divined)
  <2> SUFFICES ASSUME Role[p] = "seer" PROVE found = Wolves(divined)
    OBVIOUS
  <2>1. priv.seerKnowledge = {[target |-> t, side |-> SideOf(t)] : t \in divined}
    BY DEF PrivateState
  <2>2. {j \in priv.seerKnowledge : j.side = "werewolf"} =
          {[target |-> t, side |-> "werewolf"] : t \in Wolves(divined)}
    BY <2>1 DEF SideOf, Wolves, PlayersWith
  <2>3. found = {k.target : k \in {[target |-> t, side |-> "werewolf"] : t \in Wolves(divined)}}
    BY <2>2
  <2>4. ASSUME NEW S PROVE {k.target : k \in {[target |-> t, side |-> "werewolf"] : t \in S}} = S
    <3> DEFINE K == {[target |-> t, side |-> "werewolf"] : t \in S}
    <3>1. \A k \in K : k.target \in S
      OBVIOUS
    <3>2. ASSUME NEW t \in S PROVE \E k \in K : k.target = t
      <4>1. [target |-> t, side |-> "werewolf"] \in K
        OBVIOUS
      <4>2. [target |-> t, side |-> "werewolf"].target = t
        OBVIOUS
      <4> QED BY <4>1, <4>2
    <3> HIDE DEF K
    <3>3. {k.target : k \in K} = S
      BY <3>1, <3>2
    <3> QED BY <3>3 DEF K
  <2> HIDE DEF found
  <2> QED BY <2>3, <2>4
<1>6. AccusationTargets(pub, priv) =
        IF Role[p] = "werewolf" /\ safe # {} THEN safe
        ELSE IF Role[p] = "seer" /\ found # {}
             THEN IF found \subseteq others THEN found ELSE others
             ELSE others
  BY <1>1 DEF AccusationTargets
<1> HIDE DEF pub, priv, found
<1>7. CASE Role[p] = "werewolf"
  <2>1. v \in safe
    BY <1>3, <1>7 DEF Villagers, PlayersWith, KnownAllies, Wolves
  <2>2. \A t \in safe : Role[t] # "werewolf"
    BY <1>2, <1>7 DEF KnownAllies, Wolves, PlayersWith
  <2> QED BY <1>6, <1>7, <2>1, <2>2 DEF pub, priv
<1>8. CASE Role[p] = "seer"
  <2>1. \A x \in Wolves(alive) : x \in others
    BY <1>8 DEF Wolves, PlayersWith
  <2> QED BY <1>4, <1>5, <1>6, <1>8, <2>1 DEF pub, priv
<1>9. CASE Role[p] \notin {"werewolf", "seer"}
  BY <1>4, <1>6, <1>9 DEF pub, priv
<1> QED BY <1>7, <1>8, <1>9

\* A speech names its target or not, as the table of speeches has it; a seer's does.
LEMMA SpeechNames ==
  ASSUME NEW role, NEW personality
  PROVE  /\ NamesTarget(role, personality) \subseteq BOOLEAN
         /\ NamesTarget(role, personality) # {}
         /\ role = "seer" => NamesTarget(role, personality) = {TRUE}
<1>1. CASE personality = "cautious" /\ role \in {"witch", "hunter", "villager"}
  BY <1>1 DEF NamesTarget
<1>2. CASE personality = "aggressive" /\ role = "hunter"
  BY <1>2 DEF NamesTarget
<1>3. CASE ~(personality = "cautious" /\ role \in {"witch", "hunter", "villager"}) /\ ~(personality = "aggressive" /\ role = "hunter")
  BY <1>3 DEF NamesTarget
<1> QED BY <1>1, <1>2, <1>3

\* The invariant implies that the NPCs stay in character.
LEMMA InvInCharacter == NpcInv => NpcsInCharacter
<1> SUFFICES ASSUME NpcInv, NEW p \in Players
             PROVE  /\ \A a \in ValidActions(p) :
                         /\ Accepts(p, a)
                         /\ IntentKey(a, PrivateState(p)) \in IntentKeys
                         /\ a.type = "speak" => \A personality \in Personalities :
                              LET said == Enriched(a, PublicState, PrivateState(p), personality)
                              IN /\ said # {}
                                 /\ \A e \in said : e.accuses # None =>
                                      /\ e.accuses \in alive \ {p}
                                      /\ Role[p] = "werewolf" => Role[e.accuses] # "werewolf"
                                      /\ Role[p] = "seer" =>
                                           \A w \in Wolves(alive) :
                                             Wolves(divined) = {w} => e.accuses = w
                    /\ Role[p] = "witch" =>
                         /\ "save ready" \in Observations(PublicState, PrivateState(p)) =>
                              pendingNight.witchSaved = None /\ witchPotions.hasSave
                         /\ "poison ready" \in Observations(PublicState, PrivateState(p)) =>
                              \A q \in Players : "witch-poison" \notin deaths[q]
  BY DEF NpcsInCharacter
<1>1. ASSUME NEW a \in ValidActions(p)
      PROVE  Accepts(p, a) /\ IntentKey(a, PrivateState(p)) \in IntentKeys
  <2>1. Accepts(p, a)
    BY IInvMenusAccepted DEF NpcInv, MenusAccepted
  <2>2. PrivateState(p).selfRole = Role[p] /\ Role[p] \in RoleNames
    BY RolesAssumption DEF PrivateState
  <2>3. SpeakKey[Role[p]] \in IntentKeys
    BY <2>2 DEF SpeakKey, RoleNames, IntentKeys
  <2>4. a.type = "speak" \/ a.type \in IntentKeys
    BY <2>1 DEF Accepts, IntentKeys
  <2> QED BY <2>1, <2>2, <2>3, <2>4 DEF IntentKey
<1>2. ASSUME NEW a \in ValidActions(p), a.type = "speak", NEW personality \in Personalities
      PROVE  LET said == Enriched(a, PublicState, PrivateState(p), personality)
             IN /\ said # {}
                /\ \A e \in said : e.accuses # None =>
                     /\ e.accuses \in alive \ {p}
                     /\ Role[p] = "werewolf" => Role[e.accuses] # "werewolf"
                     /\ Role[p] = "seer" =>
                          \A w \in Wolves(alive) : Wolves(divined) = {w} => e.accuses = w
  <2> DEFINE on == AccusationTargets(PublicState, PrivateState(p))
             named == NamesTarget(Role[p], personality)
             accused == Accusations(PublicState, PrivateState(p), personality)
  <2>1. p \in alive /\ phase = "day-speeches"
    BY <1>1, <1>2 DEF Accepts, CanSpeak
  <2>2. /\ on # {} /\ on \subseteq alive \ {p}
        /\ Role[p] = "werewolf" => \A t \in on : Role[t] # "werewolf"
        /\ Role[p] = "seer" => \A w \in Wolves(alive) : Wolves(divined) = {w} => on = {w}
    BY <2>1, AccusesInCharacter DEF NpcInv
  <2>3. named \subseteq BOOLEAN /\ named # {} /\ (Role[p] = "seer" => named = {TRUE})
    BY SpeechNames
  <2>4. PrivateState(p).selfRole = Role[p]
    BY DEF PrivateState
  <2> HIDE DEF on, named
  <2>5. accused = UNION {IF n THEN on ELSE {None} : n \in named}
    BY <2>4 DEF Accusations, on, named
  <2> HIDE DEF accused
  <2>6. accused # {} /\ accused \subseteq on \cup {None}
    BY <2>2, <2>3, <2>5
  <2>7. Enriched(a, PublicState, PrivateState(p), personality) = {[action |-> a, accuses |-> t] : t \in accused}
    BY <1>2 DEF Enriched, accused
  <2>8. \A e \in Enriched(a, PublicState, PrivateState(p), personality) :
          e.accuses # None => e.accuses \in on
    BY <2>6, <2>7
  <2>9. Enriched(a, PublicState, PrivateState(p), personality) # {}
    BY <2>6, <2>7
  <2> QED BY <2>2, <2>8, <2>9
<1>3. ASSUME Role[p] = "witch"
      PROVE  /\ "save ready" \in Observations(PublicState, PrivateState(p)) =>
                  pendingNight.witchSaved = None /\ witchPotions.hasSave
             /\ "poison ready" \in Observations(PublicState, PrivateState(p)) =>
                  \A q \in Players : "witch-poison" \notin deaths[q]
  <2>1. PrivateState(p).potions = witchPotions /\ PrivateState(p).selfRole = "witch"
    BY <1>3 DEF PrivateState
  <2>2. /\ "save ready" \in Observations(PublicState, PrivateState(p)) => witchPotions.hasSave
        /\ "poison ready" \in Observations(PublicState, PrivateState(p)) => witchPotions.hasPoison
    BY <2>1 DEF Observations
  <2> QED BY <2>2 DEF NpcInv, SaveInv, PotionsInv, Unpoisoned
<1> QED BY <1>1, <1>2, <1>3

\* Whatever the game and the personalities, an NPC's answer is accepted, a wolf
\* accuses no wolf, nobody accuses himself or the dead, a seer names the wolf he
\* found, and a witch speaks only of potions she still has.
THEOREM NpcStaysInCharacter == NpcSpec => []NpcsInCharacter
BY NpcInvariant, InvInCharacter, PTL

-----------------------------------------------------------------------------
(* What the views show of a night.                                          *)

\* A step from one night phase to another decides nothing that is public.
LEMMA WithinANight ==
  ASSUME [NpcNext]_npcVars, phase \in NightPhases, phase' \in NightPhases
  PROVE  UNCHANGED <<nightNumber, dayNumber, winner, alive, deaths, pendingHunterShoot, divined>>
<1>1. ASSUME NEW n, AdvanceToNightWitch(n) \/ AdvanceToNightSeer(n) \/ ResolveNight(n)
      PROVE  SameDay /\ ~ResolveNight(n)
  <2>1. ~ResolveNight(n)
    BY DEF ResolveNight, NightPhases
  <2> QED BY <1>1, <2>1 DEF AdvanceToNightWitch, AdvanceToNightSeer
<1>2. ASSUME NEW p \in Players, NpcActs(p)
      PROVE  SameDay /\ divined' = divined
  <2>1. PICK a \in ValidActions(p) :
          Apply(p, a) /\ divined' = divined \cup (IF a.type = "seer-divine" THEN {a.target} ELSE {})
    BY <1>2 DEF NpcActs
  <2>2. ~SeerDivine(a.target)
    BY <1>1 DEF SeerDivine
  <2>3. ~Speak(p) /\ ~DayVote(p, a.target) /\ ~HunterShoot(a.target)
    BY DEF Speak, CanSpeak, DayVote, CanDayVote, HunterShoot, CanHunterShoot, NightPhases
  <2>4. WerewolfVote(p, a.target) => SameDay
    BY <1>1 DEF WerewolfVote
  <2>5. WitchSave(a.target) \/ WitchSkipSave => SameDay
    BY DEF WitchSave, WitchSkipSave
  <2>6. WitchPoison(a.target) \/ WitchSkipPoison => SameDay
    BY <1>1 DEF WitchPoison, WitchSkipPoison
  <2> QED BY <2>1, <2>2, <2>3, <2>4, <2>5, <2>6 DEF Apply
<1>3. ~StartFirstNight
  BY DEF StartFirstNight, NightPhases
<1> QED BY <1>2, <1>3 DEF NpcNext, npcVars, vars, SameDay

\* The two views after such a step.
LEMMA NightStepHidden ==
  ASSUME [NpcNext]_npcVars, phase \in NightPhases, phase' \in NightPhases
  PROVE  /\ PublicState' = [PublicState EXCEPT !.phase = phase']
         /\ \A p \in alive : Role[p] # "witch" => (PrivateState(p))' = PrivateState(p)
<1>1. UNCHANGED <<nightNumber, dayNumber, winner, alive, deaths, pendingHunterShoot, divined>>
  BY WithinANight
<1>2. phase \notin {"game-over", "hunter-shoot"} /\ phase' \notin {"game-over", "hunter-shoot"}
  BY DEF NightPhases
<1>3. PublicState' = [PublicState EXCEPT !.phase = phase']
  <2>1. \A p \in Players : RevealedRole(p) = "hidden" /\ RevealedRole(p)' = "hidden"
    BY <1>2 DEF RevealedRole
  <2> DEFINE shown(ph, roles) ==
               [phase |-> ph, night |-> nightNumber, day |-> dayNumber, winner |-> winner,
                living |-> alive, roles |-> roles, history |-> deaths]
             hidden == [p \in Players |-> "hidden"]
  <2>2. PublicState = shown(phase, hidden)
    BY <2>1 DEF PublicState
  <2>3. PublicState' = shown(phase', hidden)
    BY <1>1, <2>1 DEF PublicState
  <2> HIDE DEF hidden
  <2> QED BY <2>2, <2>3
<1>4. ASSUME NEW p \in alive, Role[p] # "witch" PROVE (PrivateState(p))' = PrivateState(p)
  BY <1>1, <1>2, <1>4 DEF PrivateState, KnownAllies, SideOf, NoPotions
<1> QED BY <1>3, <1>4

\* No step of a night shows before dawn but to the one who decides, and no role is
\* public before the game is over.
THEOREM NpcNightStaysHidden == NpcSpec => NightStaysHidden
<1>1. [NpcNext]_npcVars =>
        [ /\ phase \in NightPhases
          /\ phase' \in NightPhases
          => /\ PublicState' = [PublicState EXCEPT !.phase = phase']
             /\ \A p \in alive : Role[p] # "witch" => (PrivateState(p))' = PrivateState(p) ]_npcVars
  BY NightStepHidden
<1>2. NpcInv => (winner = "none" => \A p \in Players :
                   /\ RevealedRole(p) = "hidden"
                   /\ KnownAllies(p) # {} => Role[p] = "werewolf")
  BY DEF NpcInv, IInv, GameOverWhenDecided, RevealedRole, KnownAllies
<1> QED BY <1>1, <1>2, NpcInvariant, PTL DEF NpcSpec, NightStaysHidden

\* The runner's "deadlock" cannot happen in a match of NPCs either.
THEOREM NpcSomeoneCanAct == NpcSpec => []SomeoneCanAct
BY NpcInvariant, IInvSomeoneCanAct, PTL DEF NpcInv

-----------------------------------------------------------------------------
(* A spectator's page of a running game.                                    *)

RoomStatuses == {"waiting", "running", "completed", "failed"}
ReplayEvents ==
  [type : {"phase.changed"}, phase : 1 .. MaxPhases, dead : SUBSET RoomPlayers]
    \cup [type : {"match.completed"}, winner : Sides]
Games ==
  [status : RoomStatuses, phase : 0 .. MaxPhases, dead : SUBSET RoomPlayers,
   tracked : SUBSET RoomPlayers, winner : Sides \cup {NoSide}]
Boards ==
  [status : RoomStatuses, phase : 0 .. Finished, dead : SUBSET RoomPlayers,
   winner : Sides \cup {NoSide}]
PublicEntries ==
  [status : RoomStatuses, phase : 0 .. MaxPhases, dead : SUBSET RoomPlayers,
   winner : Sides \cup {NoSide}, asOf : SUBSET RoomPlayers]

\* What an event or an entry says of a game is true of it, then and later: the dead stay
\* dead, and a verdict stays.
EventTrue(e, g) ==
  /\ e \in ReplayEvents
  /\ e.type = "phase.changed" => e.dead \subseteq g.dead
  /\ e.type = "match.completed" => e.winner = g.winner
EntryTrue(e, g) ==
  /\ e \in PublicEntries /\ e.asOf \subseteq g.dead
  /\ Reveals(e.status) => e.dead = e.asOf
  /\ e.status = "completed" => e.winner = g.winner /\ e.winner # NoSide
PollTrue(poll, g) ==
  poll \in {Free, Asked} \/ (poll = [at |-> "answered", entry |-> poll.entry] /\ EntryTrue(poll.entry, g))

GameOK ==
  /\ game \in Games /\ game.tracked = game.dead
  /\ game.status = "completed" => game.winner # NoSide
WayOK ==
  /\ events \in Seq(ReplayEvents) /\ \A i \in DOMAIN events : EventTrue(events[i], game)
  /\ \A i \in Polls : PollTrue(polls[i], game)
  /\ polls = [i \in Polls |-> polls[i]]
BoardOK ==
  /\ room \in Boards /\ room.dead \subseteq game.dead
  /\ room.winner # NoSide => room.winner = game.winner
DeathsKnown == game.dead \subseteq room.dead \cup missed \cup DeathsIn(events)

RoomInv == GameOK /\ WayOK /\ BoardOK /\ DeathsKnown

\* The deaths that a sequence of events tells of.
LEMMA DeathsOf ==
  ASSUME NEW es, NEW x
  PROVE  x \in DeathsIn(es) <=> \E i \in DOMAIN es : es[i].type = "phase.changed" /\ x \in es[i].dead
<1> QED BY DEF DeathsIn, ToSet

LEMMA DeathsOfMore ==
  ASSUME NEW es \in Seq(ReplayEvents), NEW e \in ReplayEvents
  PROVE  DeathsIn(Append(es, e)) = DeathsIn(es) \cup DeathsIn(<<e>>)
<1>1. /\ DOMAIN Append(es, e) = 1 .. Len(es) + 1 /\ DOMAIN es = 1 .. Len(es) /\ Len(es) \in Nat
      /\ \A i \in DOMAIN es : Append(es, e)[i] = es[i]
      /\ Append(es, e)[Len(es) + 1] = e
  OBVIOUS
<1>2. DOMAIN <<e>> = {1} /\ <<e>>[1] = e
  OBVIOUS
<1> DEFINE more == Append(es, e) one == <<e>>
<1> HIDE DEF more, one
<1>3. \A i \in DOMAIN more : i \in DOMAIN es \/ i = Len(es) + 1
  BY <1>1 DEF more
<1>4. ASSUME NEW x PROVE x \in DeathsIn(more) <=> x \in DeathsIn(es) \/ x \in DeathsIn(one)
  <2>1. x \in DeathsIn(more) <=> \E i \in DOMAIN more : more[i].type = "phase.changed" /\ x \in more[i].dead
    BY DeathsOf
  <2>2. x \in DeathsIn(es) <=> \E i \in DOMAIN es : es[i].type = "phase.changed" /\ x \in es[i].dead
    BY DeathsOf
  <2>3. x \in DeathsIn(one) <=> e.type = "phase.changed" /\ x \in e.dead
    BY <1>2, DeathsOf DEF one
  <2>4. /\ Len(es) + 1 \in DOMAIN more /\ more[Len(es) + 1] = e
        /\ \A i \in DOMAIN es : i \in DOMAIN more /\ more[i] = es[i]
    BY <1>1 DEF more
  <2> QED BY <1>3, <2>1, <2>2, <2>3, <2>4
<1> QED BY <1>4 DEF more, one

LEMMA DeathsOfFirst ==
  ASSUME NEW es \in Seq(ReplayEvents), es # <<>>
  PROVE  DeathsIn(es) = DeathsIn(<<Head(es)>>) \cup DeathsIn(Tail(es))
<1>1. /\ DOMAIN es = 1 .. Len(es) /\ Len(es) \in Nat /\ Len(es) > 0 /\ Head(es) = es[1]
      /\ DOMAIN Tail(es) = 1 .. Len(es) - 1
      /\ \A i \in 1 .. Len(es) - 1 : Tail(es)[i] = es[i + 1]
  OBVIOUS
<1>2. DOMAIN <<Head(es)>> = {1} /\ <<Head(es)>>[1] = es[1]
  BY <1>1
<1> DEFINE rest == Tail(es) one == <<Head(es)>>
<1> HIDE DEF rest, one
<1>3. ASSUME NEW x PROVE x \in DeathsIn(es) <=> x \in DeathsIn(rest) \/ x \in DeathsIn(one)
  <2>1. x \in DeathsIn(es) <=> \E i \in DOMAIN es : es[i].type = "phase.changed" /\ x \in es[i].dead
    BY DeathsOf
  <2>2. x \in DeathsIn(rest) <=> \E i \in DOMAIN rest : rest[i].type = "phase.changed" /\ x \in rest[i].dead
    BY DeathsOf
  <2>3. x \in DeathsIn(one) <=> es[1].type = "phase.changed" /\ x \in es[1].dead
    BY <1>2, DeathsOf DEF one
  <2>4. \A i \in DOMAIN rest : i + 1 \in DOMAIN es /\ rest[i] = es[i + 1]
    BY <1>1 DEF rest
  <2>5. \A i \in DOMAIN es : i = 1 \/ (i - 1 \in DOMAIN rest /\ rest[i - 1] = es[i])
    BY <1>1 DEF rest
  <2>6. 1 \in DOMAIN es
    BY <1>1
  <2> QED BY <2>1, <2>2, <2>3, <2>4, <2>5, <2>6
<1> QED BY <1>3 DEF rest, one

LEMMA NoDeaths == DeathsIn(<<>>) = {}
<1>1. \A x : x \notin DeathsIn(<<>>)
  BY DeathsOf
<1> QED BY <1>1

\* What is true of a game is true of it later.
Later(g, h) == g.dead \subseteq h.dead /\ (g.winner # NoSide => h.winner = g.winner)

LEMMA StaysTrue ==
  ASSUME NEW g, NEW h, Later(g, h)
  PROVE  /\ \A e : EventTrue(e, g) => EventTrue(e, h)
         /\ \A e : PollTrue(e, g) => PollTrue(e, h)
<1>1. \A e : EventTrue(e, g) => EventTrue(e, h)
  BY RoomAssumption DEF EventTrue, ReplayEvents, Later
<1>2. \A e : EntryTrue(e, g) => EntryTrue(e, h)
  BY DEF EntryTrue, Later
<1> QED BY <1>1, <1>2 DEF PollTrue

\* A step of the server: the game goes on, and an event is sent or none.
LEMMA ServerKeeps ==
  ASSUME RoomInv, GameOK', Later(game, game'), UNCHANGED <<polls, room>>,
         \/ Unseen /\ game'.dead = game.dead
         \/ \E e \in ReplayEvents :
              /\ Broadcast(e) /\ EventTrue(e, game')
              /\ game'.dead \subseteq game.dead \cup DeathsIn(<<e>>)
  PROVE  RoomInv'
<1>1. BoardOK'
  BY DEF RoomInv, BoardOK, Later
<1>2. \A i \in Polls : PollTrue(polls'[i], game')
  BY StaysTrue DEF RoomInv, WayOK
<1>3. \A i \in DOMAIN events : EventTrue(events[i], game')
  BY StaysTrue DEF RoomInv, WayOK
<1>4. CASE Unseen /\ game'.dead = game.dead
  <2>1. UNCHANGED <<events, missed>> /\ DeathsIn(events)' = DeathsIn(events)
    BY <1>4 DEF Unseen
  <2> QED BY <1>1, <1>2, <1>3, <1>4, <2>1 DEF RoomInv, WayOK, DeathsKnown
<1>5. ASSUME NEW e \in ReplayEvents, Broadcast(e), EventTrue(e, game'),
             game'.dead \subseteq game.dead \cup DeathsIn(<<e>>)
      PROVE  RoomInv'
  <2>1. events \in Seq(ReplayEvents)
    BY DEF RoomInv, WayOK
  <2>2. CASE stream = "open"
    <3>1. events' = Append(events, e) /\ missed' = missed
      BY <1>5, <2>2 DEF Broadcast
    <3>2. DeathsIn(events)' = DeathsIn(events) \cup DeathsIn(<<e>>)
      BY <2>1, <3>1, DeathsOfMore DEF DeathsIn
    <3>3. events' \in Seq(ReplayEvents) /\ \A i \in DOMAIN events' : EventTrue(events'[i], game')
      BY <1>3, <1>5, <2>1, <3>1
    <3> QED BY <1>1, <1>2, <1>5, <3>1, <3>2, <3>3 DEF RoomInv, WayOK, DeathsKnown
  <2>3. CASE stream # "open"
    <3>1. events' = events /\ missed' = missed \cup DeathsIn(<<e>>)
      BY <1>5, <2>3 DEF Broadcast
    <3>2. DeathsIn(events)' = DeathsIn(events)
      BY <3>1
    <3> QED BY <1>1, <1>2, <1>3, <1>5, <3>1, <3>2 DEF RoomInv, WayOK, DeathsKnown
  <2> QED BY <2>2, <2>3
<1> QED BY <1>4, <1>5

LEMMA ServerStepInv ==
  ASSUME RoomInv, ServerStep
  PROVE  RoomInv' /\ UNCHANGED room
<1>0. GameOK /\ MaxPhases \in Nat
  BY RoomAssumption DEF RoomInv
<1>1. CASE StartGame \/ SettleEntry \/ FailEntry
  <2>1. PICK s \in RoomStatuses : game' = [game EXCEPT !.status = s] /\ (s = "completed" => game.winner # NoSide)
    BY <1>1 DEF StartGame, SettleEntry, FailEntry, RoomStatuses
  <2>2. GameOK' /\ Later(game, game') /\ game'.dead = game.dead
    BY <1>0, <2>1 DEF GameOK, Games, Later
  <2>3. Unseen
    BY <1>1 DEF StartGame, SettleEntry, FailEntry
  <2> QED BY <2>2, <2>3, ServerKeeps DEF Unseen
<1>2. ASSUME NEW D \in SUBSET RoomPlayers, ChangePhase(D) PROVE RoomInv' /\ UNCHANGED room
  <2> DEFINE e == PhaseChanged(game.phase + 1, D)
  <2>1. /\ game' = [game EXCEPT !.phase = game.phase + 1, !.dead = @ \cup D, !.tracked = @ \cup D]
        /\ game.phase < MaxPhases /\ Broadcast(e)
    BY <1>2 DEF ChangePhase, EntryAfter
  <2>a. game' = [status |-> game.status, phase |-> game.phase + 1, dead |-> game.dead \cup D,
                 tracked |-> game.tracked \cup D, winner |-> game.winner]
    BY <1>0, <2>1 DEF GameOK, Games
  <2>2. GameOK' /\ Later(game, game') /\ game'.dead = game.dead \cup D
    BY <1>0, <2>1, <2>a DEF GameOK, Games, Later
  <2>3. e \in ReplayEvents /\ e.type = "phase.changed" /\ e.dead = D
    BY <1>0, <2>1 DEF GameOK, Games, ReplayEvents, PhaseChanged
  <2> HIDE DEF e
  <2>4. EventTrue(e, game')
    BY <2>2, <2>3 DEF EventTrue
  <2>5. game'.dead \subseteq game.dead \cup DeathsIn(<<e>>)
    <3>1. \A x \in D : x \in DeathsIn(<<e>>)
      BY <2>3, DeathsOf
    <3> QED BY <2>2, <3>1
  <2> QED BY <2>1, <2>2, <2>3, <2>4, <2>5, ServerKeeps DEF Broadcast
<1>3. ASSUME NEW side \in Sides, CompleteMatch(side) PROVE RoomInv' /\ UNCHANGED room
  <2> DEFINE e == MatchCompleted(side)
  <2>1. /\ game' = [game EXCEPT !.winner = side] /\ game.winner = NoSide /\ Broadcast(e)
    BY <1>3 DEF CompleteMatch
  <2>2. GameOK' /\ Later(game, game') /\ game'.dead = game.dead /\ game'.winner = side
    BY <1>0, <2>1, RoomAssumption DEF GameOK, Games, Later
  <2>3. e \in ReplayEvents /\ e.type = "match.completed" /\ e.winner = side
    BY DEF ReplayEvents, MatchCompleted
  <2> HIDE DEF e
  <2>4. EventTrue(e, game')
    BY <2>2, <2>3 DEF EventTrue
  <2> QED BY <2>1, <2>2, <2>3, <2>4, ServerKeeps DEF Broadcast
<1> QED BY <1>1, <1>2, <1>3 DEF ServerStep

\* What the reducer makes of an event that is true, and of an entry.
PhaseKept == room'.phase >= room.phase \/ (events # <<>> /\ events' = Tail(events))
VerdictKept == room.winner # NoSide => room'.winner = room.winner

LEMMA ReceiveEventInv ==
  ASSUME RoomInv, ReceiveEvent
  PROVE  RoomInv' /\ PhaseKept /\ VerdictKept
<1> DEFINE e == Head(events)
<1>1. /\ events # <<>> /\ UNCHANGED <<game, polls>>
      /\ room' = IF e.type = "phase.changed" THEN PhaseChangedReduced(e) ELSE MatchCompletedReduced(e)
      /\ events' = IF room'.status = room.status THEN Tail(events) ELSE <<>>
      /\ missed' = (missed \ DeathsIn(<<e>>)) \cup Unreached(room'.status, Tail(events))
  BY DEF ReceiveEvent, FollowStatus
<1>2. /\ events \in Seq(ReplayEvents) /\ EventTrue(e, game)
      /\ Tail(events) \in Seq(ReplayEvents)
      /\ \A i \in DOMAIN Tail(events) : EventTrue(Tail(events)[i], game)
  <2>1. events \in Seq(ReplayEvents) /\ \A i \in DOMAIN events : EventTrue(events[i], game)
    BY DEF RoomInv, WayOK
  <2>2. /\ 1 \in DOMAIN events /\ e = events[1]
        /\ Tail(events) \in Seq(ReplayEvents)
        /\ \A i \in DOMAIN Tail(events) : i + 1 \in DOMAIN events /\ Tail(events)[i] = events[i + 1]
    BY <1>1, <2>1
  <2> QED BY <2>1, <2>2
<1>3. DeathsIn(events) = DeathsIn(<<e>>) \cup DeathsIn(Tail(events))
  BY <1>1, <1>2, DeathsOfFirst
<1>4. \A x : x \in DeathsIn(<<e>>) <=> e.type = "phase.changed" /\ x \in e.dead
  <2>1. DOMAIN <<e>> = {1} /\ <<e>>[1] = e
    OBVIOUS
  <2> QED BY <2>1, DeathsOf
<1> HIDE DEF e
<1>5. /\ room' \in Boards /\ room'.dead \subseteq game.dead
      /\ room'.winner \in {room.winner, game.winner}
      /\ (room'.winner # NoSide => room'.winner = game.winner)
      /\ DeathsIn(<<e>>) \subseteq room'.dead /\ room.dead \subseteq room'.dead
      /\ (room'.phase >= room.phase \/ room'.status = room.status)
  <2>0. BoardOK /\ MaxPhases \in Nat
    BY RoomAssumption DEF RoomInv
  <2>1. CASE e.type = "phase.changed"
    <3>1. room' = [room EXCEPT !.phase = e.phase, !.dead = @ \cup e.dead]
      BY <1>1, <2>1 DEF PhaseChangedReduced
    <3>2. e.phase \in 1 .. MaxPhases /\ e.dead \in SUBSET RoomPlayers /\ e.dead \subseteq game.dead
      BY <1>2, <2>1 DEF EventTrue, ReplayEvents
    <3>3. room' = [status |-> room.status, phase |-> e.phase, dead |-> room.dead \cup e.dead,
                   winner |-> room.winner]
      BY <2>0, <3>1 DEF BoardOK, Boards
    <3> QED BY <1>4, <2>0, <3>2, <3>3 DEF BoardOK, Boards, Finished
  <2>2. CASE e.type # "phase.changed"
    <3>1. room' = [room EXCEPT !.status = "completed", !.phase = Finished, !.winner = e.winner]
      BY <1>1, <2>2 DEF MatchCompletedReduced
    <3>2. e.winner \in Sides /\ e.winner = game.winner
      BY <1>2, <2>2 DEF EventTrue, ReplayEvents
    <3>3. room' = [status |-> "completed", phase |-> Finished, dead |-> room.dead, winner |-> e.winner]
      BY <2>0, <3>1 DEF BoardOK, Boards
    <3> QED BY <1>4, <2>0, <2>2, <3>2, <3>3 DEF BoardOK, Boards, Finished, RoomStatuses
  <2> QED BY <2>1, <2>2
<1>6. BoardOK' /\ GameOK'
  BY <1>1, <1>5 DEF BoardOK, RoomInv, GameOK
<1>7. WayOK'
  <2>1. events' \in Seq(ReplayEvents) /\ \A i \in DOMAIN events' : EventTrue(events'[i], game)
    BY <1>1, <1>2
  <2> QED BY <1>1, <2>1 DEF RoomInv, WayOK
<1>8. DeathsKnown'
  <2>1. DeathsIn(events)' = IF room'.status = room.status THEN DeathsIn(Tail(events)) ELSE {}
    <3>1. DeathsIn(events)' = DeathsIn(events')
      BY DEF DeathsIn
    <3> QED BY <1>1, <3>1, NoDeaths
  <2>2. room'.status # room.status => DeathsIn(Tail(events)) \subseteq missed'
    BY <1>1 DEF Unreached
  <2> QED BY <1>1, <1>3, <1>5, <2>1, <2>2 DEF DeathsKnown, RoomInv
<1>9. PhaseKept /\ VerdictKept
  BY <1>1, <1>5 DEF PhaseKept, VerdictKept, RoomInv, BoardOK
<1> QED BY <1>6, <1>7, <1>8, <1>9 DEF RoomInv

\* The board with three of its fields replaced, as the two parts of the merge replace them.
BoardFields == {"status", "phase", "dead", "winner"}
Merged(r, s, p, d) == [r EXCEPT !.status = s, !.dead = d, !.phase = p]
Final(r, p, d, w) == [r EXCEPT !.phase = p, !.winner = w, !.dead = d]

LEMMA BoardReplaced ==
  ASSUME NEW r, r = [x \in BoardFields |-> r[x]], NEW s, NEW p, NEW d, NEW w
  PROVE  /\ Merged(r, s, p, d) = [status |-> s, phase |-> p, dead |-> d, winner |-> r.winner]
         /\ Final(r, p, d, w) = [status |-> r.status, phase |-> p, dead |-> d, winner |-> w]
<1> DEFINE merged == [r EXCEPT !.status = s, !.dead = d, !.phase = p]
           final == [r EXCEPT !.phase = p, !.winner = w, !.dead = d]
<1>1. DOMAIN r = {"status", "phase", "dead", "winner"}
  BY DEF BoardFields
<1>2. /\ merged = [x \in DOMAIN r |-> merged[x]] /\ DOMAIN merged = DOMAIN r
      /\ merged.status = s /\ merged.phase = p /\ merged.dead = d /\ merged.winner = r.winner
  BY <1>1
<1>3. /\ final = [x \in DOMAIN r |-> final[x]] /\ DOMAIN final = DOMAIN r
      /\ final.status = r.status /\ final.phase = p /\ final.dead = d /\ final.winner = w
  BY <1>1
<1> HIDE DEF merged, final
<1>4. merged = [status |-> s, phase |-> p, dead |-> d, winner |-> r.winner]
  BY <1>1, <1>2
<1>5. final = [status |-> r.status, phase |-> p, dead |-> d, winner |-> w]
  BY <1>1, <1>3
<1> QED BY <1>4, <1>5 DEF merged, final, Merged, Final

LEMMA ReceiveEntryInv ==
  ASSUME RoomInv, NEW i \in Polls, ReceiveEntry(i)
  PROVE  RoomInv' /\ PhaseKept /\ VerdictKept
<1> DEFINE E == polls[i].entry
           after == WithFinalPlayers(LobbySync(E), E)
<1>1. /\ polls[i].at = "answered" /\ UNCHANGED game /\ room' = after
      /\ events' = IF room'.status = room.status THEN events ELSE <<>>
      /\ missed' = (missed \ (IF Reveals(E.status) THEN E.asOf ELSE {}))
                     \cup (IF Reveals(E.status) THEN room.dead \ E.asOf ELSE {})
                     \cup (Unreached(room'.status, events) \ room'.dead)
      /\ polls' = [polls EXCEPT ![i] = Free]
  BY DEF ReceiveEntry, FollowStatus
<1>2. EntryTrue(E, game)
  BY <1>1 DEF RoomInv, WayOK, PollTrue, Free, Asked
<1>0. BoardOK /\ MaxPhases \in Nat
  BY RoomAssumption DEF RoomInv
<1> HIDE DEF E
<1>3. LobbySync(E) = [status |-> E.status, phase |-> MergedPhase(E), dead |-> MergedDead(E), winner |-> room.winner]
  <2>1. room = [x \in BoardFields |-> room[x]]
    BY <1>0 DEF BoardOK, Boards, BoardFields
  <2>2. LobbySync(E) = Merged(room, E.status, MergedPhase(E), MergedDead(E))
    BY DEF LobbySync, Merged
  <2> QED BY <2>1, <2>2, BoardReplaced
<1>4. after = IF E.status = "completed"
              THEN [status |-> E.status, phase |-> Finished, dead |-> E.dead, winner |-> E.winner]
              ELSE [status |-> E.status, phase |-> MergedPhase(E), dead |-> MergedDead(E), winner |-> room.winner]
  <2> DEFINE S == [status |-> E.status, phase |-> MergedPhase(E), dead |-> MergedDead(E), winner |-> room.winner]
  <2>1. S = [x \in BoardFields |-> S[x]] /\ S.status = E.status
    BY DEF BoardFields
  <2>2. [S EXCEPT !.phase = Finished, !.winner = E.winner, !.dead = E.dead]
          = [status |-> E.status, phase |-> Finished, dead |-> E.dead, winner |-> E.winner]
    <3>1. [S EXCEPT !.phase = Finished, !.winner = E.winner, !.dead = E.dead]
            = Final(S, Finished, E.dead, E.winner)
      BY DEF Final
    <3> HIDE DEF S
    <3> QED BY <2>1, <3>1, BoardReplaced
  <2>3. after = IF E.status = "completed"
                THEN [S EXCEPT !.phase = Finished, !.winner = E.winner, !.dead = E.dead] ELSE S
    BY <1>3 DEF WithFinalPlayers
  <2> QED BY <2>2, <2>3
<1> HIDE DEF after
<1>5. /\ E.status \in RoomStatuses /\ E.phase \in 0 .. MaxPhases /\ E.dead \in SUBSET RoomPlayers
      /\ E.asOf \subseteq game.dead
      /\ (Reveals(E.status) => E.dead = E.asOf)
      /\ (E.status = "completed" => Reveals(E.status) /\ E.winner \in Sides /\ E.winner = game.winner)
  BY <1>2 DEF EntryTrue, PublicEntries, Reveals
<1>6. /\ room' \in Boards
      /\ room'.dead = IF Reveals(E.status) THEN E.dead ELSE room.dead
      /\ room'.winner \in {room.winner, game.winner}
      /\ (room'.winner # NoSide => room'.winner = game.winner)
      /\ room'.phase >= room.phase
  <2>1. MergedDead(E) = IF Reveals(E.status) THEN E.dead ELSE room.dead
    BY DEF MergedDead
  <2>2. MergedPhase(E) \in 0 .. Finished /\ MergedPhase(E) >= room.phase
    BY <1>0, <1>5 DEF MergedPhase, PreMatch, BoardOK, Boards, Finished
  <2>3. CASE E.status = "completed"
    <3>1. room' = [status |-> E.status, phase |-> Finished, dead |-> E.dead, winner |-> E.winner]
      BY <1>1, <1>4, <2>3
    <3> QED BY <1>0, <1>5, <2>3, <3>1 DEF BoardOK, Boards, Finished
  <2>4. CASE E.status # "completed"
    <3>1. room' = [status |-> E.status, phase |-> MergedPhase(E), dead |-> MergedDead(E), winner |-> room.winner]
      BY <1>1, <1>4, <2>4
    <3> QED BY <1>0, <1>5, <2>1, <2>2, <3>1 DEF BoardOK, Boards
  <2> QED BY <2>3, <2>4
<1>7. BoardOK' /\ GameOK'
  BY <1>0, <1>1, <1>5, <1>6 DEF BoardOK, RoomInv, GameOK
<1>8. WayOK'
  <2>1. events' \in Seq(ReplayEvents) /\ \A j \in DOMAIN events' : EventTrue(events'[j], game)
    BY <1>1 DEF RoomInv, WayOK
  <2>2. \A j \in Polls : polls'[j] = IF j = i THEN Free ELSE polls[j]
    BY <1>1 DEF RoomInv, WayOK
  <2>3. polls' = [j \in Polls |-> polls'[j]]
    BY <1>1 DEF RoomInv, WayOK
  <2>4. \A j \in Polls : PollTrue(polls'[j], game)
    BY <2>2 DEF RoomInv, WayOK, PollTrue
  <2> QED BY <1>1, <2>1, <2>3, <2>4 DEF WayOK
<1>9. DeathsKnown'
  <2>1. DeathsIn(events)' = IF room'.status = room.status THEN DeathsIn(events) ELSE {}
    <3>1. DeathsIn(events)' = DeathsIn(events')
      BY DEF DeathsIn
    <3> QED BY <1>1, <3>1, NoDeaths
  <2>2. room'.status # room.status => DeathsIn(events) \subseteq missed' \cup room'.dead
    BY <1>1 DEF Unreached
  <2>3. game.dead \subseteq room.dead \cup missed \cup DeathsIn(events)
    BY DEF RoomInv, DeathsKnown
  <2> QED BY <1>1, <1>5, <1>6, <2>1, <2>2, <2>3 DEF DeathsKnown
<1>10. PhaseKept /\ VerdictKept
  BY <1>0, <1>6 DEF PhaseKept, VerdictKept, BoardOK
<1> QED BY <1>7, <1>8, <1>9, <1>10 DEF RoomInv

\* The rest of the page's steps leave the board alone.
LEMMA PageRests ==
  ASSUME RoomInv,
         OpenStream \/ DropStream \/ \E i \in Polls : SendPoll(i) \/ AnswerPoll(i) \/ FailPoll(i)
  PROVE  RoomInv' /\ UNCHANGED room
<1>0. GameOK /\ WayOK /\ BoardOK /\ DeathsKnown
  BY DEF RoomInv
<1>1. CASE OpenStream
  <2>1. UNCHANGED <<game, events, polls, room, missed>>
    BY <1>1 DEF OpenStream
  <2> QED BY <1>0, <2>1 DEF RoomInv, GameOK, WayOK, BoardOK, DeathsKnown, DeathsIn
<1>2. CASE DropStream
  <2>1. /\ UNCHANGED <<game, polls, room>> /\ events' = <<>>
        /\ missed' = missed \cup (DeathsIn(events) \ room.dead)
    BY <1>2 DEF DropStream
  <2>2. DeathsKnown'
    BY <1>0, <2>1 DEF DeathsKnown
  <2> QED BY <1>0, <2>1, <2>2 DEF RoomInv, GameOK, WayOK, BoardOK
<1>3. ASSUME NEW i \in Polls, SendPoll(i) \/ AnswerPoll(i) \/ FailPoll(i)
      PROVE  RoomInv' /\ UNCHANGED room
  <2>1. PICK poll : /\ polls' = [polls EXCEPT ![i] = poll] /\ PollTrue(poll, game)
                    /\ UNCHANGED <<game, events, room, missed>>
    <3>1. CASE AnswerPoll(i)
      <4>1. polls' = [polls EXCEPT ![i] = [at |-> "answered", entry |-> PublicEntry]]
            /\ UNCHANGED <<game, events, room, missed>>
        BY <3>1 DEF AnswerPoll
      <4>2. EntryTrue(PublicEntry, game)
        <5>1. MaxPhases \in Nat
          BY RoomAssumption
        <5> QED BY <1>0, <5>1 DEF EntryTrue, PublicEntry, PublicEntries, GameOK, Games, Reveals, PreMatch
      <4>3. PollTrue([at |-> "answered", entry |-> PublicEntry], game)
        BY <4>2 DEF PollTrue
      <4> QED BY <4>1, <4>3
    <3>2. CASE SendPoll(i) \/ FailPoll(i)
      BY <3>2 DEF SendPoll, FailPoll, PollTrue
    <3> QED BY <1>3, <3>1, <3>2
  <2>2. \A j \in Polls : polls'[j] = IF j = i THEN poll ELSE polls[j]
    BY <1>0, <2>1 DEF WayOK
  <2>3. polls' = [j \in Polls |-> polls'[j]]
    BY <1>0, <2>1 DEF WayOK
  <2>4. WayOK'
    BY <1>0, <2>1, <2>2, <2>3 DEF WayOK
  <2> QED BY <1>0, <2>1, <2>4 DEF RoomInv, GameOK, BoardOK, DeathsKnown, DeathsIn
<1> QED BY <1>1, <1>2, <1>3

LEMMA RoomStarts == RoomInit => RoomInv
<1> SUFFICES ASSUME RoomInit PROVE RoomInv
  OBVIOUS
<1>0. MaxPhases \in Nat /\ NoSide \notin Sides
  BY RoomAssumption
<1>1. GameOK
  <2>1. PICK s \in {"waiting", "running"} :
           game = [status |-> s, phase |-> PreMatch, dead |-> {}, tracked |-> {}, winner |-> NoSide]
    BY DEF RoomInit
  <2> QED BY <1>0, <2>1 DEF GameOK, Games, RoomStatuses, PreMatch
<1>2. WayOK
  BY DEF RoomInit, WayOK, PollTrue
<1>3. BoardOK
  BY <1>0 DEF RoomInit, BoardOK, Boards, RoomStatuses, PreMatch, Finished
<1>4. DeathsKnown
  BY DEF RoomInit, DeathsKnown
<1> QED BY <1>1, <1>2, <1>3, <1>4 DEF RoomInv

LEMMA RoomStep ==
  ASSUME RoomInv, [RoomNext]_roomVars
  PROVE  RoomInv' /\ ((PhaseKept /\ VerdictKept) \/ UNCHANGED room)
<1>1. CASE ServerStep
  BY <1>1, ServerStepInv
<1>2. CASE PageStep
  BY <1>2, ReceiveEventInv, ReceiveEntryInv, PageRests DEF PageStep
<1>3. CASE UNCHANGED roomVars
  <2>1. UNCHANGED <<game, events, polls, room, missed>>
    BY <1>3 DEF roomVars
  <2> QED BY <2>1 DEF RoomInv, GameOK, WayOK, BoardOK, DeathsKnown, DeathsIn
<1> QED BY <1>1, <1>2, <1>3 DEF RoomNext

\* Whatever is lost, late or read before it is out of date: the page shows nobody dead who
\* lives, a death it does not show is on its way or was missed, and no entry takes the page
\* back.  The part of RoomSound that is not liveness.
THEOREM RoomShowsTheGame == RoomSpec => RoomIsTrue
<1> DEFINE Shown == /\ room.dead \subseteq game.dead
                    /\ game.dead \subseteq room.dead \cup missed \cup DeathsIn(events)
                    /\ room.winner # NoSide => room.winner = game.winner
           Kept == /\ room'.phase >= room.phase \/ (events # <<>> /\ events' = Tail(events))
                   /\ room.winner # NoSide => room'.winner = room.winner
<1>1. RoomInv /\ [RoomNext]_roomVars => RoomInv' /\ [Kept]_room
  BY RoomStep DEF PhaseKept, VerdictKept
<1>2. RoomInv => Shown
  BY DEF RoomInv, BoardOK, DeathsKnown
<1> HIDE DEF Shown, Kept
<1>3. RoomSpec => []Shown /\ [][Kept]_room
  BY <1>1, <1>2, RoomStarts, PTL DEF RoomSpec
<1> QED BY <1>3 DEF RoomIsTrue, Shown, Kept

-----------------------------------------------------------------------------
(* What a spectator reads of a match.                                       *)

Booths ==
  [phase : Phases \cup {"pre-match", "completed"}, night : Nat, day : Nat,
   thinking : Players \cup {None}, speaking : Players \cup {None},
   current : Speeches \cup {None}, last : Speeches \cup {None},
   causes : [Players -> SUBSET Causes]]

\* Event by event: the page after a few events is made of one after the other.
LEMMA EventByEvent ==
  ASSUME NEW es, Len(es) \in 0 .. 4
  PROVE  \E page : /\ page[0] = [booth |-> booth, told |-> told]
                   /\ \A i \in 1 .. Len(es) : page[i] = OnEvent(page[i - 1], Public(es[i]))
                   /\ AfterEvents(es) = page[Len(es)]
<1> DEFINE n == Len(es)
           next(page, i) == OnEvent(page, Public(es[i]))
           start == [booth |-> booth, told |-> told]
           p1 == next(start, 1) p2 == next(p1, 2) p3 == next(p2, 3) p4 == next(p3, 4)
           pages == [i \in 0 .. n |-> IF i = 0 THEN start ELSE IF i = 1 THEN p1
                                      ELSE IF i = 2 THEN p2 ELSE IF i = 3 THEN p3 ELSE p4]
           Follows(page) == page = [i \in 0 .. n |-> IF i = 0 THEN start ELSE next(page[i - 1], i)]
<1>1. Follows(pages)
  <2> DEFINE step == [i \in 0 .. n |-> IF i = 0 THEN start ELSE next(pages[i - 1], i)]
  <2>1. ASSUME NEW i \in 0 .. n PROVE pages[i] = step[i]
    <3> HIDE DEF next, start
    <3>a. n \in 0 .. 4 /\ i \in 0 .. n
      OBVIOUS
    <3> HIDE DEF n
    <3>1. i \in {0, 1, 2, 3, 4} /\ n \in 0 .. 4
      BY <3>a
    <3>2. CASE i = 0
      BY <3>2
    <3>3. CASE i = 1
      BY <3>1, <3>3
    <3>4. CASE i = 2
      BY <3>1, <3>4
    <3>5. CASE i = 3
      BY <3>1, <3>5
    <3>6. CASE i = 4
      BY <3>1, <3>6
    <3> QED BY <3>1, <3>2, <3>3, <3>4, <3>5, <3>6
  <2> HIDE DEF n, next, start, p1, p2, p3, p4
  <2> QED BY <2>1
<1> DEFINE page == CHOOSE f : Follows(f)
<1>2. Follows(page)
  <2> HIDE DEF Follows, pages
  <2> QED BY <1>1
<1>3. AfterEvents(es) = page[n]
  BY DEF AfterEvents
<1>4. page[0] = start /\ \A i \in 1 .. n : page[i] = next(page[i - 1], i)
  <2> HIDE DEF page, next, start
  <2>1. page = [i \in 0 .. n |-> IF i = 0 THEN start ELSE next(page[i - 1], i)]
    BY <1>2
  <2>2. n \in Nat
    OBVIOUS
  <2> HIDE DEF n
  <2> QED BY <2>1, <2>2
<1> QED BY <1>3, <1>4

\* What is shown of an agent at night, and of whom.
Veiled(e) == e.type \in AgentEvents /\ e.phase \in PrivatePhases => e.player = None

LEMMA PublicView ==
  ASSUME NEW type, NEW p, NEW ph, NEW a
  PROVE  LET e == Public(AgentEvent(type, p, ph, a))
         IN /\ e.type = type /\ e.phase = ph /\ e.action = a /\ Veiled(e)
            /\ (ph \notin PrivatePhases \/ type \notin AgentEvents => e.player = p)
<1> DEFINE e == AgentEvent(type, p, ph, a)
           hidden == [e EXCEPT !.player = None]
<1>1. e = [type |-> type, player |-> p, phase |-> ph, action |-> a]
  BY DEF AgentEvent
<1>2. hidden = [type |-> type, player |-> None, phase |-> ph, action |-> a]
  BY <1>1
<1>3. Public(e) = IF type \in AgentEvents /\ ph \in PrivatePhases THEN hidden ELSE e
  BY <1>1 DEF Public
<1> HIDE DEF e, hidden
<1> QED BY <1>1, <1>2, <1>3 DEF Veiled, e

\* What an event that changes no phase adds to the account: one line at most, and
\* nothing but the fold of a night says which night it is.
ToldOn(t, u, night) ==
  /\ u.deaths = t.deaths /\ u.flops = t.flops
  /\ t.exposed = {} => u.exposed = {}
  /\ \/ u.last = t.last
     \/ u.last.kind \notin {"night-fold", "phase-night", "phase-day"}
     \/ u.last.kind = "night-fold" /\ u.last.n = night /\ night >= 1

Tolds(t) == t.deaths = [p \in Players |-> t.deaths[p]] /\ t.deaths \in [Players -> Nat] /\ t.flops \in Nat

LEMMA OneLineTold ==
  ASSUME NEW t, Tolds(t), NEW e, NEW b, e.type # "phase.changed", Veiled(e), b.night \in Nat,
         NEW u, u = Tell(t, e, LinesOf(e, b, t))
  PROVE  ToldOn(t, u, b.night)
<1> DEFINE ls == LinesOf(e, b, t)
<1>1. \/ ls = <<>>
      \/ \E line : /\ ls = <<line>> /\ line.kind \notin {"death", "no-banishment", "phase-night", "phase-day"}
                   /\ (line.kind = "night-fold" => line.n = b.night /\ b.night >= 1)
                   /\ (e.type \in AgentEvents /\ e.phase \in PrivatePhases => line.names = {})
  <2>1. CASE Lines(e) = <<>>
    <3>1. ls = <<>> \/ (ls = <<Fold(b.night)>> /\ b.night >= 1)
      BY <2>1 DEF LinesOf, Folds
    <3>2. Fold(b.night).kind = "night-fold" /\ Fold(b.night).n = b.night /\ Fold(b.night).names = {}
      BY DEF Fold, Line
    <3> QED BY <3>1, <3>2
  <2>2. CASE Lines(e) # <<>>
    <3>1. ls = Lines(e)
      BY <2>2 DEF LinesOf
    <3>2. \E kind \in {"system", "speak", "vote", "completion"}, names \in {NamesOf(e.player), NamesOf(e.player) \cup NamesOf(e.action.target), {}} :
            /\ ls = <<Line(kind, names, 0)>>
            /\ (e.type \in AgentEvents /\ e.phase \in PrivatePhases => names = NamesOf(e.player))
      <4> HIDE DEF ls
      <4>1. CASE e.type = "agent.action_received"
        <5>1. ls = ActionLines(e) /\ ls # <<>>
          BY <2>2, <3>1, <4>1 DEF Lines
        <5>2. e.phase \notin PrivatePhases
          BY <5>1 DEF ActionLines
        <5>3. \/ ls = <<Line("speak", NamesOf(e.player), 0)>>
              \/ ls = <<Line("vote", NamesOf(e.player) \cup NamesOf(e.action.target), 0)>>
              \/ ls = <<Line("system", NamesOf(e.player) \cup NamesOf(e.action.target), 0)>>
          BY <5>1, <5>2 DEF ActionLines
        <5> QED BY <5>2, <5>3
      <4>2. CASE e.type # "agent.action_received"
        BY <2>2, <3>1, <4>2 DEF Lines, AgentEvents
      <4> QED BY <4>1, <4>2
    <3>3. PICK kind, names :
            /\ kind \in {"system", "speak", "vote", "completion"}
            /\ ls = <<Line(kind, names, 0)>>
            /\ (e.type \in AgentEvents /\ e.phase \in PrivatePhases => names = NamesOf(e.player))
      BY <3>2
    <3>4. Line(kind, names, 0).kind = kind /\ Line(kind, names, 0).names = names
      BY DEF Line
    <3>5. e.type \in AgentEvents /\ e.phase \in PrivatePhases => names = {}
      BY <3>3 DEF Veiled, NamesOf
    <3> QED BY <3>3, <3>4, <3>5
  <2> QED BY <2>1, <2>2
<1> HIDE DEF ls
<1> DEFINE told1(p) == Cardinality({i \in DOMAIN ls : ls[i].kind = "death" /\ p \in ls[i].names})
           flops == Cardinality({i \in DOMAIN ls : ls[i].kind = "no-banishment"})
           exposed == IF e.type \in AgentEvents /\ e.phase \in PrivatePhases
                      THEN UNION {ls[i].names : i \in DOMAIN ls} ELSE {}
<1>2. u = [last |-> IF ls = <<>> THEN t.last ELSE ls[Len(ls)],
           deaths |-> [p \in Players |-> t.deaths[p] + told1(p)],
           flops |-> t.flops + flops, exposed |-> t.exposed \cup exposed]
  BY DEF Tell, ls
<1>3. \A i \in DOMAIN ls : i = 1 /\ ls = <<ls[1]>> /\ ls[1].kind \notin {"death", "no-banishment"}
                          /\ (e.type \in AgentEvents /\ e.phase \in PrivatePhases => ls[1].names = {})
  BY <1>1
<1>4. \A p : told1(p) = 0
  <2>1. \A p : {i \in DOMAIN ls : ls[i].kind = "death" /\ p \in ls[i].names} = {}
    BY <1>3
  <2> QED BY <2>1, FS_EmptySet
<1>5. flops = 0
  <2>1. {i \in DOMAIN ls : ls[i].kind = "no-banishment"} = {}
    BY <1>3
  <2> QED BY <2>1, FS_EmptySet
<1>6. exposed = {}
  BY <1>3
<1> HIDE DEF told1, flops, exposed
<1>7. u.deaths = t.deaths
  <2>1. u.deaths = [p \in Players |-> t.deaths[p]]
    BY <1>2, <1>4 DEF Tolds
  <2> QED BY <2>1 DEF Tolds
<1>8. u.flops = t.flops /\ u.exposed = t.exposed
  BY <1>2, <1>5, <1>6 DEF Tolds
<1>9. u.last = t.last \/ (ls # <<>> /\ ls = <<ls[1]>> /\ u.last = ls[1])
  BY <1>1, <1>2
<1> QED BY <1>1, <1>7, <1>8, <1>9 DEF ToldOn

\* A finite set as a sequence: each of its elements once.
LEMMA ListedOnce ==
  ASSUME NEW S, IsFiniteSet(S)
  PROVE  /\ SetToSeq(S) \in Seq(S) /\ DOMAIN SetToSeq(S) = 1 .. Cardinality(S)
         /\ Len(SetToSeq(S)) = Cardinality(S)
         /\ \A x \in S : \E i \in DOMAIN SetToSeq(S) : SetToSeq(S)[i] = x
         /\ \A i, j \in DOMAIN SetToSeq(S) : SetToSeq(S)[i] = SetToSeq(S)[j] => i = j
<1> DEFINE n == Cardinality(S)
           s == SetToSeq(S)
<1>1. n \in Nat /\ ExistsBijection(1 .. n, S)
  BY FS_CardinalityType
<1>2. \E f \in [1 .. n -> S] : IsInjective(f)
  BY <1>1 DEF ExistsBijection, Bijection, Injection
<1>3. s \in [1 .. n -> S] /\ IsInjective(s)
  BY <1>2 DEF SetToSeq
<1> HIDE DEF s, n
<1> DEFINE T == {s[i] : i \in 1 .. n}
<1>4. T \subseteq S
  BY <1>3
<1>5. s \in Bijection(1 .. n, T)
  BY <1>3 DEF Bijection, Injection, Surjection, IsInjective
<1>6. Cardinality(T) = n
  BY <1>1, <1>5, FS_CountingElements DEF ExistsBijection
<1>7. T = S
  BY <1>4, <1>6, FS_Subset DEF n
<1>8. s \in Seq(S) /\ DOMAIN s = 1 .. n /\ Len(s) = n
  BY <1>1, <1>3
<1> QED BY <1>3, <1>7, <1>8 DEF s, n, IsInjective

\* Where the lines of a kind are, and those of a kind that name a player.
LineKinds == {"death", "pk", "no-banishment", "phase-night", "phase-day", "system"}
LineSet == [kind : LineKinds, names : SUBSET Players, n : Nat]
Places(ls, kind) == {i \in DOMAIN ls : ls[i].kind = kind}
PlacesOf(ls, kind, p) == {i \in DOMAIN ls : ls[i].kind = kind /\ p \in ls[i].names}

Appended(s, x, y) ==
  /\ y \in Seq(LineSet)
  /\ \A kind : Places(x, kind) = {} =>
       Places(y, kind) = Places(s, kind) /\ \A p : PlacesOf(y, kind, p) = PlacesOf(s, kind, p)
  /\ \A kind : Places(s, kind) = {} /\ (\E line : x = <<line>> /\ line.kind = kind) =>
       Places(y, kind) = {Len(s) + 1}
  /\ x = <<>> => y = s
  /\ x # <<>> => y # <<>> /\ y[Len(y)] = x[Len(x)]

LEMMA LinesAppended ==
  ASSUME NEW s \in Seq(LineSet), NEW x \in Seq(LineSet)
  PROVE  Appended(s, x, s \o x)
<1> DEFINE y == s \o x
<1>1. /\ y \in Seq(LineSet) /\ Len(y) = Len(s) + Len(x) /\ Len(s) \in Nat /\ Len(x) \in Nat
      /\ DOMAIN y = 1 .. Len(y) /\ DOMAIN s = 1 .. Len(s) /\ DOMAIN x = 1 .. Len(x)
      /\ \A i \in 1 .. Len(s) : y[i] = s[i]
      /\ \A i \in 1 .. Len(x) : y[Len(s) + i] = x[i]
  OBVIOUS
<1>2. x = <<>> => y = s
  OBVIOUS
<1>3. x # <<>> => Len(x) # 0
  OBVIOUS
<1> HIDE DEF y
<1>4. \A i \in DOMAIN y : i \in DOMAIN s \/ (i - Len(s) \in DOMAIN x /\ y[i] = x[i - Len(s)])
  BY <1>1
<1>5. ASSUME NEW kind, Places(x, kind) = {}
      PROVE  Places(y, kind) = Places(s, kind) /\ \A p : PlacesOf(y, kind, p) = PlacesOf(s, kind, p)
  <2>1. \A i \in DOMAIN x : x[i].kind # kind
    BY <1>5 DEF Places
  <2>2. \A i \in DOMAIN s : i \in DOMAIN y /\ y[i] = s[i]
    BY <1>1
  <2>3. \A i \in DOMAIN y : y[i].kind = kind => i \in DOMAIN s
    BY <1>4, <2>1
  <2> QED BY <2>2, <2>3 DEF Places, PlacesOf
<1>6. ASSUME NEW kind, Places(s, kind) = {}, NEW line, x = <<line>>, line.kind = kind
      PROVE  Places(y, kind) = {Len(s) + 1}
  <2>1. \A i \in DOMAIN s : s[i].kind # kind
    BY <1>6 DEF Places
  <2>2. DOMAIN x = {1} /\ x[1] = line
    BY <1>6
  <2>3. Len(s) + 1 \in DOMAIN y /\ y[Len(s) + 1].kind = kind
    BY <1>1, <1>6, <2>2
  <2>4. ASSUME NEW i \in DOMAIN y, y[i].kind = kind PROVE i = Len(s) + 1
    <3>1. i - Len(s) = 1
      <4>1. i \in DOMAIN s => y[i] = s[i]
        BY <1>1
      <4>2. i - Len(s) \in DOMAIN x
        BY <1>4, <2>1, <2>4, <4>1
      <4> QED BY <2>2, <4>2
    <3>2. i \in Nat /\ Len(s) \in Nat
      BY <1>1
    <3> QED BY <3>1, <3>2
  <2> QED BY <2>3, <2>4 DEF Places
<1>7. x # <<>> => y # <<>> /\ y[Len(y)] = x[Len(x)]
  BY <1>1, <1>3
<1>8. Appended(s, x, y)
  BY <1>1, <1>2, <1>5, <1>6, <1>7 DEF Appended
<1> QED BY <1>8 DEF y

\* What a change of phase adds to the account: every death once, a vote without a result,
\* and the banner of the new night or day last, if there is one.
LEMMA ChangeTold ==
  ASSUME NEW t, Tolds(t), NEW e, NEW b, e.type = "phase.changed",
         e.dead \in SUBSET Players, e.candidates \in SUBSET Players,
         e.pkRound \in Nat, e.day \in Nat, e.night \in Nat, e.flopped \in BOOLEAN,
         NEW u, u = Tell(t, e, LinesOf(e, b, t))
  PROVE  /\ u.deaths = [p \in Players |-> t.deaths[p] + (IF p \in e.dead THEN 1 ELSE 0)]
         /\ u.flops = t.flops + (IF e.flopped THEN 1 ELSE 0)
         /\ t.exposed = {} => u.exposed = {}
         /\ e.phase \in PrivatePhases => u.last = Line("phase-night", {}, e.night)
         /\ e.phase \notin PrivatePhases =>
              \/ u.last = Line("phase-day", {}, e.day) /\ IsNewDay(e)
              \/ u.last.kind \notin {"night-fold", "phase-night", "phase-day"}
              \/ /\ u.last = t.last /\ e.dead = {} /\ ~IsNewDay(e) /\ e.phase # "game-over"
                 /\ ~(e.phase = "day-vote" /\ e.pkRound > 0)
<1> DEFINE D == {Line("death", {p}, 0) : p \in e.dead}
           s0 == SetToSeq(D)
           pk == IF e.phase = "day-vote" /\ e.pkRound > 0
                 THEN <<Line("pk", e.candidates, e.pkRound)>> ELSE <<>>
           flop == IF e.flopped THEN <<Line("no-banishment", {}, e.day)>> ELSE <<>>
           banner == CASE e.phase \in PrivatePhases -> <<Line("phase-night", {}, e.night)>>
                       [] IsNewDay(e) -> <<Line("phase-day", {}, e.day)>>
                       [] e.phase = "game-over" -> <<Line("system", {}, 0)>>
                       [] OTHER -> <<>>
           s1 == s0 \o pk
           s2 == s1 \o flop
           ls == s2 \o banner
<1>1. ChangeLines(e) = ls
  BY DEF ChangeLines
<1> DEFINE pk1 == Line("pk", e.candidates, e.pkRound)
           flop1 == Line("no-banishment", {}, e.day)
           night1 == Line("phase-night", {}, e.night)
           day1 == Line("phase-day", {}, e.day)
           over1 == Line("system", {}, 0)
<1>2. pk1 \in LineSet /\ pk1.kind = "pk" /\ flop1 \in LineSet /\ flop1.kind = "no-banishment"
  BY DEF Line, LineSet, LineKinds
<1>3. /\ night1 \in LineSet /\ night1.kind = "phase-night"
      /\ day1 \in LineSet /\ day1.kind = "phase-day"
      /\ over1 \in LineSet /\ over1.kind = "system"
  BY DEF Line, LineSet, LineKinds
<1>4. /\ IsFiniteSet(D) /\ D \in SUBSET LineSet
      /\ \A line \in D : line.kind = "death" /\ \E p \in e.dead : line.names = {p}
      /\ \A p \in e.dead : Line("death", {p}, 0) \in D /\ Line("death", {p}, 0).names = {p}
  <2>1. IsFiniteSet(e.dead)
    BY RolesAssumption, FS_Subset
  <2>2. ASSUME NEW p \in e.dead
        PROVE  /\ Line("death", {p}, 0) \in LineSet /\ Line("death", {p}, 0).kind = "death"
               /\ Line("death", {p}, 0).names = {p}
    BY DEF Line, LineSet, LineKinds
  <2>3. IsFiniteSet(D)
    <3> DEFINE f == [p \in e.dead |-> Line("death", {p}, 0)]
    <3>1. f \in Surjection(e.dead, D)
      BY DEF Surjection
    <3> HIDE DEF f, D
    <3> QED BY <2>1, <3>1, FS_Surjection
  <2> QED BY <2>2, <2>3
<1>5. /\ s0 \in Seq(D) /\ (D = {} <=> s0 = <<>>)
      /\ \A line \in D : \E i \in DOMAIN s0 : s0[i] = line
      /\ \A i, j \in DOMAIN s0 : s0[i] = s0[j] => i = j
  <2> HIDE DEF D
  <2>1. s0 \in Seq(D) /\ Len(s0) = Cardinality(D)
    BY <1>4, ListedOnce
  <2>2. Cardinality(D) = 0 <=> D = {}
    BY <1>4, FS_EmptySet
  <2>3. s0 = <<>> <=> Len(s0) = 0
    BY <2>1
  <2> QED BY <1>4, <2>1, <2>2, <2>3, ListedOnce
<1>6. \A kind : /\ Places(<<>>, kind) = {}
                /\ \A line : Places(<<line>>, kind) = IF line.kind = kind THEN {1} ELSE {}
  BY DEF Places
<1>7. /\ <<>> \in Seq(LineSet)
      /\ \A line \in LineSet : <<line>> \in Seq(LineSet) /\ <<line>> # <<>> /\ <<line>>[Len(<<line>>)] = line
  OBVIOUS
<1> HIDE DEF pk1, flop1, night1, day1, over1, D, s0
<1>8. /\ pk \in Seq(LineSet) /\ flop \in Seq(LineSet)
      /\ (pk = <<>> \/ (pk = <<pk1>> /\ pk # <<>> /\ pk[Len(pk)] = pk1))
      /\ (flop = <<>> \/ (flop = <<flop1>> /\ flop # <<>> /\ flop[Len(flop)] = flop1))
      /\ (pk = <<>> => ~(e.phase = "day-vote" /\ e.pkRound > 0))
      /\ (flop = <<>> <=> ~e.flopped)
  BY <1>2, <1>7 DEF pk1, flop1
<1>9. /\ banner \in Seq(LineSet)
      /\ (e.phase \in PrivatePhases => banner = <<night1>>)
      /\ (e.phase \notin PrivatePhases =>
            \/ banner = <<day1>> /\ IsNewDay(e)
            \/ banner = <<over1>>
            \/ banner = <<>> /\ ~IsNewDay(e) /\ e.phase # "game-over")
  BY <1>3, <1>7 DEF night1, day1, over1, IsNewDay, DayPhases, PrivatePhases
<1> HIDE DEF pk, flop, banner
<1>10. s0 \in Seq(LineSet) /\ \A i \in DOMAIN s0 : s0[i] \in D
  BY <1>4, <1>5
<1>11. /\ s1 \in Seq(LineSet) /\ Places(s1, "no-banishment") = {}
       /\ \A p : PlacesOf(s1, "death", p) = PlacesOf(s0, "death", p)
       /\ (s1 = <<>> => s0 = <<>> /\ pk = <<>>)
       /\ (s1 # <<>> => s1[Len(s1)].kind \in {"death", "pk"})
  <2>1. Places(pk, "death") = {} /\ Places(pk, "no-banishment") = {}
    BY <1>2, <1>6, <1>8
  <2>2. Places(s0, "no-banishment") = {}
    BY <1>4, <1>10 DEF Places
  <2>3. s0 # <<>> => Len(s0) \in DOMAIN s0
    BY <1>10
  <2>4. s0 # <<>> => s0[Len(s0)].kind = "death"
    BY <1>4, <1>10, <2>3
  <2>5. Appended(s0, pk, s1)
    BY <1>8, <1>10, LinesAppended
  <2> HIDE DEF s1
  <2>6. /\ s1 \in Seq(LineSet) /\ Places(s1, "no-banishment") = Places(s0, "no-banishment")
        /\ \A p : PlacesOf(s1, "death", p) = PlacesOf(s0, "death", p)
        /\ (pk = <<>> => s1 = s0) /\ (pk # <<>> => s1 # <<>> /\ s1[Len(s1)] = pk[Len(pk)])
    BY <2>1, <2>5 DEF Appended
  <2> QED BY <1>2, <1>8, <2>2, <2>4, <2>6
<1> HIDE DEF s1
<1>12. /\ s2 \in Seq(LineSet)
       /\ Cardinality(Places(s2, "no-banishment")) = IF e.flopped THEN 1 ELSE 0
       /\ \A p : PlacesOf(s2, "death", p) = PlacesOf(s0, "death", p)
       /\ (s2 = <<>> => s1 = <<>> /\ flop = <<>>)
       /\ (s2 # <<>> => s2[Len(s2)].kind \in {"death", "pk", "no-banishment"})
  <2>1. Places(flop, "death") = {}
    BY <1>2, <1>6, <1>8
  <2>2. Appended(s1, flop, s2)
    BY <1>8, <1>11, LinesAppended
  <2> HIDE DEF s2
  <2>3. /\ s2 \in Seq(LineSet)
        /\ \A p : PlacesOf(s2, "death", p) = PlacesOf(s1, "death", p)
        /\ (flop = <<>> => s2 = s1) /\ (flop # <<>> => s2 # <<>> /\ s2[Len(s2)] = flop[Len(flop)])
    BY <2>1, <2>2 DEF Appended
  <2>4. flop # <<>> => Places(s2, "no-banishment") = {Len(s1) + 1}
    BY <1>2, <1>8, <1>11, <2>2 DEF Appended
  <2>5. Cardinality(Places(s2, "no-banishment")) = IF e.flopped THEN 1 ELSE 0
    BY <1>8, <1>11, <2>3, <2>4, FS_EmptySet, FS_Singleton
  <2> QED BY <1>2, <1>8, <1>11, <2>3, <2>5
<1> HIDE DEF s2
<1>13. /\ ls \in Seq(LineSet)
       /\ Places(ls, "no-banishment") = Places(s2, "no-banishment")
       /\ \A p : PlacesOf(ls, "death", p) = PlacesOf(s0, "death", p)
       /\ (banner = <<>> => ls = s2) /\ (banner # <<>> => ls # <<>> /\ ls[Len(ls)] = banner[Len(banner)])
  <2>1. Places(banner, "death") = {} /\ Places(banner, "no-banishment") = {}
    BY <1>3, <1>6, <1>9
  <2>2. Appended(s2, banner, ls)
    BY <1>9, <1>12, LinesAppended
  <2> HIDE DEF ls
  <2> QED BY <1>12, <2>1, <2>2 DEF Appended
<1> HIDE DEF ls
\* Everybody who died is named by one line.
<1>14. ASSUME NEW p \in Players
       PROVE  Cardinality(PlacesOf(ls, "death", p)) = IF p \in e.dead THEN 1 ELSE 0
  <2> DEFINE line == Line("death", {p}, 0)
  <2>1. ASSUME NEW i \in DOMAIN s0, p \in s0[i].names PROVE s0[i] = line /\ p \in e.dead
    <3>1. PICK q \in e.dead : s0[i] = Line("death", {q}, 0)
      BY <1>10 DEF D
    <3>2. Line("death", {q}, 0).names = {q}
      BY DEF Line
    <3> QED BY <2>1, <3>1, <3>2
  <2>2. CASE p \in e.dead
    <3>1. line \in D /\ line.names = {p} /\ line.kind = "death"
      BY <1>4, <2>2
    <3> HIDE DEF line
    <3>2. PICK i \in DOMAIN s0 : s0[i] = line
      BY <1>5, <3>1
    <3>3. PlacesOf(s0, "death", p) = {i}
      BY <1>5, <2>1, <3>1, <3>2 DEF PlacesOf
    <3> QED BY <1>13, <2>2, <3>3, FS_Singleton
  <2>3. CASE p \notin e.dead
    <3>1. PlacesOf(s0, "death", p) = {}
      BY <2>1, <2>3 DEF PlacesOf
    <3> QED BY <1>13, <2>3, <3>1, FS_EmptySet
  <2> QED BY <2>2, <2>3
<1>15. Cardinality(Places(ls, "no-banishment")) = IF e.flopped THEN 1 ELSE 0
  BY <1>12, <1>13
<1>16. LinesOf(e, b, t) = ls
  <2>1. Lines(e) = ls
    BY <1>1 DEF Lines
  <2>2. ls = <<>> => e.phase \notin PrivatePhases
    BY <1>3, <1>7, <1>9, <1>13
  <2> QED BY <2>1, <2>2 DEF LinesOf, Folds
<1>17. e.type \notin AgentEvents
  BY DEF AgentEvents
<1>18. u = [last |-> IF ls = <<>> THEN t.last ELSE ls[Len(ls)],
            deaths |-> [p \in Players |-> t.deaths[p] + Cardinality(PlacesOf(ls, "death", p))],
            flops |-> t.flops + Cardinality(Places(ls, "no-banishment")), exposed |-> t.exposed \cup {}]
  BY <1>16, <1>17 DEF Tell, Places, PlacesOf
<1>19. /\ u.deaths = [p \in Players |-> t.deaths[p] + (IF p \in e.dead THEN 1 ELSE 0)]
       /\ u.flops = t.flops + (IF e.flopped THEN 1 ELSE 0) /\ u.exposed = t.exposed
  BY <1>14, <1>15, <1>18
<1>20. u.last = IF ls = <<>> THEN t.last ELSE ls[Len(ls)]
  BY <1>18
<1>21. e.phase \in PrivatePhases => u.last = night1
  BY <1>3, <1>7, <1>9, <1>13, <1>20
<1>22. e.phase \notin PrivatePhases =>
         \/ u.last = day1 /\ IsNewDay(e)
         \/ u.last.kind \notin {"night-fold", "phase-night", "phase-day"}
         \/ /\ u.last = t.last /\ e.dead = {} /\ ~IsNewDay(e) /\ e.phase # "game-over"
            /\ ~(e.phase = "day-vote" /\ e.pkRound > 0)
  <2>1. CASE banner # <<>>
    BY <1>3, <1>7, <1>9, <1>13, <1>20, <2>1
  <2>2. CASE banner = <<>> /\ s2 # <<>>
    BY <1>12, <1>13, <1>20, <2>2
  <2>3. CASE banner = <<>> /\ s2 = <<>>
    <3>1. u.last = t.last /\ D = {} /\ pk = <<>>
      BY <1>5, <1>11, <1>12, <1>13, <1>20, <2>3
    <3>2. e.dead = {}
      BY <1>4, <3>1
    <3> QED BY <1>3, <1>7, <1>8, <1>9, <2>3, <3>1, <3>2
  <2> QED BY <2>1, <2>2, <2>3
<1> QED BY <1>19, <1>21, <1>22 DEF night1, day1

-----------------------------------------------------------------------------
(* What each event does to the page.                                        *)

\* The fields of the page's state after an event, one by one.
LEMMA ReceivedBooth ==
  ASSUME NEW b \in Booths, dayNumber \in Nat, NEW e, e.player \in Players \cup {None},
         NEW c, c = OnReceived(b, e)
  PROVE  /\ c \in Booths
         /\ c.night = b.night /\ c.causes = b.causes /\ c.thinking = None
         /\ \/ /\ e.action.type = "speak" /\ e.player # None /\ e.phase \notin PrivatePhases
               /\ c.speaking = e.player /\ c.current = Speech(e.player) /\ c.last = Speech(e.player)
            \/ /\ ~(e.action.type = "speak" /\ e.player # None /\ e.phase \notin PrivatePhases)
               /\ c.speaking = None /\ c.current = b.current /\ c.last = b.last
<1>1. CASE e.action.type = "speak" /\ e.player # None /\ e.phase \notin PrivatePhases
  <2>1. Speech(e.player) \in Speeches
    BY <1>1 DEF Speech, Speeches
  <2>2. c = [b EXCEPT !.thinking = None, !.speaking = e.player,
                      !.current = Speech(e.player), !.last = Speech(e.player)]
    BY <1>1 DEF OnReceived
  <2> QED BY <1>1, <2>1, <2>2 DEF Booths
<1>2. CASE ~(e.action.type = "speak" /\ e.player # None /\ e.phase \notin PrivatePhases)
  <2>1. c = [b EXCEPT !.thinking = None, !.speaking = None]
    BY <1>2 DEF OnReceived
  <2> QED BY <1>2, <2>1 DEF Booths
<1> QED BY <1>1, <1>2

LEMMA RequestedBooth ==
  ASSUME NEW b \in Booths, NEW e, e.player \in Players \cup {None}, NEW c, c = OnRequested(b, e)
  PROVE  /\ c \in Booths
         /\ c.night = b.night /\ c.causes = b.causes /\ c.current = b.current /\ c.last = b.last
         /\ \/ c = b /\ (e.phase \in PrivatePhases \/ e.player = None)
            \/ /\ e.phase \notin PrivatePhases /\ e.player # None
               /\ c.thinking = e.player /\ c.speaking = None
<1>1. CASE e.phase \in PrivatePhases \/ e.player = None
  BY <1>1 DEF OnRequested
<1>2. CASE ~(e.phase \in PrivatePhases \/ e.player = None)
  <2>1. c = [b EXCEPT !.thinking = e.player, !.speaking = None]
    BY <1>2 DEF OnRequested
  <2> QED BY <1>2, <2>1 DEF Booths
<1> QED BY <1>1, <1>2

LEMMA ChangedBooth ==
  ASSUME NEW b \in Booths, NEW e, e.phase \in Phases, e.night \in Nat, e.day \in Nat,
         \A p \in Players : e.causes[p] \in SUBSET Causes, NEW c, c = OnChange(b, e)
  PROVE  /\ c \in Booths
         /\ c.night = e.night /\ c.thinking = None /\ c.speaking = None
         /\ c.current = None /\ c.last = b.last
         /\ c.causes = [p \in Players |-> IF p \in e.dead THEN e.causes[p] ELSE b.causes[p]]
<1> DEFINE causes == [p \in Players |-> IF p \in e.dead THEN e.causes[p] ELSE b.causes[p]]
<1>1. c = [b EXCEPT !.phase = e.phase, !.night = e.night, !.day = e.day, !.thinking = None,
                    !.speaking = None, !.current = None, !.causes = causes]
  BY DEF OnChange, Booths
<1>2. causes \in [Players -> SUBSET Causes]
  BY DEF Booths
<1> HIDE DEF causes
<1>3. QED
  <2>1. /\ c.phase = e.phase /\ c.night = e.night /\ c.day = e.day /\ c.thinking = None
        /\ c.speaking = None /\ c.current = None /\ c.causes = causes /\ c.last = b.last
        /\ c = [phase |-> c.phase, night |-> c.night, day |-> c.day, thinking |-> c.thinking,
                speaking |-> c.speaking, current |-> c.current, last |-> c.last, causes |-> c.causes]
    BY <1>1 DEF Booths
  <2> QED BY <1>2, <2>1 DEF Booths, causes

LEMMA CompletedBooth ==
  ASSUME NEW b \in Booths, NEW c, c = OnCompleted(b)
  PROVE  /\ c \in Booths
         /\ c.night = b.night /\ c.causes = b.causes /\ c.thinking = None /\ c.speaking = None
         /\ c.current = None /\ c.last = None
BY DEF Booths, OnCompleted

\* An event that changes no phase: the reducer on one side, a line at most on the
\* other.
LEMMA QuietEvent ==
  ASSUME NEW pg, pg.booth \in Booths, Tolds(pg.told), NEW e, e.type # "phase.changed", Veiled(e),
         NEW c, c = Reduced(pg.booth, e), c.night = pg.booth.night,
         NEW q, q = OnEvent(pg, e)
  PROVE  q.booth = c /\ Tolds(q.told) /\ ToldOn(pg.told, q.told, pg.booth.night)
<1>1. q.booth = c /\ q.told = Tell(pg.told, e, LinesOf(e, c, pg.told))
  BY DEF OnEvent
<1>2. c.night \in Nat
  BY DEF Booths
<1>3. ToldOn(pg.told, q.told, c.night)
  BY <1>1, <1>2, OneLineTold
<1> QED BY <1>1, <1>3 DEF ToldOn, Tolds

\* The page once an action of p was received and applied.
Received(pg, q, p, a) ==
  /\ q.booth \in Booths /\ Tolds(q.told) /\ ToldOn(pg.told, q.told, pg.booth.night)
  /\ q.booth.night = pg.booth.night /\ q.booth.causes = pg.booth.causes /\ q.booth.thinking = None
  /\ \/ /\ a.type = "speak" /\ phase \notin PrivatePhases
        /\ q.booth.speaking = p /\ q.booth.current = Speech(p) /\ q.booth.last = Speech(p)
     \/ /\ ~(a.type = "speak" /\ phase \notin PrivatePhases)
        /\ q.booth.speaking = None /\ q.booth.current = pg.booth.current
        /\ q.booth.last = pg.booth.last

\* One line after another is still nothing but folds.
LEMMA ToldOnAndOn ==
  ASSUME NEW t, NEW u, NEW v, NEW n, ToldOn(t, u, n), ToldOn(u, v, n)
  PROVE  ToldOn(t, v, n)
BY DEF ToldOn

LEMMA HowShown ==
  ASSUME NEW pg, pg.booth \in Booths, Tolds(pg.told), NEW p \in Players,
         NEW how \in {"agent.timeout", "agent.invalid_action"},
         NEW q, q = OnEvent(pg, Public(AgentEvent(how, p, phase, NoAction)))
  PROVE  q.booth = pg.booth /\ Tolds(q.told) /\ ToldOn(pg.told, q.told, pg.booth.night)
<1> DEFINE e == Public(AgentEvent(how, p, phase, NoAction))
<1>1. e.type = how /\ Veiled(e)
  BY PublicView
<1> HIDE DEF e
<1>2. Reduced(pg.booth, e) = pg.booth
  BY <1>1 DEF Reduced
<1> QED BY <1>1, <1>2, QuietEvent DEF e

LEMMA ReceivedShown ==
  ASSUME NEW pg, pg.booth \in Booths, Tolds(pg.told), NEW p \in Players, NEW a, dayNumber \in Nat,
         NEW q, q = OnEvent(pg, Public(AgentEvent("agent.action_received", p, phase, Sanitized(a))))
  PROVE  Received(pg, q, p, a)
<1> DEFINE act == Sanitized(a)
<1>1. act.type = a.type
  BY DEF Sanitized, Act
<1> HIDE DEF act
<1> DEFINE e == Public(AgentEvent("agent.action_received", p, phase, act))
<1>2. /\ e.type = "agent.action_received" /\ e.phase = phase /\ e.action = act /\ Veiled(e)
      /\ (phase \notin PrivatePhases => e.player = p)
  BY PublicView
<1>3. q = OnEvent(pg, e)
  BY DEF act
<1> HIDE DEF e
<1>4. e.player \in Players \cup {None} /\ (phase \notin PrivatePhases => e.player = p /\ p # None)
  BY <1>2, RolesAssumption DEF Veiled, AgentEvents
<1> DEFINE c == OnReceived(pg.booth, e)
<1>5. Reduced(pg.booth, e) = c
  BY <1>2 DEF Reduced
<1> HIDE DEF c
<1>6. /\ c \in Booths
      /\ c.night = pg.booth.night /\ c.causes = pg.booth.causes /\ c.thinking = None
      /\ \/ /\ e.action.type = "speak" /\ e.player # None /\ e.phase \notin PrivatePhases
            /\ c.speaking = e.player /\ c.current = Speech(e.player) /\ c.last = Speech(e.player)
         \/ /\ ~(e.action.type = "speak" /\ e.player # None /\ e.phase \notin PrivatePhases)
            /\ c.speaking = None /\ c.current = pg.booth.current /\ c.last = pg.booth.last
  BY <1>4, ReceivedBooth DEF c
<1>7. q.booth = c /\ Tolds(q.told) /\ ToldOn(pg.told, q.told, pg.booth.night)
  BY <1>2, <1>3, <1>5, <1>6, QuietEvent
<1> QED BY <1>1, <1>2, <1>4, <1>6, <1>7 DEF Received

LEMMA AppliedShown ==
  ASSUME NEW pg, pg.booth \in Booths, Tolds(pg.told), NEW q, q = OnEvent(pg, Public(Applied(phase)))
  PROVE  q.booth = pg.booth /\ Tolds(q.told) /\ ToldOn(pg.told, q.told, pg.booth.night)
<1> DEFINE e == Applied(phase)
<1>1. e.type = "engine.action_applied" /\ e.type \notin AgentEvents
  BY DEF Applied, AgentEvents
<1> HIDE DEF e
<1>2. Public(e) = e /\ Veiled(e) /\ Reduced(pg.booth, e) = pg.booth
  BY <1>1 DEF Public, Veiled, Reduced
<1> QED BY <1>1, <1>2, QuietEvent DEF e

\* The page after a change of phase.
Turned(pg, q) ==
  /\ q.booth \in Booths /\ Tolds(q.told)
  /\ q.booth.night = nightNumber' /\ q.booth.thinking = None /\ q.booth.speaking = None
  /\ q.booth.current = None /\ q.booth.last = pg.booth.last
  /\ \A p \in Players :
       /\ q.booth.causes[p] = IF deaths'[p] # deaths[p] THEN deaths'[p] ELSE pg.booth.causes[p]
       /\ q.told.deaths[p] = pg.told.deaths[p] + (IF deaths'[p] # deaths[p] THEN 1 ELSE 0)
  /\ q.told.flops = pg.told.flops + (IF Flopped THEN 1 ELSE 0)
  /\ pg.told.exposed = {} => q.told.exposed = {}
  /\ phase' \in PrivatePhases => q.told.last.kind = "phase-night" /\ q.told.last.n = nightNumber'
  /\ phase' \notin PrivatePhases =>
       \/ /\ q.told.last.kind = "phase-day" /\ q.told.last.n = dayNumber' /\ phase' \in DayPhases
       \/ q.told.last.kind \notin {"night-fold", "phase-night", "phase-day"}
       \/ /\ q.told.last = pg.told.last /\ \A p \in Players : deaths'[p] = deaths[p]
          /\ phase' \notin {"game-over", "day-vote"}

LEMMA TurnShown ==
  ASSUME NEW pg, pg.booth \in Booths, Tolds(pg.told), TypeOK',
         NEW q, q = OnEvent(pg, Public(Changed))
  PROVE  Turned(pg, q)
<1> DEFINE e == Changed
<1>1. /\ e.type = "phase.changed" /\ e.phase = phase' /\ e.night = nightNumber' /\ e.day = dayNumber'
      /\ e.dead = Deaths(deaths, deaths') /\ e.causes = deaths'
      /\ e.pkRound = pendingDayVote'.pkRound /\ e.candidates = pendingDayVote'.pkCandidates
      /\ e.flopped = Flopped
  BY DEF Changed
<1> HIDE DEF e
<1>2. Public(e) = e
  BY <1>1 DEF Public, AgentEvents
<1>3. /\ e.phase \in Phases /\ e.night \in Nat /\ e.day \in Nat
      /\ e.dead \in SUBSET Players /\ e.candidates \in SUBSET Players /\ e.pkRound \in Nat
      /\ \A p \in Players : e.causes[p] \in SUBSET Causes
  BY <1>1 DEF TypeOK, Deaths
<1>4. e.flopped \in BOOLEAN
  BY <1>1 DEF Flopped
<1> DEFINE c == OnChange(pg.booth, e)
<1>5. Reduced(pg.booth, e) = c
  BY <1>1 DEF Reduced
<1> HIDE DEF c
<1>6. /\ c \in Booths
      /\ c.night = e.night /\ c.thinking = None /\ c.speaking = None
      /\ c.current = None /\ c.last = pg.booth.last
      /\ c.causes = [p \in Players |-> IF p \in e.dead THEN e.causes[p] ELSE pg.booth.causes[p]]
  BY <1>3, ChangedBooth DEF c
<1>7. q.booth = c /\ q.told = Tell(pg.told, e, LinesOf(e, c, pg.told))
  BY <1>2, <1>5 DEF OnEvent, e
<1> DEFINE t == pg.told
           u == q.told
<1>8. /\ u.deaths = [p \in Players |-> t.deaths[p] + (IF p \in e.dead THEN 1 ELSE 0)]
      /\ u.flops = t.flops + (IF e.flopped THEN 1 ELSE 0)
      /\ t.exposed = {} => u.exposed = {}
      /\ e.phase \in PrivatePhases => u.last = Line("phase-night", {}, e.night)
      /\ e.phase \notin PrivatePhases =>
           \/ u.last = Line("phase-day", {}, e.day) /\ IsNewDay(e)
           \/ u.last.kind \notin {"night-fold", "phase-night", "phase-day"}
           \/ /\ u.last = t.last /\ e.dead = {} /\ ~IsNewDay(e) /\ e.phase # "game-over"
              /\ ~(e.phase = "day-vote" /\ e.pkRound > 0)
  BY <1>1, <1>3, <1>4, <1>7, ChangeTold
<1> HIDE DEF t, u
<1>9. \A p \in Players : p \in e.dead <=> deaths'[p] # deaths[p]
  BY <1>1 DEF Deaths
<1>10. Tolds(u)
  BY <1>8 DEF Tolds, t
<1>11. \A kind, n : Line(kind, {}, n).kind = kind /\ Line(kind, {}, n).n = n
  BY DEF Line
<1>12. IsNewDay(e) => e.phase \in DayPhases
  BY DEF IsNewDay
<1>13. e.phase = "day-vote" => IsNewDay(e) \/ e.pkRound > 0
  BY <1>3 DEF IsNewDay, DayPhases
<1>14. \A p \in Players : u.deaths[p] = t.deaths[p] + (IF deaths'[p] # deaths[p] THEN 1 ELSE 0)
  BY <1>8, <1>9
<1>15. e.dead = {} => \A p \in Players : deaths'[p] = deaths[p]
  BY <1>9
<1>16. phase' \in PrivatePhases => u.last.kind = "phase-night" /\ u.last.n = nightNumber'
  BY <1>1, <1>8, <1>11
<1>17. phase' \notin PrivatePhases =>
         \/ u.last.kind = "phase-day" /\ u.last.n = dayNumber' /\ phase' \in DayPhases
         \/ u.last.kind \notin {"night-fold", "phase-night", "phase-day"}
         \/ /\ u.last = t.last /\ \A p \in Players : deaths'[p] = deaths[p]
            /\ phase' \notin {"game-over", "day-vote"}
  BY <1>1, <1>8, <1>11, <1>12, <1>13, <1>15
<1>18. \A p \in Players : c.causes[p] = IF deaths'[p] # deaths[p] THEN deaths'[p] ELSE pg.booth.causes[p]
  BY <1>1, <1>6, <1>9
<1> QED BY <1>1, <1>6, <1>7, <1>8, <1>10, <1>14, <1>16, <1>17, <1>18 DEF Turned, t, u

\* A few events in a row, the first and the last of which may be missing.
LEMMA EventsInARow ==
  ASSUME NEW h, NEW r, NEW x, NEW c, NEW first \in BOOLEAN, NEW final \in BOOLEAN,
         NEW es, es = (IF first THEN <<>> ELSE <<h>>) \o <<r, x>> \o (IF final THEN <<c>> ELSE <<>>),
         NEW k, k = IF first THEN 0 ELSE 1
  PROVE  /\ Len(es) = k + 2 + (IF final THEN 1 ELSE 0) /\ Len(es) \in 0 .. 4
         /\ k = 1 => es[1] = h
         /\ es[k + 1] = r /\ es[k + 2] = x /\ (final => es[k + 3] = c)
<1>1. CASE first /\ final
  BY <1>1
<1>2. CASE first /\ ~final
  BY <1>2
<1>3. CASE ~first /\ final
  BY <1>3
<1>4. CASE ~first /\ ~final
  BY <1>4
<1> QED BY <1>1, <1>2, <1>3, <1>4

\* The page after the step of an agent.
Here == [booth |-> booth, told |-> told]
After(q) == booth' = q.booth /\ told' = q.told

LEMMA StepShown ==
  ASSUME booth \in Booths, Tolds(told), TypeOK, TypeOK', NEW p \in Players, NEW a,
         NEW how \in {"fine", "agent.timeout", "agent.invalid_action"}, Show(StepEvents(p, a, how))
  PROVE  /\ \E q : /\ Received(Here, q, p, a)
                   /\ IF PhaseChanges THEN \E r : Turned(q, r) /\ After(r) ELSE After(q)
         /\ sticky' = StuckTo(booth'.last)
<1> DEFINE h == AgentEvent(how, p, phase, NoAction)
           r == AgentEvent("agent.action_received", p, phase, Sanitized(a))
           x == Applied(phase)
           c == Changed
           es == StepEvents(p, a, how)
           k == IF how = "fine" THEN 0 ELSE 1
           n == Len(es)
<1>1. es = (IF how = "fine" THEN <<>> ELSE <<h>>) \o <<r, x>> \o (IF PhaseChanges THEN <<c>> ELSE <<>>)
  BY DEF StepEvents
<1>2. PhaseChanges \in BOOLEAN /\ (how = "fine") \in BOOLEAN
  BY DEF PhaseChanges
<1> HIDE DEF h, r, x, c, es
<1>3. /\ n = k + 2 + (IF PhaseChanges THEN 1 ELSE 0) /\ n \in 0 .. 4
      /\ k = 1 => es[1] = h
      /\ es[k + 1] = r /\ es[k + 2] = x /\ (PhaseChanges => es[k + 3] = c)
  BY <1>1, <1>2, EventsInARow
<1>4. PICK page : /\ page[0] = Here
                  /\ \A i \in 1 .. n : page[i] = OnEvent(page[i - 1], Public(es[i]))
                  /\ AfterEvents(es) = page[n]
  BY <1>3, EventByEvent DEF Here
<1>5. k \in {0, 1}
  OBVIOUS
<1> HIDE DEF k, n
<1>6. Here.booth = booth /\ Here.told = told
  BY DEF Here
<1>7. page[k].booth = booth /\ Tolds(page[k].told) /\ ToldOn(told, page[k].told, booth.night)
  <2>1. CASE k = 0
    BY <1>4, <1>6, <2>1 DEF ToldOn
  <2>2. CASE k = 1
    <3>1. how \in {"agent.timeout", "agent.invalid_action"}
      BY <2>2 DEF k
    <3>2. page[1] = OnEvent(Here, Public(h))
      <4>1. 1 \in 1 .. n
        BY <1>3, <2>2
      <4> QED BY <1>3, <1>4, <2>2, <4>1
    <3> QED BY <1>6, <2>2, <3>1, <3>2, HowShown DEF h
  <2> QED BY <1>5, <2>1, <2>2
<1>8. Received(page[k], page[k + 1], p, a)
  <2>1. page[k + 1] = OnEvent(page[k], Public(r))
    <3>1. k + 1 \in 1 .. n /\ (k + 1) - 1 = k
      BY <1>3, <1>5
    <3> QED BY <1>3, <1>4, <3>1
  <2> QED BY <1>7, <2>1, ReceivedShown DEF r, TypeOK
<1>9. /\ page[k + 2].booth = page[k + 1].booth /\ Tolds(page[k + 2].told)
      /\ ToldOn(page[k + 1].told, page[k + 2].told, booth.night)
  <2>1. page[k + 2] = OnEvent(page[k + 1], Public(x))
    <3>1. k + 2 \in 1 .. n /\ (k + 2) - 1 = k + 1
      BY <1>3, <1>5
    <3> QED BY <1>3, <1>4, <3>1
  <2>2. page[k + 1].booth \in Booths /\ Tolds(page[k + 1].told) /\ page[k + 1].booth.night = booth.night
    BY <1>7, <1>8 DEF Received
  <2> QED BY <2>1, <2>2, AppliedShown DEF x
<1>10. Received(Here, page[k + 2], p, a)
  <2>1. ToldOn(told, page[k + 1].told, booth.night)
    BY <1>7, <1>8, ToldOnAndOn DEF Received
  <2>2. ToldOn(told, page[k + 2].told, booth.night)
    BY <1>9, <2>1, ToldOnAndOn
  <2> QED BY <1>6, <1>7, <1>8, <1>9, <2>2 DEF Received
<1>11. After(page[n]) /\ sticky' = StuckTo(booth'.last)
  BY <1>4 DEF Show, After, es
<1>12. CASE PhaseChanges
  <2>1. n = k + 3 /\ page[k + 3] = OnEvent(page[k + 2], Public(c))
    <3>1. n = k + 3 /\ k + 3 \in 1 .. n /\ (k + 3) - 1 = k + 2
      BY <1>3, <1>5, <1>12
    <3> QED BY <1>3, <1>4, <1>12, <3>1
  <2>2. Turned(page[k + 2], page[k + 3])
    BY <1>10, <2>1, TurnShown DEF Received, c
  <2> QED BY <1>10, <1>11, <1>12, <2>1, <2>2
<1>13. CASE ~PhaseChanges
  <2>1. n = k + 2
    BY <1>3, <1>5, <1>13
  <2> QED BY <1>10, <1>11, <1>13, <2>1
<1> QED BY <1>12, <1>13

-----------------------------------------------------------------------------
(* What a step of the game is for a spectator.                              *)

\* Who was voted out, and how many votes there were, the one tonight is waiting for
\* included; when a hunter who was voted out is to shoot, tonight is still to come.
Outs == {p \in Players : "banishment" \in deaths[p]}
VotesHeld ==
  nightNumber + (IF phase = "hunter-shoot" /\ pendingHunterShoot.cause = "banishment" THEN 1 ELSE 0)

\* A vote closes with a player sent out or without a result; nothing else counts.
Counted ==
  \/ VotesHeld' = VotesHeld /\ Outs' = Outs /\ ~Flopped
  \/ VotesHeld' = VotesHeld + 1 /\ Outs' = Outs /\ Flopped
  \/ /\ VotesHeld' = VotesHeld + 1 /\ ~Flopped
     /\ \E q \in Players \ Outs : Outs' = Outs \cup {q}

\* No second speech of a player on a day: who has spoken is forgotten overnight only.
SpeechesKept ==
  /\ dayNumber' >= dayNumber
  /\ dayNumber' = dayNumber =>
       /\ phase' = "day-speeches" =>
            \/ phase = "day-speeches" /\ pendingDaySpeeches \subseteq pendingDaySpeeches'
            \/ phase = "hunter-shoot" /\ pendingHunterShoot.cause # "banishment"
       /\ phase' = "hunter-shoot" => pendingHunterShoot'.cause = "banishment"

Spoken(p, a) ==
  IF a.type = "speak"
  THEN /\ phase = "day-speeches" /\ p \notin pendingDaySpeeches /\ dayNumber' = dayNumber
       /\ pendingDaySpeeches' = pendingDaySpeeches \cup {p}
  ELSE pendingDaySpeeches' \subseteq pendingDaySpeeches

GameGoesOn ==
  /\ \A q \in Players : deaths[q] \subseteq deaths'[q]
  /\ nightNumber' = nightNumber \/ phase' = "night-werewolf-vote"
  /\ phase' = "hunter-shoot" => \E q \in Players : deaths'[q] # deaths[q]
  /\ phase' = "day-speeches" => phase # "day-vote"
  /\ phase' # "game-over" => Counted
  /\ SpeechesKept

LEMMA MorningComes ==
  ASSUME IInv, phase \in NightPhases, NEW n, NightOK(n), ResolveNight(n)
  PROVE  GameGoesOn /\ pendingDaySpeeches' \subseteq pendingDaySpeeches
<1> DEFINE killed == Killed(n)
           poisoned == Poisoned(n)
           hunter == PlayersWith({"hunter"}, killed)
<1>1. /\ deaths' = Bury(poisoned, "witch-poison", Bury(killed, "wolf-kill", deaths))
      /\ dayNumber' = dayNumber + 1 /\ nightNumber' = nightNumber
  BY DEF ResolveNight
<1>2. \/ phase' = "game-over" /\ pendingDaySpeeches' = pendingDaySpeeches
      \/ /\ phase' = "hunter-shoot" /\ hunter # {} /\ pendingHunterShoot'.cause = "wolf-kill"
         /\ pendingDaySpeeches' = pendingDaySpeeches
      \/ phase' = "day-speeches" /\ pendingDaySpeeches' = {}
  BY DEF ResolveNight
<1>3. killed \subseteq alive /\ alive \subseteq Players
  BY NightVictims DEF IInv, TypeOK, NonWolves
<1>4. \A q \in Players : /\ deaths[q] \subseteq deaths'[q]
                         /\ q \in killed => "wolf-kill" \in deaths'[q]
                         /\ "banishment" \in deaths'[q] <=> "banishment" \in deaths[q]
  <2> SUFFICES ASSUME NEW q \in Players
               PROVE  /\ deaths[q] \subseteq deaths'[q]
                      /\ q \in killed => "wolf-kill" \in deaths'[q]
                      /\ "banishment" \in deaths'[q] <=> "banishment" \in deaths[q]
    OBVIOUS
  <2> HIDE DEF killed, poisoned
  <2>1. Bury(killed, "wolf-kill", deaths)[q] = IF q \in killed THEN deaths[q] \cup {"wolf-kill"} ELSE deaths[q]
    BY DEF Bury
  <2> DEFINE log == Bury(killed, "wolf-kill", deaths)
  <2> HIDE DEF log
  <2>2. Bury(poisoned, "witch-poison", log)[q] = IF q \in poisoned THEN log[q] \cup {"witch-poison"} ELSE log[q]
    BY DEF Bury
  <2>3. deaths'[q] = IF q \in poisoned THEN log[q] \cup {"witch-poison"} ELSE log[q]
    BY <1>1, <2>2 DEF log
  <2> QED BY <2>1, <2>3 DEF log
<1>5. hunter # {} => \E q \in Players : deaths'[q] # deaths[q]
  <2>1. ASSUME NEW q \in hunter PROVE q \in Players /\ deaths'[q] # deaths[q]
    <3>1. q \in killed /\ q \in alive /\ q \in Players
      BY <1>3 DEF PlayersWith
    <3>2. deaths[q] = {}
      BY <3>1 DEF IInv, DeathLedger
    <3> QED BY <1>4, <3>1, <3>2
  <2> QED BY <2>1
<1> HIDE DEF killed, poisoned, hunter
<1>6. Outs' = Outs
  BY <1>4 DEF Outs
<1>7. ~Flopped /\ phase # "hunter-shoot"
  BY DEF Flopped, NightPhases
<1>8. VotesHeld = nightNumber + 0 /\ VotesHeld' = nightNumber + 0
  BY <1>1, <1>2, <1>7 DEF VotesHeld
<1>9. SpeechesKept
  BY <1>1 DEF SpeechesKept, IInv, TypeOK
<1> QED BY <1>1, <1>2, <1>4, <1>5, <1>6, <1>7, <1>8, <1>9 DEF GameGoesOn, Counted, NightPhases

\* A step of the night under which nothing that is public changes.
LEMMA NightFalls ==
  ASSUME IInv, phase \in NightPhases, phase' \in NightPhases, SameDay
  PROVE  GameGoesOn /\ pendingDaySpeeches' \subseteq pendingDaySpeeches
<1>1. Outs' = Outs
  BY DEF Outs, SameDay
<1>2. VotesHeld = nightNumber + 0 /\ VotesHeld' = nightNumber + 0 /\ ~Flopped
  BY DEF VotesHeld, SameDay, NightPhases, Flopped
<1>3. SpeechesKept
  BY DEF SpeechesKept, SameDay, IInv, TypeOK, NightPhases
<1> QED BY <1>1, <1>2, <1>3 DEF GameGoesOn, Counted, SameDay, NightPhases

LEMMA NightGoesOn ==
  ASSUME IInv, phase \in NightPhases, NEW n, NightOK(n), AdvanceToNightWitch(n) \/ AdvanceToNightSeer(n)
  PROVE  GameGoesOn /\ pendingDaySpeeches' \subseteq pendingDaySpeeches
<1>1. CASE ResolveNight(n)
  BY <1>1, MorningComes
<1>2. CASE phase' \in NightPhases /\ SameDay
  BY <1>2, NightFalls
<1> QED BY <1>1, <1>2 DEF AdvanceToNightWitch, AdvanceToNightSeer, NightPhases

LEMMA VoteGoesOn ==
  ASSUME IInv, NEW v \in Players, NEW t \in Players \cup {None}, DayVote(v, t)
  PROVE  GameGoesOn /\ pendingDaySpeeches' \subseteq pendingDaySpeeches
<1> DEFINE b == [pendingDayVote EXCEPT !.votes[v] = t]
           d == [b EXCEPT !.banished = Plurality(b.votes)]
           out == {d.banished} \ {None}
<1>1. phase = "day-vote" /\ dayNumber' = dayNumber /\ dayNumber \in Nat /\ nightNumber \in Nat
  BY DEF DayVote, CanDayVote, IInv, TypeOK
<1>2. VotesHeld = nightNumber + 0
  BY <1>1 DEF VotesHeld
<1>3. CASE UNCHANGED <<phase, nightNumber, deaths, pendingDaySpeeches>>
  <2>1. Outs' = Outs /\ VotesHeld' = nightNumber + 0 /\ ~Flopped
    BY <1>1, <1>3 DEF Outs, VotesHeld, Flopped
  <2> QED BY <1>1, <1>2, <1>3, <2>1 DEF GameGoesOn, Counted, SpeechesKept
<1>4. CASE AdvanceFromDayResolve(d)
  <2>1. out \subseteq alive /\ alive \subseteq Players
    <3>1. Plurality(b.votes) \in alive \cup {None}
      <4>1. alive \subseteq Players /\ pendingDayVote \in Ballots /\ t \in alive \cup {None}
            /\ Targets(pendingDayVote.votes) \subseteq alive
        BY <1>1 DEF DayVote, CanDayVote, IInv, TypeOK, Ballots, DayInv
      <4>2. Targets(b.votes) \subseteq Targets(pendingDayVote.votes) \cup ({t} \ {None})
        BY <4>1, VoteCast
      <4> HIDE DEF b
      <4> QED BY <4>1, <4>2, PluralityIsTarget
    <3>2. d.banished = Plurality(b.votes)
      BY DEF IInv, TypeOK
    <3> HIDE DEF b, d
    <3> QED BY <3>1, <3>2 DEF IInv, TypeOK
  <2> HIDE DEF d
  <2>2. /\ deaths' = Bury(out, "banishment", deaths)
        /\ \/ /\ phase' = "hunter-shoot" /\ out # {} /\ pendingHunterShoot'.cause = "banishment"
              /\ nightNumber' = nightNumber /\ pendingDaySpeeches' = pendingDaySpeeches
           \/ /\ phase' = "game-over" /\ nightNumber' = nightNumber
              /\ pendingDaySpeeches' = pendingDaySpeeches
           \/ /\ phase' = "night-werewolf-vote" /\ nightNumber' = nightNumber + 1
              /\ pendingDaySpeeches' = {}
    BY <1>4 DEF AdvanceFromDayResolve, GameOver, StartNextNight, PlayersWith
  <2> HIDE DEF out
  <2>3. \A q \in Players : deaths'[q] = IF q \in out THEN deaths[q] \cup {"banishment"} ELSE deaths[q]
    BY <2>2 DEF Bury
  <2>4. \A q \in out : q \in Players /\ deaths[q] = {} /\ deaths'[q] # deaths[q]
    BY <2>1, <2>3 DEF IInv, DeathLedger
  <2>5. phase' # "game-over" => VotesHeld' = VotesHeld + 1
    BY <1>1, <1>2, <2>2 DEF VotesHeld
  <2>6. out = {} => deaths' = deaths /\ Outs' = Outs
    <3>1. out = {} => \A q \in Players : deaths'[q] = deaths[q]
      BY <2>3
    <3>2. deaths \in [Players -> SUBSET Causes] /\ deaths' = [q \in Players |-> deaths'[q]]
      BY <2>2 DEF IInv, TypeOK, Bury
    <3> QED BY <3>1, <3>2 DEF Outs
  <2>7. out # {} => ~Flopped /\ \E q \in Players \ Outs : Outs' = Outs \cup {q}
    <3>1. out # {} => \E q \in Players : out = {q}
      BY <2>4 DEF out
    <3>2. ASSUME NEW q \in Players, out = {q} PROVE q \notin Outs /\ Outs' = Outs \cup {q} /\ deaths' # deaths
      BY <2>3, <2>4, <3>2 DEF Outs
    <3> QED BY <3>1, <3>2 DEF Flopped
  <2>8. out = {} /\ phase' # "game-over" => Flopped
    BY <1>1, <2>2, <2>6 DEF Flopped
  <2>9. phase' # "game-over" => Counted
    BY <2>5, <2>6, <2>7, <2>8 DEF Counted
  <2>10. SpeechesKept
    BY <1>1, <2>2 DEF SpeechesKept
  <2> QED BY <1>1, <2>2, <2>3, <2>4, <2>9, <2>10 DEF GameGoesOn
<1> QED BY <1>1, <1>3, <1>4 DEF DayVote

LEMMA ShotGoesOn ==
  ASSUME IInv, NEW t \in Players \cup {None}, HunterShoot(t)
  PROVE  GameGoesOn /\ pendingDaySpeeches' \subseteq pendingDaySpeeches
<1> DEFINE victims == {t} \ {None}
<1>1. /\ phase = "hunter-shoot" /\ dayNumber' = dayNumber /\ dayNumber \in Nat /\ nightNumber \in Nat
      /\ deaths' = Bury(victims, "hunter-shoot", deaths)
  BY DEF HunterShoot, CanHunterShoot, IInv, TypeOK
<1>2. \/ /\ phase' = "game-over" /\ nightNumber' = nightNumber /\ pendingDaySpeeches' = pendingDaySpeeches
      \/ /\ phase' = "night-werewolf-vote" /\ nightNumber' = nightNumber + 1 /\ pendingDaySpeeches' = {}
         /\ pendingHunterShoot.cause = "banishment"
      \/ /\ phase' = "day-speeches" /\ nightNumber' = nightNumber /\ pendingDaySpeeches' = {}
         /\ pendingHunterShoot.cause # "banishment"
  BY DEF HunterShoot, GameOver, StartNextNight
<1> HIDE DEF victims
<1>3. \A q \in Players : deaths'[q] = IF q \in victims THEN deaths[q] \cup {"hunter-shoot"} ELSE deaths[q]
  BY <1>1 DEF Bury
<1>4. Outs' = Outs /\ ~Flopped
  <2>1. ASSUME NEW q \in Players PROVE "banishment" \in deaths'[q] <=> "banishment" \in deaths[q]
    <3>1. deaths'[q] = deaths[q] \/ deaths'[q] = deaths[q] \cup {"hunter-shoot"}
      BY <1>3
    <3> QED BY <3>1
  <2> QED BY <1>1, <2>1 DEF Outs, Flopped
<1>5. phase' # "game-over" => VotesHeld' = VotesHeld
  BY <1>1, <1>2 DEF VotesHeld
<1>6. SpeechesKept
  BY <1>1, <1>2 DEF SpeechesKept
<1> QED BY <1>1, <1>2, <1>3, <1>4, <1>5, <1>6 DEF GameGoesOn, Counted

\* Every action the engine applies.
LEMMA ActionGoesOn ==
  ASSUME IInv, NEW p \in Players, NEW a, a.target \in Players \cup {None}, Accepts(p, a), Apply(p, a)
  PROVE  GameGoesOn /\ Spoken(p, a)
<1>1. CASE a.type = "speak" /\ Speak(p)
  <2>1. /\ phase = "day-speeches" /\ p \notin pendingDaySpeeches
        /\ pendingDaySpeeches' = pendingDaySpeeches \cup {p} /\ phase' \in {"day-speeches", "day-vote"}
        /\ UNCHANGED <<nightNumber, dayNumber, deaths, pendingHunterShoot>>
    BY <1>1 DEF Speak, CanSpeak
  <2>2. Outs' = Outs /\ ~Flopped /\ VotesHeld = nightNumber + 0 /\ VotesHeld' = nightNumber + 0
    BY <2>1 DEF Outs, Flopped, VotesHeld
  <2>3. SpeechesKept
    BY <2>1 DEF SpeechesKept, IInv, TypeOK
  <2> QED BY <1>1, <2>1, <2>2, <2>3 DEF GameGoesOn, Counted, Spoken
<1>2. ASSUME a.type # "speak" PROVE GameGoesOn /\ pendingDaySpeeches' \subseteq pendingDaySpeeches
  <2>1. CASE WerewolfVote(p, a.target)
    <3>a. PICK t \in Players : t = a.target /\ t \in NonWolves(alive)
      BY <2>1 DEF WerewolfVote, CanWerewolfVote, NonWolves, IInv, TypeOK
    <3> DEFINE n == [pendingNight EXCEPT !.werewolfVotes[p] = t]
    <3>1. NightOK(n) /\ phase = "night-werewolf-vote"
      BY <2>1, <3>a DEF WerewolfVote, CanWerewolfVote, IInv, NightInv, NightOK, PendingNights
    <3>2. AdvanceToNightWitch(n) \/ (phase' = phase /\ SameDay)
      BY <2>1, <3>a DEF WerewolfVote
    <3> HIDE DEF n
    <3> QED BY <3>1, <3>2, NightGoesOn, NightFalls DEF NightPhases
  <2>2. CASE WitchSave(a.target) \/ WitchSkipSave
    <3>1. phase = "night-witch" /\ phase' = phase /\ SameDay
      BY <2>2 DEF WitchSave, CanWitchSave, WitchSkipSave, CanWitchSkipSave
    <3> QED BY <3>1, NightFalls DEF NightPhases
  <2>3. CASE WitchPoison(a.target)
    <3> DEFINE n == [pendingNight EXCEPT !.witchPoisoned = a.target]
    <3>1. NightOK(n) /\ phase = "night-witch" /\ AdvanceToNightSeer(n)
      BY <2>3 DEF WitchPoison, CanWitchPoison, IInv, NightInv, NightOK, PendingNights
    <3> HIDE DEF n
    <3> QED BY <3>1, NightGoesOn DEF NightPhases
  <2>4. CASE WitchSkipPoison
    <3>1. NightOK(pendingNight) /\ phase = "night-witch" /\ AdvanceToNightSeer(pendingNight)
      BY <2>4 DEF WitchSkipPoison, CanWitchSkipPoison, IInv, NightInv
    <3> QED BY <3>1, NightGoesOn DEF NightPhases
  <2>5. CASE SeerDivine(a.target)
    <3> DEFINE n == [pendingNight EXCEPT !.seerTarget = a.target]
    <3>1. NightOK(n) /\ phase = "night-seer" /\ ResolveNight(n)
      BY <2>5 DEF SeerDivine, CanSeerDivine, IInv, NightInv, NightOK, PendingNights
    <3> HIDE DEF n
    <3> QED BY <3>1, MorningComes DEF NightPhases
  <2>6. CASE DayVote(p, a.target)
    BY <2>6, VoteGoesOn
  <2>7. CASE HunterShoot(a.target)
    BY <2>7, ShotGoesOn
  <2> QED BY <1>2, <2>1, <2>2, <2>3, <2>4, <2>5, <2>6, <2>7 DEF Apply
<1> QED BY <1>1, <1>2 DEF Apply, Spoken

-----------------------------------------------------------------------------
(* The invariant of a match and the page that shows it.                     *)

\* Who is lit, and whose speech is on the board.
LightsInv ==
  /\ booth.thinking = IF call # NoCall /\ phase \notin PrivatePhases THEN call.player ELSE None
  /\ phase \in PrivatePhases => booth.speaking = None
  /\ booth.speaking # None => booth.current # None /\ booth.current.actor = booth.speaking

\* What the timeline told, and which night or day its last line is about.
StoryInv ==
  /\ told.exposed = {}
  /\ \A p \in Players : told.deaths[p] = Cardinality(deaths[p]) /\ booth.causes[p] = deaths[p]
  /\ told.last.kind \in {"night-fold", "phase-night"} => told.last.n = nightNumber
  /\ told.last.kind = "phase-day" => told.last.n = dayNumber /\ phase \in DayPhases

\* Every vote that was held left a player voted out or a line of its own; and the
\* page knows no other night than the game's.
CountInv ==
  /\ booth.night # 0 => booth.night = nightNumber
  /\ phase = "setup" => /\ nightNumber = 0 /\ told.flops = 0 /\ Outs = {}
                        /\ booth.speaking = None /\ told.last.kind = "none"
  /\ phase \notin {"setup", "game-over"} => told.flops + Cardinality(Outs) + 1 = VotesHeld

\* The last speech is today's only of somebody who has spoken today: the next one is
\* another one, so that the board, which shows what is new, shows it.
SpeechInv ==
  /\ sticky \in [visible : Speeches \cup {None}, latched : Speeches \cup {None}]
  /\ sticky.latched = booth.last
  /\ booth.last # None =>
       /\ booth.last.day <= dayNumber
       /\ booth.last.day = dayNumber =>
            /\ phase = "day-speeches" => booth.last.actor \in pendingDaySpeeches
            /\ phase = "hunter-shoot" => pendingHunterShoot.cause = "banishment"

PageInv ==
  booth \in Booths /\ Tolds(told) /\ LightsInv /\ StoryInv /\ CountInv /\ SpeechInv

WatchInv == MatchInv /\ PageInv

\* What the engine and the page do in a step of an agent.
Played(p, a) ==
  /\ MatchInv /\ IInv' /\ Continues /\ phase \notin {"setup", "game-over"}
  /\ GameGoesOn /\ Spoken(p, a) /\ p \in Players /\ call' = NoCall
Shown(p, a) ==
  /\ \E q : /\ Received(Here, q, p, a)
            /\ IF PhaseChanges THEN \E r : Turned(q, r) /\ After(r) ELSE After(q)
  /\ sticky' = StuckTo(booth'.last)

LEMMA StepPlayed ==
  ASSUME MatchInv, PageInv, call # NoCall, NEW a \in call.menu, Settle(a),
         NEW how \in {"fine", "agent.timeout", "agent.invalid_action"},
         Show(StepEvents(call.player, a, how))
  PROVE  Played(call.player, a) /\ Shown(call.player, a)
<1> DEFINE p == call.player
<1>1. p \in Players /\ a \in ValidActions(p)
  BY DEF MatchInv, CallOK
<1>2. a.target \in Players \cup {None} /\ Accepts(p, a) /\ alive \subseteq Players
  BY <1>1, MenuTargets, IInvMenusAccepted DEF MatchInv, MenusAccepted, IInv, TypeOK
<1>3. Apply(p, a) /\ call' = NoCall
  BY <1>2 DEF Settle
<1>4. Next /\ phase # "setup"
  BY <1>1, <1>2, <1>3, ApplyIsStep
<1>5. IInv' /\ Continues
  BY <1>4, NextIInv, StepUnderTheSamePhase DEF MatchInv
<1>6. phase # "game-over"
  BY <1>2 DEF Accepts, CanWerewolfVote, CanWitchSave, CanWitchSkipSave, CanWitchPoison,
              CanWitchSkipPoison, CanSeerDivine, CanSpeak, CanDayVote, CanHunterShoot
<1>7. GameGoesOn /\ Spoken(p, a)
  BY <1>1, <1>2, <1>3, ActionGoesOn DEF MatchInv
<1>8. TypeOK /\ TypeOK' /\ booth \in Booths /\ Tolds(told)
  BY <1>5 DEF MatchInv, IInv, PageInv
<1>9. Shown(p, a)
  BY <1>1, <1>8, StepShown DEF Shown
<1> QED BY <1>1, <1>3, <1>4, <1>5, <1>6, <1>7, <1>9 DEF Played

\* A cause is added to nobody's twice, so to whom one is added died just now; under
\* the same phase that is nobody.
LEMMA DeathsCounted ==
  ASSUME IInv, IInv', Continues, GameGoesOn, NEW p \in Players
  PROVE  /\ Cardinality(deaths'[p]) = Cardinality(deaths[p]) + (IF deaths'[p] # deaths[p] THEN 1 ELSE 0)
         /\ Cardinality(deaths[p]) \in Nat
         /\ phase' = phase => deaths'[p] = deaths[p]
<1>1. /\ deaths[p] \subseteq deaths'[p]
      /\ \A c, d \in deaths'[p] : c = d
      /\ p \in alive <=> deaths[p] = {}
      /\ p \in alive' <=> deaths'[p] = {}
      /\ phase' = phase => alive' = alive
  BY DEF GameGoesOn, IInv, DeathLedger, Continues
<1> DEFINE before == deaths[p]
           after == deaths'[p]
<1> HIDE DEF before, after
<1>2. after = before \/ (before = {} /\ \E c : after = {c})
  BY <1>1 DEF before, after
<1>3. before = {} \/ \E c : before = {c}
  BY <1>1 DEF before, after
<1>4. Cardinality(before) \in {0, 1}
  BY <1>3, FS_EmptySet, FS_Singleton
<1>5. Cardinality(after) = Cardinality(before) + (IF after # before THEN 1 ELSE 0)
  BY <1>2, <1>4, FS_EmptySet, FS_Singleton
<1> QED BY <1>1, <1>2, <1>4, <1>5 DEF before, after

LEMMA LightsAfterStep ==
  ASSUME NEW p, NEW a, Played(p, a), Shown(p, a), PageInv
  PROVE  LightsInv' /\ booth' \in Booths /\ Tolds(told')
<1>1. PICK q : /\ Received(Here, q, p, a)
               /\ IF PhaseChanges THEN \E r : Turned(q, r) /\ After(r) ELSE After(q)
  BY DEF Shown
<1>2. call' = NoCall /\ p \in Players /\ p # None
  BY RolesAssumption DEF Played
<1>3. CASE PhaseChanges
  <2>1. PICK r : Turned(q, r) /\ After(r)
    BY <1>1, <1>3
  <2> QED BY <1>2, <2>1 DEF Turned, After, LightsInv
<1>4. CASE ~PhaseChanges
  <2>1. phase' = phase /\ After(q)
    BY <1>1, <1>4 DEF PhaseChanges
  <2>2. Here.booth = booth
    BY DEF Here
  <2>3. Speech(p).actor = p
    BY DEF Speech
  <2>4. Speech(p) # None
    <3>1. Speech(p) \in Speeches
      BY <1>2 DEF Speech, Speeches, Played, MatchInv, IInv, TypeOK
    <3> QED BY <3>1, WatchAssumption
  <2> QED BY <1>1, <1>2, <2>1, <2>2, <2>3, <2>4 DEF Received, After, LightsInv
<1> QED BY <1>3, <1>4

LEMMA StoryAfterStep ==
  ASSUME NEW p, NEW a, Played(p, a), Shown(p, a), PageInv
  PROVE  StoryInv'
<1>1. PICK q : /\ Received(Here, q, p, a)
               /\ IF PhaseChanges THEN \E r : Turned(q, r) /\ After(r) ELSE After(q)
  BY DEF Shown
<1>2. \A x \in Players :
        /\ Cardinality(deaths'[x]) = Cardinality(deaths[x]) + (IF deaths'[x] # deaths[x] THEN 1 ELSE 0)
        /\ phase' = phase => deaths'[x] = deaths[x]
  BY DeathsCounted DEF Played, MatchInv
<1>3. /\ Here.booth = booth /\ Here.told = told
      /\ booth.night # 0 => booth.night = nightNumber
      /\ booth.night \in Nat
  BY DEF Here, PageInv, CountInv, Booths
<1>4. /\ q.told.deaths = told.deaths /\ q.booth.causes = booth.causes /\ q.told.exposed = {}
      /\ q.told.last.kind \in {"night-fold", "phase-night"} => q.told.last.n = nightNumber
      /\ q.told.last.kind = "phase-day" => q.told.last.n = dayNumber /\ phase \in DayPhases
  <2>1. /\ q.told.deaths = told.deaths /\ q.booth.causes = booth.causes /\ q.told.exposed = {}
        /\ \/ q.told.last = told.last
           \/ q.told.last.kind \notin {"night-fold", "phase-night", "phase-day"}
           \/ q.told.last.kind = "night-fold" /\ q.told.last.n = nightNumber
    BY <1>1, <1>3 DEF Received, ToldOn, PageInv, StoryInv
  <2> QED BY <2>1 DEF PageInv, StoryInv
<1>5. CASE PhaseChanges
  <2>1. PICK r : Turned(q, r) /\ After(r)
    BY <1>1, <1>5
  <2>2. told'.exposed = {}
    BY <1>4, <2>1 DEF Turned, After
  <2>3. ASSUME NEW x \in Players
        PROVE  told'.deaths[x] = Cardinality(deaths'[x]) /\ booth'.causes[x] = deaths'[x]
    <3>1. told.deaths[x] = Cardinality(deaths[x]) /\ booth.causes[x] = deaths[x]
      BY DEF PageInv, StoryInv
    <3>2. /\ booth'.causes[x] = IF deaths'[x] # deaths[x] THEN deaths'[x] ELSE booth.causes[x]
          /\ told'.deaths[x] = told.deaths[x] + (IF deaths'[x] # deaths[x] THEN 1 ELSE 0)
      BY <1>4, <2>1 DEF Turned, After
    <3> QED BY <1>2, <3>1, <3>2
  <2>4. CASE phase' \in PrivatePhases
    <3>1. told'.last.kind = "phase-night" /\ told'.last.n = nightNumber'
      BY <2>1, <2>4 DEF Turned, After
    <3> QED BY <2>2, <2>3, <3>1 DEF StoryInv
  <2>5. CASE phase' \notin PrivatePhases
    <3>1. nightNumber' = nightNumber
      BY <2>5 DEF Played, GameGoesOn, PrivatePhases
    <3>2. \/ told'.last.kind = "phase-day" /\ told'.last.n = dayNumber' /\ phase' \in DayPhases
          \/ told'.last.kind \notin {"night-fold", "phase-night", "phase-day"}
          \/ /\ told'.last = q.told.last /\ \A x \in Players : deaths'[x] = deaths[x]
             /\ phase' \notin {"game-over", "day-vote"}
      BY <2>1, <2>5 DEF Turned, After
    <3>3. CASE /\ told'.last = q.told.last /\ \A x \in Players : deaths'[x] = deaths[x]
               /\ phase' \notin {"game-over", "day-vote"}
      <4>1. phase' = "day-speeches" /\ phase' # phase
        <5>1. phase' \in Phases /\ phase' \notin {"setup", "hunter-shoot"}
          BY <3>3 DEF Played, GameGoesOn, Continues, IInv, TypeOK
        <5>2. phase' = "day-speeches"
          BY <2>5, <3>3, <5>1 DEF Phases, PrivatePhases
        <5> QED BY <1>5, <5>2 DEF PhaseChanges
      <4>2. phase \notin DayPhases
        BY <4>1 DEF Played, GameGoesOn, DayPhases
      <4> QED BY <1>4, <2>2, <2>3, <3>1, <3>3, <4>2 DEF StoryInv
    <3> QED BY <2>2, <2>3, <3>2, <3>3 DEF StoryInv
  <2> QED BY <2>4, <2>5
<1>6. CASE ~PhaseChanges
  <2>1. phase' = phase /\ After(q)
    BY <1>1, <1>6 DEF PhaseChanges
  <2>2. nightNumber' = nightNumber /\ dayNumber' = dayNumber
    BY <2>1 DEF Played, Continues
  <2>3. \A x \in Players : told'.deaths[x] = Cardinality(deaths'[x]) /\ booth'.causes[x] = deaths'[x]
    BY <1>2, <1>4, <2>1 DEF After, PageInv, StoryInv
  <2> QED BY <1>4, <2>1, <2>2, <2>3 DEF After, StoryInv
<1> QED BY <1>5, <1>6

LEMMA VotesAfterStep ==
  ASSUME NEW p, NEW a, Played(p, a), Shown(p, a), PageInv
  PROVE  CountInv'
<1>1. PICK q : /\ Received(Here, q, p, a)
               /\ IF PhaseChanges THEN \E r : Turned(q, r) /\ After(r) ELSE After(q)
  BY DEF Shown
<1>2. /\ q.told.flops = told.flops /\ q.booth.night = booth.night /\ told.flops \in Nat
      /\ booth.night # 0 => booth.night = nightNumber
      /\ told.flops + Cardinality(Outs) + 1 = VotesHeld
      /\ phase' # "setup"
  BY <1>1 DEF Received, ToldOn, Here, PageInv, CountInv, Tolds, Played, Continues
<1>3. Flopped => PhaseChanges
  BY DEF Flopped, PhaseChanges
<1>4. told'.flops = told.flops + (IF Flopped THEN 1 ELSE 0)
  <2>1. CASE PhaseChanges
    BY <1>1, <1>2, <2>1 DEF Turned, After
  <2>2. CASE ~PhaseChanges
    BY <1>1, <1>2, <1>3, <2>2 DEF After
  <2> QED BY <2>1, <2>2
<1>5. booth'.night # 0 => booth'.night = nightNumber'
  <2>1. CASE PhaseChanges
    BY <1>1, <2>1 DEF Turned, After
  <2>2. CASE ~PhaseChanges
    BY <1>1, <1>2, <2>2 DEF After, PhaseChanges, Played, Continues
  <2> QED BY <2>1, <2>2
<1>6. phase' # "game-over" => told'.flops + Cardinality(Outs') + 1 = VotesHeld'
  <2>1. IsFiniteSet(Outs) /\ Cardinality(Outs) \in Nat
    BY RolesAssumption, FS_Subset, FS_CardinalityType DEF Outs
  <2>2. ASSUME NEW x \in Players \ Outs, Outs' = Outs \cup {x}
        PROVE  Cardinality(Outs') = Cardinality(Outs) + 1
    BY <2>1, <2>2, FS_AddElement
  <2>3. phase' # "game-over" => Counted
    BY DEF Played, GameGoesOn
  <2> QED BY <1>2, <1>4, <2>1, <2>2, <2>3 DEF Counted
<1> QED BY <1>2, <1>5, <1>6 DEF CountInv

\* useStickyValue keeps the last speech it was shown.
LEMMA Stuck ==
  ASSUME sticky \in [visible : Speeches \cup {None}, latched : Speeches \cup {None}],
         NEW last \in Speeches \cup {None}
  PROVE  /\ StuckTo(last) \in [visible : Speeches \cup {None}, latched : Speeches \cup {None}]
         /\ StuckTo(last).latched = last
         /\ last # None /\ last # sticky.latched => StuckTo(last).visible = last
BY DEF StuckTo

LEMMA SpeechAfterStep ==
  ASSUME NEW p, NEW a, Played(p, a), Shown(p, a), PageInv
  PROVE  /\ SpeechInv'
         /\ \A x \in Players : x \in pendingDaySpeeches' \ pendingDaySpeeches => SpeechShown' = Speech(x)
<1>1. PICK q : /\ Received(Here, q, p, a)
               /\ IF PhaseChanges THEN \E r : Turned(q, r) /\ After(r) ELSE After(q)
  BY DEF Shown
<1>2. /\ booth'.last = q.booth.last /\ booth' \in Booths
      /\ booth'.current = IF PhaseChanges THEN None ELSE q.booth.current
  BY <1>1, LightsAfterStep DEF Turned, After
<1>3. IF a.type = "speak"
      THEN q.booth.last = Speech(p) /\ q.booth.current = Speech(p)
      ELSE q.booth.last = booth.last
  BY <1>1 DEF Received, Here, Played, Spoken, PrivatePhases
<1>4. /\ sticky \in [visible : Speeches \cup {None}, latched : Speeches \cup {None}]
      /\ sticky.latched = booth.last
      /\ booth.last # None =>
           /\ booth.last.day <= dayNumber
           /\ booth.last.day = dayNumber =>
                /\ phase = "day-speeches" => booth.last.actor \in pendingDaySpeeches
                /\ phase = "hunter-shoot" => pendingHunterShoot.cause = "banishment"
  BY DEF PageInv, SpeechInv
<1>5. /\ booth'.last \in Speeches \cup {None} /\ booth.last \in Speeches \cup {None}
      /\ dayNumber \in Nat /\ dayNumber' \in Nat
  BY <1>2 DEF Booths, PageInv, Played, MatchInv, IInv, TypeOK
<1>6. /\ sticky' \in [visible : Speeches \cup {None}, latched : Speeches \cup {None}]
      /\ sticky'.latched = booth'.last
      /\ booth'.last # None /\ booth'.last # sticky.latched => sticky'.visible = booth'.last
  BY <1>4, <1>5, Stuck DEF Shown
<1>7. Speech(p).actor = p /\ Speech(p).day = dayNumber /\ Speech(p) \in Speeches
  BY <1>5 DEF Speech, Speeches, Played
<1>8. SpeechesKept /\ Spoken(p, a)
  BY DEF Played, GameGoesOn
<1>9. CASE a.type = "speak"
  <2>1. /\ phase = "day-speeches" /\ p \notin pendingDaySpeeches /\ dayNumber' = dayNumber
        /\ pendingDaySpeeches' = pendingDaySpeeches \cup {p}
    BY <1>8, <1>9 DEF Spoken
  <2>2. booth'.last = Speech(p)
    BY <1>2, <1>3, <1>9
  <2>3. SpeechInv'
    BY <1>5, <1>6, <1>7, <1>8, <2>1, <2>2 DEF SpeechInv, SpeechesKept
  <2>4. booth.last # Speech(p) /\ Speech(p) # None
    BY <1>4, <1>7, <2>1, WatchAssumption
  <2>5. SpeechShown' = Speech(p)
    BY <1>2, <1>3, <1>4, <1>6, <1>9, <2>2, <2>4 DEF SpeechShown
  <2> QED BY <2>1, <2>3, <2>5
<1>10. CASE a.type # "speak"
  <2>1. booth'.last = booth.last /\ pendingDaySpeeches' \subseteq pendingDaySpeeches
    BY <1>2, <1>3, <1>8, <1>10 DEF Spoken
  <2>2. ASSUME booth.last # None
        PROVE  /\ booth.last.day <= dayNumber'
               /\ booth.last.day = dayNumber' =>
                    /\ phase' = "day-speeches" => booth.last.actor \in pendingDaySpeeches'
                    /\ phase' = "hunter-shoot" => pendingHunterShoot'.cause = "banishment"
    <3>1. booth.last.day \in Nat
      BY <1>5, <2>2 DEF Speeches
    <3>2. dayNumber' >= dayNumber
      BY <1>8 DEF SpeechesKept
    <3>3. booth.last.day <= dayNumber'
      BY <1>4, <1>5, <2>2, <3>1, <3>2
    <3>4. booth.last.day = dayNumber' => dayNumber' = dayNumber
      BY <1>4, <1>5, <2>2, <3>1, <3>2
    <3> QED BY <1>4, <1>8, <2>2, <3>3, <3>4 DEF SpeechesKept
  <2> QED BY <1>6, <2>1, <2>2 DEF SpeechInv
<1> QED BY <1>9, <1>10

\* A step that shows nothing, and one that shows one event.
LEMMA NothingShown ==
  ASSUME Show(<<>>)
  PROVE  booth' = booth /\ told' = told /\ sticky' = StuckTo(booth.last)
<1>1. PICK page : page[0] = Here /\ AfterEvents(<<>>) = page[0]
  <2>1. Len(<<>>) = 0 /\ Len(<<>>) \in 0 .. 4
    OBVIOUS
  <2> QED BY <2>1, EventByEvent DEF Here
<1> QED BY <1>1 DEF Show, Here

LEMMA OneShown ==
  ASSUME NEW e, Show(<<e>>)
  PROVE  \E q : q = OnEvent(Here, Public(e)) /\ After(q) /\ sticky' = StuckTo(booth'.last)
<1> DEFINE es == <<e>>
<1>1. Len(es) = 1 /\ Len(es) \in 0 .. 4 /\ es[1] = e
  OBVIOUS
<1> HIDE DEF es
<1>2. PICK page : /\ page[0] = Here
                  /\ \A i \in 1 .. 1 : page[i] = OnEvent(page[i - 1], Public(es[i]))
                  /\ AfterEvents(es) = page[1]
  BY <1>1, EventByEvent DEF Here
<1>3. page[1] = OnEvent(Here, Public(e))
  BY <1>1, <1>2
<1> QED BY <1>2, <1>3 DEF Show, After, es

\* Where the game does not move, the page's account of it stays right.
LEMMA StillRight ==
  ASSUME PageInv, UNCHANGED vars, booth' \in Booths,
         \/ told' = told
         \/ ToldOn(told, told', booth.night) /\ Tolds(told'),
         booth'.night = booth.night, booth'.causes = booth.causes,
         phase = "setup" => booth'.speaking = None /\ told' = told
  PROVE  Tolds(told') /\ StoryInv' /\ CountInv'
<1>1. /\ phase' = phase /\ nightNumber' = nightNumber /\ dayNumber' = dayNumber /\ deaths' = deaths
      /\ pendingHunterShoot' = pendingHunterShoot
  BY DEF vars
<1>2. Outs' = Outs /\ VotesHeld' = VotesHeld
  BY <1>1 DEF Outs, VotesHeld
<1>3. Tolds(told') /\ told'.deaths = told.deaths /\ told'.flops = told.flops /\ told'.exposed = {}
  BY DEF ToldOn, PageInv, StoryInv
<1>4. \/ told'.last = told.last
      \/ told'.last.kind \notin {"night-fold", "phase-night", "phase-day"}
      \/ told'.last.kind = "night-fold" /\ told'.last.n = nightNumber
  BY DEF ToldOn, PageInv, CountInv, Booths
<1>5. StoryInv'
  BY <1>1, <1>3, <1>4 DEF StoryInv, PageInv
<1>6. CountInv'
  BY <1>1, <1>2, <1>3 DEF CountInv, PageInv
<1> QED BY <1>3, <1>5, <1>6

\* The last speech is as old as it was, or none.
LEMMA StillStuck ==
  ASSUME PageInv, UNCHANGED vars, booth' \in Booths,
         booth'.last \in {booth.last, None}, sticky' = StuckTo(booth'.last)
  PROVE  SpeechInv'
<1>1. /\ phase' = phase /\ dayNumber' = dayNumber /\ pendingDaySpeeches' = pendingDaySpeeches
      /\ pendingHunterShoot' = pendingHunterShoot
  BY DEF vars
<1>2. booth'.last \in Speeches \cup {None}
  BY DEF Booths
<1>3. /\ sticky' \in [visible : Speeches \cup {None}, latched : Speeches \cup {None}]
      /\ sticky'.latched = booth'.last
  BY <1>2, Stuck DEF PageInv, SpeechInv
<1> QED BY <1>1, <1>3 DEF SpeechInv, PageInv

\* A step of the runner or of the lobby under which the game stands still and
\* nothing is shown.
LEMMA PageRestsInStep ==
  ASSUME PageInv, UNCHANGED vars, call' = call, booth' = booth, told' = told,
         sticky' = StuckTo(booth.last) \/ sticky' = sticky \/ sticky' = [sticky EXCEPT !.visible = None]
  PROVE  PageInv'
<1>1. booth' \in Booths /\ Tolds(told') /\ StoryInv' /\ CountInv'
  <2>1. phase = "setup" => booth'.speaking = None
    BY DEF PageInv, CountInv
  <2>2. booth' \in Booths /\ booth'.night = booth.night /\ booth'.causes = booth.causes
    BY DEF PageInv
  <2> QED BY <2>1, <2>2, StillRight
<1>2. LightsInv'
  BY DEF PageInv, LightsInv, vars
<1>3. CASE sticky' = StuckTo(booth.last)
  <2>1. SpeechInv'
    BY <1>1, <1>3, StillStuck
  <2> QED BY <1>1, <1>2, <2>1 DEF PageInv
<1>4. CASE sticky' = sticky \/ sticky' = [sticky EXCEPT !.visible = None]
  <2>1. /\ sticky' \in [visible : Speeches \cup {None}, latched : Speeches \cup {None}]
        /\ sticky'.latched = sticky.latched
    BY <1>4 DEF PageInv, SpeechInv
  <2>2. SpeechInv'
    BY <2>1 DEF PageInv, SpeechInv, vars
  <2> QED BY <1>1, <1>2, <2>2 DEF PageInv
<1> QED BY <1>3, <1>4

\* The start of the match, or its refusal.
LEMMA StartShown ==
  ASSUME MatchInv, PageInv, RunMatch, Show(IF status' = "running" THEN <<Started>> ELSE <<>>)
  PROVE  PageInv'
<1>0. phase = "setup" /\ call = NoCall
  BY DEF RunMatch, MatchInv, StatusInv, CallOK
<1>1. CASE Throw("missing agent")
  <2>1. status' = "failed" /\ UNCHANGED vars /\ call' = call
    BY <1>0, <1>1 DEF Throw
  <2>2. Show(<<>>)
    BY <2>1
  <2> QED BY <2>1, <2>2, NothingShown, PageRestsInStep
<1>2. CASE status' = "running" /\ StartFirstNight /\ UNCHANGED call
  <2>1. Show(<<Started>>)
    BY <1>2
  <2>2. PICK q : q = OnEvent(Here, Public(Started)) /\ After(q) /\ sticky' = StuckTo(booth'.last)
    BY <2>1, OneShown
  <2> DEFINE e == Started
  <2>3. e.type = "match.started" /\ e.type \notin AgentEvents
    BY DEF Started, AgentEvents
  <2> HIDE DEF e
  <2>4. Public(e) = e /\ Veiled(e) /\ Reduced(booth, e) = booth
    BY <2>3 DEF Public, Veiled, Reduced
  <2>5. /\ booth \in Booths /\ Tolds(told) /\ Here.booth = booth /\ Here.told = told
    BY DEF PageInv, Here
  <2>6. booth' = booth /\ Tolds(told') /\ ToldOn(told, told', booth.night)
    <3>1. q = OnEvent(Here, e)
      BY <2>2, <2>4 DEF e
    <3>2. q.booth = booth /\ Tolds(q.told) /\ ToldOn(told, q.told, booth.night)
      BY <2>3, <2>4, <2>5, <3>1, QuietEvent
    <3> QED BY <2>2, <3>2 DEF After
  <2>7. /\ phase' = "night-werewolf-vote" /\ nightNumber' = nightNumber + 1
        /\ UNCHANGED <<dayNumber, deaths, pendingDaySpeeches, pendingHunterShoot>>
    BY <1>2 DEF StartFirstNight
  <2>8. /\ nightNumber = 0 /\ told.flops = 0 /\ Outs = {} /\ booth.speaking = None
        /\ told.last.kind = "none" /\ booth.night = 0
    BY <1>0 DEF PageInv, CountInv
  <2>9. /\ told'.flops = 0 /\ told'.deaths = told.deaths /\ told'.exposed = {}
        /\ told'.last.kind \notin {"night-fold", "phase-night", "phase-day"}
    BY <2>6, <2>8 DEF ToldOn, PageInv, StoryInv
  <2>10. LightsInv'
    BY <1>0, <1>2, <2>6, <2>8 DEF PageInv, LightsInv, PrivatePhases
  <2>11. StoryInv'
    BY <2>6, <2>7, <2>9 DEF PageInv, StoryInv
  <2>12. CountInv'
    <3>1. Outs' = {} /\ VotesHeld' = 1
      BY <2>7, <2>8 DEF Outs, VotesHeld
    <3>2. Cardinality(Outs') = 0
      BY <3>1, FS_EmptySet
    <3> QED BY <2>6, <2>7, <2>8, <2>9, <3>1, <3>2 DEF CountInv
  <2>13. SpeechInv'
    <3>1. booth.last \in Speeches \cup {None}
      BY <2>5 DEF Booths
    <3>2. /\ sticky' \in [visible : Speeches \cup {None}, latched : Speeches \cup {None}]
          /\ sticky'.latched = booth'.last
      BY <2>2, <2>6, <3>1, Stuck DEF PageInv, SpeechInv
    <3> QED BY <2>6, <2>7, <3>2 DEF PageInv, SpeechInv
  <2> QED BY <2>5, <2>6, <2>10, <2>11, <2>12, <2>13 DEF PageInv
<1> QED BY <1>1, <1>2 DEF RunMatch

\* The request: by day its player is shown thinking.
LEMMA RequestShown ==
  ASSUME MatchInv, PageInv, AskNext
  PROVE  PageInv'
<1>1. call = NoCall /\ UNCHANGED vars /\ phase # "setup"
  BY DEF AskNext, Request, AtLoopHead, Throw, MatchInv, StatusInv
<1>2. booth.thinking = None
  BY <1>1 DEF PageInv, LightsInv
<1>3. CASE call' = NoCall
  <2>1. Show(<<>>)
    BY <1>3 DEF AskNext
  <2> QED BY <1>1, <1>3, <2>1, NothingShown, PageRestsInStep
<1>4. CASE call' # NoCall
  <2> DEFINE p == call'.player
             a == AgentEvent("agent.action_requested", p, phase, NoAction)
             e == Public(a)
  <2>1. Show(<<a>>)
    BY <1>4 DEF AskNext
  <2>2. MatchInv'
    BY RequestKeeps DEF AskNext
  <2>3. p \in Players /\ p # None
    BY <1>4, <2>2, RolesAssumption DEF MatchInv, CallOK
  <2>4. /\ e.type = "agent.action_requested" /\ e.phase = phase /\ Veiled(e)
        /\ (phase \notin PrivatePhases => e.player = p)
    BY PublicView
  <2> HIDE DEF a
  <2>5. PICK q : q = OnEvent(Here, e) /\ After(q) /\ sticky' = StuckTo(booth'.last)
    BY <2>1, OneShown
  <2> HIDE DEF e, p
  <2>6. e.player \in Players \cup {None} /\ (phase \in PrivatePhases => e.player = None)
    BY <2>3, <2>4 DEF Veiled, AgentEvents
  <2> DEFINE c == OnRequested(booth, e)
  <2>7. Reduced(booth, e) = c
    BY <2>4 DEF Reduced
  <2> HIDE DEF c
  <2>8. /\ booth \in Booths /\ Tolds(told) /\ Here.booth = booth /\ Here.told = told
    BY DEF PageInv, Here
  <2>9. /\ c \in Booths
        /\ c.night = booth.night /\ c.causes = booth.causes /\ c.current = booth.current
        /\ c.last = booth.last
        /\ \/ c = booth /\ (e.phase \in PrivatePhases \/ e.player = None)
           \/ /\ e.phase \notin PrivatePhases /\ e.player # None
              /\ c.thinking = e.player /\ c.speaking = None
    BY <2>6, <2>8, RequestedBooth DEF c
  <2>10. booth' = c /\ Tolds(told') /\ ToldOn(told, told', booth.night)
    <3>1. q.booth = c /\ Tolds(q.told) /\ ToldOn(told, q.told, booth.night)
      BY <2>4, <2>5, <2>7, <2>8, <2>9, QuietEvent
    <3> QED BY <2>5, <3>1 DEF After
  <2>11. Tolds(told') /\ StoryInv' /\ CountInv'
    BY <1>1, <2>9, <2>10, StillRight
  <2>12. SpeechInv'
    BY <1>1, <2>5, <2>9, <2>10, StillStuck
  <2>13. LightsInv'
    <3>1. phase' = phase
      BY <1>1 DEF vars
    <3>2. CASE phase \in PrivatePhases
      BY <1>2, <2>4, <2>9, <2>10, <3>1, <3>2 DEF PageInv, LightsInv
    <3>3. CASE phase \notin PrivatePhases
      BY <1>4, <2>3, <2>4, <2>9, <2>10, <3>1, <3>3 DEF LightsInv, p
    <3> QED BY <3>2, <3>3
  <2> QED BY <2>9, <2>10, <2>11, <2>12, <2>13 DEF PageInv
<1> QED BY <1>3, <1>4

\* The end: the lights go out.
LEMMA EndShown ==
  ASSUME MatchInv, PageInv, Complete, Show(IF status' = "completed" THEN <<Completed>> ELSE <<>>)
  PROVE  PageInv'
<1>1. call = NoCall /\ call' = call /\ UNCHANGED vars /\ phase = "game-over"
  BY DEF Complete, AtLoopHead, Throw
<1>2. CASE status' # "completed"
  <2>1. Show(<<>>)
    BY <1>2
  <2> QED BY <1>1, <2>1, NothingShown, PageRestsInStep
<1>3. CASE status' = "completed"
  <2> DEFINE e == Completed
  <2>1. e.type = "match.completed" /\ e.type \notin AgentEvents
    BY DEF Completed, AgentEvents
  <2>2. Show(<<e>>)
    BY <1>3
  <2> HIDE DEF e
  <2>3. PICK q : q = OnEvent(Here, Public(e)) /\ After(q) /\ sticky' = StuckTo(booth'.last)
    BY <2>2, OneShown
  <2> DEFINE c == OnCompleted(booth)
  <2>4. Public(e) = e /\ Veiled(e) /\ Reduced(booth, e) = c
    BY <2>1 DEF Public, Veiled, Reduced
  <2> HIDE DEF c
  <2>5. /\ booth \in Booths /\ Tolds(told) /\ Here.booth = booth /\ Here.told = told
    BY DEF PageInv, Here
  <2>6. /\ c \in Booths
        /\ c.night = booth.night /\ c.causes = booth.causes /\ c.thinking = None
        /\ c.speaking = None /\ c.current = None /\ c.last = None
    BY <2>5, CompletedBooth DEF c
  <2>7. booth' = c /\ Tolds(told') /\ ToldOn(told, told', booth.night)
    <3>1. q.booth = c /\ Tolds(q.told) /\ ToldOn(told, q.told, booth.night)
      BY <2>1, <2>3, <2>4, <2>5, <2>6, QuietEvent
    <3> QED BY <2>3, <3>1 DEF After
  <2>8. Tolds(told') /\ StoryInv' /\ CountInv'
    BY <1>1, <2>6, <2>7, StillRight
  <2>9. SpeechInv'
    BY <1>1, <2>3, <2>6, <2>7, StillStuck
  <2>10. LightsInv'
    BY <1>1, <2>6, <2>7 DEF LightsInv
  <2> QED BY <2>6, <2>7, <2>8, <2>9, <2>10 DEF PageInv
<1> QED BY <1>2, <1>3

\* The answer of an agent or its fallback.
LEMMA AnswerShown ==
  ASSUME MatchInv, PageInv, (\E a : TakeAnswer(a)) \/ TakeFallback
  PROVE  /\ PageInv'
         /\ \A x \in Players : x \in pendingDaySpeeches' \ pendingDaySpeeches => SpeechShown' = Speech(x)
<1>1. call # NoCall
  BY DEF TakeAnswer, TakeFallback, AgentAnswers, AgentTimesOut, TimerArmed
<1>2. Fallback(call.menu) \in call.menu
  <2>1. \A a \in call.menu : a.target \in Players \cup {None}
    BY <1>1, MenuTargets DEF MatchInv, CallOK
  <2> QED BY <1>1, <2>1, FallbackIsOffered DEF MatchInv, CallOK
<1>3. \E a \in call.menu, how \in {"fine", "agent.timeout", "agent.invalid_action"} :
        Settle(a) /\ Show(StepEvents(call.player, a, how))
  <2>1. ASSUME NEW b, TakeAnswer(b)
        PROVE  \E a \in call.menu, how \in {"fine", "agent.timeout", "agent.invalid_action"} :
                 Settle(a) /\ Show(StepEvents(call.player, a, how))
    <3>1. CASE Validates(b, call.menu)
      BY <2>1, <3>1 DEF TakeAnswer, AgentAnswers, Validates
    <3>2. CASE ~Validates(b, call.menu)
      BY <1>2, <2>1, <3>2 DEF TakeAnswer, AgentAnswers
    <3> QED BY <3>1, <3>2
  <2> QED BY <1>2, <2>1 DEF TakeFallback, AgentTimesOut
<1>4. PICK a \in call.menu, how \in {"fine", "agent.timeout", "agent.invalid_action"} :
        Settle(a) /\ Show(StepEvents(call.player, a, how))
  BY <1>3
<1> DEFINE p == call.player
<1>5. Played(p, a) /\ Shown(p, a)
  BY <1>1, <1>4, StepPlayed
<1> HIDE DEF p
<1> QED BY <1>5, LightsAfterStep, StoryAfterStep, VotesAfterStep, SpeechAfterStep DEF PageInv

-----------------------------------------------------------------------------
(* The theorem.                                                             *)

LEMMA InitWatchInv == WatchInit => WatchInv
<1> SUFFICES ASSUME WatchInit PROVE WatchInv
  OBVIOUS
<1>1. MatchInv
  BY InitMatchInv DEF WatchInit
<1>2. booth = [phase |-> "pre-match", night |-> 0, day |-> 0, thinking |-> None,
               speaking |-> None, current |-> None, last |-> None,
               causes |-> [p \in Players |-> {}]]
  BY DEF WatchInit
<1>3. /\ told.last.kind = "none" /\ told.deaths = [p \in Players |-> 0] /\ told.flops = 0
      /\ told.exposed = {}
  BY DEF WatchInit, Line
<1>4. phase = "setup" /\ nightNumber = 0 /\ deaths = [p \in Players |-> {}] /\ call = NoCall
  BY DEF WatchInit, MatchInit, Init
<1>5. booth \in Booths /\ Tolds(told)
  BY <1>2, <1>3 DEF Booths, Tolds
<1>6. LightsInv
  BY <1>2, <1>4 DEF LightsInv
<1>7. StoryInv
  BY <1>2, <1>3, <1>4, FS_EmptySet DEF StoryInv
<1>8. CountInv
  BY <1>2, <1>3, <1>4 DEF CountInv, Outs
<1>9. SpeechInv
  BY <1>2 DEF WatchInit, SpeechInv
<1> QED BY <1>1, <1>5, <1>6, <1>7, <1>8, <1>9 DEF WatchInv, PageInv

LEMMA NextWatchInv ==
  ASSUME WatchInv, [WatchNext]_watchVars
  PROVE  /\ WatchInv'
         /\ \A x \in Players : x \in pendingDaySpeeches' \ pendingDaySpeeches => SpeechShown' = Speech(x)
<1> DEFINE Heard == \A x \in Players : x \in pendingDaySpeeches' \ pendingDaySpeeches => SpeechShown' = Speech(x)
<1>1. [MatchNext]_allVars \/ \E a : AgentAnswers(a)
  BY DEF WatchNext, MatchNext, AskNext, TakeAnswer, TakeFallback, Fade, watchVars
<1>2. MatchInv'
  BY <1>1, NextMatchInv, AnswerKeeps DEF WatchInv
<1>3. CASE (\E a : TakeAnswer(a)) \/ TakeFallback
  BY <1>2, <1>3, AnswerShown DEF WatchInv
<1>4. CASE \/ (\E p \in Players : RegisterAgent(p)) /\ Quiet
           \/ PersistArtifact /\ Quiet
           \/ Fade
           \/ UNCHANGED watchVars
  <2>1. /\ UNCHANGED vars /\ call' = call /\ booth' = booth /\ told' = told
        /\ sticky' = sticky \/ sticky' = [sticky EXCEPT !.visible = None]
    BY <1>4 DEF RegisterAgent, PersistArtifact, Quiet, Fade, watchVars, pageVars, allVars, matchVars
  <2>2. PageInv' /\ Heard
    BY <2>1, PageRestsInStep DEF WatchInv, vars
  <2> QED BY <1>2, <2>2 DEF WatchInv
<1>5. CASE RunMatch /\ Show(IF status' = "running" THEN <<Started>> ELSE <<>>)
  <2>1. PageInv'
    BY <1>5, StartShown DEF WatchInv
  <2>2. Heard
    BY <1>5 DEF RunMatch, Throw, StartFirstNight, vars
  <2> QED BY <1>2, <2>1, <2>2 DEF WatchInv
<1>6. CASE AskNext
  <2>1. PageInv'
    BY <1>6, RequestShown DEF WatchInv
  <2>2. Heard
    BY <1>6 DEF AskNext, Request, Throw, vars
  <2> QED BY <1>2, <2>1, <2>2 DEF WatchInv
<1>7. CASE Complete /\ Show(IF status' = "completed" THEN <<Completed>> ELSE <<>>)
  <2>1. PageInv'
    BY <1>7, EndShown DEF WatchInv
  <2>2. Heard
    BY <1>7 DEF Complete, Throw, vars
  <2> QED BY <1>2, <2>1, <2>2 DEF WatchInv
<1> QED BY <1>3, <1>4, <1>5, <1>6, <1>7 DEF WatchNext

\* The spectator's account of the match is right: whom it shows thinking, whom it
\* names at night, how often it tells of a death and of a vote without a result, which
\* night or day it says it is, and that every speech is on the board once it was made.
THEOREM TimelineIsSound == WatchSpec => TimelineSound
<1> DEFINE Right ==
      /\ booth.thinking = IF call # NoCall /\ phase \notin PrivatePhases THEN call.player ELSE None
      /\ phase \in PrivatePhases => booth.speaking = None
      /\ booth.speaking # None => booth.current # None /\ booth.current.actor = booth.speaking
      /\ told.exposed = {}
      /\ \A p \in Players : told.deaths[p] = Cardinality(deaths[p]) /\ booth.causes[p] = deaths[p]
      /\ phase = "night-werewolf-vote" =>
           told.flops = nightNumber - 1 - Cardinality({p \in Players : "banishment" \in deaths[p]})
      /\ told.last.kind \in {"night-fold", "phase-night"} => told.last.n = nightNumber
      /\ told.last.kind = "phase-day" => told.last.n = dayNumber /\ phase \in DayPhases
    Heard == \A p \in Players : p \in pendingDaySpeeches' \ pendingDaySpeeches => SpeechShown' = Speech(p)
<1>1. WatchInv => Right
  <2> SUFFICES ASSUME WatchInv PROVE Right
    OBVIOUS
  <2>1. phase = "night-werewolf-vote" =>
          told.flops = nightNumber - 1 - Cardinality({p \in Players : "banishment" \in deaths[p]})
    <3>1. IsFiniteSet(Outs) /\ Cardinality(Outs) \in Nat
      BY RolesAssumption, FS_Subset, FS_CardinalityType DEF Outs
    <3>2. told.flops \in Nat /\ nightNumber \in Nat
      BY DEF WatchInv, PageInv, Tolds, MatchInv, IInv, TypeOK
    <3>3. phase = "night-werewolf-vote" => told.flops + Cardinality(Outs) + 1 = nightNumber + 0
      BY DEF WatchInv, PageInv, CountInv, VotesHeld
    <3>4. phase = "night-werewolf-vote" => told.flops = nightNumber - 1 - Cardinality(Outs)
      BY <3>1, <3>2, <3>3
    <3> QED BY <3>4 DEF Outs
  <2> QED BY <2>1 DEF WatchInv, PageInv, LightsInv, StoryInv
<1>2. WatchInv /\ [WatchNext]_watchVars => WatchInv' /\ Heard
  BY NextWatchInv
<1> QED BY <1>1, <1>2, InitWatchInv, PTL DEF WatchSpec, TimelineSound
=============================================================================
