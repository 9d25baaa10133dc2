---------------------------- MODULE WerewolfMatch ----------------------------
(***************************************************************************)
(* One match of werewolf: the orchestrator's entry for it                  *)
(* (werewolf-orchestrator/src/orchestrator.ts), the runner that drives the *)
(* rules engine through its agents (match-runner.ts), and the lobby's      *)
(* subscription that rebuilds the game from the events for spectators      *)
(* (apps/api/src/werewolf-lobby-registry.ts).                              *)
(*                                                                         *)
(* The game is the state of WerewolfEngine, which this module extends.     *)
(* The await in runOneAction separates Request from Settle: in between     *)
(* only the settled promise of the TimeoutHandler decides, so an answer    *)
(* that comes later than the timeout is no step at all.  What an agent     *)
(* answers is any action the wire schema admits, or garbage (Malformed).   *)
(*                                                                         *)
(* Operators named Bug... are mutations, as in WerewolfEngine.             *)
(***************************************************************************)
EXTENDS WerewolfEngine

CONSTANTS
  Seat,         \* seatIndex of each player, also his place in state.players
  MaxSteps,     \* the runner's maxSteps
  SilentSteps,  \* the steps in which an abandoned match comes to its end
  Malformed     \* an answer that fails WerewolfDecisionResponseSchema

ASSUME MatchAssumption ==
  /\ Seat \in [Players -> Nat]
  /\ \A p, q \in Players : Seat[p] = Seat[q] => p = q
  /\ MaxSteps \in Nat /\ SilentSteps \in Nat
  /\ MaxNights >= MaxSteps    \* the engine's bound never binds here

VARIABLES
  status,       \* of the orchestrator's entry
  agents,       \* the players an agent is registered for
  stepCount,
  call,         \* the decision request in flight
  failure,      \* why run() threw
  artifact,     \* what became of the match artifact
  offline,      \* from here on no agent answers
  board         \* the lobby entry's view of the game

matchVars == <<status, agents, stepCount, call, failure, artifact, offline, board>>
allVars == <<vars, matchVars>>

Action(type, targets) == {Act(type, t) : t \in targets}
Answers ==
  Action("werewolf-vote", Players) \cup Action("witch-save", Players)
    \cup Action("witch-poison", Players) \cup Action("seer-divine", Players)
    \cup Action("day-vote", Players \cup {None})
    \cup Action("hunter-shoot", Players \cup {None})
    \cup {Act(ty, None) : ty \in {"witch-skip-save", "witch-skip-poison", "speak"}}
NoCall == [player |-> None, menu |-> {}]

-----------------------------------------------------------------------------
(* The runner's choices.                                                    *)

\* pickNextActor: the lowest seat with something to do.
Actors == {p \in Players : ValidActions(p) # {}}
NextActor(actors) == CHOOSE p \in actors : \A q \in actors : Seat[p] <= Seat[q]

\* The position of an action in the array getValidActions returns: abstaining
\* and passing come first, a skipped potion last, targets in seat order.
Position(a) ==
  IF a.type \in {"witch-skip-save", "witch-skip-poison"}
  THEN 2 + Seat[CHOOSE p \in Players : \A q \in Players : Seat[p] >= Seat[q]]
  ELSE IF a.target = None THEN 0 ELSE 1 + Seat[a.target]
\* werewolfFallback
Fallback(menu) == CHOOSE a \in menu : \A b \in menu : Position(a) <= Position(b)

\* safeParse and validateWerewolfAction.  A speech without text is a member of
\* the menu that the runner rejects; its fallback is that same empty speech.
BugTrustsTheAgent(a, menu) == a # Malformed
Validates(a, menu) == a # Malformed /\ a \in menu

-----------------------------------------------------------------------------
(* The lobby's view.                                                        *)

\* The death entries an engine step appended, which the runner reads off the
\* tail of the history.
BugLastDeathOnly(before, after) ==
  LET new == {p \in Players : after[p] # before[p]}
  IN {p \in new : \A q \in new : Seat[q] <= Seat[p]}
Eliminated(before, after) == {p \in Players : after[p] # before[p]}

\* The subscription of WerewolfLobbyRegistry.start on a phase.changed event.
\* The PK round is on the event too; the lobby leaves it to the spectators.
OnPhaseChanged ==
  board' = [phase |-> phase', day |-> dayNumber', night |-> nightNumber',
            dead |-> board.dead \cup Eliminated(deaths, deaths')]

\* The runner emits phase.changed when the phase changed, or the ballot went
\* into another PK round under the same phase.
PhaseChanges ==
  \/ phase' # phase
  \/ phase' = "day-vote" /\ pendingDayVote'.pkRound > pendingDayVote.pkRound

-----------------------------------------------------------------------------
(* The orchestrator.                                                        *)

RegisterAgent(p) ==
  /\ status = "preparing"
  /\ p \notin agents    \* registering again replaces the agent: no change here
  /\ agents' = agents \cup {p}
  /\ UNCHANGED <<vars, status, stepCount, call, failure, artifact, offline, board>>

Throw(why) ==
  /\ status' = "failed" /\ failure' = why
  /\ call' = NoCall
  /\ UNCHANGED <<vars, agents, stepCount, artifact, offline, board>>

\* runMatch up to the loop; match.started is emitted, phase.changed is not.
RunMatch ==
  /\ status = "preparing"
  /\ \/ agents # Players /\ Throw("missing agent")
     \/ /\ agents = Players
        /\ status' = "running"
        /\ StartFirstNight
        /\ UNCHANGED <<agents, stepCount, call, failure, artifact, offline, board>>

BugOneStepTooMany == stepCount <= MaxSteps
StepsLeft == stepCount < MaxSteps

AtLoopHead == status = "running" /\ call = NoCall /\ artifact = "none"

\* The head of the loop: the step limit, the next actor, the request.
Request ==
  /\ AtLoopHead
  /\ phase # "game-over"
  /\ \/ ~StepsLeft /\ Throw("too many steps")
     \/ StepsLeft /\ Actors = {} /\ Throw("deadlock")
     \/ /\ StepsLeft
        /\ \E actors \in {Actors} \ {{}} : \E p \in {NextActor(actors)} :
             call' = [player |-> p, menu |-> ValidActions(p)]
        /\ UNCHANGED <<vars, status, agents, stepCount, failure, artifact, offline, board>>

\* The rest of runOneAction for the action chosen.  A trace that cannot be
\* stored is logged and the match goes on.
Settle(a) ==
  \/ /\ Accepts(call.player, a)
     /\ Apply(call.player, a)
     /\ \/ PhaseChanges /\ OnPhaseChanged
        \/ ~PhaseChanges /\ UNCHANGED board
     /\ stepCount' = stepCount + 1
     /\ call' = NoCall
     /\ UNCHANGED <<status, agents, failure, artifact, offline>>
  \/ /\ ~Accepts(call.player, a)
     /\ Throw("engine threw")

AgentAnswers(a) ==
  /\ call # NoCall /\ ~offline
  /\ Settle(IF Validates(a, call.menu) THEN a ELSE Fallback(call.menu))

\* The timer of the TimeoutHandler fires, or requestDecision rejects.
BugNoTimer == FALSE
TimerArmed == call # NoCall
AgentTimesOut == TimerArmed /\ Settle(Fallback(call.menu))

AgentsGoOffline ==
  /\ ~offline /\ offline' = TRUE
  /\ status = "running"
  /\ UNCHANGED <<vars, status, agents, stepCount, call, failure, artifact, board>>

\* The loop has ended: the summary, the status, and the save that may fail.
BugSaveFailureFails == "failed"
StatusAfterFailedSave == "completed"

Complete ==
  /\ AtLoopHead /\ phase = "game-over"
  /\ \/ winner = "none" /\ Throw("no winner")
     \/ /\ winner # "none"
        /\ status' = "completed"
        /\ artifact' = "saving"
        /\ UNCHANGED <<vars, agents, stepCount, call, failure, offline, board>>

PersistArtifact ==
  /\ artifact = "saving"
  /\ \/ artifact' = "saved" /\ UNCHANGED status
     \/ artifact' = "lost" /\ status' = StatusAfterFailedSave
  /\ UNCHANGED <<vars, agents, stepCount, call, failure, offline, board>>

-----------------------------------------------------------------------------
MatchInit ==
  /\ Init
  /\ status = "preparing" /\ agents = {} /\ stepCount = 0 /\ call = NoCall
  /\ failure = "none" /\ artifact = "none" /\ offline = FALSE
  /\ board = [phase |-> "pre-match", day |-> 0, night |-> 0, dead |-> {}]

MatchNext ==
  \/ \E p \in Players : RegisterAgent(p)
  \/ RunMatch
  \/ Request
  \/ \E a \in Answers \cup {Malformed} : AgentAnswers(a)
  \/ AgentTimesOut
  \/ AgentsGoOffline
  \/ Complete
  \/ PersistArtifact

\* The runner is one asynchronous function: its own steps, the timer and the
\* storage call are carried out by the event loop.  Nothing is asked of agents.
Fairness == WF_allVars(Request \/ AgentTimesOut \/ Complete \/ PersistArtifact)

MatchSpec == MatchInit /\ [][MatchNext]_allVars /\ Fairness

-----------------------------------------------------------------------------
(* Properties.                                                              *)

\* The type of the orchestrator's entry, the runner's fields and the board.
MatchTypeOK ==
  /\ status \in {"preparing", "running", "completed", "failed"}
  /\ agents \subseteq Players
  /\ stepCount \in 0..MaxSteps
  /\ call.player \in Players \cup {None}
  /\ call.menu # {} => call.player # None
  /\ failure \in {"none", "missing agent", "too many steps", "deadlock",
                  "engine threw", "no winner"}
  /\ artifact \in {"none", "saving", "saved", "lost"}
  /\ offline \in BOOLEAN
  /\ board.phase \in Phases \cup {"pre-match"} /\ board.dead \subseteq Players

\* Why a match may fail.  run() has five ways to throw; whatever the agents
\* answer, only two of them can happen: a seat without an agent, and the step
\* limit (the other three are for engine errors the engine does not make).  And
\* a game that was decided is never reported as failed, be it that its last step
\* was also the last one allowed or that the artifact could not be saved.  The
\* fields keep their types on the way, and no match takes more than MaxSteps.
OnlyStepsRunOut ==
  /\ MatchTypeOK
  /\ failure \in {"none", "missing agent", "too many steps"}
  /\ status = "failed" => winner = "none"

\* The spectators' board, rebuilt from phase.changed events alone, shows the
\* game as it is: the dead, the phase and the counters, from the first change of
\* phase on.
BoardShowsGame ==
  /\ board.dead = Players \ alive
  /\ board.phase # "pre-match" =>
       board.phase = phase /\ board.night = nightNumber /\ board.day = dayNumber
  /\ board.phase = "pre-match" => phase \in {"setup", "night-werewolf-vote"}

\* A match that has started ends, completed or failed, and a completed one has
\* its artifact saved or given up.
MatchEnds ==
  status = "running" ~> status = "failed" \/ artifact \in {"saved", "lost"}

\* Abandoned by every agent, a match still plays to a verdict on fallback moves
\* alone: the wolves keep killing, the village abstains, and the witch cannot
\* save twice.  So the step limit need not be generous: SilentSteps suffice.
SilentMatchIsDecided ==
  (offline /\ stepCount + SilentSteps <= MaxSteps) ~> status = "completed"
=============================================================================
