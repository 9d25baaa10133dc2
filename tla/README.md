# Agent Werewolf Platform: TLA+ models and proofs

The repository is a platform on which programs ("agents") play games against
each other: nine-player werewolf, with matches that may be watched live, and
no-limit poker tables. This directory holds TLA+ models of the parts of it whose
correctness depends on order, interleaving and failure, the TLC configurations
that check them on small instances, and proofs, checked by TLAPS, of theorems
about them for every instance. Paths below are relative to the repository.

To check: `tlc -config X.cfg MC….tla` for a model (the table of runs names the
pairs), and `tlapm M.tla` for the proofs, M being one of `WerewolfProofs`,
`WerewolfLobbyProofs`, `RemoteProofs`, `AgentConnectionsProofs`, `SumTheorems`,
`PokerHandProofs`, `LiveTableProofs` and `StoresProofs`.

## 1. The system

### Components, their state, operations and what makes them correct

| component | state it keeps | operations | hard behaviour | correct when |
|---|---|---|---|---|
| **Rules engine** `packages/werewolf-engine` | the immutable game state: phase, counters, players, potions, pending night / speeches / ballot / hunter's shot, history, winner | `createGame`, `startFirstNight`, `applyAction` (nine kinds of action), `getValidActions`, `checkWinCondition` | long sequences of legal calls: ties and PK rounds, several deaths in a night, a hunter's shot before or after the win check, dead roles skipped | nobody is stuck, the menus and the reducer agree, deaths are final and recorded once, the verdict is right and comes at once |
| **State views** `public-state.ts`, `private-state.ts`, `realtime/werewolf-filter.ts` | none | what everybody, and what one player, is told | what a night decides leaks by what is left out or kept | nothing of a night shows before dawn, no role before the end |
| **Match runner** `werewolf-orchestrator/match-runner.ts`, `timeout-handler.ts`, `werewolf-fallback.ts`, `action-validator.ts` | current game state, step count, event sequence; one promise per decision | `run`: ask the next actor, wait, validate or fall back, apply, emit events, store a trace | an answer races a timer; answers are arbitrary; five ways to throw | every match ends; it fails only for want of agents or steps |
| **Orchestrator** `werewolf-orchestrator/orchestrator.ts` | per match: status, agents, emitter, buffered events, summary | `createMatch`, `registerAgent`, `subscribe`, `runMatch`, `deleteMatch` | the artifact save fails after the match succeeded | a decided match is not reported as failed |
| **Decision mailbox** `persistence/src/postgres/werewolf-decision-mailbox.ts`, its SQL migration, `mailbox-agent-adapter.ts` | tables of requests and of actions | insert, poll, cancel, mark, expire; claim, submit | three clocks, duplicate runners, late submissions, calls that fail before or after they took effect | a decision is what is stored, no row dangles, waiting ends |
| **Long-poll agents** `agent-runtime/werewolf-mailbox-runner.ts`, `api/routes/werewolf-mailbox.ts` | the claim being worked on | `/wait`, decide, `/action` | submission abandoned but still under way, restarts | at most a wasted decision |
| **Lobby registry** `apps/api/src/werewolf-lobby-registry.ts` | per game: seats, status, phase/deaths rebuilt from events | create, invite NPC or agent, fill, start, run | checks before an await repeated after it; start racing invitations | one occupant per seat, one start, the board shows the game |
| **Configs and invites** `routes/agent-invites.ts`, `me-agents.ts`, `me-werewolf-agents.ts` | rows of agents and of invitations | create, revoke, register, rotate, delete | two registrations of one invite, delete while seating | a live game's agents exist, an invitation has one fate |
| **Match service** `postgres-werewolf-orchestrator.ts`, its stores, the TTL cleaner | rows of matches, seats, replay events, traces, summaries | `startMatch`, live ingestion, back-fill, cleaning | a row before the match, events not awaited, a restart anywhere | what can be read of a match is complete |
| **Agent connections** `agent-connection-registry.ts`, `routes/agents-ws.ts` | connection per agent, pending calls, last pong | register, rpc, frames, tick, close | replacement while calls are pending, lost pongs, throwing sends | every call settles once; a stale close does not evict its successor |
| **Agent SDK** `werewolf-agent-sdk` | socket, back-off, aborted decisions | start, stop, reconnect, decide, cancel | reconnect loops, stop during a decision | it answers each call once and stops when told |
| **Agents in process and over HTTP** `agent-runtime` | a pending human request; none for the strategies | answer a menu; fetch with a timer | amounts at a menu's edge, a body that stalls | an answer fits its menu, a decision ends in time |
| **Poker engine and hand** `poker-engine`, `table-orchestrator/hand-runner.ts` | stacks, bets, board, pots, cards | blinds, deal, betting rounds, showdown, payout | short stacks, all-ins, side pots, end of a round, ties | chips are conserved, nobody wins more than he matched, the best hand wins |
| **Poker tables** `table-orchestrator/orchestrator.ts`, `ScheduledMatchRunner` | seats, hand in progress, button, spectators | seat, leave, remove, close, delete, start a hand, simulate | everything that may happen during a hand's awaits | one hand at a time, its players stay, stacks go back to their owners |
| **Artifact and trace stores** `persistence` | objects and an index, a trace file per match | save, list, delete, append | index read, changed, written back | no saved match is missing, no acknowledged trace is lost |
| **Realtime hub** `realtime`, `/ws`, the SSE route | subscriptions | publish, subscribe, filter | frames lost with a connection, snapshots older than frames | who is subscribed gets what is his, in order |
| **Web pages** `apps/web` | the reduced state of a room, a table, a replay, a form | reduce events, polls and answers | stale polls and answers, locks, effects that run between events | the page shows what is, or what it may not know |
| **Accounts** `auth` | users, sessions, counters per key | register, log in and out, slide, prune; limit | a logout between finding and touching a session, a window's edge | a session that ended stays ended, limits hold per window |

How they interact: the lobby registry creates a match in the orchestrator and
registers an adapter per seat (in-process NPC, HTTP, WebSocket, mailbox). `start`
subscribes the lobby to the match's events and calls `runMatch`; the runner
drives the engine and asks the adapters, one decision at a time, through a
`TimeoutHandler`. The mailbox adapter turns a decision into a database row that
an agent's long-polling process finds, answers, and the adapter polls back. Events
flow to the lobby, the hub, the replay store; the artifact is stored at the end.
A poker table runs its hands itself and asks its agents, humans among them, in
the same way; what it publishes goes through the hub to the table's page, which
also fetches snapshots and posts the user's actions.

`PROJECT.json` lists the components with their status, and under `hazards` what
is hard to test in this code, at its line, with the properties that look at it.

### How the modules compose

```
WerewolfRules  <-refines-  WerewolfEngine --+-- WerewolfMatch --- SpectatorTimeline
                                            +-- WerewolfNpc
AgentDirectory --- WerewolfLobby            PokerHand --- PokerNpc
PokerTable --- LiveTable                    PokerShowdown
DecisionMailbox, AgentConnections, HttpAgent, SpectatorRoom, ReplayPage,
MatchRecords, ObjectArchive, Accounts, SimulatedMatch: by themselves
Sums --- PokerHand, PokerTable, SimulatedMatch
```

A line is `EXTENDS`: the module on its right shares the state of the one on its left
and adds a component to it. The interfaces between the rest are narrow, and are
modelled from both sides: a match takes any answer or a time-out of an agent
(`WerewolfMatch`), and what an agent's transport does with a decision is
`DecisionMailbox`, `AgentConnections` or `HttpAgent`; a lobby's match ends decided
or throws, and how it gets there is `WerewolfMatch`; a table's hand divides its
players' chips in any way, and how is `PokerHand`; in `PokerHand` hands compare in
any way, and how is `PokerShowdown`.

Four MC modules (`MCMatchLive`, `MCLiveTable`, `MCServices`, `MCPages`) put parts that
share no state side by side in one run: a variable `focus`, chosen at the start,
says which of them moves, the others rest. Interleaving them would show nothing new, as
no action reads a variable of another part, and fairness is asked of the one that moves.

## 2. The modules

### `WerewolfEngine` (the reducer) and `WerewolfRules` (what it promises)

One variable per field of `WerewolfGameState`. `players` is split into the
constant `Role` and the variable `alive`; `pendingDayVote = null` is the empty
ballot of round 0, which no guard tells from it; `history` keeps only its death
entries, as the set of causes recorded for each player (`deaths`). One action per
kind of `WerewolfAction`: its guard (`Can…`) collects what the apply function
throws on, its body includes everything the call goes on to do, so that the last
wolf's vote may, in one step, pass over a dead witch and a dead seer and resolve
the night. `ResolveNight`, `AdvanceFromDayResolve`, `StartNextNight`, `GameOver`
are the functions of `phases.ts` and `apply-action.ts` of those names. The
phases `night-resolve`, `day-announce`, `day-resolve` are never those of a state
that `applyAction` returns, and do not occur. `ValidActions(p)` is
`getValidActions`, `Accepts(p, a)` says that `applyAction` does not throw. Like the
code, the reducer does not ask who performs a witch's, seer's or hunter's action.

`WerewolfRules` is the game as a spectator knows it, with `alive` and `winner`
only: players die, two at most at a time, for good; a verdict is the survivors',
is declared with a death or when a hunter declines his shot, and ends the game.
`ImplementsRules` says that the engine refines it (the mapping is the identity on
the two variables, `SideWinning <- WinnerOf`).

### `WerewolfNpc` (views and built-in werewolf players)

Extends the engine. `PublicState` and `PrivateState(p)` are `getPublicState` and
`getPrivateState`; `divined` is the seer's part of the history. What an NPC adds to the
action it drew (a speech that names somebody, the key of its intent, the observations
of its summary) is the set of its possible outcomes.

### `WerewolfMatch` (runner, orchestrator, the lobby's board)

Extends the engine; its state is the game plus the orchestrator's entry (`status`,
`agents`, `artifact`), the runner's fields (`stepCount`, the request in flight
`call`), and the lobby's `board`. `runOneAction` is cut where it awaits the agent:
`Request` (step limit, next actor, menu), then `AgentAnswers(a)`, for any `a` the
wire schema admits or a malformed one, or `AgentTimesOut` (the timer, or a
rejection); both end in `Settle`: validate or fall back, apply, emit, count. As
the promise of the `TimeoutHandler` settles once, a later answer is not a step.
`Position` orders a menu the way the array of `getValidActions` is ordered, since
the fallback is its first element. `failure` records which of its five `throw`s
ended `run`. `OnPhaseChanged` is the lobby's subscription. A match runs once
(`hasRun`, and the status check of `runMatch`), and matches share no state, so one
match is modelled.

### `SpectatorTimeline` (what a spectator reads of a match)

Extends the match with the events the runner emits at each of its steps, the public
filter, and three parts of the web room: `booth` (who is thinking, who speaks, the
speeches of the day), `told` (the timeline's lines, counted) and `sticky`
(`useStickyValue`). What one step of the runner emits the browser renders together.

### `SpectatorRoom` (a room between polls and events)

`game` is the match and the registry's entry of it, `stream` and `events` the event
stream with no backlog, `polls` the GETs with answers that may be old,
`room` the reducer's state. `missed`, kept for the property, is the set of deaths that
the page cannot know of.

### `WerewolfLobby` and `AgentDirectory` (lobbies, agents, invitations)

`AgentDirectory` has the tables `agents` and `agent_invites` and the routes that
read and write them, each database call a step; `calls` is what a handler remembers
between two of them. `WerewolfLobby` adds the registry: `lobby` is `entries`,
`adapters` the agents registered at the orchestrator. `InviteAgent`, `ResolveAgent`,
`SeatAgent` are one call of `inviteAgent`, cut at its await and its checks repeated;
`DeleteAgent` and `DeleteRow` are the check for use and the deletion. The steps of
`runWithPersistence` are those of `run`. `Restart` loses the lobbies and keeps the
rows. `late` marks a seat that was given after a deletion's check, for the property.

### `MatchRecords` (rows of a match)

`startMatch` with its three inserts, live `appendEvent`s that nobody awaits (`ingest`), the
back-fill and `saveMatchArtifact` (`save`), the cleaner. Each write fails, or
succeeds while its answer is lost; `Crash` is the process's end between any two.

### `DecisionMailbox` (tables, adapter, agent processes)

`queue` is the requests table in insertion order, `status` its column, `overdue`
the rows whose `expires_at` has passed, `action` the actions table with its primary
key. Per request, `adapter` is the program counter of `requestDecision` and
`decision` what the match runner's `TimeoutHandler` settled on; the match asks for
its decisions in turn, but an adapter whose timer went off works on alongside the
next one. Per runner, `holding` is its claim and `submitting` marks the POST it
waits for; `inflight` holds POSTs the server has yet to handle, also those whose
sender gave up. `DatabaseFails` lets each call of the adapter fail before or after
its statement took effect. `ClaimNextRequest` changes nothing in the tables, as in
the SQL (which sets only `fulfilled_at`, read by nobody).

### `HttpAgent` (an agent behind an endpoint)

One seat's decisions under the two clocks, the adapter's and the `TimeoutHandler`'s;
`fetches` is where each call is, `sockets` the calls whose connection is neither read to
its end nor given up. Time passes in ticks, and no tick passes a timer that is due.

### `AgentConnections` (the reverse WebSocket transport, both sides)

One agent, as the registry's entries for different agents share nothing, and
several processes that hold its token, which is how connections come to replace
each other. `conn`, `pending`, `age` (time since `lastPongAt`) and `timer` (of the
heartbeat interval) are an `AgentConnection`'s state per socket, `registered` the
registry's entry, `present` what its online and offline events last said, `call` the
promise of each `rpc`. On the agent's side `socket`, `inflight` and `mode` are
`WerewolfAgent`'s fields per process, `deciding` the user's handlers that still run,
also those aborted. `toAgent` and `toServer` are the frames under way, in order, with
the close event of the socket at the end.

An upgrade waits for the token's lookup (`"upgrading"`), so sockets may be registered
in another order than they were opened in. `Register` is the route's handler with
`register` and the eviction it causes; `HandleSocketClosed` is shared by every way in
which a connection closes (replacement, the peer's close, the heartbeat, shutdown)
and includes the close handler's `unregister`. `Request` is `rpc` with both outcomes
of `socket.send`: when it throws, the promise is rejected while the entry stays in
`pending` until the ceiling. A frame for a process that is gone is lost, and so is what
arrives for a connection that is closed, as nothing reads it. `Vanish` is the laptop
that goes to sleep: no close event, only the heartbeat finds out. Time passes in
steps of ten seconds, in which interval timers fire on time; how late a live peer's
pongs may be is the bound `MaxLag`. The ceiling, the user's handlers and the back-off
take any time. Hello and goodbye frames are left out, as the SDK only logs the ones
that occur.

### `PokerHand` (one hand of poker) and `PokerNpc` (who answers)

`HandRunner.run` with the functions of `poker-engine`. The players are the indices
of `gameState.players`; one function per field of `PlayerInHand`, the record `round`
for `BettingRoundState`, `stage` for where `run` is. `StartHand` posts the blinds and
deals (cards go to those the blinds left active: `holds`), `StartRound` is the
prologue of `runBettingRound`, `Decide` one pass of its loop, `NextStreet` the calls
between, `Showdown` the pots, their winners and the awards, `SaveSummary` the storage
calls. Between the request and the answer of an agent nothing touches the hand, so
`Decide` is one step, with any entry of the menu as its answer: what is not on the
menu, late or missing is replaced by check or fold, and one of the two is always on
it. `Menu`, `Costs`, `StatusAfter`, `Reopened` and `RoundAfter` are `computeLegalActions`
and the branches of `applyAction`, with the code's amounts as they are (a bet's amount
is a total for the round, its menu's bounds are not). A showdown compares the hands in
any way (`Ranks`). `Pots` keeps the pots that `computePots` filters for being empty, as
they pay nothing. `SumOf` (module `Sums`) adds up the values of a function, here and
wherever chips are counted. `dealer` is a player, and `SeatOf` maps it to the seat number that the
runner uses as an index after the flop. Blinds are even numbers, so that half of one
is a number of chips; an odd big blind, which the types do not exclude, would post
half a chip and is not modelled.

`PokerNpc` extends it with the strategies of the built-in players as sets of possible
answers to a menu, and with the panel through which a person answers. It adds no
step: that such answers fit every menu a hand reaches is an invariant of the hand.

### `PokerShowdown` (cards)

Deal, fold, board and showdown with real ranks and suits; `streamed`, `archived` and
`toldTo` are the cards that left the server. `evaluateHand` (`Categorize`, `EvaluateHand`) and
`compareHands` (`Beats`) are operators, the branches of the code an `IF` chain, since their
conditions overlap. The rules of the game are a second definition, which shares the counts of
ranks and the straight test with it but neither lists nor tiebreakers: a hand's `Class`, and the
`Worth` of each rank it has, what there is most of first; `Outranks` says that of two hands of one
class that one wins which has the highest worth that only one of them has.

### `PokerTable` and `LiveTable` (a table and a page that watches it)

`PokerTable` is the table's entry in the orchestrator's map: seats, spectators, the hands
(`hands`: stage, players' chips, dealer, one record per hand, as `startHand` and `HandRunner` keep
them in their own variables), with the requests that `TimeoutHandler` (`turns`) and `HumanAgent`
(`pending`) have not settled. A hand runs across many awaits, and every operation of the table is
a step that may come between: `LeaveSeat` marks a seat during a hand and empties it otherwise,
`RemoveAgent`, `CloseTable` and `Sit` are refused, `DeleteTable` asks nothing. `HandSettled` is
`startHand` from the end of `run` to its last await: requests are cancelled, stacks written back,
the busted and the leaving go, the flags are reset. From there on the next hand may start, while
the save of this one is awaited (`"storing"`): it returns (`HandStored`) or is refused
(`HandSaveFails`), and then the `catch` branch (`Catch`), which is `HandFails` for a hand that
breaks off, cancels the requests and resets the flags of whichever hand is under way. The table's
own store is written after every operation and read by none, so its failures change
nothing here but in `startHand`. No store of the repository refuses that save later than
synchronously with a next hand under way (the in-memory store never does); the interface allows
it, and the model has it. `bank`, for the property, counts the chips bought; `overrun`, for the
property, that a refused save met a hand under way.

`LiveTable` extends it with the way to one user's page: the hub's frames in order
(`wire`) while the socket is up, lost otherwise; snapshots (`gets`) and answers to
POSTs (`posts`) that may be old; the reducer's `view` and the page's lock (`page`).
`whole`, for the property, says that no frame was lost since the last hand began.

### `SimulatedMatch`, `ReplayPage`, `ObjectArchive`, `Accounts`

`SimulatedMatch` goes from the form (`UpdateField`, `AddAgent`, …) over `POST /simulate` or
the scheduler to the hands (`DealHand`, `EndHand`, `HandsPlayed`) and the artifact (`SaveMatch`).
The table of `POST /simulate` is one of the lobby's, and between any two awaits of the simulation
a guest may sit down and leave again, at once or after the hand (`GuestSits`, `GuestLeaves`), and
the owner may deal a hand of his own (`OwnerDeals`, which ends, breaks off, or fails in its last save
under the simulation's next hand) or delete the table (`TableDeleted`: the loop breaks, and the table
is not found afterwards). `StorageFails` is the exception of any of its awaits, the save of the
artifact included. `simTable` is the table's entry, `simHand` and `ownHand` the hands under way.
The scheduled match has an orchestrator that no route knows, so nobody else is at its table. `ReplayPage` has the three requests of a page outlive the match
they were made for, and its effects, which run to their end after every change, as a part
of every action. `ObjectArchive` cuts saves and deletes at every get and put, with the
index as one object; appends to a trace file run in a chain. `Accounts` is one browser
with several requests open, each await of a handler a step, and the rate limiter.

In every module an operator named `Bug…` stands before the definition it is a
mutation of, as a plausible slip would have written it. No formula uses it;
`PROJECT.json` lists which property fails when it replaces that definition.

## 3. What is checked

| run | instance and bounds | shows |
|---|---|---|
| `engine` (`MCWerewolfEngine`) | 5 players, one of each role; 2 PK rounds; wolves vote in nights 1 and 2; 187,322 states | `TypeOK`; `GameOverWhenDecided`: over exactly when won, by the right side, at once unless a hunter shoots; `VotesSound`: ballots name the living, never one alone, banish by plurality, and only narrow; `PotionsSound`: a saved night is bloodless, everybody dies of what can kill his role; `DeathLedger`; `MenusAccepted`: what is offered is accepted; `ImplementsRules` |
| `match_live` (`MCMatchLive`) | two wolves, no seer, no PK round, 38 steps; two decisions asked of an endpoint, timeouts of 1 to 3 ticks; a table of two seats, 2 agents, 2 hands, 3 requests; 159,910 states | `MatchEnds`; `SilentMatchIsDecided`: 32 steps of fallbacks decide any match of that size; `HttpSound`: a decision ends once and in time, no connection of a werewolf adapter stays behind; `HandsEnd`: a poker hand ends whoever falls silent and whichever save fails, under the catch branch of the hand before it too |
| `mailbox` (`MCDecisionMailbox`) | 2 requests, 2 runners of one agent; 1,150,466 states | `MailboxSound`: one row per request, the answer acted on is the one stored, and without failing calls a row is open only while awaited; `RequestsEnd` |
| `poker_hand` (`MCPokerHand`) | 3 players on seats 0, 1 and 3, each with 1, 3 or 7 chips, big blind 2; 217,761 states | `ChipsConserved`; `PotsPaidOut`: pots hold the bets and pay out every chip, an all-in player wins no more than he may; `AskedPlayerCanPay`; `BettingSound`: without an all-in bets only grow and are equal at the end of a round below ten big blinds; `AnswersFitTheHand`; `HandEnds`; `TypeOK` |
| `live_table` (`MCLiveTable`) | a table of two seats, the page's user and a bot; 2 hands, 3 requests, one lost socket, one late snapshot, one POST; the third request not while a hand is being stored; two decks of 9 and 8 cards, two players; 2,143,752 states | `PageInStep`: the page shows its own hand's cards, buttons for what is awaited, and locks none of them, but for tables that `TableSound` excepts; `ShowdownSound`: the best hand wins, cards stay private |
| `connections` (`MCAgentConnections`) | 2 processes, symmetric, 3 sockets, 1 call; interval 30 s, time-out 40 s; 1,234,071 states | `RegistrySound`: one open connection at most, the registered one, and what waits will be settled; `NobodyWorksInVain`: a computation nobody waits for is being cancelled; `HeartbeatSound`: the heartbeat drops who is silent, within 70 s, and nobody who answers; `TypeOK` |
| `lobby` (`MCWerewolfLobby`) | 2 users, 2 agents, 1 invitation, 2 requests under way, a game of two seats, symmetric; 1,694,663 states | `LobbySound`: entry, seats and adapters agree, nobody sits twice; `DirectorySound`: a live game's agents have their rows, an invitation one fate; `SettledStays`: a game only moves forward |
| `services` (`MCServices`) | a werewolf game of 5 built-in players asked in the order of their seats, two wolves, no hunter, no PK round, 2 nights, two personalities; a table of 2 seats, 3 agents, 2 hands, 2 requests; a simulation of up to 3 seats and 2 hands (3 bots play one), with a guest or a hand of the owner; a match of 3 events and 3 traces, 2 failures; 2 artifacts, 2 appends; one e-mail address, 2 requests, 2 ticks; 691,041 states | `SomeoneCanAct`: the runner's "deadlock" cannot happen; `NpcsInCharacter`: what an NPC says is what he may do, knows and still has; `NightStaysHidden`; `TableSound`: a hand keeps its players and its chips; `SimulationSound`: the artifact tells the match as it was played, or one of the named causes kept it away; `StoresSound`: a completed match can be read in full, the index lists what is there, a session that ended stays so |
| `pages` (`MCPages`) | a room of 2 players and 2 phases, one dropped stream, 2 open polls; a match of five roles, 1 PK round, 18 steps; 2 saved matches, 3 visits; either side may win in the room; 341,900 states | `OnlyStepsRunOut`: of the five throws only two happen, whatever the agents answer; `BoardShowsGame`: the board rebuilt from `phase.changed` is the game; `RoomSound`, `TimelineSound`, `ReplaySound` |
| `mailbox_claims` (`MCDecisionMailboxDoc.cfg`) | 1 request, 2 runners | **violated**: "one gets the row, the other gets null" |
| `hunter_shot` (`MCWerewolfEngineDoc.cfg`) | 5 players, one of each role | **violated**: the hunter's phase follows his death by "banishment, poison, or wolf-kill" |
| `poker_side_pots` (`MCPokerHandSpec.cfg`) | 3 players with 3, 5 or 7 chips, big blind 2 | **violated**: the layer that one player alone reached goes back to him |

Why these bounds are enough for the cases at stake. Five players with every role
give every phase, every combination of two deaths in a night, a hunter killed in
either way, and games that last into the second night, in which roles have died
and potions are spent; with two wolves there are split votes and nights without a
seer. Two PK rounds give a tie after a tie and a round of abstentions between
ties. `MaxNights` only stops the wolves from voting in a later night. In a match
the step limit takes its place (`MaxNights >= MaxSteps`, so it never binds):
18 steps are enough for a game of five to be decided and for one to run out
of steps, and 38 for one that falls silent after six to be decided on fallbacks.
Two requests and two runners are the least with which a stale request
competes with a current one and an answer with a duplicate. For a
hand of poker, one chip is less than a blind and odd, three chips are less than a raise,
seven let a round be raised twice; three players make two side pots, and
the empty seat makes the seat numbers differ from the indices. Three sockets
let a connection be replaced while its predecessor's close is still under way and
a third is upgrading; a call is settled on one connection, and entries of a map
do not touch each other, so one call meets every event of its connection.
Interval and time-out are the code's own, in tens of seconds, and
`MaxLag = 1` lets a live peer be a ping behind at every instant, two at a tick. Two
requests under way are what the lobby's checks before and after an await are for; an
agent's deletion, its invitation and the registration that made it are three, of
which two overlap at a time. Two hands of a table, a snapshot, a lost socket and a POST
let each of the three be of the hand before; of two hands one may be under way while the other is
being stored, and the store refuse it then. In a simulation the guest and the owner's hand do not
come together, and of what another client posts only what the form does not let through is
played on, as the rest is what the page asks for. Symmetry is used only between
processes, users, calls and seats that are alike, in runs without liveness.

Deadlock is not checked because each system really stops: a game that is over (or
has reached `MaxNights`), a match or a hand that ended, a mailbox without requests,
processes that stopped, sockets, requests and visits used up. `SomeoneCanAct` says
what absence of deadlock means for the engine.

### Fairness

`WerewolfMatch`: weak fairness of the runner's own steps, of the timer and of the
storage call. The runner is an async function whose continuations Node's event
loop runs; `TimeoutHandler` always arms its timer, so `AgentTimesOut` happens
unless the agent answers first. Nothing is assumed of agents. `HttpAgent`: weak fairness
of time and of the two timers, nothing of the endpoint. `DecisionMailbox`:
weak fairness of each adapter's continuation; a database call that neither
returns nor fails would violate it, and is left to the client library's own
time-out. Nothing is assumed of agents, of the sweep (which no code in the
repository calls) or of the match runner's timer. `PokerHand`:
weak fairness of `Next`, as `run` is one async function, its agents answer or are timed
out, and its storage calls return or fail. `PokerTable`: the timer of a request, and the
end of a hand whose requests are settled; nobody need answer, leave or sit. `SpectatorRoom`:
the polls of an open page are sent, answered and received, and the match's entry
settles; the stream owes nothing. `ReplayPage`: the playback's interval fires. The
properties of the other modules are safety properties and need no fairness.

### Where the code and its documents differ

* `werewolf-decision-mailbox.ts:203`, the SQL migration (lines 125–127) and the
  comment in the `/wait` route promise that duplicated runners do not both get
  a row. The claim leaves `status = 'pending'` and selects on nothing else, so the
  next call gets the same row again, until the orchestrator saw an answer (run
  `mailbox_claims`). The damage is bounded by `MailboxSound`: the first stored answer
  counts.
* `docs/werewolf-http-agent-guide.md:323` tells agent authors that the hunter's phase fires "when
  the hunter has just died (banishment, poison, or wolf-kill)". `phases.ts:83` opens it for a
  wolf-kill only, the ballot for banishment: "v1 house rule: witch-poisoned hunter loses the
  shot" (run `hunter_shot`). The house rule is what `PotionsSound` and its proof state.
* `docs/agent-poker-platform-greenfield-spec.md:466` returns the layer of a bet that
  one player alone reached. `pot-calculator.ts:47` makes everybody who has not folded
  eligible for what lies above the highest all-in, and a short all-in may win it
  (run `poker_side_pots`). `PotsPaidOut` has what does hold: when nothing lies above
  the highest all-in, everybody wins at most what he matched.

### Other observations

Made while modelling; no run refutes a statement of the repository with them.

Werewolf:

* A seer NPC may accuse a player he knows to be good, when he found no wolf.
* There is no `phase.changed` for the first night, so a board is at `pre-match` until
  the first change, and a spectator who joins late finds the phase in the first entry
  only. A page at rest whose stream missed the last deaths may show a dead player alive
  until it is loaded again.
* The night's banner is repeated for each of the night's phases.

Mailbox, lobby and stores:

* `werewolf-lobby-registry.ts:604` says that an agent's use in other games is checked one
  layer up; `AgentConfigUsageService` is consulted by `DELETE /me/agents` only, and one
  agent may sit in several lobbies. `DELETE /me/werewolf-agents` asks no such question,
  which is the exception in `DirectorySound`.
* Two registrations of one invitation under way at a time create two agents if their
  names differ; the invitation is marked once.
* A start that fails half way leaves its row at `running`. `saveMatchArtifact`'s back-fill
  refuses when the match has reached `maxTracesPerMatch`, so that a match with just that
  many traces gets no summary row. `deleteMatchArtifact` and the cleaner are wired into
  no application.
* The index of the archive is read, changed and written without a lock, the trace store
  appends in a chain: `overtaken` is the exception in `ArchiveSound` that this costs.
* When a session slides, the cookie's `maxAge` is not renewed; an answer that clears the
  cookie may arrive after a newer login's; two logins under way leave a session nobody
  holds; the second of two first bearer requests of an account fails at its insert.

Connections:

* `agent-connection-registry.ts:38` sets the time-out "so a single ping cycle can be
  missed without false-positive drops". `tick` looks at it every 30 s only: one ping
  unanswered makes the last pong 60 s old at the next tick, and the connection is
  dropped. The header (line 19) and `docs/agent-ws-transport-design.md:162` say "10 s";
  a silent peer is noticed up to 70 s after its last pong. `HeartbeatSound` is what does hold.
* `stop()` clears the SDK's socket before the aborted handlers end, so the
  `decide.error{cancelled}` that its comment promises "on best-effort basis"
  (`werewolf-agent-sdk/src/index.ts:270`) is never sent; the close settles the calls.
* The SDK does not notice a server that went away without a close: only the server
  has a heartbeat.
* Two running processes with one token replace each other for ever, since `replaced`
  is followed by a reconnection; and of two upgrades the one whose lookup ended last
  wins, not the one that was started last.
* The HTTP adapters' own timer is cleared when the headers are there: a body that stalls
  is bounded by the `TimeoutHandler` only. The poker adapter does not cancel the body of
  a response that is not 2xx.

Poker:

* A round is over when one active player is left (`betting-round.ts:129`), also when
  that player owes a call: against an all-in the last active player is neither asked
  to call nor to fold, and goes to the showdown with what he has bet.
* `BettingSound` holds only while nobody is all-in, and of a round whose greatest bet is
  below ten big blinds. A round whose
  aggressor is all-in never comes back to him (`betting-round.ts:149`), so two other
  active players are asked over and over until that limit; among those decisions a
  `bet` for less than the player's own bet of the round takes the difference out of the
  pot (`betting-round.ts:49`). Chips are conserved all the same. With deeper stacks,
  raises of one big blind each can go on until the limit ends the round with unequal
  bets: `LimitInv` has at least one raise for every lap, so that ten big blinds are needed.
* A player whose blind took his last chip gets no cards (`hand-runner.ts:183`); a pot
  that only such players may win is skipped (`showdown.ts:24`, "shouldn't happen") and
  its chips are lost, hence the condition in `PotsPaidOut`.
* The odd chip of a split goes to the first winner from the button on, the button
  included, while section 8.1 of the specification says left of the button; with
  two players the button posts the big blind, which section 8.1 has the small one.
* The always-calling and the loose-passive strategy fold to any bet of at least their
  stack, as `call` is not on such a menu.
* `filter.ts` says that cards are shown by `showdown.result`, but its scrub strips every
  `holeCards`; what spectators see of a showdown is `bestCards`.

Tables and pages:

* The button never moves: `orchestrator.ts:420` computes each hand's from
  `tableState.button`, which nothing writes
  (`docs/agent-poker-platform-greenfield-spec.md:824` advances it each hand).
* `docs/phase-2-web-platform-api.md:376` has the user echo the `requestId` in his POST; the
  body (line 187) and `submitHumanAction` know the hand only, so that a late POST may answer
  the next request of the same hand. What holds is in `PageInStep` and its proof: once a POST is
  accepted, the request it was meant for is settled, and no other is locked by it.
  `submitHumanAction` looks at the user's first seat only (`:356`).
* The answer of an older POST may overwrite `submittedRequestId` of a newer one; no
  request that is awaited is locked by it.
* Decision traces accumulate under the table's id with the store's default limits, and
  `appendDecisionTrace` is awaited without a catch (`hand-runner.ts:503`): a table at the
  limit finishes no further hand.
* `startHand` resets its flags before the save it awaits last, within the `try`
  (`orchestrator.ts:579-590`). If that save is refused while the next hand is under way, the `catch`
  branch cancels its requests and resets its flags: its players may leave from there on, and a third
  hand may start beside it. This is the exception `overrun` in `TableSound` and `PageInStep`. The same branch sets the
  status of a table that was closed during the save back to `paused` or `preparing`, so that it is
  open again.
* `DELETE /tables/:id` asks nobody: a table deleted during its simulation breaks the loop
  (`orchestrator.ts:603`), and `getTable` (`simulate.ts:79`) throws away the hands played. A hand that
  the owner deals on it meanwhile makes the simulation fail with `HandInProgressError`, or is in the
  artifact's traces and not in its hands, whose stacks it changed: hence the condition of `StacksTold`.
* A failed simulation leaves its table. The schema of `POST /simulate` accepts more agents
  than seats, the form does not. `finalStacks` holds the players of the last hand only.

## 4. What is proved

Every theorem is of a specification as it stands, for every value of its constants
under the assumptions its module names (`…Assumption`), which say what the code's
types and configuration say: finite sets of players, numbers for bounds, `None` no
member of the sets it is used beside. The bounds that only limit the model (requests,
hands, posts) are arbitrary numbers in the theorems. TLC has checked each of the
inductive invariants on an instance before it was proved.

### The werewolf engine (`WerewolfProofs`)

Assumptions: the players are finitely many, the roles are roles, `None` and `NotVoted`
are not players (`RolesAssumption`), the bounds are numbers (`BoundsAssumption`), and
the position at the start is undecided with at most one witch, seer and hunter
(`DistributionAssumption`, true of `WEREWOLF_ROLE_DISTRIBUTION`). For the page's timeline `None`
is no speech either (`WatchAssumption`).

| theorem | says |
|---|---|
| `EngineInvariant` | `Spec => []IInv` |
| `EngineTypeOK`, `EngineDeathLedger`, `EngineGameOverWhenDecided` | the three invariants that are conjuncts of `IInv` |
| `EngineSomeoneCanAct` | the runner's deadlock branch is dead code |
| `EngineMenusAccepted` | the reducer never throws on an action it offered |
| `EngineVotesSound` | ballots name the living and are never of one, banish by plurality, only narrow |
| `EnginePotionsSound` | a saved night is bloodless, everybody dies of what can kill his role, and a shot needs a hunter whom wolves or village killed |
| `EngineImplementsRules` | every step is a step of `WerewolfRules` or leaves `alive` and `winner` alone |

None of these is inductive by itself. `DeathLedger` fails in a night that buries
a dead man, so `NightOK` says that the wolves' targets and the poisoned player live;
that needs `NightInv`, because those decisions are taken in one phase and
executed in another, with no death in between. `GameOverWhenDecided`
needs that there is something to decide after each burial and hence the lemma
that the win check is a function of the living. `SomeoneCanAct` needs that each
phase was entered with work left: a wolf who has not voted, a living witch or
seer, somebody who has not spoken or voted (`DayInv`: the voters are among the
living and are not all of them, which is where the counts of speeches and
ballots, cardinalities in the code, become sets), a hunter among the dead
(`HunterInv`). `IInv` is the conjunction.

`VotesSound` adds `VotesInv`: the ballot of a banished player is looked at again only
when the game is over or his shot is awaited, and before the first PK round nobody is a
candidate, so that the ballot that follows narrows. `PotionsSound` adds `PotionsInv`, which
ties the potions left to the death entries and the pending night: while there is poison
nobody has died of it, a save and a poison of one night exclude each other, and whoever
is to shoot died of wolves or of the ballot.

The proof has one lemma per action,
each under it one step per conjunct that the action disturbs; the phase changes
(`ResolveNight`, `AdvanceToNight…`, `NextNightOrOver`) have lemmas of their own
that several actions cite.

### The match (`WerewolfProofs`)

| theorem | says |
|---|---|
| `MatchInvariant` | `MatchSpec => []MatchInv` |
| `MatchOnlyStepsRunOut` | a match fails for a missing agent or its step limit only, whatever the agents answer; no decided game is reported as failed |
| `MatchBoardShowsGame` | the lobby's board is the game |
| `NpcInvariant` | `NpcSpec => Spec /\ []NpcInv`: a match among built-in players is a game of the engine |
| `NpcStaysInCharacter` | what an NPC does is accepted, and what he says is what he may do, knows and still has |
| `NpcNightStaysHidden` | a night changes no public view but for its phase, and no private view but the witch's |

Every step of a match is a step of the engine or leaves the game alone, so that `IInv`
carries over and with it the engine's theorems. The three throws that do not happen are
excluded by them: there is somebody to ask (`EngineSomeoneCanAct`), the fallback is a
member of his menu (the first of a finite, non-empty set by `Position`), and what is
applied was validated against the same menu or is the fallback, which the reducer
accepts (`EngineMenusAccepted`). That needs `CallOK`: while a request is awaited the menu
that it was sent with is still the menu. The board is updated by
`phase.changed` alone, so that a step that changes a counter or the dead
under the same phase would leave it behind; the proof goes through the engine's actions to
show that there is none.

The built-in players draw their moves from the engine's menus, so that `NpcSpec` inherits
`IInv` and `PotionsInv`. `NpcInv` adds to them that nobody is saved while the save potion is
there, so that a witch whose summary says "save ready" has saved nobody tonight. That somebody
is left to accuse, of the right side, rests on `GameOverWhenDecided`: while a game is on there
is a living wolf and a living villager. What hides a night is that the views are functions of few
fields: the theorem goes through the engine's actions and shows that a step within a night
touches none of those but the phase.

### A spectator's page (`WerewolfProofs`)

| theorem | says |
|---|---|
| `RoomShowsTheGame` | `RoomSpec => RoomIsTrue`: nobody is shown dead who lives, a death not shown is under way or was missed, no entry takes the page back |
| `TimelineIsSound` | `WatchSpec => TimelineSound`: whom the page shows at work, the lines it tells and the speech it keeps are those of the game |

`RoomIsTrue` is the part of `RoomSound` that is not liveness, here for any players, phases, polls
under way and broken streams. Its invariant `RoomInv` says that whatever is under way, an event or
an old entry, is true of the game now (`EventTrue`, `EntryTrue`), since the dead stay dead
and a verdict stays (`ServerKeeps`); the page is then made of truths. Which deaths it lacks is
counted by `DeathsKnown`: a step that takes an event off the stream or closes it moves the event's
deaths to the board or to `missed` (`DeathsOfMore`, `DeathsOfFirst`).

`TimelineIsSound` is the whole of `TimelineSound`, its action property too. A step of the match
is followed by up to four events, which the page takes one after another (`EventByEvent`), and the
proof says of each what it changes (`OneLineTold`, `ChangeTold`, `QuietEvent`). `GameGoesOn` is
what a step of the engine can be for a spectator: deaths are added and keep their causes, a night
begins only with the wolves' vote, a hunter's shot only after a death. `WatchInv` is `MatchInv` with
`PageInv`: `LightsInv` (who is shown thinking or speaking, and that the page's counters are the
game's), `StoryInv` (deaths and causes told so far, no line names a player at night, the number of the
last heading), `CountInv` and `SpeechInv`. `CountInv` is the ledger behind the votes without a
result: the page is told of none, it infers one from a vote that ends without a death, and each
vote held so far left either a player voted out or such a line. `SpeechInv` is needed for the last speech of a day, which the change of phase
takes down in the same rendering: the speech the page remembers is today's only if its speaker has
spoken today, so that one of an earlier day with the same speaker is not taken for it.

### The lobby and its agents (`WerewolfLobbyProofs`)

| theorem | says |
|---|---|
| `LobbyInvariant` | `Spec => []LobbyInv` |
| `LobbyIsSound` | entries, seats and adapters agree, no agent sits twice or for somebody who does not own it |
| `LobbyDirectoryIsSound` | a live game's agents have their rows but for two named ways to lose them; an invitation has one fate |
| `LobbySettledStays` | seats, statuses, verdicts and used or revoked invitations stay |

What a handler read before its await may be stale when it goes on. `CallsInv` says what of
it is still true: an id was given out, and an agent that still exists belongs to whom it
belonged to (`IdOf`), since ids are not used again and owners do not change. Everything else
has to be found in the checks that `SeatAgent` repeats. `RunInv` ties status, `run` and `decided`; `AskedMeetsLate`
says that a deletion under way that passed its check either finds no seat with its agent or
finds one marked `late`, and `SeatsIssued` that no seat names an agent never issued.

### Agents far away (`RemoteProofs`)

| theorem | says |
|---|---|
| `MailboxInvariant` | `Spec => []MailboxInv` |
| `MailboxIsSound` | one row a request, the answer acted on is the stored one for good, rows open only while awaited |
| `HttpIsInTime` | `HttpSpec => HttpInTime`: no fetch outlives the adapter's timer, no awaited decision the handler's; a decision is taken once, as an answer just when one arrived |

The mailbox, for any number of requests and runners, failing calls included. `Rows` says that
the queue has a row of exactly the requests whose status is not `absent`, and none of a request
whose adapter has yet to insert it, which is what keeps an insert from making a second one; `Found` that
an adapter that found an answer found the one in the table. No later submission replaces it, as
the actions table's key admits one, and so the answer acted on stays the stored one.

The HTTP adapters, for any number of calls and any timeouts, the handler's shorter than the
adapter's or longer. `HttpInTime` is the part of `HttpSound` that is not liveness. Its invariant
`HttpInv` adds where a call starts from (age nought, no verdict, no socket) and that one
that has come to its end has its verdict: a second settling of the same promise then finds it
taken, whichever timer or answer comes late.

### The connections (`AgentConnectionsProofs`)

For every number of processes, sockets and calls (`ConnectionsAssumption`; the interval is at
most the time-out).

| theorem | says |
|---|---|
| `ConnectionsInvariant`, `ConnectionsSound` | at most one connection is open, it is the registered one, and an unsettled call is in the map of an open connection |
| `ConnectionsWorkInvariant` | `Spec => []WorkInv` |
| `ConnectionsTypeOK`, `ConnectionsNobodyWorksInVain` | types of both sides; who works on a call is awaited, or the news that he is not is under way |
| `ConnectionsHeartbeat` | who is silent is dropped within interval and time-out, who works is not dropped without an unanswered ping |

`RegistryInv` concerns the server alone: that a replaced connection takes every waiting call
with it (`RegisterPreserves`) needs that there is no other open connection they could be
on, and that its close handler unregisters nobody needs that the entry is already the
successor's. `NobodyWorksInVain` relates the two ends of a wire, and needs what is under way
between them: `WorkInv` says that a call's frame is sent once (`Once`), on the
connection that has it pending (`SameConnection`), that a close is the last frame of its
connection (`Delivery`), and that of a settled call which an agent works on, or will, its
cancel or the close is under way behind the call's frame (`NewsFollows`). The heartbeat needs
that a process has one socket (`OneSocket`) and that `age` and `timer` of a connection add up to
at most interval and time-out, or the interval alone while every ping is answered (`Clocks`).

### Sums (`SumTheorems`)

| theorem | says |
|---|---|
| `SumRemove`, `SumSplit` | a sum is one value and the rest, or the sums over a part and the rest |
| `SumSwap` | a table adds up to the same by rows and by columns |

`SumOf` is a fold of the library, which chooses the order of its elements. The proof that the
order does not matter (`SumOfAdds`, `AddsAny`) is an induction over the subsets of a finite set,
whose predicate is given as the set of the subsets it holds of (`SubsetInduction`), so that no
theorem with an operator for a parameter is cited. From there on every lemma
(`SumPlus`, `SumMonotone`, `SumChange`, `SumReindex`, `SumConstant`, …) takes an element
out at a time. The module also has what the proofs of several components need of numbers: a set of
naturals has a least element, a finite one a greatest, and `1..n` has `n` elements.

### A hand of poker and its replay (`PokerHandProofs`)

For every number of players from two on, all seats in ascending order, all positive stacks
and every even big blind (`PokerAssumption`). For the replay page, of all saved matches in which hands,
events and actions have ids of their own and no action is applied twice (`ReplayAssumption`).

| theorem | says |
|---|---|
| `HandInvariant` | `Spec => []HandInv` |
| `HandChipsConserved` | a player's stack is always his start, less his bets, plus his winnings |
| `HandAskedPlayerCanPay` | the loop asks only active players with chips, for amounts they have |
| `HandPaysInvariant` | `Spec => []PayInv` |
| `HandTypeOK` | types, stacks after the awards included |
| `HandPotsPaidOut` | the pots hold what was bet and pay it out, to those who stayed in, to nobody more than he matched |
| `HandTurnInvariant` | `Spec => []TurnInv` |
| `HandBettingSound` | while nobody is all-in chips in the pot stay there, and a round below ten big blinds leaves equal bets |
| `HandAnswersFit` | the panel offers what the menu has; every strategy's answer is taken as it is meant, and in character |
| `ReplayShowsTheMatch` | `ReplaySpec => ReplayShows`, the safety part of `ReplaySound`, its action property too |

`ChipsConserved` is preserved by each step, but says nothing of a stack's sign, and
`AskedPlayerCanPay` needs to know where the turn is. `LedgerInv` adds that a player's
bet of the round is at most his total, and that at most his start (`CostOfChoice`: a
choice costs at most the stack, and takes back at most the round's bet);
`StageInv` that before the awards nobody has won, so that they are added once,
and that an active player has chips left; `RoundInv` that the turn is an active
player's as long as there is one. That rests on `NextActiveIsActive`: going
round the table by remainders comes past every player (`RoundTheTable`), whose
least distance exists (`MinOfNaturals`, from well-foundedness).

`PotsPaidOut` is about sums of sums. The side pots up to a level hold what everybody bet up to
it (`SidePotsHold`, by induction over the levels from below), and with the rest pot they hold all the
bets (`PotsHoldBets`). A pot is shared to the last chip: everybody's share is the whole part, and
the remainder goes to the first winner after the button, of whom there is one (`FirstIsOne`,
`SharesOfPot`); `AwardsAddUp` then counts the shares by pots instead of by players (`SumSwap`). That a
pot has a winner needs that somebody who can win it has cards (`PotsAreWon`), and hence `PlayInv`:
an active player is left while anybody has cards, and with stacks above the big blind everybody was
dealt in. Nobody wins more than he matched, since of a side pot he gets at most the pot, and those he
is eligible for reach no higher than his bet (`AwardsAreFair`). `AwardInv` says that what was
won is what `Award` gives for some ranking, so that all this holds of the stacks.

`BettingSound` is about the whole of a round, of which no state knows more than the greatest bet,
who made it and whose turn it is. `TurnInv` says of these, while nobody is all-in, who is still to
be asked (`ToAct`: the players from the actor up to the last aggressor, or whoever has not acted
when nobody has bet). `CallInv`: everybody else who is active has matched the greatest bet, and whoever
is to be asked has less in; hence his bet of the round never exceeds what a menu
offers, and nothing is taken out of the pot. `OrderInv`: going round from the actor, those to be
asked come before the others, which makes the turn come to all of them before the round is over; the
step that folds the last aggressor, or that raises, changes who they are
(`StepsAround`, `Ahead`: distances going round). `BlindsInv` starts it before the flop, where only the
big blind has bet as much as there is to call. `LimitInv` counts: the loop has made at most one
lap more than there were raises, each of a big blind at least, so that below ten big blinds the limit of
ten laps has not been reached. The condition on the greatest bet was found by the proof: an earlier
form had none, which was true of the stacks of the run only.

`AnswersFitTheHand` is about who answers: the browser's betting panel, the built-in players and the
scripted strategies of a simulation. They see a menu and nothing else of the hand, so that the proof goes by way
of what every menu has in common, `MenuShape`: of each kind the amounts from a least to a
greatest one, of which there is one but for a bet or a raise, always an all-in, and either a
check and perhaps a bet, or a fold and perhaps a call and a raise. `MenusHaveShape` derives that
from `HandInv`, for any stack against any bet; there is one lemma for each way to choose
(`LimitsOnMenu`, `PlainIsTaken`, `SizedOnMenu`, `FirstLegalIsOffered`), and with `CostOfChoice` a call costs
at most what is to be called.

The replay page: `LoadingInv` says that the requests of the visit in the URL are those whose
parts are still awaited, so that no answer comes for a part that is shown, and one of another
visit changes nothing. What the effects leave is in order whatever they start from (`SettledWell`), and the list
is always the one of the selected hand and the loaded events; an answer that comes during playback
is not the record's, so the hand stays. `EventsOnce` is about `matchAppliedEvents` for every hand
and all its events: an action that an event names has reserved it, and the others take events by
their rank, of which no two have the same (`PlaceAlone`).

### A table and its page, and the cards (`LiveTableProofs`)

| theorem | says |
|---|---|
| `TableKeepsItsPlayers` | `TableSpec => [](overrun \/ HandKeepsItsPlayers)`, the part of `TableSound` about control |
| `TableIsSound` | `TableSpec => []TableSound`: also, every chip bought is in a stack until its owner leaves with it or busts |
| `LiveInvariant` | `Spec => [](overrun \/ LiveInv)` |
| `LivePageInStep` | `Spec => []PageInStep`: the page shows its own hand's cards, buttons for what is awaited, and locks none of those |
| `HandsCompareByTheRules` | for any two hands of five cards the code's comparison is that of the rules |
| `ShowdownIsSound` | `DealSpec => []ShowdownSound`: the best hand wins, and no card is shown that is not to be seen |
| `DeckNeverRunsOut` | `DealSpec => []DealsFindCards`: `deal(deck, n)` never throws |

For any number of users, seats, hands, requests, posts, snapshots and lost sockets.
`TableInv` is inductive as long as no refused save meets a hand under way; from there on
nothing is claimed, since the code keeps no promise then (`overrun` never goes back). Up to there it
says of every hand but the newest that it is over or being stored, so that it holds no turn and no
chips (`OthersQuiet`); of the newest it has `HandKeepsItsPlayers` (`Kept`), for whose flags alone the
catch branch of a hand that is being stored would be a danger (`HandSaveFails` finds no hand under
way, or sets `overrun`). `HandKeepsItsPlayers` needs `Numbered`: agents and requests are numbered in order, so whoever sits
down is new, and the request that is awaited is the newest one and, of a human, the one
pending for him. That no chip is lost when a hand's stacks are written back (`SettledAccounts`) is a
matter of two sums over different sets, the hand's players and the occupied seats: an agent has
one seat, so that what the players have is the same by seat or by agent (`ByAgent`, from
`SumReindex`), and the hand divides what they brought to it. `PageInv` follows each request on its way. `InStep`: a request that is shown, or in a frame
under way, is the awaited one or a frame behind it clears it, as long as no frame was lost;
the steps of the table publish their frames so that this stays true (one lemma for
all of them, `PublishInStep`), and the reducer consumes them in order. `LocksInv`: an accepted POST
settled the request it was meant for. That is not obvious, as the POST names only the hand
and settles whatever is pending: it holds because what the page knows of an awaited request
is that it is its user's (`KnownRequests`), a user has one human seat, and only one request is
awaited at a time; so if the POST's own request is still awaited, it is the one that is pending.

The cards: for any finite number of players and any decks with enough cards for them, of the 52 or
fewer (`ShowdownAssumption`). The run deals from two decks of nine and eight cards; the theorems are of
`DealSpec`, whose steps are the cards' part of the run's `LiveSpec`.

* `HandsCompareByTheRules` is about every pair of hands. `HandIsShaped`: rank by rank
  (`Peel`), five cards come in one of six shapes, 4-1, 3-2, 3-1-1, 2-2-1, 2-1-1-1 or five ranks.
  Of each shape one lemma (`QuadsRead` … `HighRead`, and `StraightRead`) computes what
  `evaluateHand` returns, with its sorted lists, and what the rules say; `HandReads` puts them
  together. Category and tiebreakers are then the digits of one number to the base 15 (`Strength`).
  That the first difference of two lists decides is that the greater number is (`BeatsByStrength`); that
  the highest worth that one hand alone has decides is the same number again (`OutranksByStrength`).
* A comparison by one number has no cycles, so there is a best hand of five among seven cards, and
  `bestHandFrom7` returns one (`BestOfCards`); hence `WinnersInv`: who is not beaten by the
  code has one of the best hands of all (`StrongestWin`, `StrongestFound`).
* `DeckInv` keeps everybody's cards apart, and `SeenInv` says what the public has seen, by the step
  that shows it. `EnoughLeft` counts what is left of the deck against what is still to be dealt.

The attempt to prove this found an error in the module: the branches of `evaluateHand` had been
written as a `CASE`, whose conditions overlap (a flush that is a straight). TLC takes the
first that holds, as the code does; in TLA+ the choice is open, and nothing could be proved of it.

### The stores (`StoresProofs`)

| theorem | says |
|---|---|
| `RecordsInvariant`, `RecordsAreSound` | the rows of a match, over failing calls, deletions and a process that dies anywhere |
| `ArchiveInvariant`, `ArchiveIsSound` | the object archive, its index and the trace files |
| `AccountsInvariant`, `AccountsAreSound` | accounts, sessions and the rate limiter |
| `StoresAreSound` | `ServicesSpec => []StoresSound`, the conjunction of the three |
| `SimulationInvariant`, `SimulationIsSound` | a simulated poker match and its artifact, `ServicesSpec => []SimulationSound` |

For any number of events, traces, failures, requests, sessions and addresses, and finitely many
matches (`ArchiveAssumption`); for any number of seats, bots and hands, any trace limit and any
buy-ins of which one is the greatest (`SimulationAssumption`). Each of the four parts has an
inductive invariant of its own.

* Records: `SaveFollows` orders what is written, a save after a verdict, the outcome before the
  seats, the seats before the events, and a row that was there once is there or deleted with all
  that referenced it; `EventsEmitted` says that no event is under way or stored that was not
  emitted. The back-fill of a completed match rests on both.
* Archive: what a save has put is `Parts` less what is left to put, manifest last
  (`PutInOrder`), so that whoever lists a manifest finds the rest. `CreatedInOrder` makes the
  creation times tell the matches apart, and `NewestBounded`, by counting, says that the newest
  `MaxIndexEntries` are that many at most; hence a match that fell out of the index has enough
  newer ones (`IndexNewest`), unless one writer of the index overtook another, which the code
  does not exclude. `OneAppend`: of a trace file's chain only the head has read the file, and what
  it has read is the file.
* Accounts: what a request remembers over an await (`CallsFit`) may be stale about the session
  but not about the account, which nobody deletes. `WindowsBounded` counts the requests that
  passed: in the limiter's window at most its maximum, in the time before it likewise, so that any
  stretch of a window's length, which meets two windows at most, has twice that at most.
* A simulated match: `SimInv` is the job (`JobInv`, with `Excused`: what a failure was due to), the
  seating (bots in their order: `SeatingInv`), the hands and their numbers, the owner's in between
  (`HandsInv`), the chips (`ChipsInv`), the decisions (`TracesInv`) and the artifact (`SavedInv`).
  `ChipsInv` holds while the owner dealt no hand, for one of his moves chips between the bots that no
  hand of the simulation tells of. It says who sits there with what: with what his last hand left him,
  or what he bought; and whoever has left, but for the guest, had nothing left. The guest plays from
  one hand to another without a gap, so that he leaves with what his last hand left him, and the
  chips of all who were dealt in, at their last hands, are what they bought. Hence if a match ends
  early at a table that is still there, one player has chips, or a bot and the guest's empty seat. That
  a form's bots find their seats unless a guest took one is a count of the seats. That the
  agents' counts add up to the totals (`CountedOnce`) is a table of agents and decisions summed both
  ways (`SumSwap`).

### Only model-checked

* Liveness (`MatchEnds`, `SilentMatchIsDecided`, `RequestsEnd`, `HandEnds`, `HandsEnd`, and the
  liveness parts of `HttpSound`, `RoomSound` and `ReplaySound`): out of the prover's reach.

Every safety property and every action property that a passing run checks is a theorem; of
`HttpSound`, `RoomSound` and `ReplaySound` it is the safety part that is proved. That a step is
enabled, which fairness is about, cannot be stated to the provers, so that no liveness property is
proved. Nor is anything by induction over data: that a hand's five cards have six
shapes, or that going round the table reaches everybody, is done by cases and by least elements.
The three runs that expect a violation have counterexamples, not proofs.

## 5. Plan

What the plan set out is done but for liveness. If the models grow, what would add
most is the part of the in-memory orchestrator and of the hub that is left out (several
subscribers of one match, with the isolation of one from the exceptions of another), and the odd
big blind, for which chips would have to be halves.

## 6. What is not modelled

Speech text, names, seeds and shuffling; prompts; wire schemas beyond what they admit;
authentication of the HTTP routes; password hashing; the plain key-value stores; layout, and
the web pages that keep no state of a game. Several matches, tables or agents side by
side share nothing and are modelled one at a time; the hub is modelled as each of its pages
uses it, without the sets it keeps for many connections, and the isolation of
listeners from each other's exceptions is left out. The in-memory orchestrator's
`deleteMatch` and the TTL cleaner are in `MatchRecords`, not in `WerewolfMatch`: they remove
an entry of a map, and a runner holds its own reference.
