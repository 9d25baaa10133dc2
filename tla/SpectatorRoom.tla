---------------------------- MODULE SpectatorRoom ----------------------------
(***************************************************************************)
(* A running werewolf game and one spectator's page of it.                  *)
(*                                                                          *)
(* The page learns of the match in two ways.  The stream: replay events go  *)
(* from the match over attachWerewolfHub, the RealtimeHub and the SSE route *)
(* to the page's SseClient, in order while the stream is open, and lost     *)
(* otherwise, for the route has no backlog.  The polls: GET                 *)
(* /werewolf-games/:id answers with the lobby entry, which the registry     *)
(* keeps from the same events, and the answer may be old when it arrives.   *)
(* werewolfRoomReducer merges the two.                                      *)
(*                                                                          *)
(* Of a replay event those parts are kept that change the board: the phase, *)
(* who died and the verdict.  Roles, speeches and the timeline are display. *)
(***************************************************************************)
EXTENDS Naturals, Sequences, FiniteSets, SequencesExt

CONSTANTS RoomPlayers,    \* the seats of the game
          Sides,      \* who can win
          NoSide,     \* no winner yet
          MaxPhases, MaxRoomDrops, MaxPollFailures, MaxOpenPolls \* bounds of the model

ASSUME RoomAssumption ==
  /\ NoSide \notin Sides
  /\ {MaxPhases, MaxRoomDrops, MaxPollFailures, MaxOpenPolls} \subseteq Nat

VARIABLES game,    \* the match, and the entry of the lobby registry for it
          stream,  \* the page's event stream as the server sees it
          events,  \* events under way to the page
          polls,   \* GETs under way: Free, Asked or answered with an entry
          room,    \* WerewolfRoomState: status, phase, who is shown dead, winner
          missed,  \* deaths the page cannot know of: their event did not reach it,
                   \* or an older entry hid them, and no newer entry came yet
          roomDrops, pollFailures \* how many there have been

roomVars == <<game, stream, events, polls, room, missed, roomDrops, pollFailures>>

PreMatch == 0              \* currentPhase 'pre-match'; phases are numbered from 1
Finished == MaxPhases + 1  \* currentPhase 'completed'
Polls == 1..MaxOpenPolls
Free == [at |-> "free"]
Asked == [at |-> "asked"]
Ended == game.status \in {"completed", "failed"}

-----------------------------------------------------------------------------
(* The server: the match, its broadcast and the lobby entry.                *)

PhaseChanged(n, deaths) == [type |-> "phase.changed", phase |-> n, dead |-> deaths]
MatchCompleted(side) == [type |-> "match.completed", winner |-> side]

DeathsIn(es) == UNION {e.dead : e \in {f \in ToSet(es) : f.type = "phase.changed"}}

\* hub.publish: the event is sent to the open stream and to nobody later.
Broadcast(e) ==
  /\ events' = IF stream = "open" THEN Append(events, e) ELSE events
  /\ missed' = IF stream = "open" THEN missed ELSE missed \cup DeathsIn(<<e>>)
  /\ UNCHANGED <<stream, polls, room, roomDrops, pollFailures>>

Unseen == UNCHANGED <<stream, events, polls, room, missed, roomDrops, pollFailures>>

StartGame ==
  /\ game.status = "waiting"
  /\ game' = [game EXCEPT !.status = "running"]
  /\ Unseen

\* The registry's own subscription, made in start(): it runs in the same tick as
\* the hub's.
BugUntracked(n, deaths) == [game EXCEPT !.phase = n, !.dead = @ \cup deaths]
EntryAfter(n, deaths) ==
  [game EXCEPT !.phase = n, !.dead = @ \cup deaths, !.tracked = @ \cup deaths]

ChangePhase(deaths) ==
  /\ game.status = "running" /\ game.winner = NoSide /\ game.phase < MaxPhases
  /\ deaths \subseteq RoomPlayers \ game.dead
  /\ game' = EntryAfter(game.phase + 1, deaths)
  /\ Broadcast(PhaseChanged(game.phase + 1, deaths))

\* The match is decided, and broadcast as such; the entry stays 'running' until
\* runMatch has stored the artifact and returns.
CompleteMatch(side) ==
  /\ game.status = "running" /\ game.winner = NoSide /\ game.phase > PreMatch
  /\ game' = [game EXCEPT !.winner = side]
  /\ Broadcast(MatchCompleted(side))

\* runMatch resolves, or only the artifact failed: completed in either case.
SettleEntry ==
  /\ game.status = "running" /\ game.winner # NoSide
  /\ game' = [game EXCEPT !.status = "completed"]
  /\ Unseen

FailEntry ==
  /\ game.status = "running" /\ game.winner = NoSide
  /\ game' = [game EXCEPT !.status = "failed"]
  /\ Unseen

\* publicEntry.  The board is in it for a running or a completed game only; a
\* death is one the registry's own subscription recorded.
Reveals(status) == status \in {"running", "completed"}
PublicEntry ==
  [status |-> game.status,
   phase  |-> IF Reveals(game.status) THEN game.phase ELSE PreMatch,
   dead   |-> IF Reveals(game.status) THEN game.tracked ELSE {},
   winner |-> IF game.status = "completed" THEN game.winner ELSE NoSide,
   asOf   |-> game.dead] \* who was dead when the entry was read, for missed

-----------------------------------------------------------------------------
(* The page's stream.                                                       *)

\* The effect on state.status: a stream while the page takes the match for
\* running, a new one each time it does so again.
FollowStatus(status) ==
  /\ stream' = IF status = room.status THEN stream
               ELSE IF status = "running" THEN "connecting" ELSE "closed"
  /\ events' = IF status = room.status THEN events ELSE <<>>

Unreached(status, es) == IF status = room.status THEN {} ELSE DeathsIn(es)

\* serveSseFromHub subscribes the new stream, with no preface.
OpenStream ==
  /\ stream = "connecting"
  /\ stream' = "open"
  /\ UNCHANGED <<game, events, polls, room, missed, roomDrops, pollFailures>>

\* The connection breaks: the hub forgets it, EventSource connects anew.
DropStream ==
  /\ stream = "open" /\ roomDrops < MaxRoomDrops
  /\ stream' = "connecting" /\ events' = <<>>
  /\ missed' = missed \cup (DeathsIn(events) \ room.dead)
  /\ roomDrops' = roomDrops + 1
  /\ UNCHANGED <<game, polls, room, pollFailures>>

\* The reducer on a replay event.
PhaseChangedReduced(e) == [room EXCEPT !.phase = e.phase, !.dead = @ \cup e.dead]
MatchCompletedReduced(e) ==
  [room EXCEPT !.status = "completed", !.phase = Finished, !.winner = e.winner]

ReceiveEvent ==
  /\ events # <<>>
  /\ LET e == Head(events)
     IN /\ room' = IF e.type = "phase.changed" THEN PhaseChangedReduced(e)
                   ELSE MatchCompletedReduced(e)
        /\ IF room'.status = room.status
           THEN stream' = stream /\ events' = Tail(events)
           ELSE FollowStatus(room'.status)
        /\ missed' = (missed \ DeathsIn(<<e>>)) \cup Unreached(room'.status, Tail(events))
  /\ UNCHANGED <<game, polls, roomDrops, pollFailures>>

-----------------------------------------------------------------------------
(* The page's polls.                                                        *)

\* fetchEntry, on opening the page and from then on by a timer that the page
\* stops when it takes the match for ended.
BugStopsWhenRunning == room.status \notin {"running", "completed", "failed"}
KeepsPolling == room.status \notin {"completed", "failed"}

SendPoll(i) ==
  /\ KeepsPolling /\ polls[i] = Free
  /\ polls' = [polls EXCEPT ![i] = Asked]
  /\ UNCHANGED <<game, stream, events, room, missed, roomDrops, pollFailures>>

AnswerPoll(i) ==
  /\ polls[i] = Asked
  /\ polls' = [polls EXCEPT ![i] = [at |-> "answered", entry |-> PublicEntry]]
  /\ UNCHANGED <<game, stream, events, room, missed, roomDrops, pollFailures>>

\* The request fails: an error banner, and the timer goes on.
FailPoll(i) ==
  /\ polls[i] # Free /\ pollFailures < MaxPollFailures
  /\ polls' = [polls EXCEPT ![i] = Free]
  /\ pollFailures' = pollFailures + 1
  /\ UNCHANGED <<game, stream, events, room, missed, roomDrops>>

\* Reducer, 'lobby-sync': the entry decides who is dead where it says so, and the
\* page's own board where it does not; the phase is taken only by a page that has
\* none.
BugResetsBoard(entry) == entry.dead
MergedDead(entry) == IF Reveals(entry.status) THEN entry.dead ELSE room.dead
BugTakesPhase(entry) == IF entry.phase = PreMatch THEN room.phase ELSE entry.phase
MergedPhase(entry) == IF room.phase = PreMatch THEN entry.phase ELSE room.phase
LobbySync(entry) ==
  [room EXCEPT !.status = entry.status, !.dead = MergedDead(entry),
               !.phase = MergedPhase(entry)]

\* 'match-completed', dispatched after the merge of a completed entry.
WithFinalPlayers(r, entry) ==
  IF entry.status = "completed"
  THEN [r EXCEPT !.phase = Finished, !.winner = entry.winner, !.dead = entry.dead]
  ELSE r

ReceiveEntry(i) ==
  /\ polls[i].at = "answered"
  /\ LET entry == polls[i].entry
         known == IF Reveals(entry.status) THEN entry.asOf ELSE {}
         hidden == IF Reveals(entry.status) THEN room.dead \ entry.asOf ELSE {}
     IN /\ room' = WithFinalPlayers(LobbySync(entry), entry)
        /\ FollowStatus(room'.status)
        /\ missed' = (missed \ known) \cup hidden
                       \cup (Unreached(room'.status, events) \ room'.dead)
  /\ polls' = [polls EXCEPT ![i] = Free]
  /\ UNCHANGED <<game, roomDrops, pollFailures>>

-----------------------------------------------------------------------------
RoomInit ==
  /\ game \in {[status |-> s, phase |-> PreMatch, dead |-> {}, tracked |-> {},
                winner |-> NoSide] : s \in {"waiting", "running"}}
  /\ stream = "closed" /\ events = <<>>
  /\ polls = [i \in Polls |-> Free]
  /\ room = [status |-> "waiting", phase |-> PreMatch, dead |-> {}, winner |-> NoSide]
  /\ missed = {} /\ roomDrops = 0 /\ pollFailures = 0

ServerStep ==
  \/ StartGame \/ SettleEntry \/ FailEntry
  \/ \E D \in SUBSET RoomPlayers : ChangePhase(D)
  \/ \E side \in Sides : CompleteMatch(side)

PageStep ==
  \/ OpenStream \/ DropStream \/ ReceiveEvent
  \/ \E i \in Polls : SendPoll(i) \/ AnswerPoll(i) \/ FailPoll(i) \/ ReceiveEntry(i)

RoomNext == ServerStep \/ PageStep

\* Timers fire, requests are answered and answers arrive; runMatch returns.
RoomFairness ==
  /\ WF_roomVars(SettleEntry)
  /\ \A i \in Polls :
       WF_roomVars(SendPoll(i)) /\ WF_roomVars(AnswerPoll(i)) /\ WF_roomVars(ReceiveEntry(i))

RoomSpec == RoomInit /\ [][RoomNext]_roomVars /\ RoomFairness

-----------------------------------------------------------------------------
\* The board is true.  The page shows nobody dead who lives; a dead player it
\* shows alive is one whose death is still on its way, or is one it missed: the
\* event came while its stream was not open, or an entry read before the death
\* arrived after it, and no entry read since has arrived.  And an old entry never
\* takes the page back, not to an earlier phase nor behind the verdict.  Only the
\* stream may name an earlier phase, when the first entry came sooner than the
\* events that led to it.
RoomIsTrue ==
  /\ [](/\ room.dead \subseteq game.dead
        /\ game.dead \subseteq room.dead \cup missed \cup DeathsIn(events)
        /\ room.winner # NoSide => room.winner = game.winner)
  /\ [][ /\ room'.phase >= room.phase \/ (events # <<>> /\ events' = Tail(events))
         /\ room.winner # NoSide => room'.winner = room.winner ]_room

\* A page left open ends up with the outcome of the match, although the stream
\* may have lost the verdict or an old entry overwritten it.  (A part of RoomSound.)
RoomSettles ==
  <>[](Ended => /\ room.status = game.status
                /\ room.winner = game.winner)

\* The board is true at any time, and left open, the page settles.
RoomSound == RoomIsTrue /\ RoomSettles
=============================================================================
