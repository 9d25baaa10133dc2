----------------------------- MODULE WerewolfLobby -----------------------------
(***************************************************************************)
(* The werewolf lobby (apps/api/src/werewolf-lobby-registry.ts) over the    *)
(* agents of AgentDirectory: games that wait for players, seats given to    *)
(* house players and to users' agents, the start, and what the promise of   *)
(* runWithPersistence does to the entry.  Games live in the memory of one   *)
(* process, agents in the database: a restart loses the ones and keeps the  *)
(* others.  How a match is played is WerewolfMatch's business; here it ends *)
(* decided or throws.                                                       *)
(***************************************************************************)
EXTENDS AgentDirectory

CONSTANTS Games, Seats   \* Seats: TOTAL_SEATS of a game

VARIABLES lobby,    \* WerewolfLobbyRegistry.entries
          adapters  \* the agents registered at the orchestrator for each player

lobbyVars == <<lobby, adapters>>
vars == <<directoryVars, lobbyVars>>

-----------------------------------------------------------------------------
Statuses == {"waiting", "ready", "running", "completed", "failed"}
Empty == [kind |-> "empty"]
Npc == [kind |-> "npc"]
\* late: a delete had passed its check when the seat was given (kept for the
\* properties)
AgentSeat(a, u, late) == [kind |-> "agent", agent |-> a, owner |-> u, late |-> late]
Occupants == {Empty, Npc} \cup {AgentSeat(a, u, late) : a \in AgentIds, u \in Users, late \in BOOLEAN}
\* run: where runWithPersistence is; decided: getMatchSummary is not null
Entries ==
  [status : Statuses, creator : Users, seats : [Seats -> Occupants], attached : BOOLEAN,
   run : {"none", "row", "playing", "saving", "over"}, decided : BOOLEAN]

ASSUME LobbyAssumption == Seats # {} /\ Absent \notin Entries

Exists(g) == lobby[g] # Absent
IsEmpty(g, i) == lobby[g].seats[i] = Empty
AllSeated(seats) == \A i \in Seats : seats[i] # Empty
Holds(seats, a) == \E i \in Seats : seats[i].kind = "agent" /\ seats[i].agent = a
Live(g) == Exists(g) /\ lobby[g].status \notin {"completed", "failed"}

BugOnlyWaitingCounts(a) == \E g \in Games : Exists(g) /\ lobby[g].status = "waiting" /\ Holds(lobby[g].seats, a)
\* AgentConfigUsageService.isInUse, as far as werewolf games go
InUse(a) == \E g \in Games : Live(g) /\ Holds(lobby[g].seats, a)

\* the seats after one of them was given, and the status with them
Seated(g, seats) ==
  lobby' = [lobby EXCEPT ![g].seats = seats,
                         ![g].status = IF AllSeated(seats) THEN "ready" ELSE @]

-----------------------------------------------------------------------------
(* Creation and house players.                                              *)

\* POST /werewolf-games
Create(u, g) ==
  /\ ~Exists(g)
  /\ lobby' = [lobby EXCEPT ![g] =
       [status |-> "waiting", creator |-> u, seats |-> [i \in Seats |-> Empty],
        attached |-> FALSE, run |-> "none", decided |-> FALSE]]
  /\ adapters' = [adapters EXCEPT ![g] = [i \in Seats |-> Empty]]
  /\ UNCHANGED directoryVars

\* inviteNpc
InviteNpc(u, g, i) ==
  /\ Exists(g)
  /\ lobby[g].creator = u /\ lobby[g].status = "waiting"
  /\ IsEmpty(g, i)
  /\ adapters' = [adapters EXCEPT ![g][i] = Npc]
  /\ Seated(g, [lobby[g].seats EXCEPT ![i] = Npc])
  /\ UNCHANGED directoryVars

\* fillWithNpcs
FillWithNpcs(u, g) ==
  /\ Exists(g)
  /\ lobby[g].creator = u /\ lobby[g].status = "waiting"
  /\ LET Filled(old) == [i \in Seats |-> IF old[i] = Empty THEN Npc ELSE old[i]] IN
       /\ adapters' = [adapters EXCEPT ![g] = Filled(@)]
       /\ Seated(g, Filled(lobby[g].seats))
  /\ UNCHANGED directoryVars

-----------------------------------------------------------------------------
(* inviteAgent: what it checks, awaits, checks again and writes.            *)

InviteAgent(c, u, g, i, a) ==
  /\ Free(c)
  /\ Exists(g)
  /\ lobby[g].status = "waiting" /\ IsEmpty(g, i)
  /\ calls' = [calls EXCEPT ![c] =
       [kind |-> "resolving", user |-> u, game |-> g, seat |-> i, agent |-> a]]
  /\ UNCHANGED <<directory, lobbyVars>>

BugAnyOwner(u, a) == HasAgent(a) /\ agents[a].protocol \in {"http", "ws"}
\* longpoll agents are reported as not found
Resolvable(u, a) == Owns(u, a) /\ agents[a].protocol \in {"http", "ws"}

ResolveAgent(c) ==
  /\ calls[c].kind = "resolving"
  /\ LET call == calls[c] IN
       IF Resolvable(call.user, call.agent)
       THEN calls' = [calls EXCEPT ![c] =
              [kind |-> "resolved", user |-> call.user, game |-> call.game, seat |-> call.seat,
               agent |-> call.agent, protocol |-> agents[call.agent].protocol]]
       ELSE Ends(c)
  /\ UNCHANGED <<directory, lobbyVars>>

BugChecksOnce(call) == ~Holds(lobby[call.game].seats, call.agent)
BugOncePerSeat(call) == lobby[call.game].status = "waiting" /\ IsEmpty(call.game, call.seat)
\* the checks repeated after the await
StillFree(call) ==
  /\ lobby[call.game].status = "waiting"
  /\ IsEmpty(call.game, call.seat)
  /\ ~Holds(lobby[call.game].seats, call.agent)
Deleting(a) == \E c \in Calls : calls[c].kind = "deleting" /\ calls[c].agent = a

SeatAgent(c) ==
  /\ calls[c].kind = "resolved"
  /\ LET call == calls[c]
         occupant == AgentSeat(call.agent, call.user, ~HasAgent(call.agent) \/ Deleting(call.agent)) IN
       /\ StillFree(call)
       /\ adapters' = [adapters EXCEPT ![call.game][call.seat] = occupant]
       /\ Seated(call.game, [lobby[call.game].seats EXCEPT ![call.seat] = occupant])
  /\ Ends(c)
  /\ UNCHANGED directory

\* the seat, the game or the agent is taken, or a ws agent is not connected
Refuse(c) ==
  /\ calls[c].kind = "resolved"
  /\ ~StillFree(calls[c]) \/ calls[c].protocol = "ws"
  /\ Ends(c)
  /\ UNCHANGED <<directory, lobbyVars>>

-----------------------------------------------------------------------------
(* The match.                                                               *)

\* start: the entry is running before anything is awaited
Start(u, g) ==
  /\ Exists(g)
  /\ lobby[g].creator = u /\ lobby[g].status = "ready"
  /\ lobby' = [lobby EXCEPT ![g].status = "running", ![g].attached = TRUE, ![g].run = "row"]
  /\ UNCHANGED <<directoryVars, adapters>>

\* what the try, its catch and its finally leave behind
Over(g, status, decided) ==
  /\ lobby' = [lobby EXCEPT ![g].status = status, ![g].decided = decided,
                            ![g].run = "over", ![g].attached = FALSE]
  /\ UNCHANGED <<directoryVars, adapters>>

\* matchRegistry.createMatch
RowCreated(g) ==
  /\ Exists(g) /\ lobby[g].run = "row"
  /\ lobby' = [lobby EXCEPT ![g].run = "playing"]
  /\ UNCHANGED <<directoryVars, adapters>>
RowFails(g) == Exists(g) /\ lobby[g].run = "row" /\ Over(g, "failed", FALSE)

\* runMatch: the game loop throws, or it ends and the artifact is saved
MatchThrows(g) == Exists(g) /\ lobby[g].run = "playing" /\ Over(g, "failed", FALSE)
MatchDecided(g) ==
  /\ Exists(g) /\ lobby[g].run = "playing"
  /\ lobby' = [lobby EXCEPT ![g].run = "saving", ![g].decided = TRUE]
  /\ UNCHANGED <<directoryVars, adapters>>

BugFailsUnsaved(summary, saved) == IF saved THEN "completed" ELSE "failed"
\* a match with a summary is completed, whatever failed after it
StatusFor(summary, saved) == IF summary THEN "completed" ELSE "failed"

MatchSettled(g) ==
  /\ Exists(g) /\ lobby[g].run = "saving"
  /\ \E saved \in BOOLEAN : Over(g, StatusFor(lobby[g].decided, saved), TRUE)

-----------------------------------------------------------------------------
(* Deletions, which ask the lobby; a restart of the server.                 *)

\* DELETE /me/agents/:agentId
DeleteAgent(c, u, a) == ~InUse(a) /\ Deletes(c, u, a, TRUE) /\ UNCHANGED lobbyVars
\* DELETE /me/werewolf-agents/:id
DeleteWerewolfAgent(c, u, a) == Deletes(c, u, a, FALSE) /\ UNCHANGED lobbyVars

Restart ==
  /\ lobby' = [g \in Games |-> Absent]
  /\ adapters' = [g \in Games |-> [i \in Seats |-> Empty]]
  /\ calls' = [c \in Calls |-> Idle]
  /\ UNCHANGED <<agents, issued, invites, purged>>

-----------------------------------------------------------------------------
Init ==
  /\ DirectoryInit
  /\ lobby = [g \in Games |-> Absent]
  /\ adapters = [g \in Games |-> [i \in Seats |-> Empty]]

Next ==
  \/ DirectoryNext /\ UNCHANGED lobbyVars
  \/ \E u \in Users, g \in Games :
       \/ Create(u, g) \/ FillWithNpcs(u, g) \/ Start(u, g)
       \/ \E i \in Seats : InviteNpc(u, g, i)
       \/ \E i \in Seats, c \in Calls, a \in 1 .. issued : InviteAgent(c, u, g, i, a)
  \/ \E c \in Calls :
       \/ ResolveAgent(c) \/ SeatAgent(c) \/ Refuse(c)
       \/ \E u \in Users, a \in AgentIds : DeleteAgent(c, u, a) \/ DeleteWerewolfAgent(c, u, a)
  \/ \E g \in Games : RowCreated(g) \/ RowFails(g) \/ MatchThrows(g) \/ MatchDecided(g) \/ MatchSettled(g)
  \/ Restart

Spec == Init /\ [][Next]_vars

-----------------------------------------------------------------------------
(* Properties.                                                              *)

\* Types, and what an entry's fields say of one match: it is attached to the hub
\* while it runs, and a match that was decided is never shown as failed, though
\* what came after the game may have thrown.
LobbyTypeOK ==
  /\ DirectoryTypeOK
  /\ lobby \in [Games -> Entries \cup {Absent}]
  /\ adapters \in [Games -> [Seats -> Occupants]]
  /\ \A g \in Games : Exists(g) =>
       /\ lobby[g].attached <=> lobby[g].status = "running"
       /\ lobby[g].decided => lobby[g].status \in {"running", "completed"}

\* What a lobby shows is what will be played: a game waits for players just as
\* long as a seat is empty, the orchestrator has the adapter of whoever sits
\* there, nobody's agent is seated for somebody else, and none sits twice,
\* although inviteAgent awaits the database between its checks and its write.
SeatsHold ==
  \A g \in Games : Exists(g) =>
    LET game == lobby[g] IN
      /\ game.status = "waiting" <=> \E i \in Seats : IsEmpty(g, i)
      /\ adapters[g] = game.seats
      /\ \A i \in Seats : game.seats[i].kind = "agent" =>
           /\ HasAgent(game.seats[i].agent) => Owns(game.seats[i].owner, game.seats[i].agent)
           /\ \A j \in Seats \ {i} : game.seats[j] # Npc /\ game.seats[j] # Empty =>
                game.seats[j].agent # game.seats[i].agent

\* Lobbies are sound: their entries are of their types and say one thing of a
\* match, and their seats hold.
LobbySound == LobbyTypeOK /\ SeatsHold

\* The check of DELETE /me/agents protects what is seated: a live game's agent
\* lost its row only to a deletion that had passed the check before the agent
\* was seated, or to DELETE /me/werewolf-agents, which asks nobody.
RowsOutliveSeats ==
  \A g \in Games : Live(g) =>
    \A i \in Seats : lobby[g].seats[i].kind = "agent" =>
      LET seat == lobby[g].seats[i] IN
        HasAgent(seat.agent) \/ seat.late \/ seat.agent \in purged

\* Agents and invitations are sound: what a live game plays with has its row, and
\* an invitation has one fate.
DirectorySound == RowsOutliveSeats /\ InvitesSound

Order == [waiting |-> 0, ready |-> 1, running |-> 2, completed |-> 3, failed |-> 3]

\* While the process lives a game only moves forward: nobody loses a seat to a
\* later invitation, a status never goes back, a verdict is final; and no call
\* brings an invitation back once it was redeemed or revoked.
SettledStays ==
  [][/\ \A g \in Games : Exists(g) /\ Exists(g)' =>
          /\ \A i \in Seats : ~IsEmpty(g, i) => lobby'[g].seats[i] = lobby[g].seats[i]
          /\ Order[lobby[g].status] <= Order[lobby'[g].status]
          /\ ~Live(g) => lobby'[g] = lobby[g]
     /\ \A i \in InviteIds : invites[i] # Absent =>
          /\ invites[i].used => invites'[i].used
          /\ invites[i].revoked => invites'[i].revoked]_vars
=============================================================================
