-------------------------- MODULE WerewolfLobbyProofs --------------------------
(***************************************************************************)
(* For any users, agents, invitations, games, seats and overlapping        *)
(* requests: the lobby shows what will be played, an agent seated in a     *)
(* live game has its row unless its deletion was already past the check,   *)
(* an invitation has one fate, and a game only moves forward.              *)
(***************************************************************************)
EXTENDS WerewolfLobby, TLAPS

-----------------------------------------------------------------------------
(* The inductive invariant.                                                 *)

\* The agent was inserted once, and while it has its row it is the user's.
IdOf(a, u) == a \in 1 .. issued /\ (HasAgent(a) => agents[a].owner = u)

\* What a request under way remembers is still true of the rows it read, apart
\* from those it would find deleted.
CallOK(c) ==
  LET call == calls[c] IN
    \/ call = Idle
    \/ /\ call \in [kind : {"creating"}, invite : InviteIds, protocol : {"http", "ws"}, agent : {Absent}]
       /\ invites[call.invite] # Absent
    \/ /\ call \in [kind : {"marking"}, invite : InviteIds, protocol : {"http", "ws"}, agent : AgentIds]
       /\ invites[call.invite] # Absent
       /\ IdOf(call.agent, invites[call.invite].owner)
    \/ /\ call \in [kind : {"resolving"}, user : Users, game : Games, seat : Seats, agent : AgentIds]
       /\ Exists(call.game)
       /\ call.agent <= issued
    \/ /\ call \in [kind : {"resolved"}, user : Users, game : Games, seat : Seats, agent : AgentIds,
                    protocol : {"http", "ws"}]
       /\ Exists(call.game)
       /\ IdOf(call.agent, call.user)
    \/ call \in [kind : {"deleting"}, agent : AgentIds, asked : BOOLEAN]
CallsInv == DOMAIN calls = Calls /\ \A c \in Calls : CallOK(c)

\* Where the match is and what the entry says of it.
RunFits(game) ==
  /\ game.run = "none" <=> game.status \in {"waiting", "ready"}
  /\ game.run \in {"row", "playing", "saving"} <=> game.status = "running"
  /\ game.decided => game.run \in {"saving", "over"}
  /\ game.run = "saving" => game.decided
RunInv == \A g \in Games : Exists(g) => RunFits(lobby[g])

\* The agent of every seat was issued, and so none comes later with its id.
SeatsIssued ==
  \A g \in Games : Exists(g) =>
    \A i \in Seats : lobby[g].seats[i].kind = "agent" => lobby[g].seats[i].agent <= issued

\* A deletion that passed the check of use meets, in a live game, only seats
\* given after it.
AskedMeetsLate ==
  \A c \in Calls : calls[c].kind = "deleting" /\ calls[c].asked =>
    \A g \in Games : Live(g) =>
      \A i \in Seats : lobby[g].seats[i].kind = "agent" /\ lobby[g].seats[i].agent = calls[c].agent =>
        lobby[g].seats[i].late

LobbyInv ==
  LobbySound /\ DirectorySound /\ CallsInv /\ RunInv /\ SeatsIssued /\ AskedMeetsLate

-----------------------------------------------------------------------------
(* The directory's steps.                                                   *)

\* What no step of the directory does: reuse an id, change a row's owner, bring
\* back an invitation.
RowsKept ==
  /\ issued <= issued'
  /\ \A a \in 1 .. issued : HasAgent(a)' => HasAgent(a) /\ agents'[a].owner = agents[a].owner
  /\ \A i \in InviteIds : invites[i] # Absent =>
       /\ invites'[i] # Absent
       /\ invites'[i].owner = invites[i].owner
       /\ invites[i].used => invites'[i].used
       /\ invites[i].revoked => invites'[i].revoked

LEMMA DirectoryUnchanged ==
  ASSUME DirectoryTypeOK, InvitesSound, UNCHANGED <<agents, issued, invites, purged>>
  PROVE  DirectoryTypeOK' /\ InvitesSound' /\ RowsKept
BY DEF DirectoryTypeOK, InvitesSound, RowsKept, HasAgent, Owns

\* An insertion takes an id nobody had.
LEMMA InsertKeeps ==
  ASSUME DirectoryTypeOK, InvitesSound, NEW u \in Users, NEW p \in Protocols,
         Insert(u, p), UNCHANGED <<invites, purged>>
  PROVE  /\ DirectoryTypeOK' /\ InvitesSound' /\ RowsKept
         /\ issued' = issued + 1 /\ issued' \in AgentIds
         /\ agents'[issued'] # Absent /\ agents'[issued'].owner = u
         /\ \A a \in 1 .. issued : agents'[a] = agents[a]
<1>1. /\ issued \in Nat /\ MaxAgents \in Nat /\ issued' = issued + 1 /\ issued' \in AgentIds
  BY DirectoryAssumption DEF DirectoryTypeOK, Insert, AgentIds
<1> DEFINE row == [owner |-> u, protocol |-> p]
<1>2. row \in AgentRows /\ row # Absent /\ row.owner = u
  BY DirectoryAssumption DEF AgentRows
<1> HIDE DEF row
<1>3. /\ agents' \in [AgentIds -> AgentRows \cup {Absent}]
      /\ agents'[issued'] = row
      /\ \A a \in AgentIds : a # issued' => agents'[a] = agents[a]
  BY <1>1, <1>2 DEF DirectoryTypeOK, Insert, row
<1>4. \A a \in 1 .. issued : a \in AgentIds /\ a # issued' /\ agents'[a] = agents[a]
  BY <1>1, <1>3 DEF AgentIds
<1>5. \A a \in AgentIds : HasAgent(a) => HasAgent(a)' /\ agents'[a] = agents[a]
  BY <1>1, <1>3 DEF HasAgent, DirectoryTypeOK, AgentIds
<1>6. DirectoryTypeOK'
  <2>1. \A a \in AgentIds : HasAgent(a)' => a <= issued'
    BY <1>1, <1>3 DEF DirectoryTypeOK, HasAgent, AgentIds
  <2>2. issued' \in 0 .. MaxAgents /\ purged' \subseteq 1 .. issued'
    BY <1>1 DEF DirectoryTypeOK, AgentIds
  <2>3. invites' \in [InviteIds -> InviteRows \cup {Absent}]
    BY DEF DirectoryTypeOK
  <2> QED BY <1>3, <2>1, <2>2, <2>3 DEF DirectoryTypeOK
<1>7. InvitesSound'
  <2> SUFFICES ASSUME NEW i \in InviteIds, invites'[i] # Absent
               PROVE  /\ ~(invites'[i].used /\ invites'[i].revoked)
                      /\ invites'[i].agent # Absent =>
                           /\ invites'[i].used
                           /\ agents'[invites'[i].agent] # Absent
                           /\ agents'[invites'[i].agent].owner = invites'[i].owner
    BY DEF InvitesSound, Owns, HasAgent
  <2>1. invites[i] \in InviteRows /\ invites'[i] = invites[i] /\ invites[i] # Absent
    BY DEF DirectoryTypeOK
  <2>2. invites[i].agent # Absent => invites[i].agent \in AgentIds
    BY <2>1 DEF InviteRows
  <2> QED BY <1>5, <2>1, <2>2 DEF InvitesSound, Owns, HasAgent
<1>8. RowsKept
  BY <1>1, <1>4 DEF RowsKept, HasAgent
<1> QED BY <1>1, <1>2, <1>3, <1>4, <1>6, <1>7, <1>8 DEF HasAgent

LEMMA CreateInviteKeeps ==
  ASSUME DirectoryTypeOK, InvitesSound, NEW u \in Users, NEW i \in InviteIds, CreateInvite(u, i)
  PROVE  DirectoryTypeOK' /\ InvitesSound' /\ RowsKept
<1> DEFINE row == [owner |-> u, agent |-> Absent, used |-> FALSE, revoked |-> FALSE]
<1>1. /\ row \in InviteRows /\ ~row.used /\ row.agent = Absent
  BY DEF InviteRows
<1>2. /\ invites' = [invites EXCEPT ![i] = row] /\ invites[i] = Absent
      /\ UNCHANGED <<agents, issued, purged>>
  BY DEF CreateInvite
<1> HIDE DEF row
<1>3. DirectoryTypeOK'
  BY <1>1, <1>2 DEF DirectoryTypeOK, HasAgent
<1>4. InvitesSound'
  BY <1>1, <1>2 DEF DirectoryTypeOK, InvitesSound, Owns, HasAgent
<1>5. RowsKept
  BY <1>1, <1>2 DEF DirectoryTypeOK, RowsKept, HasAgent
<1> QED BY <1>3, <1>4, <1>5

LEMMA RevokeKeeps ==
  ASSUME DirectoryTypeOK, InvitesSound, NEW u \in Users, NEW i \in InviteIds, Revoke(u, i)
  PROVE  DirectoryTypeOK' /\ InvitesSound' /\ RowsKept
<1> DEFINE row == [invites[i] EXCEPT !.revoked = TRUE]
<1>1. /\ invites' = [invites EXCEPT ![i] = row] /\ invites[i] # Absent
      /\ UNCHANGED <<agents, issued, purged>>
      /\ ~invites[i].used
  BY DEF Revoke, Revocable, DirectoryTypeOK
<1>2. invites[i] \in InviteRows
  BY <1>1 DEF DirectoryTypeOK
<1>3. /\ row \in InviteRows /\ row # Absent /\ row.revoked
      /\ row.used = invites[i].used /\ row.owner = invites[i].owner /\ row.agent = invites[i].agent
  BY <1>2, DirectoryAssumption DEF InviteRows
<1> HIDE DEF row
<1>4. DirectoryTypeOK'
  BY <1>1, <1>3 DEF DirectoryTypeOK, HasAgent
<1>5. InvitesSound'
  BY <1>1, <1>3 DEF DirectoryTypeOK, InvitesSound, Owns, HasAgent
<1>6. RowsKept
  BY <1>1, <1>3 DEF DirectoryTypeOK, RowsKept, HasAgent
<1> QED BY <1>4, <1>5, <1>6

LEMMA MarkUsedKeeps ==
  ASSUME DirectoryTypeOK, InvitesSound, NEW c \in Calls, CallOK(c), MarkUsed(c)
  PROVE  DirectoryTypeOK' /\ InvitesSound' /\ RowsKept
<1> DEFINE i == calls[c].invite
           a == calls[c].agent
<1>1. /\ i \in InviteIds /\ a \in AgentIds /\ invites[i] # Absent
      /\ HasAgent(a) => agents[a].owner = invites[i].owner
  BY DEF MarkUsed, CallOK, IdOf, Idle
<1>2. UNCHANGED <<agents, issued, purged>>
  BY DEF MarkUsed
<1>3. CASE ~(Markable(i) /\ HasAgent(a))
  BY <1>2, <1>3, DirectoryUnchanged DEF MarkUsed
<1>4. CASE Markable(i) /\ HasAgent(a)
  <2> DEFINE row == [invites[i] EXCEPT !.used = TRUE, !.agent = a]
  <2>1. invites[i] \in InviteRows
    BY <1>1 DEF DirectoryTypeOK
  <2>2. /\ row \in InviteRows /\ row # Absent /\ row.used /\ row.agent = a
        /\ row.owner = invites[i].owner /\ row.revoked = invites[i].revoked
    BY <1>1, <2>1, DirectoryAssumption DEF InviteRows
  <2>3. /\ invites' = [invites EXCEPT ![i].used = TRUE, ![i].agent = a]
        /\ ~invites[i].used /\ ~invites[i].revoked
    BY <1>4 DEF MarkUsed, Markable
  <2>4. /\ invites' \in [InviteIds -> InviteRows \cup {Absent}] /\ invites'[i] = row
        /\ \A j \in InviteIds : j # i => invites'[j] = invites[j]
    BY <1>1, <2>1, <2>2, <2>3 DEF DirectoryTypeOK
  <2> HIDE DEF row
  <2>5. DirectoryTypeOK'
    BY <1>2, <2>4 DEF DirectoryTypeOK, HasAgent
  <2>6. InvitesSound'
    BY <1>1, <1>2, <1>4, <2>2, <2>3, <2>4 DEF InvitesSound, Owns, HasAgent
  <2>7. RowsKept
    <3>1. \A j \in InviteIds : invites[j] # Absent =>
            /\ invites'[j] # Absent
            /\ invites'[j].owner = invites[j].owner
            /\ invites[j].used => invites'[j].used
            /\ invites[j].revoked => invites'[j].revoked
      BY <2>2, <2>4
    <3> QED BY <1>2, <3>1 DEF DirectoryTypeOK, RowsKept, HasAgent
  <2> QED BY <2>5, <2>6, <2>7
<1> QED BY <1>3, <1>4

LEMMA DeleteRowKeeps ==
  ASSUME DirectoryTypeOK, InvitesSound, NEW c \in Calls, CallOK(c), DeleteRow(c)
  PROVE  /\ DirectoryTypeOK' /\ InvitesSound' /\ RowsKept
         /\ calls[c].agent \in AgentIds
         /\ agents' = [agents EXCEPT ![calls[c].agent] = Absent]
         /\ purged \subseteq purged'
         /\ HasAgent(calls[c].agent) /\ ~calls[c].asked => calls[c].agent \in purged'
<1> DEFINE a == calls[c].agent
<1>1. a \in AgentIds
  BY DEF DeleteRow, CallOK, Idle
<1>2. /\ agents' = [agents EXCEPT ![a] = Absent] /\ issued' = issued
      /\ invites' = [i \in InviteIds |-> WithoutAgent(invites[i], a)]
      /\ purged' = IF calls[c].asked \/ ~HasAgent(a) THEN purged ELSE purged \cup {a}
  BY DEF DeleteRow
<1> HIDE DEF a
<1>3. \A i \in InviteIds : invites[i] # Absent =>
        /\ invites'[i] \in InviteRows /\ invites'[i] # Absent
        /\ invites'[i].used = invites[i].used /\ invites'[i].revoked = invites[i].revoked
        /\ invites'[i].owner = invites[i].owner
        /\ invites'[i].agent # Absent => invites'[i].agent = invites[i].agent /\ invites'[i].agent # a
  <2> SUFFICES ASSUME NEW i \in InviteIds, invites[i] # Absent
               PROVE  LET row == WithoutAgent(invites[i], a) IN
                      /\ row \in InviteRows /\ row # Absent
                      /\ row.used = invites[i].used /\ row.revoked = invites[i].revoked
                      /\ row.owner = invites[i].owner
                      /\ row.agent # Absent => row.agent = invites[i].agent /\ row.agent # a
    BY <1>2
  <2>1. invites[i] \in InviteRows
    BY DEF DirectoryTypeOK
  <2>2. CASE invites[i].agent # a
    BY <2>1, <2>2, DirectoryAssumption DEF WithoutAgent
  <2>3. CASE invites[i].agent = a
    BY <2>1, <2>3, DirectoryAssumption DEF WithoutAgent, InviteRows
  <2> QED BY <2>2, <2>3
<1>4. \A i \in InviteIds : invites[i] = Absent => invites'[i] = Absent
  BY <1>2 DEF WithoutAgent
<1>5. \A b \in AgentIds : b # a => agents'[b] = agents[b]
  BY <1>1, <1>2 DEF DirectoryTypeOK
<1>6. DirectoryTypeOK'
  <2>1. agents' \in [AgentIds -> AgentRows \cup {Absent}] /\ \A b \in AgentIds : HasAgent(b)' => HasAgent(b)
    BY <1>1, <1>2 DEF DirectoryTypeOK, HasAgent
  <2>2. invites' \in [InviteIds -> InviteRows \cup {Absent}]
    <3>1. \A i \in InviteIds : WithoutAgent(invites[i], a) \in InviteRows \cup {Absent}
      BY <1>2, <1>3, <1>4
    <3> QED BY <1>2, <3>1
  <2>3. purged' \subseteq 1 .. issued'
    BY <1>1, <1>2 DEF DirectoryTypeOK, HasAgent, AgentIds
  <2> QED BY <1>2, <2>1, <2>2, <2>3 DEF DirectoryTypeOK
<1>7. InvitesSound'
  <2> SUFFICES ASSUME NEW i \in InviteIds, invites'[i] # Absent
               PROVE  /\ ~(invites'[i].used /\ invites'[i].revoked)
                      /\ invites'[i].agent # Absent =>
                           /\ invites'[i].used
                           /\ agents'[invites'[i].agent] # Absent
                           /\ agents'[invites'[i].agent].owner = invites'[i].owner
    BY DEF InvitesSound, Owns, HasAgent
  <2>1. invites[i] # Absent
    BY <1>4
  <2>2. invites[i].agent # Absent => invites[i].agent \in AgentIds
    BY <2>1 DEF DirectoryTypeOK, InviteRows
  <2> QED BY <1>3, <1>5, <2>1, <2>2 DEF InvitesSound, Owns, HasAgent
<1>8. RowsKept
  BY <1>1, <1>2, <1>3 DEF RowsKept, HasAgent, DirectoryTypeOK, AgentIds
<1> QED BY <1>1, <1>2, <1>6, <1>7, <1>8 DEF a

\* A request that was left alone still remembers what is true.
LEMMA CallStays ==
  ASSUME DirectoryTypeOK, DirectoryTypeOK', RowsKept, NEW c \in Calls, CallOK(c),
         calls'[c] = calls[c], \A g \in Games : Exists(g) => Exists(g)'
  PROVE  CallOK(c)'
<1>1. \A a \in AgentIds : \A u : IdOf(a, u) => a \in 1 .. issued' /\ (agents'[a] # Absent => agents'[a].owner = u)
  <2> SUFFICES ASSUME NEW a \in AgentIds, NEW u, IdOf(a, u)
               PROVE  a \in 1 .. issued' /\ (agents'[a] # Absent => agents'[a].owner = u)
    OBVIOUS
  <2>1. a \in 1 .. issued /\ (HasAgent(a) => agents[a].owner = u)
    BY DEF IdOf
  <2>2. issued \in Int /\ issued' \in Int /\ issued <= issued'
    BY DirectoryAssumption DEF DirectoryTypeOK, RowsKept
  <2>3. a \in 1 .. issued'
    BY <2>1, <2>2
  <2> QED BY <2>1, <2>3 DEF RowsKept, HasAgent
<1>2. \A a \in AgentIds : a <= issued => a <= issued'
  BY DirectoryAssumption DEF DirectoryTypeOK, RowsKept, AgentIds
<1>3. \A i \in InviteIds : invites[i] # Absent => invites'[i] # Absent /\ invites'[i].owner = invites[i].owner
  BY DEF RowsKept
<1> DEFINE call == calls[c]
<1>4. CASE call = Idle
  BY <1>4 DEF CallOK
<1>5. CASE /\ call \in [kind : {"creating"}, invite : InviteIds, protocol : {"http", "ws"}, agent : {Absent}]
           /\ invites[call.invite] # Absent
  BY <1>3, <1>5 DEF CallOK
<1>6. CASE /\ call \in [kind : {"marking"}, invite : InviteIds, protocol : {"http", "ws"}, agent : AgentIds]
           /\ invites[call.invite] # Absent
           /\ IdOf(call.agent, invites[call.invite].owner)
  <2> DEFINE a == call.agent
  <2>1. call.agent \in AgentIds /\ call.invite \in InviteIds
    BY <1>6
  <2>2. /\ call.agent \in 1 .. issued'
        /\ agents'[call.agent] # Absent => agents'[call.agent].owner = invites'[call.invite].owner
    BY <1>1, <1>3, <1>6, <2>1
  <2> QED BY <1>3, <1>6, <2>1, <2>2 DEF CallOK, IdOf, HasAgent
<1>7. CASE /\ call \in [kind : {"resolving"}, user : Users, game : Games, seat : Seats, agent : AgentIds]
           /\ Exists(call.game)
           /\ call.agent <= issued
  <2>1. call.game \in Games /\ lobby'[call.game] # Absent /\ call.agent <= issued'
    BY <1>2, <1>7 DEF Exists
  <2> QED BY <1>7, <2>1 DEF CallOK, Exists
<1>8. CASE /\ call \in [kind : {"resolved"}, user : Users, game : Games, seat : Seats, agent : AgentIds,
                        protocol : {"http", "ws"}]
           /\ Exists(call.game)
           /\ IdOf(call.agent, call.user)
  <2>1. call.game \in Games /\ lobby'[call.game] # Absent
    BY <1>8 DEF Exists
  <2>2. /\ call.agent \in 1 .. issued'
        /\ agents'[call.agent] # Absent => agents'[call.agent].owner = call.user
    BY <1>1, <1>8
  <2> QED BY <1>8, <2>1, <2>2 DEF CallOK, Exists, IdOf, HasAgent
<1>9. CASE call \in [kind : {"deleting"}, agent : AgentIds, asked : BOOLEAN]
  BY <1>9 DEF CallOK
<1> QED BY <1>4, <1>5, <1>6, <1>7, <1>8, <1>9 DEF CallOK

\* One request ends or takes its next step, the others are left alone.
LEMMA CallsInvKept ==
  ASSUME LobbyInv, DirectoryTypeOK', RowsKept, \A g \in Games : Exists(g) => Exists(g)',
         NEW c \in Calls, NEW call, calls' = [calls EXCEPT ![c] = call],
         CallOK(c)'
  PROVE  CallsInv'
<1>1. DOMAIN calls = Calls /\ \A d \in Calls : CallOK(d)
  BY DEF LobbyInv, CallsInv
<1>2. DOMAIN calls' = Calls /\ \A d \in Calls : d # c => calls'[d] = calls[d]
  BY <1>1
<1>3. \A d \in Calls : d # c => CallOK(d)'
  BY <1>1, <1>2, CallStays DEF LobbyInv, LobbySound, LobbyTypeOK
<1> QED BY <1>2, <1>3 DEF CallsInv

\* A step that leaves the lobby alone keeps what its entries say.
LEMMA LobbyStays ==
  ASSUME LobbyInv, UNCHANGED lobbyVars, DirectoryTypeOK', RowsKept
  PROVE  LobbySound' /\ RunInv' /\ SeatsIssued'
<1> USE DEF LobbyInv, LobbySound
<1>1. lobby' = lobby /\ adapters' = adapters
  BY DEF lobbyVars
<1>2. LobbyTypeOK' /\ RunInv'
  BY <1>1 DEF LobbyTypeOK, RunInv, RunFits, Exists
<1>3. SeatsIssued'
  <2> SUFFICES ASSUME NEW g \in Games, Exists(g), NEW i \in Seats, lobby[g].seats[i].kind = "agent"
               PROVE  lobby[g].seats[i].agent <= issued'
    BY <1>1 DEF SeatsIssued, Exists
  <2>1. lobby[g].seats[i] \in Occupants
    BY DEF LobbyTypeOK, Entries, Exists
  <2>2. lobby[g].seats[i].agent \in AgentIds
    BY <2>1 DEF Occupants, AgentSeat, Empty, Npc
  <2>3. lobby[g].seats[i].agent <= issued
    BY DEF SeatsIssued
  <2> QED BY <2>2, <2>3 DEF LobbyTypeOK, DirectoryTypeOK, RowsKept, AgentIds
<1>4. SeatsHold'
  <2> SUFFICES ASSUME NEW g \in Games, Exists(g), NEW i \in Seats, lobby[g].seats[i].kind = "agent",
                      agents'[lobby[g].seats[i].agent] # Absent
               PROVE  agents'[lobby[g].seats[i].agent].owner = lobby[g].seats[i].owner
    BY <1>1 DEF SeatsHold, Exists, IsEmpty, Owns, HasAgent
  <2>1. lobby[g].seats[i] \in Occupants
    BY DEF LobbyTypeOK, Entries, Exists
  <2>2. lobby[g].seats[i].agent \in AgentIds
    BY <2>1 DEF Occupants, AgentSeat, Empty, Npc
  <2>3. lobby[g].seats[i].agent \in 1 .. issued
    BY <2>2 DEF SeatsIssued, AgentIds, LobbyTypeOK, DirectoryTypeOK
  <2>4. HasAgent(lobby[g].seats[i].agent)
        /\ agents'[lobby[g].seats[i].agent].owner = agents[lobby[g].seats[i].agent].owner
    BY <2>3 DEF RowsKept, HasAgent
  <2> QED BY <2>4 DEF SeatsHold, Owns, HasAgent
<1> QED BY <1>2, <1>3, <1>4

\* What protects a seated agent survives a step of the directory that deletes no
\* row, and in which no call begins that asked while the agent was seated.
LEMMA ProtectionStays ==
  ASSUME LobbyInv, UNCHANGED lobbyVars, purged \subseteq purged',
         \A a \in AgentIds : HasAgent(a) => HasAgent(a)',
         \A c \in Calls : calls'[c].kind = "deleting" =>
           calls'[c] = calls[c] \/ (calls'[c].asked => ~InUse(calls'[c].agent))
  PROVE  RowsOutliveSeats' /\ AskedMeetsLate'
<1> USE DEF LobbyInv, LobbySound, DirectorySound
<1>1. lobby' = lobby
  BY DEF lobbyVars
<1>2. \A g \in Games, i \in Seats : Live(g) /\ lobby[g].seats[i].kind = "agent" =>
        lobby[g].seats[i].agent \in AgentIds
  <2> SUFFICES ASSUME NEW g \in Games, NEW i \in Seats, Live(g), lobby[g].seats[i].kind = "agent"
               PROVE  lobby[g].seats[i].agent \in AgentIds
    OBVIOUS
  <2>1. lobby[g].seats[i] \in Occupants
    BY DEF LobbyTypeOK, Entries, Exists, Live
  <2> QED BY <2>1 DEF Occupants, AgentSeat, Empty, Npc
<1>3. RowsOutliveSeats'
  BY <1>1, <1>2 DEF RowsOutliveSeats, Live, Exists, HasAgent
<1>4. AskedMeetsLate'
  BY <1>1 DEF AskedMeetsLate, Live, Exists, InUse, Holds
<1> QED BY <1>3, <1>4

LEMMA CallsUnchanged ==
  ASSUME LobbyInv, DirectoryTypeOK', RowsKept, \A g \in Games : Exists(g) => Exists(g)', UNCHANGED calls
  PROVE  CallsInv'
BY CallStays DEF LobbyInv, LobbySound, LobbyTypeOK, CallsInv

\* CallsInvKept where the request ends.
LEMMA CallEnds ==
  ASSUME LobbyInv, DirectoryTypeOK', RowsKept, \A g \in Games : Exists(g) => Exists(g)',
         NEW c \in Calls, Ends(c)
  PROVE  /\ CallsInv'
         /\ \A d \in Calls : calls'[d].kind = "deleting" => calls'[d] = calls[d]
<1>1. calls' = [calls EXCEPT ![c] = Idle] /\ DOMAIN calls = Calls
  BY DEF Ends, LobbyInv, CallsInv
<1>2. calls'[c] = Idle /\ \A d \in Calls : d # c => calls'[d] = calls[d]
  BY <1>1
<1>3. CallOK(c)'
  BY <1>2 DEF CallOK, Idle
<1> QED BY <1>1, <1>2, <1>3, CallsInvKept DEF Idle

\* The steps of the directory that delete no row.
LEMMA DirectoryStep ==
  ASSUME LobbyInv, UNCHANGED lobbyVars, DirectoryTypeOK', InvitesSound', RowsKept, CallsInv',
         purged \subseteq purged',
         \A a \in AgentIds : HasAgent(a) => HasAgent(a)',
         \A c \in Calls : calls'[c].kind = "deleting" =>
           calls'[c] = calls[c] \/ (calls'[c].asked => ~InUse(calls'[c].agent))
  PROVE  LobbyInv'
BY LobbyStays, ProtectionStays DEF LobbyInv, DirectorySound

LEMMA SetsCall ==
  ASSUME LobbyInv, NEW c \in Calls, NEW call, calls' = [calls EXCEPT ![c] = call]
  PROVE  calls'[c] = call /\ \A d \in Calls : d # c => calls'[d] = calls[d]
BY DEF LobbyInv, CallsInv

\* A request begins or goes on, and no row is touched.
LEMMA CallStep ==
  ASSUME LobbyInv, UNCHANGED <<directory, lobbyVars>>,
         NEW c \in Calls, NEW call, calls' = [calls EXCEPT ![c] = call],
         call = calls'[c] => CallOK(c)',
         call.kind = "deleting" => (call.asked => ~InUse(call.agent))
  PROVE  LobbyInv'
<1>1. UNCHANGED <<agents, issued, invites, purged>> /\ lobby' = lobby
  BY DEF directory, lobbyVars
<1>2. DirectoryTypeOK' /\ InvitesSound' /\ RowsKept
  BY <1>1, DirectoryUnchanged DEF LobbyInv, LobbySound, LobbyTypeOK, DirectorySound
<1>3. calls'[c] = call /\ \A d \in Calls : d # c => calls'[d] = calls[d]
  BY SetsCall
<1>4. CallsInv'
  BY <1>1, <1>2, <1>3, CallsInvKept DEF Exists
<1>5. \A d \in Calls : calls'[d].kind = "deleting" =>
        calls'[d] = calls[d] \/ (calls'[d].asked => ~InUse(calls'[d].agent))
  BY <1>3
<1> QED BY <1>1, <1>2, <1>4, <1>5, DirectoryStep DEF HasAgent

\* The rows change, and the requests under way go on.
LEMMA RowStep ==
  ASSUME LobbyInv, UNCHANGED <<lobbyVars, purged, calls>>, DirectoryTypeOK', InvitesSound', RowsKept,
         \A a \in AgentIds : HasAgent(a) => HasAgent(a)'
  PROVE  LobbyInv'
<1>1. CallsInv'
  BY CallsUnchanged DEF lobbyVars, Exists
<1> QED BY <1>1, DirectoryStep

LEMMA InsertStep ==
  ASSUME LobbyInv, NEW u \in Users, NEW p \in Protocols, Insert(u, p),
         UNCHANGED <<invites, purged, calls, lobbyVars>>
  PROVE  LobbyInv' /\ RowsKept
<1>1. /\ DirectoryTypeOK' /\ InvitesSound' /\ RowsKept
      /\ \A a \in 1 .. issued : agents'[a] = agents[a]
  BY InsertKeeps DEF LobbyInv, LobbySound, LobbyTypeOK, DirectorySound
<1>2. \A a \in AgentIds : HasAgent(a) => a \in 1 .. issued
  BY DirectoryAssumption DEF LobbyInv, LobbySound, LobbyTypeOK, DirectoryTypeOK, AgentIds
<1> QED BY <1>1, <1>2, RowStep DEF HasAgent

LEMMA RegisterStep ==
  ASSUME LobbyInv, NEW c \in Calls, NEW i \in InviteIds, NEW p \in {"http", "ws"}, Register(c, i, p),
         UNCHANGED lobbyVars
  PROVE  LobbyInv'
<1> DEFINE call == [kind |-> "creating", invite |-> i, protocol |-> p, agent |-> Absent]
<1>1. /\ calls' = [calls EXCEPT ![c] = call] /\ UNCHANGED directory
      /\ invites' = invites /\ invites[i] # Absent
  BY DEF Register, directory
<1>2. /\ call \in [kind : {"creating"}, invite : InviteIds, protocol : {"http", "ws"}, agent : {Absent}]
      /\ call.invite = i /\ call.kind # "deleting"
  OBVIOUS
<1> HIDE DEF call
<1>3. call = calls'[c] => CallOK(c)'
  BY <1>1, <1>2 DEF CallOK
<1> QED BY <1>1, <1>2, <1>3, CallStep

LEMMA CreateRegisteredStep ==
  ASSUME LobbyInv, NEW c \in Calls, CreateRegistered(c), UNCHANGED lobbyVars
  PROVE  LobbyInv' /\ RowsKept
<1>1. /\ calls[c] \in [kind : {"creating"}, invite : InviteIds, protocol : {"http", "ws"}, agent : {Absent}]
      /\ invites[calls[c].invite] # Absent
  BY DEF CreateRegistered, LobbyInv, CallsInv, CallOK, Idle
<1> DEFINE i == calls[c].invite
           u == invites[i].owner
           call == [calls[c] EXCEPT !.kind = "marking", !.agent = issued + 1]
<1>2. u \in Users /\ calls[c].protocol \in Protocols
  BY <1>1 DEF LobbyInv, LobbySound, LobbyTypeOK, DirectoryTypeOK, InviteRows, Protocols
<1>3. /\ Insert(u, calls[c].protocol) /\ UNCHANGED <<invites, purged>>
      /\ calls' = [calls EXCEPT ![c].kind = "marking", ![c].agent = issued + 1]
  BY DEF CreateRegistered
<1>4. /\ DirectoryTypeOK' /\ InvitesSound' /\ RowsKept
      /\ issued' = issued + 1 /\ issued' \in AgentIds
      /\ agents'[issued'] # Absent /\ agents'[issued'].owner = u
      /\ \A a \in 1 .. issued : agents'[a] = agents[a]
  BY <1>2, <1>3, InsertKeeps DEF LobbyInv, LobbySound, LobbyTypeOK, DirectorySound
<1>5. \A a \in AgentIds : HasAgent(a) => HasAgent(a)'
  <2>1. \A a \in AgentIds : HasAgent(a) => a \in 1 .. issued
    BY DirectoryAssumption DEF LobbyInv, LobbySound, LobbyTypeOK, DirectoryTypeOK, AgentIds
  <2> QED BY <1>4, <2>1 DEF HasAgent
<1>6. calls' = [calls EXCEPT ![c] = call]
  BY <1>3 DEF LobbyInv, CallsInv
<1>7. /\ call \in [kind : {"marking"}, invite : InviteIds, protocol : {"http", "ws"}, agent : AgentIds]
      /\ call.invite = i /\ call.agent = issued' /\ call.kind = "marking"
  BY <1>1, <1>4
<1>8. /\ calls'[c] = call /\ \A d \in Calls : d # c => calls'[d] = calls[d]
  BY <1>6, SetsCall
<1>9. CallOK(c)'
  <2>1. /\ invites'[i] # Absent /\ invites'[i].owner = u
        /\ issued' \in 1 .. issued'
    BY <1>1, <1>3, <1>4 DEF AgentIds
  <2> HIDE DEF i, u, call
  <2> QED BY <1>4, <1>7, <1>8, <2>1 DEF CallOK, IdOf, HasAgent
<1> HIDE DEF i, u, call
<1>10. \A g \in Games : Exists(g) => Exists(g)'
  BY DEF lobbyVars, Exists
<1>11. CallsInv'
  BY <1>4, <1>6, <1>9, <1>10, CallsInvKept
<1>12. \A d \in Calls : calls'[d].kind = "deleting" => calls'[d] = calls[d]
  BY <1>7, <1>8
<1> QED BY <1>3, <1>4, <1>5, <1>11, <1>12, DirectoryStep

LEMMA MarkUsedStep ==
  ASSUME LobbyInv, NEW c \in Calls, MarkUsed(c), UNCHANGED lobbyVars
  PROVE  LobbyInv' /\ RowsKept
<1>1. CallOK(c)
  BY DEF LobbyInv, CallsInv
<1>2. DirectoryTypeOK' /\ InvitesSound' /\ RowsKept
  BY <1>1, MarkUsedKeeps DEF LobbyInv, LobbySound, LobbyTypeOK, DirectorySound
<1>3. Ends(c) /\ UNCHANGED <<agents, purged>>
  BY DEF MarkUsed
<1>4. \A g \in Games : Exists(g) => Exists(g)'
  BY DEF lobbyVars, Exists
<1>5. CallsInv' /\ \A d \in Calls : calls'[d].kind = "deleting" => calls'[d] = calls[d]
  BY <1>2, <1>3, <1>4, CallEnds
<1> QED BY <1>2, <1>3, <1>5, DirectoryStep DEF HasAgent

\* An agent that loses its row: the call asked, and then every live seat of his
\* is late; or it did not, and he is purged.
LEMMA DeleteRowStep ==
  ASSUME LobbyInv, NEW c \in Calls, DeleteRow(c), UNCHANGED lobbyVars
  PROVE  LobbyInv' /\ RowsKept
<1> DEFINE a == calls[c].agent
<1>1. CallOK(c) /\ calls[c].kind = "deleting" /\ Ends(c) /\ lobby' = lobby
  BY DEF LobbyInv, CallsInv, DeleteRow, lobbyVars
<1>2. /\ DirectoryTypeOK' /\ InvitesSound' /\ RowsKept
      /\ a \in AgentIds /\ agents' = [agents EXCEPT ![a] = Absent]
      /\ purged \subseteq purged' /\ (HasAgent(a) /\ ~calls[c].asked => a \in purged')
  BY <1>1, DeleteRowKeeps DEF LobbyInv, LobbySound, LobbyTypeOK, DirectorySound
<1>3. \A g \in Games : Exists(g) => Exists(g)'
  BY <1>1 DEF Exists
<1>4. CallsInv' /\ \A d \in Calls : calls'[d].kind = "deleting" => calls'[d] = calls[d]
  BY <1>1, <1>2, <1>3, CallEnds
<1>5. LobbySound' /\ RunInv' /\ SeatsIssued'
  BY <1>2, LobbyStays
<1>6. AskedMeetsLate'
  BY <1>1, <1>4 DEF LobbyInv, AskedMeetsLate, Live, Exists
<1>7. RowsOutliveSeats'
  <2> SUFFICES ASSUME NEW g \in Games, Live(g), NEW i \in Seats, lobby[g].seats[i].kind = "agent"
               PROVE  \/ agents'[lobby[g].seats[i].agent] # Absent
                      \/ lobby[g].seats[i].late
                      \/ lobby[g].seats[i].agent \in purged'
    BY <1>1 DEF RowsOutliveSeats, Live, Exists, HasAgent
  <2> DEFINE s == lobby[g].seats[i]
  <2>1. s \in Occupants
    BY DEF LobbyInv, LobbySound, LobbyTypeOK, Entries, Exists, Live
  <2>2. s.agent \in AgentIds
    BY <2>1 DEF Occupants, AgentSeat, Empty, Npc
  <2>3. HasAgent(s.agent) \/ s.late \/ s.agent \in purged
    BY DEF LobbyInv, DirectorySound, RowsOutliveSeats
  <2>4. CASE s.agent # a
    BY <1>2, <2>2, <2>3, <2>4 DEF HasAgent, LobbyInv, LobbySound, LobbyTypeOK, DirectoryTypeOK
  <2>5. CASE s.agent = a /\ calls[c].asked
    BY <1>1, <2>5 DEF LobbyInv, AskedMeetsLate
  <2>6. CASE s.agent = a /\ ~calls[c].asked
    BY <1>2, <2>3, <2>6
  <2> QED BY <2>4, <2>5, <2>6
<1> QED BY <1>2, <1>4, <1>5, <1>6, <1>7 DEF LobbyInv, DirectorySound

LEMMA EndStep ==
  ASSUME LobbyInv, NEW c \in Calls, Ends(c), UNCHANGED <<directory, lobbyVars>>
  PROVE  LobbyInv'
<1>1. calls' = [calls EXCEPT ![c] = Idle] /\ Idle.kind # "deleting"
  BY DEF Ends, Idle
<1>2. Idle = calls'[c] => CallOK(c)'
  BY DEF CallOK, Idle
<1> QED BY <1>1, <1>2, CallStep

-----------------------------------------------------------------------------
(* The lobby's steps.                                                       *)

\* What one entry says, of itself and of the adapters.
EntryFits(game) ==
  /\ game \in Entries
  /\ game.attached <=> game.status = "running"
  /\ game.decided => game.status \in {"running", "completed"}
  /\ RunFits(game)
  /\ game.status = "waiting" <=> \E i \in Seats : game.seats[i] = Empty
  /\ \A i \in Seats : game.seats[i].kind = "agent" =>
       \A j \in Seats \ {i} : game.seats[j] # Npc /\ game.seats[j] # Empty =>
         game.seats[j].agent # game.seats[i].agent

LEMMA EntryFitsNow ==
  ASSUME LobbyInv, NEW g \in Games, Exists(g)
  PROVE  EntryFits(lobby[g]) /\ adapters[g] = lobby[g].seats
BY DEF LobbyInv, LobbySound, LobbyTypeOK, SeatsHold, RunInv, EntryFits, Exists, IsEmpty

\* Of an agent that takes a seat: who put him there owns him, and if no deletion
\* is under way he has his row.
Seatable(seat) ==
  /\ IdOf(seat.agent, seat.owner)
  /\ seat.late \/ (HasAgent(seat.agent) /\ ~Deleting(seat.agent))

\* One entry changes, and a seat that holds an agent afterwards did so before, in
\* a live game, or got one that may sit there.
LEMMA EntryChanges ==
  ASSUME LobbyInv, UNCHANGED directory, CallsInv',
         \A c \in Calls : calls'[c].kind = "deleting" => calls'[c] = calls[c],
         NEW g \in Games, NEW e, EntryFits(e),
         lobby' = [lobby EXCEPT ![g] = e], adapters' = [adapters EXCEPT ![g] = e.seats],
         \A i \in Seats : e.seats[i].kind = "agent" =>
           (Live(g) /\ e.seats[i] = lobby[g].seats[i]) \/ Seatable(e.seats[i])
  PROVE  LobbyInv'
<1>1. UNCHANGED <<agents, issued, invites, purged>>
  BY DEF directory
<1>2. DirectoryTypeOK' /\ InvitesSound' /\ DirectoryTypeOK
  BY <1>1, DirectoryUnchanged DEF LobbyInv, LobbySound, LobbyTypeOK, DirectorySound
<1>3. /\ lobby' \in [Games -> Entries \cup {Absent}] /\ lobby'[g] = e
      /\ \A h \in Games : h # g => lobby'[h] = lobby[h]
  BY DEF EntryFits, LobbyInv, LobbySound, LobbyTypeOK
<1>4. /\ e.seats \in [Seats -> Occupants]
      /\ adapters' \in [Games -> [Seats -> Occupants]] /\ adapters'[g] = e.seats
      /\ \A h \in Games : h # g => adapters'[h] = adapters[h]
  BY DEF EntryFits, Entries, LobbyInv, LobbySound, LobbyTypeOK
<1>5. LobbyTypeOK' /\ RunInv'
  BY <1>2, <1>3, <1>4 DEF EntryFits, RunInv, Exists, LobbyInv, LobbySound, LobbyTypeOK, RunFits
<1>6. SeatsIssued' /\ SeatsHold'
  <2> SUFFICES ASSUME NEW h \in Games, lobby'[h] # Absent
               PROVE  /\ \A i \in Seats : lobby'[h].seats[i].kind = "agent" =>
                           IdOf(lobby[h]'.seats[i].agent, lobby[h]'.seats[i].owner)
                      /\ lobby'[h].status = "waiting" <=> \E i \in Seats : lobby'[h].seats[i] = Empty
                      /\ adapters'[h] = lobby'[h].seats
                      /\ \A i \in Seats : lobby'[h].seats[i].kind = "agent" =>
                           \A j \in Seats \ {i} :
                             lobby'[h].seats[j] # Npc /\ lobby'[h].seats[j] # Empty =>
                               lobby'[h].seats[j].agent # lobby'[h].seats[i].agent
    <3>1. /\ \A u : \A a : IdOf(a, u) => a <= issued'
          /\ \A u : \A a : IdOf(a, u) /\ HasAgent(a)' => Owns(u, a)'
      BY <1>1, <1>2 DEF IdOf, Owns, HasAgent, DirectoryTypeOK, AgentIds
    <3>2. SeatsIssued'
      BY <3>1 DEF SeatsIssued, Exists
    <3>3. SeatsHold'
      BY <3>1 DEF SeatsHold, Exists, IsEmpty
    <3> QED BY <3>2, <3>3
  <2>1. \A k \in Games, i \in Seats : Exists(k) /\ lobby[k].seats[i].kind = "agent" =>
          IdOf(lobby[k].seats[i].agent, lobby[k].seats[i].owner)
    <3> SUFFICES ASSUME NEW k \in Games, NEW i \in Seats, Exists(k), lobby[k].seats[i].kind = "agent"
                 PROVE  IdOf(lobby[k].seats[i].agent, lobby[k].seats[i].owner)
      OBVIOUS
    <3>1. lobby[k].seats[i] \in Occupants
      BY DEF LobbyInv, LobbySound, LobbyTypeOK, Entries, Exists
    <3>2. lobby[k].seats[i].agent \in AgentIds
      BY <3>1 DEF Occupants, AgentSeat, Empty, Npc
    <3>3. lobby[k].seats[i].agent \in 1 .. issued
      BY <1>2, <3>2 DEF LobbyInv, SeatsIssued, DirectoryTypeOK, AgentIds
    <3> QED BY <3>3 DEF LobbyInv, LobbySound, SeatsHold, IdOf, Owns
  <2>2. CASE h # g
    BY <1>3, <1>4, <2>1, <2>2 DEF LobbyInv, LobbySound, SeatsHold, Exists, IsEmpty
  <2>3. CASE h = g
    BY <1>3, <1>4, <2>1, <2>3 DEF EntryFits, Seatable, Live
  <2> QED BY <2>2, <2>3
<1>7. RowsOutliveSeats'
  <2> SUFFICES ASSUME NEW h \in Games, Live(h)', NEW i \in Seats, lobby'[h].seats[i].kind = "agent"
               PROVE  \/ HasAgent(lobby[h]'.seats[i].agent)
                      \/ lobby'[h].seats[i].late
                      \/ lobby'[h].seats[i].agent \in purged
    BY <1>1 DEF RowsOutliveSeats, HasAgent
  <2>1. CASE h # g
    BY <1>3, <2>1 DEF LobbyInv, DirectorySound, RowsOutliveSeats, Live, Exists
  <2>2. CASE h = g
    BY <1>3, <2>2 DEF LobbyInv, DirectorySound, RowsOutliveSeats, Seatable
  <2> QED BY <2>1, <2>2
<1>8. AskedMeetsLate'
  <2> SUFFICES ASSUME NEW c \in Calls, calls[c].kind = "deleting", calls[c].asked,
                      NEW h \in Games, Live(h)', NEW i \in Seats, lobby'[h].seats[i].kind = "agent",
                      lobby'[h].seats[i].agent = calls[c].agent
               PROVE  lobby'[h].seats[i].late
    BY DEF AskedMeetsLate
  <2>1. CASE h # g
    BY <1>3, <2>1 DEF LobbyInv, AskedMeetsLate, Live, Exists
  <2>2. CASE h = g
    BY <1>3, <2>2 DEF LobbyInv, AskedMeetsLate, Seatable, Deleting
  <2> QED BY <2>1, <2>2
<1> QED BY <1>2, <1>5, <1>6, <1>7, <1>8 DEF LobbyInv, LobbySound, DirectorySound

\* The same for a step that touches neither the rows nor the requests.
LEMMA EntryStep ==
  ASSUME LobbyInv, UNCHANGED directoryVars,
         NEW g \in Games, NEW e, EntryFits(e), \A h \in Games : Exists(h) => Exists(h)',
         lobby' = [lobby EXCEPT ![g] = e], adapters' = [adapters EXCEPT ![g] = e.seats],
         \A i \in Seats : e.seats[i].kind = "agent" => Live(g) /\ e.seats[i] = lobby[g].seats[i]
  PROVE  LobbyInv'
<1>1. UNCHANGED directory /\ UNCHANGED <<agents, issued, invites, purged>> /\ UNCHANGED calls
  BY DEF directoryVars, directory
<1>2. DirectoryTypeOK' /\ InvitesSound' /\ RowsKept
  BY <1>1, DirectoryUnchanged DEF LobbyInv, LobbySound, LobbyTypeOK, DirectorySound
<1>3. CallsInv'
  BY <1>1, <1>2, CallsUnchanged
<1> QED BY <1>1, <1>3, EntryChanges

\* What SettledStays says of the games.
GamesForward ==
  \A g \in Games : Exists(g) /\ Exists(g)' =>
    /\ \A i \in Seats : ~IsEmpty(g, i) => lobby'[g].seats[i] = lobby[g].seats[i]
    /\ Order[lobby[g].status] <= Order[lobby'[g].status]
    /\ ~Live(g) => lobby'[g] = lobby[g]

LEMMA SameLobbyForward ==
  ASSUME LobbyInv, lobby' = lobby
  PROVE  GamesForward
<1>1. \A g \in Games : Exists(g) => lobby[g].status \in Statuses
  BY DEF LobbyInv, LobbySound, LobbyTypeOK, Entries, Exists
<1>2. \A s \in Statuses : Order[s] \in Int
  BY DEF Statuses, Order
<1> QED BY <1>1, <1>2 DEF GamesForward, Exists

LEMMA EntryForward ==
  ASSUME LobbyInv, NEW g \in Games, NEW e, lobby' = [lobby EXCEPT ![g] = e],
         Exists(g) => /\ Live(g) /\ Order[lobby[g].status] <= Order[e.status]
                      /\ \A i \in Seats : lobby[g].seats[i] # Empty => e.seats[i] = lobby[g].seats[i]
  PROVE  GamesForward
<1>1. \A h \in Games : Exists(h) => lobby[h].status \in Statuses
  BY DEF LobbyInv, LobbySound, LobbyTypeOK, Entries, Exists
<1>2. \A s \in Statuses : Order[s] \in Int
  BY DEF Statuses, Order
<1>3. lobby'[g] = e /\ \A h \in Games : h # g => lobby'[h] = lobby[h]
  BY DEF LobbyInv, LobbySound, LobbyTypeOK
<1> QED BY <1>1, <1>2, <1>3 DEF GamesForward, IsEmpty, Exists

\* Giving a seat, or all empty ones, in a game that waits.
LEMMA SeatedFits ==
  ASSUME LobbyInv, NEW g \in Games, Exists(g), lobby[g].status = "waiting",
         NEW seats \in [Seats -> Occupants], Seated(g, seats),
         \A i \in Seats : seats[i].kind = "agent" =>
           \A j \in Seats \ {i} : seats[j] # Npc /\ seats[j] # Empty => seats[j].agent # seats[i].agent,
         \A i \in Seats : lobby[g].seats[i] # Empty => seats[i] = lobby[g].seats[i]
  PROVE  /\ GamesForward
         /\ \E e : /\ EntryFits(e) /\ lobby' = [lobby EXCEPT ![g] = e] /\ e.seats = seats
                  /\ \A h \in Games : Exists(h) => Exists(h)'
<1> DEFINE e == [lobby[g] EXCEPT !.seats = seats, !.status = IF AllSeated(seats) THEN "ready" ELSE @]
<1>1. EntryFits(lobby[g]) /\ lobby[g] \in Entries
  BY EntryFitsNow DEF EntryFits
<1>2. lobby' = [lobby EXCEPT ![g] = e]
  BY DEF Seated, LobbyInv, LobbySound, LobbyTypeOK
<1>3. /\ e \in Entries /\ e.seats = seats /\ e.status = (IF AllSeated(seats) THEN "ready" ELSE "waiting")
      /\ e.attached = lobby[g].attached /\ e.decided = lobby[g].decided /\ e.run = lobby[g].run
  BY <1>1 DEF Entries, Statuses
<1> HIDE DEF e
<1>4. EntryFits(e)
  BY <1>1, <1>3 DEF EntryFits, RunFits, AllSeated
<1>5. \A h \in Games : Exists(h) => Exists(h)'
  BY <1>2, <1>3, LobbyAssumption DEF Exists, LobbyInv, LobbySound, LobbyTypeOK
<1>6. GamesForward
  <2>1. Live(g) /\ Order["waiting"] <= Order[e.status]
    BY <1>3 DEF Live, Order
  <2> QED BY <1>2, <1>3, <2>1, EntryForward
<1> QED BY <1>2, <1>3, <1>4, <1>5, <1>6

LEMMA CreateStep ==
  ASSUME LobbyInv, NEW u \in Users, NEW g \in Games, Create(u, g)
  PROVE  LobbyInv' /\ GamesForward
<1> DEFINE empty == [i \in Seats |-> Empty]
           e == [status |-> "waiting", creator |-> u, seats |-> empty,
                 attached |-> FALSE, run |-> "none", decided |-> FALSE]
<1>1. empty \in [Seats -> Occupants] /\ \A i \in Seats : empty[i] = Empty
  BY DEF Occupants
<1> HIDE DEF empty
<1>2. /\ e \in Entries /\ e.seats = empty /\ e.status = "waiting" /\ e.run = "none"
      /\ ~e.attached /\ ~e.decided
  BY <1>1 DEF Entries, Statuses
<1>3. /\ lobby' = [lobby EXCEPT ![g] = e] /\ adapters' = [adapters EXCEPT ![g] = empty]
      /\ UNCHANGED directoryVars /\ ~Exists(g)
  BY DEF Create, empty
<1> HIDE DEF e
<1>4. \E i \in Seats : TRUE
  BY LobbyAssumption
<1>5. EntryFits(e)
  BY <1>1, <1>2, <1>4 DEF EntryFits, RunFits, Empty
<1>6. \A h \in Games : Exists(h) => Exists(h)'
  BY <1>3 DEF Exists, LobbyInv, LobbySound, LobbyTypeOK
<1>7. \A i \in Seats : e.seats[i].kind # "agent"
  BY <1>1, <1>2 DEF Empty
<1>8. GamesForward
  BY <1>3, EntryForward
<1> QED BY <1>2, <1>3, <1>5, <1>6, <1>7, <1>8, EntryStep

LEMMA InviteNpcStep ==
  ASSUME LobbyInv, NEW u \in Users, NEW g \in Games, NEW i \in Seats, InviteNpc(u, g, i)
  PROVE  LobbyInv' /\ GamesForward
<1> DEFINE old == lobby[g].seats
           seats == [old EXCEPT ![i] = Npc]
<1>1. /\ Exists(g) /\ lobby[g].status = "waiting" /\ Seated(g, seats) /\ UNCHANGED directoryVars
      /\ adapters' = [adapters EXCEPT ![g][i] = Npc]
  BY DEF InviteNpc
<1>2. EntryFits(lobby[g]) /\ adapters[g] = old /\ old \in [Seats -> Occupants]
  BY <1>1, EntryFitsNow DEF EntryFits, Entries
<1>3. seats \in [Seats -> Occupants]
  BY <1>2 DEF Occupants
<1>4. \A j \in Seats : seats[j].kind = "agent" => j # i /\ seats[j] = old[j]
  BY <1>2 DEF Npc
<1>5. \A j \in Seats : seats[j].kind = "agent" =>
        \A k \in Seats \ {j} : seats[k] # Npc /\ seats[k] # Empty => seats[k].agent # seats[j].agent
  BY <1>2, <1>4 DEF EntryFits
<1>6. adapters' = [adapters EXCEPT ![g] = seats]
  BY <1>1, <1>2 DEF LobbyInv, LobbySound, LobbyTypeOK
<1>7. \A j \in Seats : old[j] # Empty => seats[j] = old[j]
  BY <1>2 DEF InviteNpc, IsEmpty
<1> HIDE DEF seats
<1>8. /\ GamesForward
      /\ \E e : /\ EntryFits(e) /\ lobby' = [lobby EXCEPT ![g] = e] /\ e.seats = seats
               /\ \A h \in Games : Exists(h) => Exists(h)'
  BY <1>1, <1>3, <1>5, <1>7, SeatedFits
<1>9. PICK e : /\ EntryFits(e) /\ lobby' = [lobby EXCEPT ![g] = e] /\ e.seats = seats
               /\ \A h \in Games : Exists(h) => Exists(h)'
  BY <1>8
<1>10. Live(g)
  BY <1>1 DEF Live
<1> QED BY <1>1, <1>4, <1>6, <1>8, <1>9, <1>10, EntryStep

LEMMA FillWithNpcsStep ==
  ASSUME LobbyInv, NEW u \in Users, NEW g \in Games, FillWithNpcs(u, g)
  PROVE  LobbyInv' /\ GamesForward
<1> DEFINE old == lobby[g].seats
           seats == [i \in Seats |-> IF old[i] = Empty THEN Npc ELSE old[i]]
<1>1. /\ Exists(g) /\ lobby[g].status = "waiting" /\ Seated(g, seats) /\ UNCHANGED directoryVars
      /\ adapters' = [adapters EXCEPT ![g] = [i \in Seats |-> IF @[i] = Empty THEN Npc ELSE @[i]]]
  BY DEF FillWithNpcs
<1>2. EntryFits(lobby[g]) /\ adapters[g] = old /\ old \in [Seats -> Occupants]
  BY <1>1, EntryFitsNow DEF EntryFits, Entries
<1>3. seats \in [Seats -> Occupants]
  BY <1>2 DEF Occupants
<1>4. \A j \in Seats : seats[j].kind = "agent" => seats[j] = old[j]
  BY <1>2 DEF Npc
<1>5. \A j \in Seats : seats[j] # Npc => seats[j] = old[j]
  BY <1>2
<1>6. \A j \in Seats : seats[j].kind = "agent" =>
        \A k \in Seats \ {j} : seats[k] # Npc /\ seats[k] # Empty => seats[k].agent # seats[j].agent
  <2> HIDE DEF seats
  <2> QED BY <1>2, <1>4, <1>5 DEF EntryFits
<1>7. adapters' = [adapters EXCEPT ![g] = seats]
  BY <1>1, <1>2 DEF LobbyInv, LobbySound, LobbyTypeOK
<1>8. \A j \in Seats : old[j] # Empty => seats[j] = old[j]
  BY <1>2
<1> HIDE DEF seats
<1>9. /\ GamesForward
      /\ \E e : /\ EntryFits(e) /\ lobby' = [lobby EXCEPT ![g] = e] /\ e.seats = seats
               /\ \A h \in Games : Exists(h) => Exists(h)'
  BY <1>1, <1>3, <1>6, <1>8, SeatedFits
<1>10. PICK e : /\ EntryFits(e) /\ lobby' = [lobby EXCEPT ![g] = e] /\ e.seats = seats
                /\ \A h \in Games : Exists(h) => Exists(h)'
  BY <1>9
<1>11. Live(g)
  BY <1>1 DEF Live
<1> QED BY <1>1, <1>4, <1>7, <1>9, <1>10, <1>11, EntryStep

LEMMA SeatAgentStep ==
  ASSUME LobbyInv, NEW c \in Calls, SeatAgent(c)
  PROVE  LobbyInv' /\ GamesForward
<1>1. PICK g \in Games, i \in Seats, a \in AgentIds, u \in Users :
        /\ calls[c].game = g /\ calls[c].seat = i /\ calls[c].agent = a /\ calls[c].user = u
        /\ Exists(g) /\ IdOf(a, u)
  BY DEF SeatAgent, LobbyInv, CallsInv, CallOK, Idle
<1> DEFINE old == lobby[g].seats
           occupant == AgentSeat(a, u, ~HasAgent(a) \/ Deleting(a))
           seats == [old EXCEPT ![i] = occupant]
<1>2. /\ lobby[g].status = "waiting" /\ ~Holds(old, a)
      /\ Seated(g, seats) /\ adapters' = [adapters EXCEPT ![g][i] = occupant]
      /\ Ends(c) /\ UNCHANGED directory
  BY <1>1 DEF SeatAgent, StillFree
<1>3. EntryFits(lobby[g]) /\ adapters[g] = old /\ old \in [Seats -> Occupants]
  BY <1>1, EntryFitsNow DEF EntryFits, Entries
<1>4. /\ occupant \in Occupants /\ occupant.kind = "agent"
      /\ occupant.agent = a /\ occupant.owner = u
      /\ occupant.late <=> ~HasAgent(a) \/ Deleting(a)
  <2>1. (~HasAgent(a) \/ Deleting(a)) \in BOOLEAN
    BY DEF HasAgent, Deleting
  <2>2. \A late \in BOOLEAN : AgentSeat(a, u, late) \in Occupants
    BY DEF Occupants
  <2>3. occupant \in Occupants
    BY <2>1, <2>2
  <2> QED BY <2>3 DEF AgentSeat
<1>5. Seatable(occupant)
  BY <1>1, <1>4 DEF Seatable
<1> HIDE DEF occupant
<1>6. /\ seats \in [Seats -> Occupants] /\ seats[i] = occupant
      /\ \A j \in Seats : j # i => seats[j] = old[j]
  BY <1>1, <1>3, <1>4
<1>7. adapters' = [adapters EXCEPT ![g] = seats]
  BY <1>1, <1>2, <1>3 DEF LobbyInv, LobbySound, LobbyTypeOK
<1> HIDE DEF seats
<1>8. \A j \in Seats : old[j] # Npc /\ old[j] # Empty => old[j].kind = "agent"
  <2>1. \A s \in Occupants : s # Npc /\ s # Empty => s.kind = "agent"
    BY DEF Occupants, AgentSeat
  <2> QED BY <1>3, <2>1
<1>9. \A j \in Seats : seats[j].kind = "agent" =>
        \A k \in Seats \ {j} : seats[k] # Npc /\ seats[k] # Empty => seats[k].agent # seats[j].agent
  BY <1>2, <1>3, <1>4, <1>6, <1>8 DEF EntryFits, Holds
<1>10. /\ GamesForward
       /\ \E e : /\ EntryFits(e) /\ lobby' = [lobby EXCEPT ![g] = e] /\ e.seats = seats
                /\ \A h \in Games : Exists(h) => Exists(h)'
  <2>1. \A j \in Seats : old[j] # Empty => seats[j] = old[j]
    BY <1>1, <1>6 DEF SeatAgent, StillFree, IsEmpty
  <2> QED BY <1>1, <1>2, <1>6, <1>9, <2>1, SeatedFits
<1>11. PICK e : /\ EntryFits(e) /\ lobby' = [lobby EXCEPT ![g] = e] /\ e.seats = seats
                /\ \A h \in Games : Exists(h) => Exists(h)'
  BY <1>10
<1>12. Live(g)
  BY <1>1, <1>2 DEF Live
<1>13. CallsInv' /\ \A d \in Calls : calls'[d].kind = "deleting" => calls'[d] = calls[d]
  <2>1. DirectoryTypeOK' /\ RowsKept
    BY <1>2, DirectoryUnchanged DEF directory, LobbyInv, LobbySound, LobbyTypeOK, DirectorySound
  <2> QED BY <1>2, <1>11, <2>1, CallEnds
<1>14. \A j \in Seats : e.seats[j].kind = "agent" =>
         (Live(g) /\ e.seats[j] = lobby[g].seats[j]) \/ Seatable(e.seats[j])
  BY <1>5, <1>6, <1>11, <1>12
<1> QED BY <1>1, <1>2, <1>7, <1>10, <1>11, <1>13, <1>14, EntryChanges

\* The match moves on, or ends, with the seats it began with.
LEMMA MatchStep ==
  ASSUME LobbyInv, UNCHANGED <<directoryVars, adapters>>, NEW g \in Games, Exists(g), Live(g),
         NEW status \in Statuses, NEW attached \in BOOLEAN, NEW decided \in BOOLEAN,
         NEW run \in {"none", "row", "playing", "saving", "over"},
         lobby' = [lobby EXCEPT ![g].status = status, ![g].attached = attached,
                                ![g].decided = decided, ![g].run = run],
         attached <=> status = "running",
         decided => status \in {"running", "completed"} /\ run \in {"saving", "over"},
         status # "waiting", lobby[g].status # "waiting",
         run # "none", status # "ready", run = "saving" => decided,
         run \in {"row", "playing", "saving"} <=> status = "running"
  PROVE  LobbyInv' /\ GamesForward
<1> DEFINE e == [lobby[g] EXCEPT !.status = status, !.attached = attached, !.decided = decided, !.run = run]
<1>1. EntryFits(lobby[g]) /\ adapters[g] = lobby[g].seats /\ lobby[g] \in Entries
  BY EntryFitsNow DEF EntryFits
<1>2. lobby' = [lobby EXCEPT ![g] = e]
  BY DEF LobbyInv, LobbySound, LobbyTypeOK
<1>3. /\ e \in Entries /\ e.status = status /\ e.attached = attached /\ e.decided = decided
      /\ e.run = run /\ e.seats = lobby[g].seats
  BY <1>1 DEF Entries
<1> HIDE DEF e
<1>4. EntryFits(e)
  BY <1>1, <1>3 DEF EntryFits, RunFits, Statuses
<1>5. \A h \in Games : Exists(h) => Exists(h)'
  BY <1>2, <1>3, LobbyAssumption DEF Exists, LobbyInv, LobbySound, LobbyTypeOK
<1>6. adapters' = [adapters EXCEPT ![g] = e.seats]
  BY <1>1, <1>3 DEF LobbyInv, LobbySound, LobbyTypeOK
<1>7. \A i \in Seats : e.seats[i] = lobby[g].seats[i]
  BY <1>3
<1>8. GamesForward
  <2>1. lobby[g].status \in {"ready", "running"} /\ status \in {"running", "completed", "failed"}
    BY <1>1 DEF Live, Entries, Statuses
  <2>2. Order[lobby[g].status] <= Order[e.status]
    BY <1>3, <2>1 DEF Order
  <2> QED BY <1>2, <1>3, <1>7, <2>2, EntryForward
<1> QED BY <1>2, <1>4, <1>5, <1>6, <1>7, <1>8, EntryStep

LEMMA StartStep ==
  ASSUME LobbyInv, NEW u \in Users, NEW g \in Games, Start(u, g)
  PROVE  LobbyInv' /\ GamesForward
<1>1. EntryFits(lobby[g]) /\ lobby[g] \in Entries
  BY EntryFitsNow DEF EntryFits, Start
<1>2. /\ Exists(g) /\ lobby[g].status = "ready" /\ lobby[g].decided = FALSE /\ Live(g)
      /\ UNCHANGED <<directoryVars, adapters>>
  BY <1>1 DEF Start, Live, EntryFits, Entries
<1>3. lobby' = [lobby EXCEPT ![g].status = "running", ![g].attached = TRUE,
                             ![g].decided = FALSE, ![g].run = "row"]
  <2>1. [lobby[g] EXCEPT !.status = "running", !.attached = TRUE, !.run = "row"]
        = [lobby[g] EXCEPT !.status = "running", !.attached = TRUE, !.decided = FALSE, !.run = "row"]
    BY <1>1, <1>2 DEF Entries
  <2> QED BY <1>1, <2>1 DEF Start, LobbyInv, LobbySound, LobbyTypeOK
<1> QED BY <1>2, <1>3, MatchStep DEF Statuses

\* The steps of runWithPersistence.
LEMMA RunStep ==
  ASSUME LobbyInv, NEW g \in Games,
         RowCreated(g) \/ RowFails(g) \/ MatchThrows(g) \/ MatchDecided(g) \/ MatchSettled(g)
  PROVE  LobbyInv' /\ GamesForward
<1>1. /\ Exists(g) /\ lobby[g].run \in {"row", "playing", "saving"}
      /\ UNCHANGED <<directoryVars, adapters>>
  BY DEF RowCreated, RowFails, MatchThrows, MatchDecided, MatchSettled, Over
<1>2. EntryFits(lobby[g]) /\ lobby[g] \in Entries
  BY <1>1, EntryFitsNow DEF EntryFits
<1>3. lobby[g].status = "running" /\ lobby[g].attached = TRUE /\ Live(g)
  BY <1>1, <1>2 DEF EntryFits, RunFits, Entries, Live
<1>4. CASE RowCreated(g)
  <2>1. lobby[g].run = "row" /\ lobby[g].decided = FALSE
    BY <1>2, <1>4 DEF RowCreated, EntryFits, RunFits, Entries
  <2>2. lobby' = [lobby EXCEPT ![g].status = "running", ![g].attached = TRUE,
                               ![g].decided = FALSE, ![g].run = "playing"]
    <3>1. [lobby[g] EXCEPT !.run = "playing"]
          = [lobby[g] EXCEPT !.status = "running", !.attached = TRUE, !.decided = FALSE, !.run = "playing"]
      BY <1>2, <1>3, <2>1 DEF Entries
    <3> QED BY <1>4, <3>1 DEF RowCreated, LobbyInv, LobbySound, LobbyTypeOK
  <2> QED BY <1>1, <1>3, <2>1, <2>2, MatchStep DEF Statuses
<1>5. CASE MatchDecided(g)
  <2>1. lobby' = [lobby EXCEPT ![g].status = "running", ![g].attached = TRUE,
                               ![g].decided = TRUE, ![g].run = "saving"]
    <3>1. [lobby[g] EXCEPT !.run = "saving", !.decided = TRUE]
          = [lobby[g] EXCEPT !.status = "running", !.attached = TRUE, !.decided = TRUE, !.run = "saving"]
      BY <1>2, <1>3 DEF Entries
    <3> QED BY <1>5, <3>1 DEF MatchDecided, LobbyInv, LobbySound, LobbyTypeOK
  <2> QED BY <1>1, <1>3, <2>1, MatchStep DEF Statuses
<1>6. ASSUME NEW status \in {"completed", "failed"}, NEW decided \in BOOLEAN,
             Over(g, status, decided), decided => status = "completed"
      PROVE  LobbyInv' /\ GamesForward
  <2>1. lobby' = [lobby EXCEPT ![g].status = status, ![g].attached = FALSE,
                               ![g].decided = decided, ![g].run = "over"]
    <3>1. [lobby[g] EXCEPT !.status = status, !.decided = decided, !.run = "over", !.attached = FALSE]
          = [lobby[g] EXCEPT !.status = status, !.attached = FALSE, !.decided = decided, !.run = "over"]
      BY <1>2 DEF Entries
    <3> QED BY <1>6, <3>1 DEF Over, LobbyInv, LobbySound, LobbyTypeOK
  <2> QED BY <1>1, <1>3, <1>6, <2>1, MatchStep DEF Statuses
<1>7. CASE RowFails(g) \/ MatchThrows(g)
  BY <1>6, <1>7 DEF RowFails, MatchThrows
<1>8. CASE MatchSettled(g)
  <2>1. lobby[g].decided
    BY <1>2, <1>8 DEF MatchSettled, EntryFits, RunFits
  <2>2. Over(g, "completed", TRUE)
    BY <1>8, <2>1 DEF MatchSettled, StatusFor
  <2> QED BY <1>6, <2>2
<1> QED BY <1>4, <1>5, <1>7, <1>8

LEMMA InviteAgentStep ==
  ASSUME LobbyInv, NEW c \in Calls, NEW u \in Users, NEW g \in Games, NEW i \in Seats,
         NEW a \in 1 .. issued, InviteAgent(c, u, g, i, a)
  PROVE  LobbyInv'
<1> DEFINE call == [kind |-> "resolving", user |-> u, game |-> g, seat |-> i, agent |-> a]
<1>1. /\ calls' = [calls EXCEPT ![c] = call] /\ UNCHANGED <<directory, lobbyVars>>
      /\ Exists(g) /\ lobby' = lobby /\ issued' = issued
  BY DEF InviteAgent, directory, lobbyVars
<1>2. a \in AgentIds /\ a <= issued
  BY DirectoryAssumption DEF LobbyInv, LobbySound, LobbyTypeOK, DirectoryTypeOK, AgentIds
<1>3. /\ call \in [kind : {"resolving"}, user : Users, game : Games, seat : Seats, agent : AgentIds]
      /\ call.game = g /\ call.agent = a /\ call.kind # "deleting"
  BY <1>2
<1> HIDE DEF call
<1>4. call = calls'[c] => CallOK(c)'
  BY <1>1, <1>2, <1>3 DEF CallOK, Exists
<1> QED BY <1>1, <1>3, <1>4, CallStep

\* What resolving finds is what will be seated: the agent is the caller's.
LEMMA ResolveAgentStep ==
  ASSUME LobbyInv, NEW c \in Calls, ResolveAgent(c)
  PROVE  LobbyInv'
<1>1. PICK u \in Users, g \in Games, i \in Seats, a \in AgentIds :
        /\ calls[c] = [kind |-> "resolving", user |-> u, game |-> g, seat |-> i, agent |-> a]
        /\ Exists(g) /\ a <= issued
  BY DEF ResolveAgent, LobbyInv, CallsInv, CallOK, Idle
<1>2. UNCHANGED <<directory, lobbyVars>> /\ UNCHANGED <<agents, issued, lobby>>
  BY DEF ResolveAgent, directory, lobbyVars
<1>3. CASE ~Resolvable(u, a)
  <2>1. Ends(c)
    BY <1>1, <1>3 DEF ResolveAgent
  <2> QED BY <1>2, <2>1, EndStep
<1>4. CASE Resolvable(u, a)
  <2> DEFINE p == agents[a].protocol
             call == [kind |-> "resolved", user |-> u, game |-> g, seat |-> i, agent |-> a, protocol |-> p]
  <2>1. calls' = [calls EXCEPT ![c] = call]
    BY <1>1, <1>4 DEF ResolveAgent
  <2>2. /\ p \in {"http", "ws"} /\ IdOf(a, u)
    BY <1>1, <1>4 DEF Resolvable, Owns, IdOf, AgentIds, LobbyInv, LobbySound, LobbyTypeOK, DirectoryTypeOK
  <2> HIDE DEF p
  <2>3. /\ call \in [kind : {"resolved"}, user : Users, game : Games, seat : Seats, agent : AgentIds,
                     protocol : {"http", "ws"}]
        /\ call.game = g /\ call.agent = a /\ call.user = u /\ call.kind # "deleting"
    BY <2>2
  <2>4. calls'[c] = call
    BY <2>1, SetsCall
  <2>5. lobby'[g] # Absent /\ a \in 1 .. issued' /\ (agents'[a] # Absent => agents'[a].owner = u)
    BY <1>1, <1>2, <2>2 DEF IdOf, HasAgent, Exists
  <2> HIDE DEF call
  <2>6. CallOK(c)'
    BY <2>3, <2>4, <2>5 DEF CallOK, IdOf, HasAgent, Exists
  <2>7. PICK k : k = call
    OBVIOUS
  <2> QED BY <1>2, <2>1, <2>3, <2>6, <2>7, CallStep
<1> QED BY <1>3, <1>4

\* A deletion that asks begins when no live game has the agent.
LEMMA DeleteAgentStep ==
  ASSUME LobbyInv, NEW c \in Calls, NEW u \in Users, NEW a \in AgentIds,
         DeleteAgent(c, u, a) \/ DeleteWerewolfAgent(c, u, a)
  PROVE  LobbyInv'
<1>1. PICK asks \in BOOLEAN : Deletes(c, u, a, asks) /\ (asks => ~InUse(a)) /\ UNCHANGED lobbyVars
  BY DEF DeleteAgent, DeleteWerewolfAgent
<1> DEFINE call == [kind |-> "deleting", agent |-> a, asked |-> asks]
<1>2. calls' = [calls EXCEPT ![c] = call] /\ UNCHANGED <<directory, lobbyVars>>
  BY <1>1 DEF Deletes
<1>3. /\ call \in [kind : {"deleting"}, agent : AgentIds, asked : BOOLEAN]
      /\ call.asked = asks /\ call.agent = a
  OBVIOUS
<1> HIDE DEF call
<1>4. call = calls'[c] => CallOK(c)'
  BY <1>3 DEF CallOK
<1> QED BY <1>1, <1>2, <1>3, <1>4, CallStep

\* A restart forgets the games and the requests, the rows stay.
LEMMA RestartStep ==
  ASSUME LobbyInv, Restart
  PROVE  LobbyInv' /\ GamesForward /\ RowsKept
<1>1. /\ UNCHANGED <<agents, issued, invites, purged>>
      /\ \A g \in Games : lobby'[g] = Absent
      /\ \A c \in Calls : calls'[c] = Idle
  BY DEF Restart
<1>2. DirectoryTypeOK' /\ InvitesSound' /\ RowsKept
  BY <1>1, DirectoryUnchanged DEF LobbyInv, LobbySound, LobbyTypeOK, DirectorySound
<1>3. LobbyTypeOK' /\ SeatsHold'
  <2>1. lobby' \in [Games -> Entries \cup {Absent}]
    BY DEF Restart
  <2>2. adapters' \in [Games -> [Seats -> Occupants]]
    BY DEF Restart, Occupants
  <2> QED BY <1>1, <1>2, <2>1, <2>2 DEF LobbyTypeOK, SeatsHold, Exists
<1>4. RowsOutliveSeats' /\ RunInv' /\ SeatsIssued'
  BY <1>1 DEF RowsOutliveSeats, RunInv, SeatsIssued, Live, Exists
<1>5. AskedMeetsLate'
  BY <1>1 DEF AskedMeetsLate, Idle
<1>6. CallsInv'
  BY <1>1 DEF Restart, CallsInv, CallOK
<1>7. GamesForward
  BY <1>1 DEF GamesForward, Exists
<1> QED BY <1>2, <1>3, <1>4, <1>5, <1>6, <1>7 DEF LobbyInv, LobbySound, DirectorySound

-----------------------------------------------------------------------------
(* Every step.                                                              *)

LEMMA InitInv == Init => LobbyInv
<1> SUFFICES ASSUME Init PROVE LobbyInv
  OBVIOUS
<1>1. /\ \A g \in Games : lobby[g] = Absent
      /\ \A c \in Calls : calls[c] = Idle
      /\ \A a \in AgentIds : agents[a] = Absent
      /\ \A i \in InviteIds : invites[i] = Absent
  BY DEF Init, DirectoryInit
<1>2. DirectoryTypeOK
  BY <1>1, DirectoryAssumption DEF Init, DirectoryInit, DirectoryTypeOK, HasAgent
<1>3. LobbyTypeOK
  <2>1. adapters \in [Games -> [Seats -> Occupants]]
    BY DEF Init, Occupants
  <2> QED BY <1>1, <1>2, <2>1 DEF Init, LobbyTypeOK, Exists
<1>4. SeatsHold /\ DirectorySound /\ RunInv /\ SeatsIssued
  BY <1>1 DEF SeatsHold, DirectorySound, RowsOutliveSeats, InvitesSound, RunInv, SeatsIssued, Live, Exists
<1>5. AskedMeetsLate
  BY <1>1 DEF AskedMeetsLate, Idle
<1>6. CallsInv
  BY <1>1 DEF CallsInv, CallOK, Init, DirectoryInit
<1> QED BY <1>3, <1>4, <1>5, <1>6 DEF LobbyInv, LobbySound

LEMMA DirectoryNextStep ==
  ASSUME LobbyInv, DirectoryNext, UNCHANGED lobbyVars
  PROVE  LobbyInv' /\ GamesForward /\ RowsKept
<1> USE DEF LobbyInv, LobbySound, LobbyTypeOK, DirectorySound
<1>1. DirectoryTypeOK /\ InvitesSound
  OBVIOUS
<1>2. GamesForward
  BY SameLobbyForward DEF lobbyVars
<1>3. ASSUME NEW u \in Users, NEW i \in InviteIds, CreateInvite(u, i) \/ Revoke(u, i)
      PROVE  LobbyInv' /\ RowsKept
  <2>1. UNCHANGED <<agents, purged, calls>>
    BY <1>3 DEF CreateInvite, Revoke
  <2>2. DirectoryTypeOK' /\ InvitesSound' /\ RowsKept
    BY <1>1, <1>3, CreateInviteKeeps, RevokeKeeps
  <2> QED BY <2>1, <2>2, RowStep DEF HasAgent
<1>4. ASSUME UNCHANGED directory
      PROVE  RowsKept
  BY <1>1, <1>4, DirectoryUnchanged DEF directory
<1>5. ASSUME NEW c \in Calls, NEW i \in InviteIds, NEW p \in {"http", "ws"}, Register(c, i, p)
      PROVE  LobbyInv' /\ RowsKept
  BY <1>4, <1>5, RegisterStep DEF Register
<1>6. ASSUME NEW c \in Calls, RegisterFails(c) \/ MarkFails(c) \/ DeleteFails(c)
      PROVE  LobbyInv' /\ RowsKept
  BY <1>4, <1>6, EndStep DEF RegisterFails, MarkFails, DeleteFails
<1>7. ASSUME NEW c \in Calls, CreateRegistered(c) \/ MarkUsed(c) \/ DeleteRow(c)
      PROVE  LobbyInv' /\ RowsKept
  BY <1>7, CreateRegisteredStep, MarkUsedStep, DeleteRowStep
<1>8. ASSUME NEW u \in Users, CreateHttpAgent(u) \/ CreateLongpollAgent(u)
      PROVE  LobbyInv' /\ RowsKept
  BY <1>8, InsertStep DEF CreateHttpAgent, CreateLongpollAgent, Protocols
<1> QED BY <1>2, <1>3, <1>5, <1>6, <1>7, <1>8 DEF DirectoryNext

LEMMA NextStep ==
  ASSUME LobbyInv, Next
  PROVE  LobbyInv' /\ GamesForward /\ RowsKept
<1>1. ASSUME UNCHANGED directory
      PROVE  RowsKept
  BY <1>1, DirectoryUnchanged DEF directory, LobbyInv, LobbySound, LobbyTypeOK, DirectorySound
<1>2. ASSUME UNCHANGED <<directory, lobbyVars>>
      PROVE  RowsKept /\ GamesForward
  BY <1>1, <1>2, SameLobbyForward DEF lobbyVars
<1>3. CASE DirectoryNext /\ UNCHANGED lobbyVars
  BY <1>3, DirectoryNextStep
<1>4. ASSUME NEW u \in Users, NEW g \in Games, Create(u, g) \/ FillWithNpcs(u, g) \/ Start(u, g)
      PROVE  LobbyInv' /\ GamesForward /\ RowsKept
  <2>1. UNCHANGED directory
    BY <1>4 DEF Create, FillWithNpcs, Start, directoryVars
  <2> QED BY <1>1, <1>4, <2>1, CreateStep, FillWithNpcsStep, StartStep
<1>5. ASSUME NEW u \in Users, NEW g \in Games, NEW i \in Seats, InviteNpc(u, g, i)
      PROVE  LobbyInv' /\ GamesForward /\ RowsKept
  BY <1>1, <1>5, InviteNpcStep DEF InviteNpc, directoryVars
<1>6. ASSUME NEW u \in Users, NEW g \in Games, NEW i \in Seats, NEW c \in Calls, NEW a \in 1 .. issued,
             InviteAgent(c, u, g, i, a)
      PROVE  LobbyInv' /\ GamesForward /\ RowsKept
  BY <1>2, <1>6, InviteAgentStep DEF InviteAgent
<1>7. ASSUME NEW c \in Calls, ResolveAgent(c) \/ Refuse(c)
      PROVE  LobbyInv' /\ GamesForward /\ RowsKept
  BY <1>2, <1>7, ResolveAgentStep, EndStep DEF ResolveAgent, Refuse
<1>8. ASSUME NEW c \in Calls, SeatAgent(c)
      PROVE  LobbyInv' /\ GamesForward /\ RowsKept
  BY <1>1, <1>8, SeatAgentStep DEF SeatAgent
<1>9. ASSUME NEW c \in Calls, NEW u \in Users, NEW a \in AgentIds,
             DeleteAgent(c, u, a) \/ DeleteWerewolfAgent(c, u, a)
      PROVE  LobbyInv' /\ GamesForward /\ RowsKept
  BY <1>2, <1>9, DeleteAgentStep DEF DeleteAgent, DeleteWerewolfAgent, Deletes
<1>10. ASSUME NEW g \in Games,
              RowCreated(g) \/ RowFails(g) \/ MatchThrows(g) \/ MatchDecided(g) \/ MatchSettled(g)
       PROVE  LobbyInv' /\ GamesForward /\ RowsKept
  <2>1. UNCHANGED directory
    BY <1>10 DEF RowCreated, RowFails, MatchThrows, MatchDecided, MatchSettled, Over, directoryVars
  <2> QED BY <1>1, <1>10, <2>1, RunStep
<1>11. CASE Restart
  BY <1>11, RestartStep
<1> QED BY <1>3, <1>4, <1>5, <1>6, <1>7, <1>8, <1>9, <1>10, <1>11 DEF Next

LEMMA Stutters ==
  ASSUME LobbyInv, UNCHANGED vars
  PROVE  LobbyInv'
<1>1. UNCHANGED <<directory, lobbyVars>> /\ UNCHANGED <<agents, issued, invites, purged, lobby, adapters, calls>>
  BY DEF vars, directoryVars, directory, lobbyVars
<1>2. DirectoryTypeOK' /\ InvitesSound' /\ RowsKept
  BY <1>1, DirectoryUnchanged DEF LobbyInv, LobbySound, LobbyTypeOK, DirectorySound
<1> QED BY <1>1, <1>2, RowStep DEF HasAgent

-----------------------------------------------------------------------------
(* Theorems.                                                                *)

\* In every reachable state what the requests under way remember, where every
\* match is, and what the deletions have still to do agree with the rows and the
\* lobby.
THEOREM LobbyInvariant == Spec => []LobbyInv
<1>1. LobbyInv /\ [Next]_vars => LobbyInv'
  BY NextStep, Stutters
<1> QED BY <1>1, InitInv, PTL DEF Spec

\* Lobbies are sound: a waiting game is one with an empty seat, the orchestrator
\* has the adapters that the lobby shows, nobody sits twice or for somebody else
\* (inviteAgent), and a decided match is never shown as failed
\* (runWithPersistence).
THEOREM LobbyIsSound == Spec => []LobbySound
<1>1. LobbyInv => LobbySound
  BY DEF LobbyInv
<1> QED BY <1>1, LobbyInvariant, PTL

\* What a live game plays with has its row, but for a deletion that had passed its
\* check before the agent was seated or that asks nobody; an invitation has one
\* fate.
THEOREM LobbyDirectoryIsSound == Spec => []DirectorySound
<1>1. LobbyInv => DirectorySound
  BY DEF LobbyInv
<1> QED BY <1>1, LobbyInvariant, PTL

\* No step takes a seat away, moves a status back, changes a game that is over or
\* brings back an invitation.
THEOREM LobbySettledStays == Spec => SettledStays
<1>1. LobbyInv /\ [Next]_vars =>
        [/\ \A g \in Games : Exists(g) /\ Exists(g)' =>
              /\ \A i \in Seats : ~IsEmpty(g, i) => lobby'[g].seats[i] = lobby[g].seats[i]
              /\ Order[lobby[g].status] <= Order[lobby'[g].status]
              /\ ~Live(g) => lobby'[g] = lobby[g]
         /\ \A i \in InviteIds : invites[i] # Absent =>
              /\ invites[i].used => invites'[i].used
              /\ invites[i].revoked => invites'[i].revoked]_vars
  BY NextStep DEF GamesForward, RowsKept
<1> QED BY <1>1, LobbyInvariant, PTL DEF Spec, SettledStays
=============================================================================
