---------------------------- MODULE AgentDirectory ----------------------------
(***************************************************************************)
(* The agents and the invitations of the platform: the tables public.agents *)
(* and public.agent_invites, and the routes that read and write them        *)
(* (apps/api/src/routes/agent-invites.ts, me-agents.ts,                     *)
(* me-werewolf-agents.ts).  Each call to the database is a step of its own; *)
(* a route that needs several keeps what it has read in calls, and other    *)
(* requests are served in between.  What the columns of an agent hold is    *)
(* left out, but for those that decide who may do what.                     *)
(***************************************************************************)
EXTENDS Integers, FiniteSetsExt

CONSTANTS Users,     \* the signed-in users
          Calls,     \* slots for the requests under way
          MaxAgents, \* bound: rows ever inserted into agents
          MaxInvites, \* bound: rows ever inserted into agent_invites
          Absent     \* a row that is not in its table

VARIABLES agents,  \* public.agents: rows by id, ids given out in order
          issued,  \* how many ids there have been
          invites, \* public.agent_invites
          calls,   \* what the handlers under way remember
          purged   \* ids deleted by the route that does not ask for use

directory == <<agents, issued, invites, purged>>
directoryVars == <<directory, calls>>

-----------------------------------------------------------------------------
(* Rows.                                                                    *)

AgentIds == 1 .. MaxAgents
InviteIds == 1 .. MaxInvites
Protocols == {"http", "ws", "longpoll"}
\* The routes that create agents offer no "inproc".
AgentRows == [owner : Users, protocol : Protocols]
InviteRows ==
  [owner : Users, agent : AgentIds \cup {Absent}, used : BOOLEAN, revoked : BOOLEAN]

ASSUME DirectoryAssumption ==
  /\ {MaxAgents, MaxInvites} \subseteq Nat
  /\ Absent \notin AgentRows /\ Absent \notin InviteRows

HasAgent(a) == agents[a] # Absent
Owns(u, a) == HasAgent(a) /\ agents[a].owner = u

Idle == [kind |-> "idle"]
Free(c) == calls[c] = Idle
Ends(c) == calls' = [calls EXCEPT ![c] = Idle]

Insert(u, p) ==
  /\ issued < MaxAgents
  /\ agents' = [agents EXCEPT ![issued + 1] = [owner |-> u, protocol |-> p]]
  /\ issued' = issued + 1

-----------------------------------------------------------------------------
(* Invitations.                                                             *)

\* POST /agents/invites
CreateInvite(u, i) ==
  /\ invites[i] = Absent
  /\ \A j \in 1 .. i - 1 : invites[j] # Absent
  /\ invites' = [invites EXCEPT ![i] =
       [owner |-> u, agent |-> Absent, used |-> FALSE, revoked |-> FALSE]]
  /\ UNCHANGED <<agents, issued, purged, calls>>

\* DELETE /agents/invites/:token and .../by-hash/:tokenHash.  The first reads the
\* row before, but what decides is the same conditional update.
Revocable(u, i) == invites[i].owner = u /\ ~invites[i].used /\ ~invites[i].revoked
Revoke(u, i) ==
  /\ invites[i] # Absent
  /\ Revocable(u, i)
  /\ invites' = [invites EXCEPT ![i].revoked = TRUE]
  /\ UNCHANGED <<agents, issued, purged, calls>>

Unavailable(i) == invites[i].used \/ invites[i].revoked

\* POST /agents/invites/:token/register, up to its first answer from outside,
\* that of the probe or of the insert.  An invitation may have expired, and then
\* nothing happens: the clock changes no row.
Register(c, i, p) ==
  /\ Free(c)
  /\ invites[i] # Absent
  /\ ~Unavailable(i)
  /\ calls' = [calls EXCEPT ![c] =
       [kind |-> "creating", invite |-> i, protocol |-> p, agent |-> Absent]]
  /\ UNCHANGED directory

\* create in the route: the owner is the invite's, as read before the probe
CreateRegistered(c) ==
  /\ calls[c].kind = "creating"
  /\ Insert(invites[calls[c].invite].owner, calls[c].protocol)
  /\ calls' = [calls EXCEPT ![c].kind = "marking", ![c].agent = issued + 1]
  /\ UNCHANGED <<invites, purged>>

\* probeHttpAgentEndpoint got no answer in its budget or one that the schema
\* refuses, or the insert failed (on unique (owner_id, name), say)
RegisterFails(c) == calls[c].kind = "creating" /\ Ends(c) /\ UNCHANGED directory

BugMarksRevoked(i) == ~invites[i].used
Markable(i) == ~invites[i].used /\ ~invites[i].revoked

\* markUsed: a conditional update whose count nobody looks at.  It may fail,
\* on a row that was deleted meanwhile too (the foreign key)
MarkUsed(c) ==
  /\ calls[c].kind = "marking"
  /\ invites' = IF Markable(calls[c].invite) /\ HasAgent(calls[c].agent)
                THEN [invites EXCEPT ![calls[c].invite].used = TRUE,
                                     ![calls[c].invite].agent = calls[c].agent]
                ELSE invites
  /\ Ends(c)
  /\ UNCHANGED <<agents, issued, purged>>
MarkFails(c) == calls[c].kind = "marking" /\ Ends(c) /\ UNCHANGED directory

-----------------------------------------------------------------------------
(* The owner's own agents.                                                  *)

\* POST /me/agents
CreateHttpAgent(u) == Insert(u, "http") /\ UNCHANGED <<invites, purged, calls>>
\* POST /me/werewolf-agents
CreateLongpollAgent(u) == Insert(u, "longpoll") /\ UNCHANGED <<invites, purged, calls>>

\* DELETE of both routes, after the row was found (and, for /me/agents, not in
\* use): the delete itself is still to come
Deletes(c, u, a, asks) ==
  /\ Free(c)
  /\ Owns(u, a)
  /\ calls' = [calls EXCEPT ![c] = [kind |-> "deleting", agent |-> a, asked |-> asks]]
  /\ UNCHANGED directory

\* registered_agent_id ... on delete set null
WithoutAgent(row, a) ==
  IF row # Absent /\ row.agent = a THEN [row EXCEPT !.agent = Absent] ELSE row
DeleteRow(c) ==
  /\ calls[c].kind = "deleting"
  /\ LET a == calls[c].agent IN
       /\ agents' = [agents EXCEPT ![a] = Absent]
       /\ invites' = [i \in InviteIds |-> WithoutAgent(invites[i], a)]
       /\ purged' = IF calls[c].asked \/ ~HasAgent(a) THEN purged ELSE purged \cup {a}
  /\ Ends(c)
  /\ UNCHANGED <<issued>>
DeleteFails(c) == calls[c].kind = "deleting" /\ Ends(c) /\ UNCHANGED directory

DirectoryInit ==
  /\ agents = [a \in AgentIds |-> Absent]
  /\ issued = 0
  /\ invites = [i \in InviteIds |-> Absent]
  /\ calls = [c \in Calls |-> Idle]
  /\ purged = {}

DirectoryNext ==
  \/ \E u \in Users, i \in InviteIds : CreateInvite(u, i) \/ Revoke(u, i)
  \/ \E c \in Calls, i \in InviteIds, p \in {"http", "ws"} : Register(c, i, p)
  \/ \E c \in Calls :
       \/ CreateRegistered(c) \/ RegisterFails(c) \/ MarkUsed(c) \/ MarkFails(c)
       \/ DeleteRow(c) \/ DeleteFails(c)
  \/ \E u \in Users : CreateHttpAgent(u) \/ CreateLongpollAgent(u)

-----------------------------------------------------------------------------
(* Properties.                                                              *)

DirectoryTypeOK ==
  /\ agents \in [AgentIds -> AgentRows \cup {Absent}]
  /\ invites \in [InviteIds -> InviteRows \cup {Absent}]
  /\ issued \in 0 .. MaxAgents
  /\ \A a \in AgentIds : HasAgent(a) => a <= issued
  /\ purged \subseteq 1 .. issued

\* An invitation is redeemed or revoked, never both, whatever overlaps with the
\* probe and the creation of the agent; the agent it names is its
\* owner's, and one that was never redeemed names none.
InvitesSound ==
  \A i \in InviteIds : invites[i] # Absent =>
    /\ ~(invites[i].used /\ invites[i].revoked)
    /\ invites[i].agent # Absent => invites[i].used /\ Owns(invites[i].owner, invites[i].agent)
=============================================================================
