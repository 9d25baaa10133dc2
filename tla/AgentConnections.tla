---------------------------- MODULE AgentConnections ----------------------------
(***************************************************************************)
(* The reverse WebSocket transport: AgentConnection and its registry       *)
(* (agent-runtime/src/agent-connection-registry.ts), the route that makes  *)
(* the connections (api/src/routes/agents-ws.ts), the adapter that calls   *)
(* over them (werewolf-ws-agent-adapter.ts), and on the other side         *)
(* WerewolfAgent of werewolf-agent-sdk.                                    *)
(*                                                                         *)
(* One agent, several processes with its token: the registry's entries for *)
(* different agents share nothing.  Frames travel in order in each         *)
(* direction; "close" stands at the end for the socket's close event.      *)
(* Frames to a process that is gone, or to a connection that the server    *)
(* closed, have no effect and are lost at once.  hello and goodbye frames  *)
(* are left out: the SDK only logs them.                                   *)
(*                                                                         *)
(* Operators named Bug... are mutations: they are used nowhere here.       *)
(***************************************************************************)
EXTENDS Integers, Sequences, FiniteSetsExt, SequencesExt

CONSTANTS
  Procs,     \* processes that run the SDK with the agent's token
  Conns,     \* sockets, numbered in the order in which they are opened
  Calls,     \* correlation ids, numbered in the order of the calls
  Interval,  \* HEARTBEAT_INTERVAL_MS, in units of ten seconds
  Timeout,   \* HEARTBEAT_TIMEOUT_MS, in the same units
  MaxLag,    \* bound: pings that a live peer may leave unanswered
  None

\* A peer has more than an interval to answer: 40 s, and 30 s between pings.
ASSUME ConnectionsAssumption ==
  /\ Conns \subseteq Nat /\ Calls \subseteq Nat
  /\ Interval \in Nat \ {0} /\ Timeout \in Nat /\ Interval <= Timeout /\ MaxLag \in Nat
  /\ None \notin Conns \cup Procs

VARIABLES
  registered,  \* connections.get(agentId)
  present,     \* what the last online or offline event said
  conn,        \* "unused", "upgrading" (authenticating), "open" or "closed"
  pending,     \* the pending map of each connection
  call,        \* each rpc's promise: "new", "waiting", "answered" or "rejected"
  age,         \* time since lastPongAt
  timer,       \* time until the heartbeat interval fires
  toAgent, toServer,  \* frames under way
  peer,        \* the process that still has the connection's socket
  mode,        \* of each process: "down" (reconnect timer), "up" or "stopped"
  socket, inflight,   \* the fields of WerewolfAgent
  deciding     \* decide handlers of the user's that still run

server == <<registered, present, conn, pending, call>>
heart == <<age, timer>>
agent == <<peer, mode, socket, inflight, deciding>>
vars == <<server, heart, toAgent, toServer, agent>>

Frame(type, of) == [type |-> type, of |-> of]
Ping == Frame("ping", None)
Pong == Frame("pong", None)
Closes == Frame("close", None)

ToAgentFrames == {Ping, Closes} \cup {Frame(t, r) : t \in {"decide", "cancel"}, r \in Calls}
ToServerFrames == {Pong, Closes} \cup {Frame(t, r) : t \in {"response", "error"}, r \in Calls}

Open == {c \in Conns : conn[c] = "open"}
Count(f, frames) == Cardinality({i \in DOMAIN frames : frames[i] = f})

\* What is on the way to the agent on c after the server sent more frames.
WithFrames(c, frames) ==
  [toAgent EXCEPT ![c] = IF peer[c] = None \/ Closes \in ToSet(@) THEN @ ELSE @ \o frames]

\* Pings of a connection whose pong has not arrived.
Lag(c) == Count(Ping, toAgent[c]) + Count(Pong, toServer[c])

-----------------------------------------------------------------------------
(* The server's side of a connection.                                       *)

\* unregister: what the close handler of c leaves registered.
BugEvictsSuccessor(c, current) == None
AfterClose(c, current) == IF current = c THEN None ELSE current

\* handleSocketClosed rejects what is pending.
BugForgetsPending(c) == call
Rejected(c) ==
  [r \in Calls |-> IF r \in pending[c] /\ call[r] = "waiting" THEN "rejected" ELSE call[r]]

\* handleSocketClosed of c while the registry holds `current`; an offline
\* event goes out if the handler removed the entry.
HandleSocketClosed(c, current) ==
  /\ call' = Rejected(c)
  /\ toAgent' = WithFrames(c, <<Closes>>)
  /\ toServer' = [toServer EXCEPT ![c] = <<>>]
  /\ pending' = [pending EXCEPT ![c] = {}]
  /\ registered' = AfterClose(c, current)
  /\ present' = (present /\ registered' # None)

\* setInterval, not setTimeout
BugTicksOnce == -1
NextTick == Interval

\* The handler of the route: the connection replaces the one registered, which
\* closes with a goodbye and unregisters in vain, and starts its heartbeat.
\* Upgrades wait for the token's lookup, so they may end in any order.
Register(c) ==
  /\ conn[c] = "upgrading"
  /\ conn' = [d \in Conns |-> IF d = c THEN "open" ELSE IF d = registered THEN "closed" ELSE conn[d]]
  /\ IF registered = None
     THEN registered' = c /\ present' = TRUE /\ UNCHANGED <<pending, call, toAgent, toServer>>
     ELSE HandleSocketClosed(registered, c)
  /\ age' = [d \in Conns |-> 0]
  /\ timer' = [d \in Conns |-> IF d = c THEN Interval ELSE 0]
  /\ UNCHANGED agent

\* Authentication fails, or the network before it.
UpgradeFails(c) ==
  /\ conn[c] = "upgrading"
  /\ conn' = [conn EXCEPT ![c] = "closed"]
  /\ toAgent' = WithFrames(c, <<Closes>>)
  /\ toServer' = [toServer EXCEPT ![c] = <<>>]
  /\ UNCHANGED <<registered, present, pending, call, heart, agent>>

\* requestDecision of the adapter, and rpc.  When send throws, the promise is
\* rejected, while its entry and its timer stay.
Request(r) ==
  /\ call[r] = "new" /\ \A q \in Calls : q < r => call[q] # "new"
  /\ IF registered = None
     THEN call' = [call EXCEPT ![r] = "rejected"] /\ UNCHANGED <<pending, toAgent>>
     ELSE /\ pending' = [pending EXCEPT ![registered] = @ \cup {r}]
          /\ \/ /\ call' = [call EXCEPT ![r] = "waiting"]
                /\ toAgent' = WithFrames(registered, <<Frame("decide", r)>>)
             \/ call' = [call EXCEPT ![r] = "rejected"] /\ UNCHANGED toAgent
  /\ UNCHANGED <<registered, present, conn, heart, toServer, agent>>

\* The hard ceiling of a call: the agent is told to stop computing.
BugTellsNobody(r) == <<>>
AtCeiling(r) == <<Frame("cancel", r)>>

Ceiling(r) ==
  \E c \in Open :
    /\ r \in pending[c]
    /\ pending' = [pending EXCEPT ![c] = @ \ {r}]
    /\ call' = [call EXCEPT ![r] = IF @ = "waiting" THEN "rejected" ELSE @]
    /\ toAgent' = WithFrames(c, AtCeiling(r))
    /\ UNCHANGED <<registered, present, conn, heart, toServer, agent>>

\* A registered connection closes: closeWithGoodbye, or the peer's close event.
Close(c) ==
  /\ HandleSocketClosed(c, registered)
  /\ conn' = [conn EXCEPT ![c] = "closed"]
  /\ age' = [age EXCEPT ![c] = 0] /\ timer' = [timer EXCEPT ![c] = 0]

\* dispatch, and the socket's close event.
ServerReceives(c) ==
  LET f == Head(toServer[c])
      Consume == toServer' = [toServer EXCEPT ![c] = Tail(@)]
  IN
  /\ c \in Open /\ toServer[c] # <<>>
  /\ \/ /\ f = Pong /\ Consume
        /\ age' = [age EXCEPT ![c] = 0]
        /\ UNCHANGED <<server, timer, toAgent>>
     \/ /\ f.type \in {"response", "error"} /\ f.of \in pending[c] /\ Consume
        /\ pending' = [pending EXCEPT ![c] = @ \ {f.of}]
        /\ call' = [call EXCEPT ![f.of] = IF f.type = "response" THEN "answered" ELSE "rejected"]
        /\ UNCHANGED <<registered, present, conn, heart, toAgent>>
     \/ /\ f.type \in {"response", "error"} /\ f.of \notin pending[c] /\ Consume
        /\ UNCHANGED <<server, heart, toAgent>>
     \/ f = Closes /\ Close(c)
  /\ UNCHANGED agent

\* closeAll, when the server shuts down.
CloseAll == registered # None /\ Close(registered) /\ UNCHANGED agent

\* tick
BugOneIntervalIsTooLong(c) == age[c] >= Interval
Overdue(c) == age[c] > Timeout

PingTimeout(c) ==
  /\ c \in Open /\ timer[c] = 0 /\ Overdue(c)
  /\ Close(c) /\ UNCHANGED agent

SendPing(c) ==
  /\ c \in Open /\ timer[c] = 0 /\ ~Overdue(c)
  /\ timer' = [timer EXCEPT ![c] = NextTick]
  /\ toAgent' = WithFrames(c, <<Ping>>)
  /\ UNCHANGED <<server, age, toServer, agent>>

\* Ten seconds pass.  Intervals fire on time, and a peer that lives is not
\* further behind with its pongs than MaxLag.
TimePasses ==
  /\ Open # {}
  /\ \A c \in Open : timer[c] # 0 /\ (peer[c] # None => Lag(c) <= MaxLag)
  /\ age' = [c \in Conns |-> IF c \in Open THEN age[c] + 1 ELSE 0]
  /\ timer' = [c \in Conns |-> IF c \in Open /\ timer[c] > 0 THEN timer[c] - 1 ELSE timer[c]]
  /\ UNCHANGED <<server, toAgent, toServer, agent>>

-----------------------------------------------------------------------------
(* The SDK.                                                                 *)

\* openSocket, at the start or when the reconnect timer fires.
OpenSocket(p) ==
  /\ mode[p] = "down"
  /\ \E c \in Conns :
       /\ conn[c] = "unused" /\ \A d \in Conns : d < c => conn[d] # "unused"
       /\ conn' = [conn EXCEPT ![c] = "upgrading"]
       /\ peer' = [peer EXCEPT ![c] = p]
       /\ socket' = [socket EXCEPT ![p] = c]
  /\ mode' = [mode EXCEPT ![p] = "up"]
  /\ UNCHANGED <<registered, present, pending, call, heart, toAgent, toServer, inflight, deciding>>

\* send: over the present socket, whatever the frame is about.  One that is
\* still connecting throws, and the frame is dropped.
Send(p, f) ==
  toServer' = IF socket[p] \notin Open THEN toServer
              ELSE [toServer EXCEPT ![socket[p]] = Append(@, f)]

\* dispatchFrame, and the close handler of openSocket, which aborts what runs.
AgentReceives(c) ==
  LET p == peer[c]  f == Head(toAgent[c]) IN
  /\ p # None /\ toAgent[c] # <<>>
  /\ toAgent' = [toAgent EXCEPT ![c] = Tail(@)]
  /\ \/ f = Ping /\ Send(p, Pong) /\ UNCHANGED agent
     \/ /\ f.type = "decide"
        /\ inflight' = [inflight EXCEPT ![p] = @ \cup {f.of}]
        /\ deciding' = [deciding EXCEPT ![p] = @ \cup {f.of}]
        /\ UNCHANGED <<toServer, peer, mode, socket>>
     \/ /\ f.type = "cancel"
        /\ inflight' = [inflight EXCEPT ![p] = @ \ {f.of}]
        /\ UNCHANGED <<toServer, peer, mode, socket, deciding>>
     \/ /\ f = Closes
        /\ peer' = [peer EXCEPT ![c] = None]
        /\ socket' = [socket EXCEPT ![p] = None]
        /\ inflight' = [inflight EXCEPT ![p] = {}]
        /\ mode' = [mode EXCEPT ![p] = IF @ = "stopped" THEN @ ELSE "down"]
        /\ UNCHANGED <<toServer, deciding>>
  /\ UNCHANGED <<server, heart>>

\* The user's handler ends, with an action or an exception.
DecideEnds(p, r) ==
  /\ r \in deciding[p]
  /\ \/ r \in inflight[p] /\ Send(p, Frame("response", r))
     \/ Send(p, Frame("error", r))
  /\ deciding' = [deciding EXCEPT ![p] = @ \ {r}]
  /\ inflight' = [inflight EXCEPT ![p] = @ \ {r}]
  /\ UNCHANGED <<server, heart, toAgent, peer, mode, socket>>

Stop(p) ==
  /\ mode[p] # "stopped"
  /\ mode' = [mode EXCEPT ![p] = "stopped"]
  /\ toServer' = IF socket[p] = None \/ conn[socket[p]] = "closed" THEN toServer
                 ELSE [toServer EXCEPT ![socket[p]] = Append(@, Closes)]
  /\ socket' = [socket EXCEPT ![p] = None]
  /\ inflight' = [inflight EXCEPT ![p] = {}]
  /\ UNCHANGED <<server, heart, toAgent, peer, deciding>>

-----------------------------------------------------------------------------
(* What happens to the two.                                                 *)

\* The process dies, or its machine goes to sleep and it is started again: the
\* server hears nothing of it.
Vanish(p) ==
  /\ mode[p] = "up"
  /\ mode' = [mode EXCEPT ![p] = "down"]
  /\ peer' = [c \in Conns |-> IF peer[c] = p THEN None ELSE peer[c]]
  /\ socket' = [socket EXCEPT ![p] = None]
  /\ inflight' = [inflight EXCEPT ![p] = {}]
  /\ deciding' = [deciding EXCEPT ![p] = {}]
  /\ toAgent' = [c \in Conns |-> IF peer[c] = p THEN <<>> ELSE toAgent[c]]
  /\ UNCHANGED <<server, heart, toServer>>

\* The connection breaks with what is under way on it, and both sides notice.
NetworkDrops(c) ==
  /\ c \in Open
  /\ toAgent' = [toAgent EXCEPT ![c] = IF peer[c] = None THEN <<>> ELSE <<Closes>>]
  /\ toServer' = [toServer EXCEPT ![c] = <<Closes>>]
  /\ UNCHANGED <<server, heart, agent>>

Init ==
  /\ registered = None /\ present = FALSE
  /\ conn = [c \in Conns |-> "unused"]
  /\ pending = [c \in Conns |-> {}]
  /\ call = [r \in Calls |-> "new"]
  /\ age = [c \in Conns |-> 0] /\ timer = age
  /\ toAgent = [c \in Conns |-> <<>>] /\ toServer = toAgent
  /\ peer = [c \in Conns |-> None]
  /\ mode = [p \in Procs |-> "down"]
  /\ socket = [p \in Procs |-> None]
  /\ inflight = [p \in Procs |-> {}] /\ deciding = inflight

Heartbeat(c) == PingTimeout(c) \/ SendPing(c)

Next ==
  \/ \E c \in Conns :
       \/ Register(c) \/ UpgradeFails(c) \/ ServerReceives(c) \/ Heartbeat(c)
       \/ AgentReceives(c) \/ NetworkDrops(c)
  \/ \E r \in Calls : Request(r) \/ Ceiling(r)
  \/ CloseAll \/ TimePasses
  \/ \E p \in Procs :
       \/ OpenSocket(p) \/ Stop(p) \/ Vanish(p)
       \/ \E r \in Calls : DecideEnds(p, r)

Spec == Init /\ [][Next]_vars

-----------------------------------------------------------------------------
(* Properties.                                                              *)

\* The registry's maps, the SDK's fields, the clocks and the frames under way keep
\* their types; the interval timer of an open connection is never forgotten.
TypeOK ==
  /\ registered \in Conns \cup {None} /\ present \in BOOLEAN
  /\ conn \in [Conns -> {"unused", "upgrading", "open", "closed"}]
  /\ pending \in [Conns -> SUBSET Calls]
  /\ call \in [Calls -> {"new", "waiting", "answered", "rejected"}]
  /\ age \in [Conns -> Nat] /\ timer \in [Conns -> 0 .. Interval]
  /\ \A c \in Conns : toAgent[c] \in Seq(ToAgentFrames) /\ toServer[c] \in Seq(ToServerFrames)
  /\ peer \in [Conns -> Procs \cup {None}]
  /\ mode \in [Procs -> {"down", "up", "stopped"}]
  /\ socket \in [Procs -> Conns \cup {None}]
  /\ {inflight, deciding} \subseteq [Procs -> SUBSET Calls]

\* However connections replace each other, at most one of the agent's is open, and
\* it is the one that acquire() finds; listeners think the agent online just then.
OneConnection ==
  /\ Open = {registered} \ {None}
  /\ present = (registered # None)

\* A call whose promise is not settled is in the pending map of an open
\* connection, so its answer, the close or the ceiling will settle it; the map of
\* a connection that closed is empty.
CallsArePending ==
  /\ \A r \in Calls : call[r] = "waiting" => \E c \in Open : r \in pending[c]
  /\ \A c \in Conns : pending[c] # {} => c \in Open

\* The registry is sound: one connection of the agent, and no call that is left
\* behind by a replacement, a close or a send that throws.
RegistrySound == OneConnection /\ CallsArePending

\* An agent works on a call only while the platform waits for it, or has told the
\* agent in a cancel or a close that is on its way.
NobodyWorksInVain ==
  \A p \in Procs : \A r \in inflight[p] :
    \/ call[r] = "waiting"
    \/ \E c \in Conns : /\ peer[c] = p
                        /\ {Frame("cancel", r), Closes} \cap ToSet(toAgent[c]) # {}

\* A process holds the connection, and it is neither closing nor broken.
Works(c) == peer[c] # None /\ Closes \notin ToSet(toServer[c])

\* The heartbeat tells the silent from the slow.  A connection whose peer is gone,
\* or does not answer, is closed an interval after the limit at the latest; one
\* that works is dropped only when a ping is unanswered.
HeartbeatSound ==
  /\ [](\A c \in Open : age[c] <= Timeout + Interval)
  /\ [][\A c \in Conns : Works(c) /\ PingTimeout(c) => Lag(c) > 0]_vars
=============================================================================
