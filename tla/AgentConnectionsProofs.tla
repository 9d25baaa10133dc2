------------------------- MODULE AgentConnectionsProofs -------------------------
(***************************************************************************)
(* For any number of processes, sockets and calls, and any values of the   *)
(* heartbeat's constants: an agent has one connection at a time, no call   *)
(* is forgotten by its connection, nobody computes what nobody waits for   *)
(* without the news on its way, and the heartbeat tells silent from slow.  *)
(***************************************************************************)
EXTENDS AgentConnections, FiniteSetTheorems, TLAPS

ServerTypes ==
  /\ registered \in Conns \cup {None}
  /\ conn \in [Conns -> {"unused", "upgrading", "open", "closed"}]
  /\ pending \in [Conns -> SUBSET Calls]
  /\ call \in [Calls -> {"new", "waiting", "answered", "rejected"}]

RegistryInv == ServerTypes /\ OneConnection /\ CallsArePending

\* A step that leaves the registry alone, and opens or closes no connection,
\* preserves the invariant: what the SDK and the network do is of this kind.
LEMMA OtherSteps ==
  ASSUME RegistryInv, UNCHANGED <<registered, present, pending, call>>,
         conn' \in [Conns -> {"unused", "upgrading", "open", "closed"}],
         \A c \in Conns : conn'[c] = "open" <=> conn[c] = "open"
  PROVE  RegistryInv'
BY DEF RegistryInv, ServerTypes, OneConnection, CallsArePending, Open

\* The connection that closes is the registered one.
LEMMA ClosePreserves ==
  ASSUME RegistryInv, NEW c \in Open, Close(c)
  PROVE  RegistryInv'
<1>1. c = registered /\ c \in Conns
  BY DEF RegistryInv, OneConnection, Open
<1>2. /\ registered' = None /\ present' = FALSE
      /\ conn' = [conn EXCEPT ![c] = "closed"]
      /\ pending' = [pending EXCEPT ![c] = {}]
      /\ call' = Rejected(c)
  BY <1>1 DEF Close, HandleSocketClosed, AfterClose
<1>3. Open' = {}
  BY <1>1, <1>2, ConnectionsAssumption DEF RegistryInv, ServerTypes, OneConnection, Open
<1>4. ServerTypes'
  BY <1>1, <1>2 DEF RegistryInv, ServerTypes, Rejected
<1>5. OneConnection'
  BY <1>2, <1>3 DEF OneConnection
<1>6. CallsArePending'
  <2>1. \A r \in Calls : call'[r] # "waiting"
    BY <1>1, <1>2 DEF RegistryInv, OneConnection, CallsArePending, Rejected
  <2>2. \A d \in Conns : pending'[d] = {}
    BY <1>1, <1>2 DEF RegistryInv, ServerTypes, OneConnection, CallsArePending
  <2> QED BY <2>1, <2>2 DEF CallsArePending
<1> QED BY <1>4, <1>5, <1>6 DEF RegistryInv

\* The connection registered takes the place of the one before, whose calls
\* are rejected and whose close handler leaves the new entry alone.
LEMMA RegisterPreserves ==
  ASSUME RegistryInv, NEW c \in Conns, Register(c)
  PROVE  RegistryInv'
<1>1. /\ conn[c] = "upgrading" /\ c # registered /\ c # None
      /\ conn' = [d \in Conns |-> IF d = c THEN "open" ELSE IF d = registered THEN "closed" ELSE conn[d]]
  BY ConnectionsAssumption DEF Register, RegistryInv, OneConnection, Open
<1>2. Open' = {c}
  BY <1>1 DEF RegistryInv, OneConnection, Open
<1>3. conn' \in [Conns -> {"unused", "upgrading", "open", "closed"}]
  BY <1>1 DEF RegistryInv, ServerTypes
<1>4. CASE registered = None
  <2>1. registered' = c /\ present' = TRUE /\ UNCHANGED <<pending, call>>
    BY <1>4 DEF Register
  <2>2. Open = {}
    BY <1>4 DEF RegistryInv, OneConnection
  <2> QED
    BY <1>1, <1>2, <1>3, <2>1, <2>2 DEF RegistryInv, ServerTypes, OneConnection, CallsArePending
<1>5. CASE registered # None
  <2>1. /\ registered' = c /\ present' = present
        /\ pending' = [pending EXCEPT ![registered] = {}]
        /\ call' = Rejected(registered)
    BY <1>1, <1>5 DEF Register, HandleSocketClosed, AfterClose, RegistryInv, OneConnection
  <2>2. Open = {registered} /\ registered \in Conns /\ present = TRUE
    BY <1>5 DEF RegistryInv, ServerTypes, OneConnection
  <2>3. ServerTypes'
    BY <1>3, <2>1, <2>2 DEF RegistryInv, ServerTypes, Rejected
  <2>4. OneConnection'
    BY <1>1, <1>2, <2>1, <2>2 DEF OneConnection
  <2>5. \A r \in Calls : call'[r] # "waiting"
    BY <2>1, <2>2 DEF RegistryInv, CallsArePending, Rejected
  <2>6. \A d \in Conns : pending'[d] = {}
    BY <2>1, <2>2 DEF RegistryInv, ServerTypes, CallsArePending
  <2> QED
    BY <2>3, <2>4, <2>5, <2>6 DEF RegistryInv, CallsArePending
<1> QED BY <1>4, <1>5

LEMMA RequestPreserves ==
  ASSUME RegistryInv, NEW r \in Calls, Request(r)
  PROVE  RegistryInv'
<1>1. CASE registered = None
  BY <1>1 DEF Request, RegistryInv, ServerTypes, OneConnection, CallsArePending, Open
<1>2. CASE registered # None
  <2>1. registered \in Open /\ registered \in Conns
    BY <1>2 DEF RegistryInv, ServerTypes, OneConnection
  <2>2. /\ pending' = [pending EXCEPT ![registered] = @ \cup {r}]
        /\ UNCHANGED <<registered, present, conn>>
        /\ \/ call' = [call EXCEPT ![r] = "waiting"]
           \/ call' = [call EXCEPT ![r] = "rejected"]
    BY <1>2 DEF Request
  <2>3. ServerTypes'
    BY <2>1, <2>2 DEF RegistryInv, ServerTypes
  <2>4. OneConnection'
    BY <2>2 DEF RegistryInv, OneConnection, Open
  <2>5. CallsArePending'
    BY <2>1, <2>2 DEF RegistryInv, ServerTypes, CallsArePending, Open
  <2> QED BY <2>3, <2>4, <2>5 DEF RegistryInv
<1> QED BY <1>1, <1>2

\* An answer and the ceiling take one call off the map and settle it.
LEMMA SettlePreserves ==
  ASSUME RegistryInv, NEW c \in Open, NEW r \in pending[c],
         NEW outcome \in {"answered", "rejected"},
         pending' = [pending EXCEPT ![c] = @ \ {r}],
         call' = [call EXCEPT ![r] = outcome] \/ (call[r] # "waiting" /\ call' = call),
         UNCHANGED <<registered, present, conn>>
  PROVE  RegistryInv'
<1>1. c \in Conns /\ r \in Calls
  BY DEF RegistryInv, ServerTypes, Open
<1>2. ServerTypes'
  BY <1>1 DEF RegistryInv, ServerTypes
<1>3. OneConnection'
  BY DEF RegistryInv, OneConnection, Open
<1>4. CallsArePending'
  BY <1>1 DEF RegistryInv, ServerTypes, CallsArePending, Open
<1> QED BY <1>2, <1>3, <1>4 DEF RegistryInv

LEMMA CeilingPreserves ==
  ASSUME RegistryInv, NEW r \in Calls, Ceiling(r)
  PROVE  RegistryInv'
<1>1. PICK c \in Open :
        /\ r \in pending[c]
        /\ pending' = [pending EXCEPT ![c] = @ \ {r}]
        /\ call' = [call EXCEPT ![r] = IF @ = "waiting" THEN "rejected" ELSE @]
        /\ UNCHANGED <<registered, present, conn>>
  BY DEF Ceiling
<1>2. call' = [call EXCEPT ![r] = "rejected"] \/ (call[r] # "waiting" /\ call' = call)
  BY <1>1 DEF RegistryInv, ServerTypes
<1> QED BY <1>1, <1>2, SettlePreserves

LEMMA ServerReceivesPreserves ==
  ASSUME RegistryInv, NEW c \in Conns, ServerReceives(c)
  PROVE  RegistryInv'
<1> DEFINE f == Head(toServer[c])
<1>1. c \in Open
  BY DEF ServerReceives
<1>2. CASE UNCHANGED server
  BY <1>2, OtherSteps DEF server, RegistryInv, ServerTypes
<1>3. CASE /\ f.of \in pending[c]
           /\ pending' = [pending EXCEPT ![c] = @ \ {f.of}]
           /\ call' = [call EXCEPT ![f.of] = IF f.type = "response" THEN "answered" ELSE "rejected"]
           /\ UNCHANGED <<registered, present, conn>>
  <2> HIDE DEF f
  <2> DEFINE outcome == IF f.type = "response" THEN "answered" ELSE "rejected"
  <2>1. outcome \in {"answered", "rejected"}
    OBVIOUS
  <2> QED BY <1>1, <1>3, <2>1, SettlePreserves
<1>4. CASE Close(c)
  BY <1>1, <1>4, ClosePreserves
<1> QED BY <1>2, <1>3, <1>4 DEF ServerReceives

LEMMA SdkAndNetworkPreserve ==
  ASSUME RegistryInv,
         \/ \E c \in Conns : UpgradeFails(c) \/ SendPing(c) \/ AgentReceives(c) \/ NetworkDrops(c)
         \/ TimePasses
         \/ \E p \in Procs : \/ OpenSocket(p) \/ Stop(p) \/ Vanish(p)
                             \/ \E r \in Calls : DecideEnds(p, r)
  PROVE  RegistryInv'
<1>1. CASE \E c \in Conns : SendPing(c) \/ AgentReceives(c) \/ NetworkDrops(c)
  BY <1>1, OtherSteps DEF SendPing, AgentReceives, NetworkDrops, server, RegistryInv, ServerTypes
<1>2. CASE TimePasses
  BY <1>2, OtherSteps DEF TimePasses, server, RegistryInv, ServerTypes
<1>3. CASE \E p \in Procs : Stop(p) \/ Vanish(p) \/ \E r \in Calls : DecideEnds(p, r)
  BY <1>3, OtherSteps DEF Stop, Vanish, DecideEnds, server, RegistryInv, ServerTypes
<1>4. CASE \E c \in Conns : UpgradeFails(c)
  BY <1>4, OtherSteps DEF UpgradeFails, RegistryInv, ServerTypes
<1>5. CASE \E p \in Procs : OpenSocket(p)
  <2>1. PICK c \in Conns : conn[c] = "unused" /\ conn' = [conn EXCEPT ![c] = "upgrading"]
    BY <1>5 DEF OpenSocket
  <2>2. UNCHANGED <<registered, present, pending, call>>
    BY <1>5 DEF OpenSocket
  <2> QED BY <2>1, <2>2, OtherSteps DEF RegistryInv, ServerTypes
<1> QED BY <1>1, <1>2, <1>3, <1>4, <1>5

LEMMA RegistryInit == Init => RegistryInv
<1> SUFFICES ASSUME Init PROVE RegistryInv
  OBVIOUS
<1>1. Open = {}
  BY DEF Init, Open
<1>2. ServerTypes
  BY DEF Init, ServerTypes
<1>3. OneConnection
  BY <1>1, Zenon DEF Init, OneConnection
<1>4. CallsArePending
  BY <1>1 DEF Init, CallsArePending
<1> QED BY <1>2, <1>3, <1>4 DEF RegistryInv

LEMMA RegistryStep == RegistryInv /\ [Next]_vars => RegistryInv'
<1> SUFFICES ASSUME RegistryInv, [Next]_vars PROVE RegistryInv'
  OBVIOUS
<1>1. ASSUME NEW c \in Conns, Register(c) PROVE RegistryInv'
  BY <1>1, RegisterPreserves
<1>2. ASSUME NEW c \in Conns, ServerReceives(c) PROVE RegistryInv'
  BY <1>2, ServerReceivesPreserves
<1>3. ASSUME NEW c \in Conns, PingTimeout(c) PROVE RegistryInv'
  BY <1>3, ClosePreserves DEF PingTimeout
<1>4. CASE CloseAll
  <2>1. registered \in Open
    BY <1>4 DEF CloseAll, RegistryInv, OneConnection
  <2> QED BY <1>4, <2>1, ClosePreserves DEF CloseAll
<1>5. ASSUME NEW r \in Calls, Request(r) PROVE RegistryInv'
  BY <1>5, RequestPreserves
<1>6. ASSUME NEW r \in Calls, Ceiling(r) PROVE RegistryInv'
  BY <1>6, CeilingPreserves
<1>7. CASE UNCHANGED vars
  BY <1>7, OtherSteps DEF vars, server, RegistryInv, ServerTypes
<1> QED
  BY <1>1, <1>2, <1>3, <1>4, <1>5, <1>6, <1>7, SdkAndNetworkPreserve DEF Next, Heartbeat

\* The registry, its connections and their pending maps stay consistent however
\* registrations, closes, answers, ceilings and throwing sends interleave.
THEOREM ConnectionsInvariant == Spec => []RegistryInv
BY RegistryInit, RegistryStep, PTL DEF Spec

\* One open connection at most, the one that acquire() finds, and a call that waits
\* has an entry in its map, so that its answer, its ceiling or the close settles
\* it: whatever order upgrades, replacements and late close events come in.
THEOREM ConnectionsSound == Spec => []RegistrySound
<1>1. RegistryInv => RegistrySound
  BY DEF RegistryInv, RegistrySound
<1> QED BY <1>1, ConnectionsInvariant, PTL

-----------------------------------------------------------------------------
(* What an agent works on.                                                  *)

Types ==
  /\ present \in BOOLEAN
  /\ age \in [Conns -> Nat] /\ timer \in [Conns -> 0 .. Interval]
  /\ toAgent \in [Conns -> Seq(ToAgentFrames)] /\ toServer \in [Conns -> Seq(ToServerFrames)]
  /\ peer \in [Conns -> Procs \cup {None}]
  /\ mode \in [Procs -> {"down", "up", "stopped"}]
  /\ socket \in [Procs -> Conns \cup {None}]
  /\ inflight \in [Procs -> SUBSET Calls] /\ deciding \in [Procs -> SUBSET Calls]

\* f is the i-th of the frames on their way to the agent on c.
Sent(c, i, f) == i \in 1 .. Len(toAgent[c]) /\ toAgent[c][i] = f
Replied(c, r) == \E j \in 1 .. Len(toServer[c]) : toServer[c][j] \in {Frame("response", r), Frame("error", r)}

\* A call that is not made yet has left no trace.
Unmade ==
  \A r \in Calls : call[r] = "new" =>
    /\ \A c \in Conns : r \notin pending[c] /\ ~Replied(c, r)
    /\ \A c \in Conns : \A i \in Nat : ~Sent(c, i, Frame("decide", r))
    /\ \A p \in Procs : r \notin deciding[p]

\* A call is in one place: in one decide frame, or in one handler, or in replies.
Once ==
  \A r \in Calls :
    /\ \A c, d \in Conns : \A i, j \in Nat :
         Sent(c, i, Frame("decide", r)) /\ Sent(d, j, Frame("decide", r)) => c = d /\ i = j
    /\ \A c, d \in Conns : \A i \in Nat : Sent(c, i, Frame("decide", r)) => ~Replied(d, r)
    /\ \A c \in Conns, p \in Procs : \A i \in Nat : Sent(c, i, Frame("decide", r)) => r \notin deciding[p]
    /\ \A c \in Conns, p \in Procs : r \in deciding[p] => ~Replied(c, r)
    /\ \A p, q \in Procs : r \in deciding[p] /\ r \in deciding[q] => p = q
    /\ \A p \in Procs : r \in inflight[p] => r \in deciding[p]

\* The connection that waits for a call is the one over which the agent got it,
\* or will.
SameConnection ==
  \A r \in Calls : \A c \in Conns : r \in pending[c] =>
    /\ \A p \in Procs : r \in inflight[p] => peer[c] = p
    /\ \A d \in Conns : \A i \in Nat : Sent(d, i, Frame("decide", r)) => d = c

\* Nothing follows a close, and nothing is under way to a socket without a process.
Delivery ==
  \A c \in Conns :
    /\ \A i \in Nat : Sent(c, i, Closes) => i = Len(toAgent[c])
    /\ toAgent[c] # <<>> => peer[c] # None
    /\ conn[c] = "unused" => peer[c] = None

\* The platform waits for r, or c carries the news that it does not, behind
\* the first i frames.
Told(c, i, r) ==
  \/ call[r] = "waiting"
  \/ \E j \in Nat : j > i /\ (Sent(c, j, Frame("cancel", r)) \/ Sent(c, j, Closes))

\* What an agent is asked, and what it works on, is waited for, or the news is
\* on its way behind the question.
NewsFollows ==
  \A r \in Calls :
    /\ \A c \in Conns : \A i \in Nat : Sent(c, i, Frame("decide", r)) => Told(c, i, r)
    /\ \A p \in Procs : r \in inflight[p] =>
         call[r] = "waiting" \/ \E c \in Conns : peer[c] = p /\ Told(c, 0, r)

WorkInv == RegistryInv /\ Types /\ Unmade /\ Once /\ SameConnection /\ Delivery /\ NewsFollows

\* Frames are told apart by what they are and the call they are about.
LEMMA FrameKinds ==
  /\ \A t, u, q, r : Frame(t, q) = Frame(u, r) <=> t = u /\ q = r
  /\ \A r \in Calls : /\ {Frame("decide", r), Frame("cancel", r)} \subseteq ToAgentFrames
                      /\ {Frame("response", r), Frame("error", r)} \subseteq ToServerFrames
  /\ {Ping, Closes} \subseteq ToAgentFrames /\ {Pong, Closes} \subseteq ToServerFrames
<1>1. ASSUME NEW t, NEW u, NEW q, NEW r PROVE Frame(t, q) = Frame(u, r) <=> t = u /\ q = r
  <2>1. Frame(t, q).type = t /\ Frame(u, r).type = u /\ Frame(t, q).of = q /\ Frame(u, r).of = r
    BY DEF Frame
  <2> QED BY <2>1
<1>2. \A r \in Calls : /\ {Frame("decide", r), Frame("cancel", r)} \subseteq ToAgentFrames
                       /\ {Frame("response", r), Frame("error", r)} \subseteq ToServerFrames
  BY DEF ToAgentFrames, ToServerFrames
<1>3. {Ping, Closes} \subseteq ToAgentFrames /\ {Pong, Closes} \subseteq ToServerFrames
  BY DEF ToAgentFrames, ToServerFrames
<1> QED BY <1>1, <1>2, <1>3

\* What is on its way to the agent after the server sent f on c.
LEMMA Sends ==
  ASSUME Types, Delivery, NEW c \in Conns, NEW f \in ToAgentFrames, toAgent' = WithFrames(c, <<f>>)
  PROVE  /\ toAgent' \in [Conns -> Seq(ToAgentFrames)]
         /\ \A d \in Conns : \A i \in Nat : \A g \in ToAgentFrames :
              Sent(d, i, g)' <=> \/ Sent(d, i, g)
                                 \/ /\ d = c /\ i = Len(toAgent[c]) + 1 /\ g = f
                                    /\ peer[c] # None /\ \A j \in Nat : ~Sent(c, j, Closes)
         /\ \A d \in Conns : d # c => toAgent'[d] = toAgent[d]
         /\ toAgent[c] # <<>> => toAgent'[c] # <<>>
         /\ peer[c] = None => toAgent' = toAgent
<1>0. toAgent \in [Conns -> Seq(ToAgentFrames)] /\ toAgent[c] \in Seq(ToAgentFrames)
  BY DEF Types
<1>1. Closes \in ToSet(toAgent[c]) <=> \E j \in Nat : Sent(c, j, Closes)
  BY <1>0 DEF ToSet, Sent
<1>2. CASE peer[c] = None \/ Closes \in ToSet(toAgent[c])
  <2>1. toAgent' = toAgent
    BY <1>0, <1>2 DEF WithFrames
  <2> QED BY <1>0, <1>1, <1>2, <2>1 DEF Sent
<1>3. CASE peer[c] # None /\ Closes \notin ToSet(toAgent[c])
  <2>1. toAgent' = [toAgent EXCEPT ![c] = @ \o <<f>>]
    BY <1>0, <1>3 DEF WithFrames
  <2> DEFINE s == toAgent[c] \o <<f>>
  <2>2. /\ s \in Seq(ToAgentFrames) /\ Len(s) = Len(toAgent[c]) + 1
        /\ \A i \in 1 .. Len(s) : s[i] = IF i <= Len(toAgent[c]) THEN toAgent[c][i] ELSE f
    BY <1>0
  <2>3. toAgent'[c] = s /\ \A d \in Conns : d # c => toAgent'[d] = toAgent[d]
    BY <1>0, <2>1
  <2>4. toAgent' \in [Conns -> Seq(ToAgentFrames)]
    BY <1>0, <2>1, <2>2
  <2> HIDE DEF s
  <2>5. s # <<>>
    BY <1>0, <2>2
  <2>6. \A d \in Conns : \A i \in Nat : \A g \in ToAgentFrames : d # c => (Sent(d, i, g)' <=> Sent(d, i, g))
    BY <2>3 DEF Sent
  <2>7. \A i \in Nat : \A g \in ToAgentFrames :
          Sent(c, i, g)' <=> Sent(c, i, g) \/ (i = Len(toAgent[c]) + 1 /\ g = f)
    BY <1>0, <2>2, <2>3 DEF Sent
  <2> QED BY <1>1, <1>3, <2>3, <2>4, <2>5, <2>6, <2>7
<1> QED BY <1>2, <1>3

\* The agent takes the first frame of c.
LEMMA Takes ==
  ASSUME Types, NEW c \in Conns, toAgent[c] # <<>>, toAgent' = [toAgent EXCEPT ![c] = Tail(@)]
  PROVE  /\ toAgent' \in [Conns -> Seq(ToAgentFrames)]
         /\ Head(toAgent[c]) \in ToAgentFrames
         /\ \A g \in ToAgentFrames : g = Head(toAgent[c]) <=> Sent(c, 1, g)
         /\ Len(toAgent'[c]) = Len(toAgent[c]) - 1 /\ Len(toAgent[c]) \in Nat \ {0}
         /\ \A i \in Nat : \A g \in ToAgentFrames : Sent(c, i, g)' <=> i # 0 /\ Sent(c, i + 1, g)
         /\ \A d \in Conns : d # c => toAgent'[d] = toAgent[d]
         /\ \A d \in Conns : \A i \in Nat : \A g \in ToAgentFrames : d # c => (Sent(d, i, g)' <=> Sent(d, i, g))
<1>0. toAgent \in [Conns -> Seq(ToAgentFrames)] /\ toAgent[c] \in Seq(ToAgentFrames)
  BY DEF Types
<1> DEFINE s == toAgent[c]  t == Tail(s)
<1>1. /\ t \in Seq(ToAgentFrames) /\ Len(t) = Len(s) - 1 /\ Len(s) \in Nat \ {0}
      /\ \A i \in 1 .. Len(t) : t[i] = s[i + 1]
      /\ Head(s) = s[1] /\ s[1] \in ToAgentFrames
  BY <1>0
<1>2. toAgent'[c] = t /\ \A d \in Conns : d # c => toAgent'[d] = toAgent[d]
  BY <1>0
<1>3. toAgent' \in [Conns -> Seq(ToAgentFrames)]
  BY <1>0, <1>1
<1> HIDE DEF t
<1>4. \A i \in Nat : \A g \in ToAgentFrames : Sent(c, i, g)' <=> i # 0 /\ Sent(c, i + 1, g)
  BY <1>0, <1>1, <1>2 DEF Sent
<1>5. \A g \in ToAgentFrames : g = Head(toAgent[c]) <=> Sent(c, 1, g)
  BY <1>0, <1>1 DEF Sent
<1>6. \A d \in Conns : \A i \in Nat : \A g \in ToAgentFrames : d # c => (Sent(d, i, g)' <=> Sent(d, i, g))
  BY <1>2 DEF Sent
<1> QED BY <1>1, <1>2, <1>3, <1>4, <1>5, <1>6

\* The server tells news, if any, and gives up only calls whose answer came or
\* whose connection gets the news.
News(c, i, r) == Sent(c, i, Frame("cancel", r)) \/ Sent(c, i, Closes)

LEMMA ServerSteps ==
  ASSUME WorkInv, UNCHANGED <<peer, inflight, deciding>>,
         \A c \in Conns : \A i \in Nat : \A g \in ToAgentFrames : Sent(c, i, g) => Sent(c, i, g)',
         \A c \in Conns : \A i \in Nat : \A r \in Calls :
           Sent(c, i, Frame("decide", r))' => Sent(c, i, Frame("decide", r)),
         \A c \in Conns : \A r \in Calls : Replied(c, r)' => Replied(c, r),
         \A c \in Conns : pending'[c] \subseteq pending[c],
         \A r \in Calls : call'[r] = "new" => call[r] = "new",
         \A r \in Calls : call[r] = "waiting" /\ call'[r] # "waiting" =>
           \/ \E d \in Conns : Replied(d, r)
           \/ \E d \in Conns : r \in pending[d] /\
                \/ peer[d] = None
                \/ \E j \in Nat : Sent(d, j, Closes)
                \/ \E j \in Nat : j > Len(toAgent[d]) /\ News(d, j, r)'
  PROVE  Unmade' /\ Once' /\ SameConnection' /\ NewsFollows'
<1>1. Unmade'
  BY DEF WorkInv, Unmade
<1>2. Once'
  BY DEF WorkInv, Once
<1>3. SameConnection'
  <2> SUFFICES ASSUME NEW r \in Calls, NEW c \in Conns, r \in pending'[c]
               PROVE  /\ \A p \in Procs : r \in inflight'[p] => peer'[c] = p
                      /\ \A d \in Conns : \A i \in Nat : Sent(d, i, Frame("decide", r))' => d = c
    BY DEF SameConnection
  <2>1. r \in pending[c] /\ SameConnection
    BY DEF WorkInv
  <2>2. \A p \in Procs : r \in inflight[p] => peer[c] = p
    BY <2>1 DEF SameConnection
  <2>3. \A d \in Conns : \A i \in Nat : Sent(d, i, Frame("decide", r)) => d = c
    BY <2>1 DEF SameConnection
  <2>4. \A d \in Conns : \A i \in Nat : Sent(d, i, Frame("decide", r))' => d = c
    BY <2>3
  <2>5. \A p \in Procs : r \in inflight'[p] => peer'[c] = p
    BY <2>2
  <2> QED BY <2>4, <2>5
<1>4. \A c \in Conns : \A i \in Nat : \A r \in Calls : Sent(c, i, Closes) \/ Sent(c, i, Frame("cancel", r)) => News(c, i, r)'
  BY FrameKinds DEF News
<1>5. NewsFollows'
  <2> SUFFICES ASSUME NEW r \in Calls
               PROVE  /\ \A c \in Conns : \A i \in Nat : Sent(c, i, Frame("decide", r))' => Told(c, i, r)'
                      /\ \A p \in Procs : r \in inflight'[p] =>
                           call'[r] = "waiting" \/ \E c \in Conns : peer'[c] = p /\ Told(c, 0, r)'
    BY DEF NewsFollows
  <2>1. ASSUME NEW c \in Conns, NEW i \in Nat, Told(c, i, r), call[r] = "waiting" => call'[r] = "waiting"
        PROVE  Told(c, i, r)'
    BY <1>4, <2>1 DEF Told, News
  <2>2. ASSUME NEW c \in Conns, NEW i \in Nat, Sent(c, i, Frame("decide", r))' PROVE Told(c, i, r)'
    <3>1. Sent(c, i, Frame("decide", r)) /\ Told(c, i, r) /\ \A d \in Conns : ~Replied(d, r)
      BY <2>2 DEF WorkInv, Once, NewsFollows
    <3>2. i <= Len(toAgent[c]) /\ toAgent[c] # <<>> /\ Len(toAgent[c]) \in Nat
      BY <3>1 DEF Sent, WorkInv, Types
    <3>3. CASE call[r] = "waiting" /\ call'[r] # "waiting"
      <4>1. PICK d \in Conns : r \in pending[d] /\
                \/ peer[d] = None
                \/ \E j \in Nat : Sent(d, j, Closes)
                \/ \E j \in Nat : j > Len(toAgent[d]) /\ News(d, j, r)'
        BY <3>1, <3>3
      <4>2. d = c /\ peer[c] # None
        BY <3>1, <3>2, <4>1 DEF WorkInv, SameConnection, Delivery
      <4>3. ASSUME NEW j \in Nat, Sent(c, j, Closes) PROVE j > i
        <5>1. j = Len(toAgent[c])
          BY <4>3 DEF WorkInv, Delivery
        <5>2. j # i
          BY <3>1, <4>3, FrameKinds DEF Sent, Closes
        <5> QED BY <3>2, <5>1, <5>2
      <4>4. PICK j \in Nat : j > i /\ News(c, j, r)'
        BY <1>4, <3>2, <4>1, <4>2, <4>3
      <4> QED BY <4>4 DEF Told, News
    <3> QED BY <2>1, <3>1, <3>3
  <2>3. ASSUME NEW p \in Procs, r \in inflight'[p]
        PROVE  call'[r] = "waiting" \/ \E c \in Conns : peer'[c] = p /\ Told(c, 0, r)'
    <3>1. r \in inflight[p] /\ \A d \in Conns : ~Replied(d, r)
      BY <2>3 DEF WorkInv, Once
    <3>2. CASE call[r] = "waiting" /\ call'[r] # "waiting"
      <4>1. PICK d \in Conns : r \in pending[d] /\
                \/ peer[d] = None
                \/ \E j \in Nat : Sent(d, j, Closes)
                \/ \E j \in Nat : j > Len(toAgent[d]) /\ News(d, j, r)'
        BY <3>1, <3>2
      <4>2. peer[d] = p /\ p # None
        BY <3>1, <4>1, ConnectionsAssumption DEF WorkInv, SameConnection
      <4>3. \A j \in Nat : Sent(d, j, Closes) => j > 0
        BY DEF Sent
      <4>4. PICK j \in Nat : j > 0 /\ News(d, j, r)'
        <5>1. Len(toAgent[d]) \in Nat
          BY DEF WorkInv, Types
        <5> QED BY <1>4, <4>1, <4>2, <4>3, <5>1
      <4> QED BY <4>2, <4>4 DEF Told, News
    <3>3. call[r] = "waiting" \/ \E c \in Conns : peer[c] = p /\ Told(c, 0, r)
      BY <3>1 DEF WorkInv, NewsFollows
    <3> QED BY <2>1, <3>2, <3>3
  <2> QED BY <2>2, <2>3
<1> QED BY <1>1, <1>2, <1>3, <1>5

\* A frame that is no question leaves delivery in order.
LEMMA SendKeepsDelivery ==
  ASSUME WorkInv, NEW c \in Conns, NEW f \in ToAgentFrames, toAgent' = WithFrames(c, <<f>>),
         UNCHANGED peer, \A d \in Conns : conn'[d] = "unused" => conn[d] = "unused"
  PROVE  Delivery'
<1>1. Types /\ Delivery
  BY DEF WorkInv
<1>2. toAgent[c] \in Seq(ToAgentFrames) /\ toAgent'[c] \in Seq(ToAgentFrames)
  <2>1. toAgent \in [Conns -> Seq(ToAgentFrames)]
    BY <1>1 DEF Types
  <2>2. toAgent' \in [Conns -> Seq(ToAgentFrames)]
    BY <1>1, Sends
  <2> QED BY <2>1, <2>2
<1>3. ASSUME NEW d \in Conns, NEW i \in Nat, Sent(d, i, Closes)' PROVE i = Len(toAgent'[d])
  <2>1. CASE d # c
    BY <1>1, <1>3, <2>1, Sends, FrameKinds DEF Delivery
  <2>2. CASE d = c /\ Sent(c, i, Closes)
    <3>1. i = Len(toAgent[c]) /\ toAgent' = toAgent
      BY <1>1, <1>2, <2>2 DEF Delivery, WithFrames, ToSet, Sent, Types
    <3> QED BY <2>2, <3>1
  <2>3. CASE d = c /\ i = Len(toAgent[c]) + 1
    <3>1. i \in 1 .. Len(toAgent'[c])
      BY <1>3, <2>3 DEF Sent
    <3>2. Len(toAgent'[c]) <= Len(toAgent[c]) + 1
      BY <1>1, <1>2 DEF WithFrames, Types
    <3> QED BY <1>2, <2>3, <3>1, <3>2
  <2>4. Closes \in ToAgentFrames
    BY FrameKinds
  <2>5. Sent(d, i, Closes) \/ (d = c /\ i = Len(toAgent[c]) + 1)
    BY <1>1, <1>3, <2>4, Sends
  <2> QED BY <2>1, <2>2, <2>3, <2>5
<1>4. \A d \in Conns : toAgent'[d] # <<>> => peer[d] # None
  BY <1>1, Sends DEF Delivery
<1> QED BY <1>1, <1>3, <1>4 DEF Delivery

LEMMA EmptyFrames == <<>> \in Seq(ToAgentFrames) /\ <<>> \in Seq(ToServerFrames)
OBVIOUS

\* Each step keeps the types.
LEMMA CloseKeepsTypes ==
  ASSUME WorkInv, NEW c \in Conns, Close(c), UNCHANGED agent
  PROVE  Types'
<1>1. toAgent' \in [Conns -> Seq(ToAgentFrames)]
  BY Sends, FrameKinds DEF WorkInv, Close, HandleSocketClosed
<1>2. toServer' \in [Conns -> Seq(ToServerFrames)]
  BY EmptyFrames DEF WorkInv, Types, Close, HandleSocketClosed
<1>3. present' \in BOOLEAN
  BY Zenon DEF Close, HandleSocketClosed
<1>4. age' \in [Conns -> Nat] /\ timer' \in [Conns -> 0 .. Interval]
  BY ConnectionsAssumption DEF WorkInv, Types, Close
<1> QED
  BY <1>1, <1>2, <1>3, <1>4 DEF WorkInv, Types, agent

LEMMA ServerKeepsTypes ==
  ASSUME WorkInv, 
         \/ \E c \in Conns : Register(c) \/ UpgradeFails(c) \/ ServerReceives(c) \/ Heartbeat(c) \/ NetworkDrops(c)
         \/ \E r \in Calls : Request(r) \/ Ceiling(r)
         \/ CloseAll \/ TimePasses
  PROVE  Types'
<1> USE ConnectionsAssumption
<1>0. Types /\ Delivery /\ RegistryInv
  BY DEF WorkInv
<1>1. ASSUME NEW c \in Conns, Register(c) PROVE Types'
  <2>1. toAgent' \in [Conns -> Seq(ToAgentFrames)] /\ toServer' \in [Conns -> Seq(ToServerFrames)] /\ present' \in BOOLEAN
    <3>1. CASE registered = None
      BY <1>0, <1>1, <3>1 DEF Register, Types
    <3>2. CASE registered # None
      <4>1. registered \in Conns /\ HandleSocketClosed(registered, c)
        BY <1>0, <1>1, <3>2 DEF Register, RegistryInv, ServerTypes
      <4>2. toAgent' \in [Conns -> Seq(ToAgentFrames)]
        BY <1>0, <4>1, Sends, FrameKinds DEF HandleSocketClosed
      <4>3. toServer' = [toServer EXCEPT ![registered] = <<>>]
        BY <4>1 DEF HandleSocketClosed
      <4>4. present' \in BOOLEAN
        BY <4>1, Zenon DEF HandleSocketClosed
      <4> QED BY <1>0, <4>1, <4>2, <4>3, <4>4, EmptyFrames DEF Types
    <3> QED BY <3>1, <3>2
  <2>2. UNCHANGED agent /\ age' = [d \in Conns |-> 0] /\ timer' = [d \in Conns |-> IF d = c THEN Interval ELSE 0]
    BY <1>1 DEF Register
  <2>3. age' \in [Conns -> Nat] /\ timer' \in [Conns -> 0 .. Interval]
    BY <2>2
  <2> QED BY <1>0, <2>1, <2>2, <2>3 DEF Types, agent
<1>2. ASSUME NEW c \in Conns, UpgradeFails(c) PROVE Types'
  <2>1. toAgent' \in [Conns -> Seq(ToAgentFrames)]
    BY <1>0, <1>2, Sends, FrameKinds DEF UpgradeFails
  <2>2. toServer' \in [Conns -> Seq(ToServerFrames)]
    BY <1>0, <1>2, EmptyFrames DEF UpgradeFails, Types
  <2>3. UNCHANGED <<present, heart, agent>>
    BY <1>2 DEF UpgradeFails
  <2> QED BY <1>0, <2>1, <2>2, <2>3 DEF Types, agent, heart
<1>3. ASSUME NEW c \in Conns, ServerReceives(c) PROVE Types'
  <2>1. CASE Close(c)
    BY <1>3, <2>1, CloseKeepsTypes DEF ServerReceives
  <2>2. CASE /\ toServer' = [toServer EXCEPT ![c] = Tail(@)] /\ toServer[c] # <<>>
             /\ age' = [age EXCEPT ![c] = 0] \/ UNCHANGED age
             /\ UNCHANGED <<present, timer, toAgent, agent>>
    <3>1. toServer' \in [Conns -> Seq(ToServerFrames)]
      BY <1>0, <2>2 DEF Types
    <3>2. age' \in [Conns -> Nat]
      BY <1>0, <2>2 DEF Types
    <3> QED BY <1>0, <2>2, <3>1, <3>2 DEF Types, agent
  <2> QED BY <1>3, <2>1, <2>2 DEF ServerReceives, server, heart
<1>4. ASSUME NEW c \in Conns, PingTimeout(c) PROVE Types'
  BY <1>4, CloseKeepsTypes DEF PingTimeout
<1>5. ASSUME NEW c \in Conns, SendPing(c) PROVE Types'
  <2>1. toAgent' \in [Conns -> Seq(ToAgentFrames)]
    BY <1>0, <1>5, Sends, FrameKinds DEF SendPing
  <2>2. timer' \in [Conns -> 0 .. Interval]
    BY <1>0, <1>5 DEF SendPing, Types, NextTick
  <2>3. UNCHANGED <<server, age, toServer, agent>>
    BY <1>5 DEF SendPing
  <2> QED BY <1>0, <2>1, <2>2, <2>3 DEF Types, agent, server
<1>6. ASSUME NEW c \in Conns, NetworkDrops(c) PROVE Types'
  <2>1. <<Closes>> \in Seq(ToAgentFrames) /\ <<Closes>> \in Seq(ToServerFrames) /\ <<>> \in Seq(ToAgentFrames)
    BY FrameKinds
  <2>2. toAgent' \in [Conns -> Seq(ToAgentFrames)] /\ toServer' \in [Conns -> Seq(ToServerFrames)]
    BY <1>0, <1>6, <2>1 DEF NetworkDrops, Types
  <2> QED BY <1>0, <1>6, <2>2 DEF NetworkDrops, Types, agent, server, heart
<1>7. ASSUME NEW r \in Calls, Request(r) PROVE Types'
  <2>1. toAgent' \in [Conns -> Seq(ToAgentFrames)]
    BY <1>0, <1>7, Sends, FrameKinds DEF Request, RegistryInv, ServerTypes, Types
  <2> QED BY <1>0, <1>7, <2>1 DEF Request, Types, agent, heart
<1>8. ASSUME NEW r \in Calls, Ceiling(r) PROVE Types'
  <2>1. PICK c \in Conns : toAgent' = WithFrames(c, <<Frame("cancel", r)>>)
    BY <1>8 DEF Ceiling, AtCeiling, Open
  <2>2. toAgent' \in [Conns -> Seq(ToAgentFrames)]
    BY <1>0, <2>1, Sends, FrameKinds
  <2> QED BY <1>0, <1>8, <2>2 DEF Ceiling, Types, agent, heart
<1>9. CASE CloseAll
  <2>1. registered \in Conns
    BY <1>0, <1>9 DEF CloseAll, RegistryInv, ServerTypes
  <2> QED BY <1>9, <2>1, CloseKeepsTypes DEF CloseAll
<1>10. CASE TimePasses
  <2>1. /\ UNCHANGED <<present, toAgent, toServer, peer, mode, socket, inflight, deciding>>
        /\ age' = [c \in Conns |-> IF c \in Open THEN age[c] + 1 ELSE 0]
        /\ timer' = [c \in Conns |-> IF c \in Open /\ timer[c] > 0 THEN timer[c] - 1 ELSE timer[c]]
    BY <1>10 DEF TimePasses, agent, server
  <2>2. age' \in [Conns -> Nat]
    BY <1>0, <2>1 DEF Types
  <2>3. timer' \in [Conns -> 0 .. Interval]
    BY <1>0, <2>1, ConnectionsAssumption DEF Types
  <2> QED BY <1>0, <2>1, <2>2, <2>3 DEF Types
<1> QED BY <1>1, <1>2, <1>3, <1>4, <1>5, <1>6, <1>7, <1>8, <1>9, <1>10 DEF Heartbeat

\* What the SDK puts on the wire.
LEMMA SendsBack ==
  ASSUME WorkInv, NEW p \in Procs, NEW f \in ToServerFrames, Send(p, f)
  PROVE  /\ toServer' \in [Conns -> Seq(ToServerFrames)]
         /\ \A c \in Conns : \A r \in Calls :
              Replied(c, r)' => Replied(c, r) \/ f \in {Frame("response", r), Frame("error", r)}
<1>0. toServer \in [Conns -> Seq(ToServerFrames)]
  BY DEF WorkInv, Types
<1>1. CASE socket[p] \notin Open
  BY <1>0, <1>1 DEF Send, Replied
<1>2. CASE socket[p] \in Open
  <2> DEFINE c == socket[p]  s == Append(toServer[c], f)
  <2>1. c \in Conns /\ toServer' = [toServer EXCEPT ![c] = s]
    BY <1>2 DEF Send, Open
  <2>2. /\ s \in Seq(ToServerFrames) /\ Len(s) = Len(toServer[c]) + 1
        /\ \A i \in 1 .. Len(s) : s[i] = IF i <= Len(toServer[c]) THEN toServer[c][i] ELSE f
    BY <1>0, <2>1
  <2>3. toServer' \in [Conns -> Seq(ToServerFrames)] /\ toServer'[c] = s /\ \A d \in Conns : d # c => toServer'[d] = toServer[d]
    BY <1>0, <2>1, <2>2
  <2> HIDE DEF s
  <2>4. Len(toServer[c]) \in Nat
    BY <1>0, <2>1
  <2> QED BY <2>2, <2>3, <2>4 DEF Replied
<1> QED BY <1>1, <1>2

LEMMA AgentKeepsTypes ==
  ASSUME WorkInv,
         \/ \E c \in Conns : AgentReceives(c)
         \/ \E p \in Procs : OpenSocket(p) \/ Stop(p) \/ Vanish(p) \/ \E r \in Calls : DecideEnds(p, r)
  PROVE  Types'
<1> USE ConnectionsAssumption
<1>0. Types
  BY DEF WorkInv
<1>1. ASSUME NEW c \in Conns, AgentReceives(c) PROVE Types'
  <2> DEFINE p == peer[c]  f == Head(toAgent[c])
  <2>1. p \in Procs /\ toAgent[c] # <<>> /\ toAgent' = [toAgent EXCEPT ![c] = Tail(@)]
    BY <1>0, <1>1 DEF AgentReceives, Types
  <2>2. toAgent' \in [Conns -> Seq(ToAgentFrames)] /\ f \in ToAgentFrames
    BY <1>0, <2>1, Takes
  <2>3. UNCHANGED <<present, age, timer>>
    BY <1>1 DEF AgentReceives, server, heart
  <2>4. CASE Send(p, Pong) /\ UNCHANGED agent
    <3>1. toServer' \in [Conns -> Seq(ToServerFrames)]
      BY <2>1, <2>4, SendsBack, FrameKinds
    <3> QED BY <1>0, <2>2, <2>3, <2>4, <3>1 DEF Types, agent
  <2>5. CASE /\ f.type = "decide"
             /\ inflight' = [inflight EXCEPT ![p] = @ \cup {f.of}]
             /\ deciding' = [deciding EXCEPT ![p] = @ \cup {f.of}]
             /\ UNCHANGED <<toServer, peer, mode, socket>>
    <3>1. f.of \in Calls
      <4>1. Ping.type = "ping" /\ Closes.type = "close" /\ \A t, r : Frame(t, r).of = r
        BY DEF Ping, Closes, Frame
      <4>2. PICK t \in {"decide", "cancel"}, r \in Calls : f = Frame(t, r)
        BY <2>2, <2>5, <4>1 DEF ToAgentFrames
      <4> QED BY <4>1, <4>2
    <3> HIDE DEF f
    <3> QED BY <1>0, <2>1, <2>2, <2>3, <2>5, <3>1 DEF Types
  <2>6. CASE /\ inflight' = [inflight EXCEPT ![p] = @ \ {f.of}]
             /\ UNCHANGED <<toServer, peer, mode, socket, deciding>>
    <3> HIDE DEF f
    <3> QED BY <1>0, <2>1, <2>2, <2>3, <2>6 DEF Types
  <2>7. CASE /\ peer' = [peer EXCEPT ![c] = None]
             /\ socket' = [socket EXCEPT ![p] = None]
             /\ inflight' = [inflight EXCEPT ![p] = {}]
             /\ mode' = [mode EXCEPT ![p] = IF @ = "stopped" THEN @ ELSE "down"]
             /\ UNCHANGED <<toServer, deciding>>
    BY <1>0, <2>1, <2>2, <2>3, <2>7 DEF Types
  <2> QED BY <1>1, <2>4, <2>5, <2>6, <2>7 DEF AgentReceives
<1>2. ASSUME NEW p \in Procs, OpenSocket(p) PROVE Types'
  BY <1>0, <1>2 DEF OpenSocket, Types, heart
<1>3. ASSUME NEW p \in Procs, Stop(p) PROVE Types'
  <2>1. toServer' \in [Conns -> Seq(ToServerFrames)]
    <3>1. CASE socket[p] = None
      BY <1>0, <1>3, <3>1 DEF Stop, Types
    <3>2. CASE socket[p] # None
      <4>1. socket[p] \in Conns /\ toServer[socket[p]] \in Seq(ToServerFrames)
        BY <1>0, <3>2 DEF Types
      <4>2. Append(toServer[socket[p]], Closes) \in Seq(ToServerFrames)
        BY <4>1, FrameKinds
      <4> QED BY <1>0, <1>3, <4>1, <4>2 DEF Stop, Types
    <3> QED BY <3>1, <3>2
  <2> QED BY <1>0, <1>3, <2>1 DEF Stop, Types, server, heart
<1>4. ASSUME NEW p \in Procs, Vanish(p) PROVE Types'
  <2>1. toAgent' \in [Conns -> Seq(ToAgentFrames)]
    BY <1>0, <1>4 DEF Vanish, Types
  <2> QED BY <1>0, <1>4, <2>1 DEF Vanish, Types, server, heart
<1>5. ASSUME NEW p \in Procs, NEW r \in Calls, DecideEnds(p, r) PROVE Types'
  <2>1. toServer' \in [Conns -> Seq(ToServerFrames)]
    BY <1>5, SendsBack, FrameKinds DEF DecideEnds
  <2> QED BY <1>0, <1>5, <2>1 DEF DecideEnds, Types, server, heart
<1> QED BY <1>1, <1>2, <1>3, <1>4, <1>5

WorkParts == Unmade /\ Once /\ SameConnection /\ Delivery /\ NewsFollows

\* A step of the server that leaves what is under way to the agent alone.
LEMMA QuietSteps ==
  ASSUME WorkInv, UNCHANGED <<peer, inflight, deciding, toAgent>>,
         \A c \in Conns : conn'[c] = "unused" => conn[c] = "unused",
         \A c \in Conns : \A r \in Calls : Replied(c, r)' => Replied(c, r),
         \A c \in Conns : pending'[c] \subseteq pending[c],
         \A r \in Calls : call'[r] = "new" => call[r] = "new",
         \A r \in Calls : call[r] = "waiting" /\ call'[r] # "waiting" => \E d \in Conns : Replied(d, r)
  PROVE  WorkParts'
<1>1. \A c \in Conns : \A i \in Nat : \A g : Sent(c, i, g)' <=> Sent(c, i, g)
  BY DEF Sent
<1>2. Delivery'
  BY <1>1 DEF WorkInv, Delivery
<1>3. Unmade' /\ Once' /\ SameConnection' /\ NewsFollows'
  BY <1>1, ServerSteps
<1> QED BY <1>2, <1>3 DEF WorkParts

\* A step of the server that sends a frame on c, and gives up only calls of c.
LEMMA TellingSteps ==
  ASSUME WorkInv, UNCHANGED <<peer, inflight, deciding>>,
         NEW c \in Conns, NEW f \in ToAgentFrames, toAgent' = WithFrames(c, <<f>>),
         \A r \in Calls : f # Frame("decide", r),
         \A d \in Conns : conn'[d] = "unused" => conn[d] = "unused",
         \A d \in Conns : \A r \in Calls : Replied(d, r)' => Replied(d, r),
         \A d \in Conns : pending'[d] \subseteq pending[d],
         \A r \in Calls : call'[r] = "new" => call[r] = "new",
         \A r \in Calls : call[r] = "waiting" /\ call'[r] # "waiting" =>
           r \in pending[c] /\ f \in {Frame("cancel", r), Closes}
  PROVE  WorkParts'
<1>0. Types /\ Delivery /\ Closes \in ToAgentFrames /\ \A r \in Calls : {Frame("cancel", r), Frame("decide", r)} \subseteq ToAgentFrames
  BY FrameKinds DEF WorkInv
<1>1. \A d \in Conns : \A i \in Nat : \A g \in ToAgentFrames :
              Sent(d, i, g)' <=> \/ Sent(d, i, g)
                                 \/ /\ d = c /\ i = Len(toAgent[c]) + 1 /\ g = f
                                    /\ peer[c] # None /\ \A j \in Nat : ~Sent(c, j, Closes)
  BY <1>0, Sends
<1>2. Delivery'
  BY SendKeepsDelivery
<1>3. ASSUME NEW r \in Calls, call[r] = "waiting", call'[r] # "waiting"
      PROVE  \/ peer[c] = None
             \/ \E j \in Nat : Sent(c, j, Closes)
             \/ \E j \in Nat : j > Len(toAgent[c]) /\ News(c, j, r)'
  <2>1. f \in {Frame("cancel", r), Closes}
    BY <1>3
  <2>3. PICK k \in Nat : k = Len(toAgent[c]) + 1 /\ k > Len(toAgent[c])
    <3>1. Len(toAgent[c]) + 1 \in Nat /\ Len(toAgent[c]) + 1 > Len(toAgent[c])
      BY <1>0 DEF Types
    <3> QED BY <3>1
  <2>2. CASE peer[c] # None /\ \A j \in Nat : ~Sent(c, j, Closes)
    <3>1. Sent(c, k, f)'
      BY <1>1, <2>2, <2>3
    <3>2. News(c, k, r)'
      BY <2>1, <3>1 DEF News
    <3> QED BY <2>3, <3>2
  <2> QED BY <2>2
<1>4. \A d \in Conns : \A i \in Nat : \A r \in Calls : Sent(d, i, Frame("decide", r))' => Sent(d, i, Frame("decide", r))
  BY <1>0, <1>1
<1>5. Unmade' /\ Once' /\ SameConnection' /\ NewsFollows'
  <2>1. \A d \in Conns : \A i \in Nat : \A g \in ToAgentFrames : Sent(d, i, g) => Sent(d, i, g)'
    BY <1>1
  <2> QED BY <1>3, <1>4, <2>1, ServerSteps
<1> QED BY <1>2, <1>5 DEF WorkParts

\* The calls that a connection's close rejects are its own, and no reply appears.
LEMMA ClosingWorks ==
  ASSUME WorkInv, NEW c \in Conns, NEW d, HandleSocketClosed(c, d), UNCHANGED agent,
         \A e \in Conns : conn'[e] = "unused" => conn[e] = "unused"
  PROVE  WorkParts'
<1>0. /\ call' = Rejected(c) /\ toAgent' = WithFrames(c, <<Closes>>)
      /\ toServer' = [toServer EXCEPT ![c] = <<>>] /\ pending' = [pending EXCEPT ![c] = {}]
  BY DEF HandleSocketClosed
<1>1. \A e \in Conns : \A r \in Calls : Replied(e, r)' => Replied(e, r)
  BY <1>0 DEF Replied, WorkInv, Types
<1>2. \A e \in Conns : pending'[e] \subseteq pending[e]
  BY <1>0 DEF WorkInv, RegistryInv, ServerTypes
<1>3. \A r \in Calls : call'[r] = "new" => call[r] = "new"
  BY <1>0 DEF Rejected
<1>4. \A r \in Calls : call[r] = "waiting" /\ call'[r] # "waiting" => r \in pending[c]
  BY <1>0 DEF Rejected
<1>5. Closes \in ToAgentFrames /\ \A r \in Calls : Closes # Frame("decide", r)
  BY FrameKinds DEF Closes
<1>6. UNCHANGED <<peer, inflight, deciding>>
  BY DEF agent
<1> QED BY <1>0, <1>1, <1>2, <1>3, <1>4, <1>5, <1>6, TellingSteps

LEMMA CloseWorks ==
  ASSUME WorkInv, NEW c \in Conns, Close(c), UNCHANGED agent
  PROVE  WorkParts'
<1>1. HandleSocketClosed(c, registered) /\ \A e \in Conns : conn'[e] = "unused" => conn[e] = "unused"
  BY DEF Close, WorkInv, RegistryInv, ServerTypes
<1> QED BY <1>1, ClosingWorks

LEMMA ServerWorks ==
  ASSUME WorkInv,
         \/ \E c \in Conns : Register(c) \/ UpgradeFails(c) \/ ServerReceives(c) \/ Heartbeat(c)
         \/ \E r \in Calls : Ceiling(r)
         \/ CloseAll \/ TimePasses \/ UNCHANGED vars
  PROVE  WorkParts'
<1>0. Types /\ RegistryInv /\ Delivery
  BY DEF WorkInv
<1>1. ASSUME NEW c \in Conns, Register(c) PROVE WorkParts'
  <2>1. UNCHANGED agent /\ \A e \in Conns : conn'[e] = "unused" => conn[e] = "unused"
    BY <1>1 DEF Register
  <2>2. CASE registered = None
    <3>1. UNCHANGED <<pending, call, toAgent, toServer, peer, inflight, deciding>>
      BY <1>1, <2>2 DEF Register, agent
    <3> QED BY <2>1, <3>1, QuietSteps DEF Replied
  <2>3. CASE registered # None
    <3>1. HandleSocketClosed(registered, c) /\ registered \in Conns
      BY <1>0, <1>1, <2>3 DEF Register, RegistryInv, ServerTypes
    <3> QED BY <2>1, <3>1, ClosingWorks
  <2> QED BY <2>2, <2>3
<1>2. ASSUME NEW c \in Conns, UpgradeFails(c) PROVE WorkParts'
  <2>1. UNCHANGED <<pending, call, peer, inflight, deciding>> /\ toAgent' = WithFrames(c, <<Closes>>)
    BY <1>2 DEF UpgradeFails, agent
  <2>2. \A e \in Conns : conn'[e] = "unused" => conn[e] = "unused"
    BY <1>0, <1>2 DEF UpgradeFails, RegistryInv, ServerTypes
  <2>3. \A e \in Conns : \A r \in Calls : Replied(e, r)' => Replied(e, r)
    BY <1>0, <1>2 DEF UpgradeFails, Replied, Types
  <2>4. Closes \in ToAgentFrames /\ \A r \in Calls : Closes # Frame("decide", r)
    BY FrameKinds DEF Closes
  <2> QED BY <2>1, <2>2, <2>3, <2>4, TellingSteps
<1>3. ASSUME NEW c \in Conns, ServerReceives(c) PROVE WorkParts'
  <2> DEFINE f == Head(toServer[c])
  <2>1. CASE Close(c)
    BY <1>3, <2>1, CloseWorks DEF ServerReceives
  <2>2. CASE toServer' = [toServer EXCEPT ![c] = Tail(@)]
    <3>1. toServer[c] \in Seq(ToServerFrames) /\ toServer[c] # <<>>
      BY <1>0, <1>3 DEF ServerReceives, Types
    <3>2. \A e \in Conns : \A r \in Calls : Replied(e, r)' => Replied(e, r)
      <4>1. /\ Len(Tail(toServer[c])) = Len(toServer[c]) - 1 /\ Len(toServer[c]) \in Nat
            /\ \A i \in 1 .. Len(toServer[c]) - 1 : Tail(toServer[c])[i] = toServer[c][i + 1]
        BY <3>1
      <4>2. toServer'[c] = Tail(toServer[c]) /\ \A e \in Conns : e # c => toServer'[e] = toServer[e]
        BY <1>0, <2>2 DEF Types
      <4>3. \A r \in Calls : Replied(c, r)' => Replied(c, r)
        <5> SUFFICES ASSUME NEW r \in Calls, NEW j \in 1 .. Len(toServer'[c]),
                            toServer'[c][j] \in {Frame("response", r), Frame("error", r)}
                     PROVE  Replied(c, r)
          BY DEF Replied
        <5>1. j + 1 \in 1 .. Len(toServer[c]) /\ toServer[c][j + 1] = toServer'[c][j]
          BY <4>1, <4>2
        <5> QED BY <5>1 DEF Replied
      <4> QED BY <4>2, <4>3 DEF Replied
    <3>3. CASE UNCHANGED <<server, toAgent>>
      <4>1. UNCHANGED <<conn, pending, call, peer, inflight, deciding>>
        BY <1>3, <3>3 DEF ServerReceives, server, agent
      <4> QED BY <3>2, <3>3, <4>1, QuietSteps
    <3>4. CASE /\ f.type \in {"response", "error"} /\ f.of \in pending[c]
               /\ pending' = [pending EXCEPT ![c] = @ \ {f.of}]
               /\ call' = [call EXCEPT ![f.of] = IF f.type = "response" THEN "answered" ELSE "rejected"]
               /\ UNCHANGED <<conn, toAgent, agent>>
      <4>1. 1 \in 1 .. Len(toServer[c]) /\ f = toServer[c][1] /\ f \in ToServerFrames
        BY <3>1
      <4>2. f \in {Frame("response", f.of), Frame("error", f.of)}
        <5>1. \A t, r : Frame(t, r).type = t /\ Frame(t, r).of = r
          BY DEF Frame
        <5> HIDE DEF f
        <5> QED BY <3>4, <4>1, <5>1 DEF ToServerFrames, Pong, Closes
      <4>3. Replied(c, f.of) /\ f.of \in Calls
        BY <1>0, <3>4, <4>1, <4>2 DEF Replied, RegistryInv, ServerTypes
      <4> HIDE DEF f
      <4>4. \A d \in Conns : pending'[d] \subseteq pending[d]
        BY <1>0, <3>4 DEF RegistryInv, ServerTypes
      <4>5. \A r \in Calls : /\ call'[r] = "new" => call[r] = "new"
                             /\ call[r] = "waiting" /\ call'[r] # "waiting" => r = f.of
        BY <1>0, <3>4, <4>3 DEF RegistryInv, ServerTypes
      <4> QED BY <3>2, <3>4, <4>3, <4>4, <4>5, QuietSteps DEF agent
    <3> QED BY <1>3, <2>1, <3>3, <3>4 DEF ServerReceives
  <2> QED BY <1>3, <2>1, <2>2 DEF ServerReceives
<1>4. ASSUME NEW c \in Conns, PingTimeout(c) PROVE WorkParts'
  BY <1>4, CloseWorks DEF PingTimeout
<1>5. ASSUME NEW c \in Conns, SendPing(c) PROVE WorkParts'
  <2>1. UNCHANGED <<pending, call, conn, toServer, peer, inflight, deciding>> /\ toAgent' = WithFrames(c, <<Ping>>)
    BY <1>5 DEF SendPing, agent, server
  <2>2. Ping \in ToAgentFrames /\ \A r \in Calls : Ping # Frame("decide", r)
    BY FrameKinds DEF Ping
  <2> QED BY <2>1, <2>2, TellingSteps DEF Replied
<1>6. ASSUME NEW r \in Calls, Ceiling(r) PROVE WorkParts'
  <2>1. PICK c \in Conns : /\ r \in pending[c]
                           /\ pending' = [pending EXCEPT ![c] = @ \ {r}]
                           /\ call' = [call EXCEPT ![r] = IF @ = "waiting" THEN "rejected" ELSE @]
                           /\ toAgent' = WithFrames(c, <<Frame("cancel", r)>>)
    BY <1>6 DEF Ceiling, AtCeiling, Open
  <2>2. UNCHANGED <<conn, toServer, peer, inflight, deciding>>
    BY <1>6 DEF Ceiling, agent
  <2>3. Frame("cancel", r) \in ToAgentFrames /\ \A q \in Calls : Frame("cancel", r) # Frame("decide", q)
    BY FrameKinds
  <2>4. \A d \in Conns : pending'[d] \subseteq pending[d]
    BY <1>0, <2>1 DEF RegistryInv, ServerTypes
  <2>5. \A q \in Calls : /\ call'[q] = "new" => call[q] = "new"
                         /\ call[q] = "waiting" /\ call'[q] # "waiting" => q = r
    BY <1>0, <2>1 DEF RegistryInv, ServerTypes
  <2> QED BY <2>1, <2>2, <2>3, <2>4, <2>5, TellingSteps DEF Replied
<1>7. CASE CloseAll
  BY <1>0, <1>7, CloseWorks DEF CloseAll, RegistryInv, ServerTypes
<1>8. CASE TimePasses \/ UNCHANGED vars
  <2>1. UNCHANGED <<pending, call, conn, toServer, toAgent, peer, inflight, deciding>>
    BY <1>8 DEF TimePasses, vars, server, agent
  <2> QED BY <2>1, QuietSteps DEF Replied
<1> QED BY <1>1, <1>2, <1>3, <1>4, <1>5, <1>6, <1>7, <1>8 DEF Heartbeat

\* A frame with a new call is put on one connection, which waits for it.
LEMMA RequestWorks ==
  ASSUME WorkInv, NEW r \in Calls, Request(r)
  PROVE  WorkParts'
<1>0. /\ Types /\ RegistryInv /\ Delivery /\ call[r] = "new"
      /\ UNCHANGED <<conn, toServer, peer, inflight, deciding>>
  BY DEF WorkInv, Request, agent
<1>1. /\ \A c \in Conns : r \notin pending[c] /\ ~Replied(c, r)
      /\ \A c \in Conns : \A i \in Nat : ~Sent(c, i, Frame("decide", r))
      /\ \A p \in Procs : r \notin deciding[p] /\ r \notin inflight[p]
  BY <1>0 DEF WorkInv, Unmade, Once
<1>2. CASE registered = None
  <2>1. call' = [call EXCEPT ![r] = "rejected"] /\ UNCHANGED <<pending, toAgent>>
    BY <1>2 DEF Request
  <2>2. \A q \in Calls : /\ call'[q] = "new" => call[q] = "new"
                         /\ call[q] = "waiting" => call'[q] = "waiting"
    BY <1>0, <2>1 DEF RegistryInv, ServerTypes
  <2> QED BY <1>0, <2>1, <2>2, QuietSteps DEF Replied
<1>3. CASE registered # None
  <2> DEFINE c == registered  f == Frame("decide", r)
  <2>0. c \in Conns
    BY <1>0, <1>3 DEF RegistryInv, ServerTypes
  <2>1. /\ pending' = [pending EXCEPT ![c] = @ \cup {r}]
        /\ \/ call' = [call EXCEPT ![r] = "waiting"] /\ toAgent' = WithFrames(c, <<f>>)
           \/ call' = [call EXCEPT ![r] = "rejected"] /\ UNCHANGED toAgent
    BY <1>3 DEF Request
  <2>2. \A q \in Calls : /\ q # r => call'[q] = call[q] /\ \A d \in Conns : q \in pending'[d] <=> q \in pending[d]
                         /\ call'[r] # "new"
    BY <1>0, <2>1 DEF RegistryInv, ServerTypes
  <2>3. \A d \in Conns : r \in pending'[d] <=> d = c
    BY <1>0, <1>1, <2>0, <2>1 DEF RegistryInv, ServerTypes
  <2>4. \A q \in Calls : {Frame("decide", q), Frame("cancel", q), Closes} \subseteq ToAgentFrames
    BY FrameKinds
  <2>5. \A d \in Conns : \A q \in Calls : Replied(d, q)' <=> Replied(d, q)
    BY <1>0 DEF Replied
  <2>6. \A d \in Conns : \A i \in Nat : \A g \in ToAgentFrames :
          /\ Sent(d, i, g) => Sent(d, i, g)'
          /\ Sent(d, i, g)' => Sent(d, i, g) \/ (d = c /\ i = Len(toAgent[c]) + 1 /\ g = f /\ call'[r] = "waiting")
    <3>1. CASE call' = [call EXCEPT ![r] = "waiting"] /\ toAgent' = WithFrames(c, <<f>>)
      BY <1>0, <2>0, <2>4, <3>1, Sends DEF RegistryInv, ServerTypes
    <3>2. CASE UNCHANGED toAgent
      BY <3>2 DEF Sent
    <3> QED BY <2>1, <3>1, <3>2
  <2>7. \A d \in Conns : \A i \in Nat : \A q \in Calls : q # r =>
          (Sent(d, i, Frame("decide", q))' <=> Sent(d, i, Frame("decide", q)))
    BY <2>4, <2>6, FrameKinds
  <2>8. \A d \in Conns : \A i \in Nat :
          Sent(d, i, Frame("decide", r))' => d = c /\ i = Len(toAgent[c]) + 1 /\ call'[r] = "waiting"
    BY <1>1, <2>4, <2>6
  <2> HIDE DEF c, f
  <2>9. Unmade'
    BY <1>0, <2>2, <2>5, <2>7 DEF WorkInv, Unmade
  <2>10. Once'
    <3> SUFFICES ASSUME NEW q \in Calls
        PROVE  /\ \A b, d \in Conns : \A i, j \in Nat :
                    Sent(b, i, Frame("decide", q))' /\ Sent(d, j, Frame("decide", q))' => b = d /\ i = j
               /\ \A b, d \in Conns : \A i \in Nat : Sent(b, i, Frame("decide", q))' => ~Replied(d, q)'
               /\ \A b \in Conns, p \in Procs : \A i \in Nat : Sent(b, i, Frame("decide", q))' => q \notin deciding[p]
               /\ \A b \in Conns, p \in Procs : q \in deciding[p] => ~Replied(b, q)'
               /\ \A p, o \in Procs : q \in deciding[p] /\ q \in deciding[o] => p = o
               /\ \A p \in Procs : q \in inflight[p] => q \in deciding[p]
      BY <1>0 DEF Once
    <3>1. CASE q = r
      BY <1>1, <2>5, <2>8, <3>1
    <3>2. CASE q # r
      BY <2>5, <2>7, <3>2 DEF WorkInv, Once
    <3> QED BY <3>1, <3>2
  <2>11. SameConnection'
    <3> SUFFICES ASSUME NEW q \in Calls, NEW b \in Conns, q \in pending'[b]
        PROVE  /\ \A p \in Procs : q \in inflight[p] => peer[b] = p
               /\ \A d \in Conns : \A i \in Nat : Sent(d, i, Frame("decide", q))' => d = b
      BY <1>0 DEF SameConnection
    <3>1. CASE q = r
      BY <1>1, <2>3, <2>8, <3>1
    <3>2. CASE q # r
      BY <2>2, <2>7, <3>2 DEF WorkInv, SameConnection
    <3> QED BY <3>1, <3>2
  <2>12. Delivery'
    <3>1. CASE UNCHANGED toAgent
      BY <1>0, <3>1 DEF Delivery, Sent
    <3>2. CASE toAgent' = WithFrames(c, <<f>>)
      BY <1>0, <2>0, <2>4, <3>2, SendKeepsDelivery DEF f
    <3> QED BY <2>1, <3>1, <3>2 DEF f
  <2>13. NewsFollows'
    <3>1. ASSUME NEW b \in Conns, NEW i \in Nat, NEW q \in Calls, Told(b, i, q), q # r
          PROVE  Told(b, i, q)'
      BY <2>2, <2>4, <2>6, <3>1 DEF Told
    <3>2. ASSUME NEW b \in Conns, NEW i \in Nat, NEW q \in Calls, Sent(b, i, Frame("decide", q))'
          PROVE  Told(b, i, q)'
      <4>1. CASE q = r
        BY <2>8, <3>2, <4>1 DEF Told
      <4>2. CASE q # r
        BY <2>7, <3>1, <3>2, <4>2 DEF WorkInv, NewsFollows
      <4> QED BY <4>1, <4>2
    <3>3. ASSUME NEW q \in Calls, NEW p \in Procs, q \in inflight[p]
          PROVE  call'[q] = "waiting" \/ \E b \in Conns : peer[b] = p /\ Told(b, 0, q)'
      <4>1. q # r
        BY <1>1, <3>3
      <4>2. call[q] = "waiting" \/ \E b \in Conns : peer[b] = p /\ Told(b, 0, q)
        BY <3>3 DEF WorkInv, NewsFollows
      <4> QED BY <2>2, <3>1, <4>1, <4>2
    <3> QED BY <1>0, <3>2, <3>3 DEF NewsFollows
  <2> QED BY <2>9, <2>10, <2>11, <2>12, <2>13 DEF WorkParts
<1> QED BY <1>2, <1>3

\* The agent's handlers, and processes that die: less is under way, and less runs.
LEMMA QuietAgent ==
  ASSUME WorkInv, UNCHANGED <<pending, call, conn>>, Types',
         \A c \in Conns : \A i \in Nat : \A g \in ToAgentFrames : Sent(c, i, g)' => Sent(c, i, g),
         \A p \in Procs : deciding'[p] \subseteq deciding[p],
         \A p \in Procs : inflight'[p] \subseteq inflight[p] /\ inflight'[p] \subseteq deciding'[p],
         \A c \in Conns : \A r \in Calls : Replied(c, r)' =>
           Replied(c, r) \/ \E p \in Procs : r \in deciding[p] /\ r \notin deciding'[p]
  PROVE  Unmade' /\ Once'
<1>0. \A r \in Calls : Frame("decide", r) \in ToAgentFrames
  BY FrameKinds
<1>1. \A c \in Conns : \A i \in Nat : \A r \in Calls : Sent(c, i, Frame("decide", r))' => Sent(c, i, Frame("decide", r))
  BY <1>0
<1>2. Unmade'
  BY <1>1 DEF WorkInv, Unmade
<1>3. Once'
  BY <1>1 DEF WorkInv, Once
<1> QED BY <1>2, <1>3

\* The frames to processes that are still there stay as they are.
LEMMA QuietWire ==
  ASSUME WorkInv, UNCHANGED <<pending, call, conn, toAgent, peer>>, Types',
         \A p \in Procs : deciding'[p] \subseteq deciding[p],
         \A p \in Procs : inflight'[p] \subseteq inflight[p] /\ inflight'[p] \subseteq deciding'[p],
         \A c \in Conns : \A r \in Calls : Replied(c, r)' =>
           Replied(c, r) \/ \E p \in Procs : r \in deciding[p] /\ r \notin deciding'[p]
  PROVE  WorkParts'
<1>1. \A c \in Conns : \A i \in Nat : \A g : Sent(c, i, g)' <=> Sent(c, i, g)
  BY DEF Sent
<1>2. Unmade' /\ Once'
  BY <1>1, QuietAgent
<1>3. SameConnection'
  BY <1>1 DEF WorkInv, SameConnection
<1>4. Delivery'
  BY <1>1 DEF WorkInv, Delivery
<1>5. NewsFollows'
  <2>1. \A c \in Conns : \A i \in Nat : \A r \in Calls : Told(c, i, r)' <=> Told(c, i, r)
    BY <1>1 DEF Told
  <2> QED BY <1>1, <2>1 DEF WorkInv, NewsFollows
<1> QED BY <1>2, <1>3, <1>4, <1>5 DEF WorkParts

LEMMA DecideEndsWorks ==
  ASSUME WorkInv, NEW p \in Procs, NEW r \in Calls, DecideEnds(p, r)
  PROVE  WorkParts'
<1>1. Types' /\ Types
  BY AgentKeepsTypes DEF WorkInv
<1>2. UNCHANGED <<pending, call, conn, toAgent, peer>>
  BY DEF DecideEnds, server
<1>3. /\ deciding' = [deciding EXCEPT ![p] = @ \ {r}] /\ inflight' = [inflight EXCEPT ![p] = @ \ {r}]
      /\ r \in deciding[p]
  BY DEF DecideEnds
<1>4. \A q \in Procs : /\ deciding'[q] \subseteq deciding[q]
                       /\ inflight'[q] \subseteq inflight[q] /\ inflight'[q] \subseteq deciding'[q]
  BY <1>1, <1>3 DEF WorkInv, Once, Types
<1>5. r \notin deciding'[p]
  BY <1>1, <1>3 DEF Types
<1>6. \A c \in Conns : \A q \in Calls : Replied(c, q)' => Replied(c, q) \/ q = r
  <2>1. PICK f \in {Frame("response", r), Frame("error", r)} : Send(p, f)
    BY DEF DecideEnds
  <2>2. f \in ToServerFrames
    BY <2>1, FrameKinds
  <2>3. \A c \in Conns : \A q \in Calls :
          Replied(c, q)' => Replied(c, q) \/ f \in {Frame("response", q), Frame("error", q)}
    BY <2>1, <2>2, SendsBack
  <2>4. \A q \in Calls : f \in {Frame("response", q), Frame("error", q)} => q = r
    BY FrameKinds
  <2> QED BY <2>3, <2>4
<1> QED BY <1>1, <1>2, <1>3, <1>4, <1>5, <1>6, QuietWire

LEMMA StopWorks ==
  ASSUME WorkInv, NEW p \in Procs, Stop(p)
  PROVE  WorkParts'
<1>1. Types' /\ Types
  BY AgentKeepsTypes DEF WorkInv
<1>2. UNCHANGED <<pending, call, conn, toAgent, peer, deciding>> /\ inflight' = [inflight EXCEPT ![p] = {}]
  BY DEF Stop, server
<1>3. \A q \in Procs : /\ deciding'[q] \subseteq deciding[q]
                       /\ inflight'[q] \subseteq inflight[q] /\ inflight'[q] \subseteq deciding'[q]
  BY <1>1, <1>2 DEF WorkInv, Once, Types
<1>4. \A c \in Conns : \A q \in Calls : Replied(c, q)' => Replied(c, q)
  <2>1. CASE UNCHANGED toServer
    BY <2>1 DEF Replied
  <2>2. CASE socket[p] # None /\ toServer' = [toServer EXCEPT ![socket[p]] = Append(@, Closes)]
    <3> DEFINE c == socket[p]  s == Append(toServer[c], Closes)
    <3>1. c \in Conns /\ toServer[c] \in Seq(ToServerFrames)
      BY <1>1, <2>2 DEF Types
    <3>2. /\ Len(s) = Len(toServer[c]) + 1 /\ Len(toServer[c]) \in Nat
          /\ \A i \in 1 .. Len(s) : s[i] = IF i <= Len(toServer[c]) THEN toServer[c][i] ELSE Closes
      BY <3>1
    <3>3. toServer'[c] = s /\ \A d \in Conns : d # c => toServer'[d] = toServer[d]
      BY <1>1, <2>2, <3>1 DEF Types
    <3>4. \A q \in Calls : Closes \notin {Frame("response", q), Frame("error", q)}
      BY FrameKinds DEF Closes
    <3> HIDE DEF s, c
    <3> QED BY <3>1, <3>2, <3>3, <3>4 DEF Replied
  <2> QED BY <2>1, <2>2 DEF Stop
<1> QED BY <1>1, <1>2, <1>3, <1>4, QuietWire

LEMMA VanishWorks ==
  ASSUME WorkInv, NEW p \in Procs, Vanish(p)
  PROVE  WorkParts'
<1>1. Types' /\ Types /\ p # None
  BY AgentKeepsTypes, ConnectionsAssumption DEF WorkInv
<1>2. /\ UNCHANGED <<pending, call, conn, toServer>>
      /\ inflight' = [inflight EXCEPT ![p] = {}] /\ deciding' = [deciding EXCEPT ![p] = {}]
      /\ peer' = [c \in Conns |-> IF peer[c] = p THEN None ELSE peer[c]]
      /\ toAgent' = [c \in Conns |-> IF peer[c] = p THEN <<>> ELSE toAgent[c]]
  BY DEF Vanish, server
<1>3. \A q \in Procs : /\ deciding'[q] \subseteq deciding[q] /\ q # p => inflight'[q] = inflight[q]
                       /\ inflight'[q] \subseteq inflight[q] /\ inflight'[q] \subseteq deciding'[q]
                       /\ inflight'[p] = {}
  BY <1>1, <1>2 DEF WorkInv, Once, Types
<1>4. \A c \in Conns : \A i \in Nat : \A g : Sent(c, i, g)' <=> Sent(c, i, g) /\ peer[c] # p
  BY <1>2 DEF Sent
<1>5. Unmade' /\ Once'
  BY <1>1, <1>2, <1>3, <1>4, QuietAgent DEF Replied
<1>6. SameConnection'
  BY <1>2, <1>3, <1>4 DEF WorkInv, SameConnection
<1>7. Delivery'
  BY <1>2, <1>4 DEF WorkInv, Delivery
<1>8. NewsFollows'
  <2>1. \A c \in Conns : \A i \in Nat : \A r \in Calls : peer[c] # p => (Told(c, i, r)' <=> Told(c, i, r))
    BY <1>2, <1>4 DEF Told
  <2>2. \A c \in Conns : \A i \in Nat : \A r \in Calls : Sent(c, i, Frame("decide", r))' => Told(c, i, r)'
    BY <1>4, <2>1 DEF WorkInv, NewsFollows
  <2>3. ASSUME NEW r \in Calls, NEW q \in Procs, r \in inflight'[q]
        PROVE  call'[r] = "waiting" \/ \E c \in Conns : peer'[c] = q /\ Told(c, 0, r)'
    <3>1. q # p /\ r \in inflight[q]
      BY <1>3, <2>3
    <3>2. call[r] = "waiting" \/ \E c \in Conns : peer[c] = q /\ Told(c, 0, r)
      BY <3>1 DEF WorkInv, NewsFollows
    <3> QED BY <1>2, <2>1, <3>1, <3>2
  <2> QED BY <2>2, <2>3 DEF NewsFollows
<1> QED BY <1>5, <1>6, <1>7, <1>8 DEF WorkParts

LEMMA DropWorks ==
  ASSUME WorkInv, NEW c \in Conns, NetworkDrops(c)
  PROVE  WorkParts'
<1>1. Types' /\ Types
  BY ServerKeepsTypes DEF WorkInv
<1>2. /\ UNCHANGED <<pending, call, conn, inflight, deciding, peer>>
      /\ toAgent' = [toAgent EXCEPT ![c] = IF peer[c] = None THEN <<>> ELSE <<Closes>>]
      /\ toServer' = [toServer EXCEPT ![c] = <<Closes>>]
  BY DEF NetworkDrops, server, agent
<1>3. \A d \in Conns : \A i \in Nat : \A g :
        Sent(d, i, g)' <=> IF d = c THEN peer[c] # None /\ i = 1 /\ g = Closes ELSE Sent(d, i, g)
  <2>1. \A d \in Conns : d # c => toAgent'[d] = toAgent[d]
    BY <1>1, <1>2 DEF Types
  <2>2. toAgent'[c] = IF peer[c] = None THEN <<>> ELSE <<Closes>>
    BY <1>1, <1>2 DEF Types
  <2>3. Len(<<Closes>>) = 1 /\ <<Closes>>[1] = Closes
    OBVIOUS
  <2>4. \A i \in Nat : \A g : Sent(c, i, g)' <=> peer[c] # None /\ i = 1 /\ g = Closes
    BY <2>2, <2>3 DEF Sent
  <2> QED BY <2>1, <2>4 DEF Sent
<1>4. \A r \in Calls : Frame("decide", r) # Closes
  BY FrameKinds DEF Closes
<1>5. \A d \in Conns : \A r \in Calls : Replied(d, r)' => Replied(d, r)
  <2>1. \A r \in Calls : ~Replied(c, r)'
    <3>1. toServer'[c] = <<Closes>> /\ \A r \in Calls : Closes \notin {Frame("response", r), Frame("error", r)}
      BY <1>1, <1>2, FrameKinds DEF Types, Closes
    <3> QED BY <3>1 DEF Replied
  <2>2. \A d \in Conns : d # c => toServer'[d] = toServer[d]
    BY <1>1, <1>2 DEF Types
  <2> QED BY <2>1, <2>2 DEF Replied
<1>6. \A d \in Conns : \A i \in Nat : \A r \in Calls :
        Sent(d, i, Frame("decide", r))' <=> d # c /\ Sent(d, i, Frame("decide", r))
  BY <1>3, <1>4
<1>7. Unmade'
  BY <1>2, <1>5, <1>6 DEF WorkInv, Unmade
<1>8. Once'
  BY <1>2, <1>5, <1>6 DEF WorkInv, Once
<1>9. SameConnection'
  BY <1>2, <1>6 DEF WorkInv, SameConnection
<1>10. Delivery'
  <2>1. peer[c] # None => Len(toAgent'[c]) = 1
    BY <1>1, <1>2 DEF Types
  <2>2. \A d \in Conns : toAgent'[d] # <<>> => peer[d] # None
    BY <1>1, <1>2 DEF WorkInv, Delivery, Types
  <2>3. \A d \in Conns : d # c => toAgent'[d] = toAgent[d]
    BY <1>1, <1>2 DEF Types
  <2> QED BY <1>2, <1>3, <2>1, <2>2, <2>3 DEF WorkInv, Delivery
<1>11. NewsFollows'
  <2>1. \A d \in Conns : \A i \in Nat : \A r \in Calls : d # c /\ Told(d, i, r) => Told(d, i, r)'
    BY <1>2, <1>3 DEF Told
  <2>2. \A r \in Calls : peer[c] # None => Told(c, 0, r)'
    BY <1>3 DEF Told
  <2>3. \A d \in Conns : \A i \in Nat : \A r \in Calls : Sent(d, i, Frame("decide", r))' => Told(d, i, r)'
    BY <1>6, <2>1 DEF WorkInv, NewsFollows
  <2>4. ASSUME NEW r \in Calls, NEW q \in Procs, r \in inflight[q]
        PROVE  call[r] = "waiting" \/ \E d \in Conns : peer[d] = q /\ Told(d, 0, r)'
    <3>1. call[r] = "waiting" \/ \E d \in Conns : peer[d] = q /\ Told(d, 0, r)
      BY <2>4 DEF WorkInv, NewsFollows
    <3> QED BY <2>1, <2>2, <3>1, ConnectionsAssumption
  <2> QED BY <1>2, <2>3, <2>4 DEF NewsFollows
<1> QED BY <1>7, <1>8, <1>9, <1>10, <1>11 DEF WorkParts

LEMMA OpenSocketWorks ==
  ASSUME WorkInv, NEW p \in Procs, OpenSocket(p)
  PROVE  WorkParts'
<1>1. PICK c \in Conns : /\ conn[c] = "unused"
                         /\ conn' = [conn EXCEPT ![c] = "upgrading"]
                         /\ peer' = [peer EXCEPT ![c] = p]
  BY DEF OpenSocket
<1>2. UNCHANGED <<pending, call, toAgent, toServer, inflight, deciding>>
  BY DEF OpenSocket
<1>3. /\ peer[c] = None /\ pending[c] = {}
      /\ \A d \in Conns : d # c => peer'[d] = peer[d] /\ conn'[d] = conn[d]
      /\ peer'[c] = p /\ conn'[c] # "unused" /\ p # None
  BY <1>1, ConnectionsAssumption DEF WorkInv, Delivery, RegistryInv, ServerTypes, CallsArePending, Open, Types
<1>4. \A d \in Conns : \A i \in Nat : \A g : Sent(d, i, g)' <=> Sent(d, i, g)
  BY <1>2 DEF Sent
<1>5. Unmade' /\ Once'
  BY <1>2, <1>4 DEF WorkInv, Unmade, Once, Replied
<1>6. SameConnection'
  BY <1>2, <1>3, <1>4 DEF WorkInv, SameConnection
<1>7. Delivery'
  BY <1>2, <1>3, <1>4 DEF WorkInv, Delivery
<1>8. NewsFollows'
  <2>1. \A d \in Conns : \A i \in Nat : \A r \in Calls : Told(d, i, r)' <=> Told(d, i, r)
    BY <1>2, <1>4 DEF Told
  <2>2. \A q \in Procs : \A d \in Conns : peer[d] = q => peer'[d] = q
    BY <1>3, ConnectionsAssumption
  <2> QED BY <1>2, <1>4, <2>1, <2>2 DEF WorkInv, NewsFollows
<1> QED BY <1>5, <1>6, <1>7, <1>8 DEF WorkParts

\* The head of what is under way takes effect; what is behind it moves up.
LEMMA AgentReceivesWorks ==
  ASSUME WorkInv, NEW c \in Conns, AgentReceives(c)
  PROVE  WorkParts'
<1> DEFINE p == peer[c]  f == Head(toAgent[c])
<1>1. Types' /\ Types /\ Delivery /\ p # None /\ p \in Procs
  BY AgentKeepsTypes DEF WorkInv, AgentReceives, Types
<1>2. /\ UNCHANGED <<pending, call, conn>>
      /\ toAgent[c] # <<>> /\ toAgent' = [toAgent EXCEPT ![c] = Tail(@)]
  BY DEF AgentReceives, server
<1>3. /\ f \in ToAgentFrames
      /\ \A g \in ToAgentFrames : g = f <=> Sent(c, 1, g)
      /\ Len(toAgent'[c]) = Len(toAgent[c]) - 1 /\ Len(toAgent[c]) \in Nat \ {0}
      /\ \A i \in Nat : \A g \in ToAgentFrames : Sent(c, i, g)' <=> i # 0 /\ Sent(c, i + 1, g)
      /\ \A d \in Conns : d # c => toAgent'[d] = toAgent[d]
      /\ \A d \in Conns : \A i \in Nat : \A g \in ToAgentFrames : d # c => (Sent(d, i, g)' <=> Sent(d, i, g))
  BY <1>1, <1>2, Takes
<1>4. /\ \A r \in Calls : {Frame("decide", r), Frame("cancel", r)} \subseteq ToAgentFrames
      /\ Closes \in ToAgentFrames
  BY FrameKinds
<1> HIDE DEF p, f
\* Frames' order is kept, and the close is the last.
<1>6. \A d \in Conns : \A i \in Nat : Sent(d, i, Closes)' => i = Len(toAgent'[d])
  BY <1>1, <1>3, <1>4 DEF Delivery
<1>7. toAgent'[c] # <<>> => f # Closes
  <2>1. f = Closes => Len(toAgent[c]) = 1
    BY <1>1, <1>3, <1>4 DEF Delivery
  <2>2. Len(toAgent'[c]) = 0 => toAgent'[c] = <<>>
    BY <1>1 DEF Types
  <2> QED BY <1>3, <2>1, <2>2
\* News of r behind the i-th frame of c is behind the one before it now.
<1>8. ASSUME NEW i \in Nat, NEW r \in Calls, Told(c, i + 1, r) PROVE Told(c, i, r)'
  <2>1. CASE call[r] = "waiting"
    BY <1>2, <2>1 DEF Told
  <2>2. ASSUME NEW j \in Nat, j > i + 1, Sent(c, j, Frame("cancel", r)) \/ Sent(c, j, Closes)
        PROVE  Told(c, i, r)'
    <3>1. PICK k \in Nat : j = k + 1 /\ k > i
      <4>1. j - 1 \in Nat /\ j = (j - 1) + 1 /\ j - 1 > i
        BY <2>2
      <4> QED BY <4>1
    <3>2. Sent(c, k, Frame("cancel", r))' \/ Sent(c, k, Closes)'
      BY <1>3, <1>4, <2>2, <3>1
    <3> QED BY <3>1, <3>2 DEF Told
  <2> QED BY <1>8, <2>1, <2>2 DEF Told
<1>9. ASSUME NEW i \in Nat, NEW r \in Calls, NEW d \in Conns, d # c, Told(d, i, r) PROVE Told(d, i, r)'
  BY <1>2, <1>3, <1>4, <1>9 DEF Told
<1>10. \A d \in Conns : \A i \in Nat : \A r \in Calls : Sent(d, i, Frame("decide", r))' => Told(d, i, r)'
  <2> SUFFICES ASSUME NEW d \in Conns, NEW i \in Nat, NEW r \in Calls, Sent(d, i, Frame("decide", r))'
               PROVE  Told(d, i, r)'
    OBVIOUS
  <2>1. CASE d = c
    BY <1>3, <1>4, <1>8, <2>1 DEF WorkInv, NewsFollows
  <2>2. CASE d # c
    BY <1>3, <1>4, <1>9, <2>2 DEF WorkInv, NewsFollows
  <2> QED BY <2>1, <2>2
\* Unless the news is what is taken, it is still under way.
<1>11. ASSUME NEW r \in Calls, NEW d \in Conns, Told(d, 0, r), d # c \/ f \notin {Frame("cancel", r), Closes}
       PROVE  Told(d, 0, r)'
  <2>1. CASE d = c /\ call[r] # "waiting"
    <3>1. PICK j \in Nat : j > 0 /\ (Sent(c, j, Frame("cancel", r)) \/ Sent(c, j, Closes))
      BY <1>11, <2>1 DEF Told
    <3>2. j > 1
      BY <1>3, <1>4, <1>11, <2>1, <3>1
    <3>3. Told(c, 0 + 1, r)
      BY <3>1, <3>2 DEF Told
    <3> QED BY <1>8, <2>1, <3>3
  <2> QED BY <1>2, <1>9, <1>11, <2>1 DEF Told
<1>12. \A d \in Conns : \A i \in Nat : \A r \in Calls : Sent(d, i, Frame("decide", r))' =>
         IF d = c THEN i + 1 \in Nat /\ i # 0 /\ Sent(c, i + 1, Frame("decide", r)) ELSE Sent(d, i, Frame("decide", r))
  BY <1>3, <1>4
<1>13. ASSUME deciding' = deciding, \A q \in Procs : inflight'[q] \subseteq inflight[q],
              \A d \in Conns : \A r \in Calls : Replied(d, r)' => Replied(d, r)
       PROVE  Unmade' /\ Once'
  <2>1. Unmade'
    <3> SUFFICES ASSUME NEW r \in Calls, call[r] = "new"
                 PROVE  /\ \A d \in Conns : r \notin pending[d] /\ ~Replied(d, r)'
                        /\ \A d \in Conns : \A i \in Nat : ~Sent(d, i, Frame("decide", r))'
                        /\ \A q \in Procs : r \notin deciding[q]
      BY <1>2, <1>13 DEF Unmade
    <3>1. /\ \A d \in Conns : r \notin pending[d] /\ ~Replied(d, r)
          /\ \A d \in Conns : \A i \in Nat : ~Sent(d, i, Frame("decide", r))
          /\ \A q \in Procs : r \notin deciding[q]
      BY DEF WorkInv, Unmade
    <3> QED BY <1>12, <1>13, <3>1
  <2>2. \A r \in Calls : \A b, d \in Conns : \A i, j \in Nat :
          Sent(b, i, Frame("decide", r))' /\ Sent(d, j, Frame("decide", r))' => b = d /\ i = j
    <3> SUFFICES ASSUME NEW r \in Calls, NEW b \in Conns, NEW d \in Conns, NEW i \in Nat, NEW j \in Nat,
                        Sent(b, i, Frame("decide", r))', Sent(d, j, Frame("decide", r))'
                 PROVE  b = d /\ i = j
      OBVIOUS
    <3>1. /\ IF b = c THEN i + 1 \in Nat /\ Sent(c, i + 1, Frame("decide", r)) ELSE Sent(b, i, Frame("decide", r))
          /\ IF d = c THEN j + 1 \in Nat /\ Sent(c, j + 1, Frame("decide", r)) ELSE Sent(d, j, Frame("decide", r))
      BY <1>12
    <3>2. b = d /\ (b # c => i = j) /\ (b = c => i + 1 = j + 1)
      BY <3>1 DEF WorkInv, Once
    <3> QED BY <3>2
  <2>3. Once'
    BY <1>12, <1>13, <2>2 DEF WorkInv, Once
  <2> QED BY <2>1, <2>3
<1>14. CASE f = Ping /\ Send(p, Pong) /\ UNCHANGED agent
  <2>1. UNCHANGED <<peer, inflight, deciding>>
    BY <1>14 DEF agent
  <2>2. \A d \in Conns : \A r \in Calls : Replied(d, r)' => Replied(d, r)
    <3>1. Pong \in ToServerFrames /\ \A r \in Calls : Pong \notin {Frame("response", r), Frame("error", r)}
      BY FrameKinds DEF Pong
    <3> QED BY <1>1, <1>14, <3>1, SendsBack
  <2>3. Unmade' /\ Once'
    BY <1>13, <2>1, <2>2
  <2>4. SameConnection'
    BY <1>2, <1>12, <2>1 DEF WorkInv, SameConnection
  <2>5. Delivery'
    BY <1>1, <1>2, <1>3, <1>6, <2>1 DEF Delivery, p
  <2>6. \A r \in Calls : f \notin {Frame("cancel", r), Closes}
    BY <1>14, FrameKinds DEF Ping, Closes
  <2>7. NewsFollows'
    BY <1>2, <1>10, <1>11, <2>1, <2>6 DEF WorkInv, NewsFollows
  <2> QED BY <2>3, <2>4, <2>5, <2>7 DEF WorkParts
<1>15. CASE /\ f.type = "cancel"
            /\ inflight' = [inflight EXCEPT ![p] = @ \ {f.of}]
            /\ UNCHANGED <<toServer, peer, mode, socket, deciding>>
  <2>1. \A q \in Procs : inflight'[q] = IF q = p THEN inflight[p] \ {f.of} ELSE inflight[q]
    BY <1>1, <1>15 DEF Types
  <2>2. \A r \in Calls : f = Frame("cancel", r) => r = f.of
    BY DEF Frame
  <2>3. \A r \in Calls : f # Closes
    BY <1>15 DEF Closes, Frame
  <2>4. Unmade' /\ Once'
    BY <1>13, <1>15, <2>1 DEF Replied
  <2>5. SameConnection'
    BY <1>2, <1>12, <1>15, <2>1 DEF WorkInv, SameConnection
  <2>6. Delivery'
    BY <1>1, <1>2, <1>3, <1>6, <1>15 DEF Delivery, p
  <2>7. ASSUME NEW r \in Calls, NEW q \in Procs, r \in inflight'[q]
        PROVE  call'[r] = "waiting" \/ \E d \in Conns : peer'[d] = q /\ Told(d, 0, r)'
    <3>1. r \in inflight[q] /\ (q = p => f # Frame("cancel", r))
      BY <2>1, <2>2, <2>7
    <3>2. call[r] = "waiting" \/ \E d \in Conns : peer[d] = q /\ Told(d, 0, r)
      BY <3>1 DEF WorkInv, NewsFollows
    <3>3. \A d \in Conns : peer[d] = q => d # c \/ f \notin {Frame("cancel", r), Closes}
      BY <2>3, <3>1 DEF p
    <3> QED BY <1>2, <1>11, <1>15, <3>2, <3>3
  <2> QED BY <1>10, <2>4, <2>5, <2>6, <2>7 DEF WorkParts, NewsFollows
<1>16. CASE /\ f = Closes
            /\ peer' = [peer EXCEPT ![c] = None]
            /\ inflight' = [inflight EXCEPT ![p] = {}]
            /\ UNCHANGED <<toServer, deciding>>
  <2>1. \A q \in Procs : inflight'[q] = IF q = p THEN {} ELSE inflight[q]
    BY <1>1, <1>16 DEF Types
  <2>2. \A d \in Conns : peer'[d] = IF d = c THEN None ELSE peer[d]
    BY <1>1, <1>16 DEF Types
  <2>3. Unmade' /\ Once'
    BY <1>13, <1>16, <2>1 DEF Replied
  <2>4. SameConnection'
    <3>1. \A r \in Calls, d \in Conns, q \in Procs : r \in pending[d] /\ r \in inflight'[q] => peer'[d] = q
      BY <2>1, <2>2 DEF WorkInv, SameConnection, p
    <3> QED BY <1>2, <1>12, <3>1 DEF WorkInv, SameConnection
  <2>5. Delivery'
    BY <1>1, <1>2, <1>3, <1>6, <1>7, <1>16, <2>2 DEF Delivery
  <2>6. ASSUME NEW r \in Calls, NEW q \in Procs, r \in inflight'[q]
        PROVE  call'[r] = "waiting" \/ \E d \in Conns : peer'[d] = q /\ Told(d, 0, r)'
    <3>1. r \in inflight[q] /\ q # p
      BY <2>1, <2>6
    <3>2. call[r] = "waiting" \/ \E d \in Conns : peer[d] = q /\ Told(d, 0, r)
      BY <3>1 DEF WorkInv, NewsFollows
    <3>3. \A d \in Conns : peer[d] = q => d # c
      BY <3>1 DEF p
    <3> QED BY <1>2, <1>11, <2>2, <3>2, <3>3
  <2> QED BY <1>10, <2>3, <2>4, <2>5, <2>6 DEF WorkParts, NewsFollows
<1>17. CASE /\ f.type = "decide"
            /\ inflight' = [inflight EXCEPT ![p] = @ \cup {f.of}]
            /\ deciding' = [deciding EXCEPT ![p] = @ \cup {f.of}]
            /\ UNCHANGED <<toServer, peer, mode, socket>>
  <2>1. PICK r \in Calls : f = Frame("decide", r) /\ f.of = r
    <3>1. \A t, q : Frame(t, q).of = q /\ Frame(t, q).type = t
      BY DEF Frame
    <3> QED BY <1>3, <1>17, <3>1 DEF ToAgentFrames, Ping, Closes
  <2>2. /\ \A q \in Procs : inflight'[q] = IF q = p THEN inflight[p] \cup {r} ELSE inflight[q]
        /\ \A q \in Procs : deciding'[q] = IF q = p THEN deciding[p] \cup {r} ELSE deciding[q]
    BY <1>1, <1>17, <2>1 DEF Types
  <2>3. Sent(c, 1, Frame("decide", r))
    BY <1>3, <2>1
  <2>4. \A d \in Conns : \A i \in Nat : \A q \in Calls : Sent(d, i, Frame("decide", q))' => q # r
    <3>1. \A d \in Conns : \A i \in Nat : Sent(d, i, Frame("decide", r)) => d = c /\ i = 1
      BY <2>3 DEF WorkInv, Once
    <3>2. \A i \in Nat : i # 0 => i + 1 # 1
      OBVIOUS
    <3> QED BY <1>12, <3>1, <3>2
  <2>5. \A d \in Conns : ~Replied(d, r) /\ (r \in pending[d] => d = c)
    BY <2>3 DEF WorkInv, Once, SameConnection
  <2>6. \A q \in Procs : r \notin deciding[q] /\ r \notin inflight[q]
    BY <2>3 DEF WorkInv, Once
  <2>7. \A d \in Conns : \A q \in Calls : Replied(d, q)' <=> Replied(d, q)
    BY <1>17 DEF Replied
  <2>8. call[r] # "new"
    BY <2>3 DEF WorkInv, Unmade
  <2>9. Unmade'
    BY <1>2, <1>12, <2>2, <2>7, <2>8 DEF WorkInv, Unmade
  <2>10. \A q \in Calls : \A b, d \in Conns : \A i, j \in Nat :
           Sent(b, i, Frame("decide", q))' /\ Sent(d, j, Frame("decide", q))' => b = d /\ i = j
    <3> SUFFICES ASSUME NEW q \in Calls, NEW b \in Conns, NEW d \in Conns, NEW i \in Nat, NEW j \in Nat,
                        Sent(b, i, Frame("decide", q))', Sent(d, j, Frame("decide", q))'
                 PROVE  b = d /\ i = j
      OBVIOUS
    <3>1. /\ IF b = c THEN i + 1 \in Nat /\ Sent(c, i + 1, Frame("decide", q)) ELSE Sent(b, i, Frame("decide", q))
          /\ IF d = c THEN j + 1 \in Nat /\ Sent(c, j + 1, Frame("decide", q)) ELSE Sent(d, j, Frame("decide", q))
      BY <1>12
    <3>2. b = d /\ (b # c => i = j) /\ (b = c => i + 1 = j + 1)
      BY <3>1 DEF WorkInv, Once
    <3> QED BY <3>2
  <2>11. Once'
    <3> SUFFICES ASSUME NEW q \in Calls
        PROVE  /\ \A b, d \in Conns : \A i \in Nat : Sent(b, i, Frame("decide", q))' => ~Replied(d, q)'
               /\ \A b \in Conns, o \in Procs : \A i \in Nat : Sent(b, i, Frame("decide", q))' => q \notin deciding'[o]
               /\ \A b \in Conns, o \in Procs : q \in deciding'[o] => ~Replied(b, q)'
               /\ \A n, o \in Procs : q \in deciding'[n] /\ q \in deciding'[o] => n = o
               /\ \A o \in Procs : q \in inflight'[o] => q \in deciding'[o]
      BY <2>10 DEF Once
    <3>1. CASE q = r
      BY <2>2, <2>4, <2>5, <2>6, <2>7, <3>1
    <3>2. CASE q # r
      <4>1. \A o \in Procs : (q \in deciding'[o] <=> q \in deciding[o]) /\ (q \in inflight'[o] <=> q \in inflight[o])
        BY <2>2, <3>2
      <4> QED BY <1>12, <2>7, <4>1 DEF WorkInv, Once
    <3> QED BY <3>1, <3>2
  <2>12. SameConnection'
    <3> SUFFICES ASSUME NEW q \in Calls, NEW d \in Conns, q \in pending[d]
        PROVE  /\ \A o \in Procs : q \in inflight'[o] => peer[d] = o
               /\ \A b \in Conns : \A i \in Nat : Sent(b, i, Frame("decide", q))' => b = d
      BY <1>2, <1>17 DEF SameConnection
    <3>1. CASE q = r
      BY <2>2, <2>4, <2>5, <2>6, <3>1 DEF p
    <3>2. CASE q # r
      BY <1>12, <2>2, <3>2 DEF WorkInv, SameConnection
    <3> QED BY <3>1, <3>2
  <2>13. Delivery'
    BY <1>1, <1>2, <1>3, <1>6, <1>17 DEF Delivery, p
  <2>14. \A q \in Calls : f \notin {Frame("cancel", q), Closes}
    BY <2>1, FrameKinds DEF Closes
  <2>15. ASSUME NEW q \in Calls, NEW o \in Procs, q \in inflight'[o]
         PROVE  call'[q] = "waiting" \/ \E d \in Conns : peer'[d] = o /\ Told(d, 0, q)'
    <3>1. CASE q \in inflight[o]
      <4>1. call[q] = "waiting" \/ \E d \in Conns : peer[d] = o /\ Told(d, 0, q)
        BY <3>1 DEF WorkInv, NewsFollows
      <4> QED BY <1>2, <1>11, <1>17, <2>14, <4>1
    <3>2. CASE q = r /\ o = p
      <4>1. Told(c, 0 + 1, r)
        BY <2>3 DEF WorkInv, NewsFollows
      <4>2. Told(c, 0, r)'
        BY <1>8, <4>1
      <4> QED BY <1>17, <3>2, <4>2 DEF p
    <3> QED BY <2>2, <2>15, <3>1, <3>2
  <2> QED BY <1>10, <2>9, <2>11, <2>12, <2>13, <2>15 DEF WorkParts, NewsFollows
<1> QED BY <1>14, <1>15, <1>16, <1>17 DEF AgentReceives, p, f

\* Frames, calls and handlers stay in step, whatever connections, processes and
\* the network do.
THEOREM ConnectionsWorkInvariant == Spec => []WorkInv
<1>1. Init => WorkInv
  <2> SUFFICES ASSUME Init PROVE WorkInv
    OBVIOUS
  <2>1. RegistryInv
    BY RegistryInit
  <2>2. Types
    <3>1. registered = None /\ present = FALSE
      BY DEF Init
    <3>2. /\ toAgent \in [Conns -> Seq(ToAgentFrames)] /\ toServer \in [Conns -> Seq(ToServerFrames)]
          /\ age \in [Conns -> Nat] /\ timer \in [Conns -> 0 .. Interval]
      BY EmptyFrames, ConnectionsAssumption DEF Init
    <3> QED BY <3>1, <3>2 DEF Init, Types
  <2>3. \A c \in Conns : \A i \in Nat : \A g : ~Sent(c, i, g)
    BY DEF Init, Sent
  <2>4. \A c \in Conns : \A r \in Calls : ~Replied(c, r)
    BY DEF Init, Replied
  <2>5. Unmade
    BY <2>3, <2>4 DEF Init, Unmade
  <2>6. Once
    BY <2>3, <2>4 DEF Init, Once
  <2>7. SameConnection
    BY <2>3 DEF Init, SameConnection
  <2>8. Delivery
    BY <2>3 DEF Init, Delivery
  <2>9. NewsFollows
    BY <2>3 DEF Init, NewsFollows
  <2> QED BY <2>1, <2>2, <2>5, <2>6, <2>7, <2>8, <2>9 DEF WorkInv
<1>2. WorkInv /\ [Next]_vars => WorkInv'
  <2> SUFFICES ASSUME WorkInv, [Next]_vars PROVE WorkInv'
    OBVIOUS
  <2>1. RegistryInv'
    BY RegistryStep DEF WorkInv
  <2>2. Types'
    <3>1. CASE UNCHANGED vars
      BY <3>1 DEF vars, server, heart, agent, WorkInv, Types
    <3> QED BY <3>1, ServerKeepsTypes, AgentKeepsTypes DEF Next
  <2>3. WorkParts'
    BY ServerWorks, RequestWorks, DropWorks, OpenSocketWorks, StopWorks, VanishWorks, DecideEndsWorks,
       AgentReceivesWorks DEF Next
  <2> QED BY <2>1, <2>2, <2>3 DEF WorkInv, WorkParts
<1> QED BY <1>1, <1>2, PTL DEF Spec

\* The maps, the fields, the clocks and the frames keep their types.
THEOREM ConnectionsTypeOK == Spec => []TypeOK
<1>1. WorkInv => TypeOK
  BY DEF WorkInv, RegistryInv, ServerTypes, Types, TypeOK
<1> QED BY <1>1, ConnectionsWorkInvariant, PTL

\* No agent computes a decision that nobody waits for, unless the cancel or the
\* close that tells it so is on its way.
THEOREM ConnectionsNobodyWorksInVain == Spec => []NobodyWorksInVain
<1>1. ASSUME WorkInv PROVE NobodyWorksInVain
  <2> SUFFICES ASSUME NEW p \in Procs, NEW r \in inflight[p], call[r] # "waiting"
               PROVE  \E c \in Conns : /\ peer[c] = p
                                       /\ {Frame("cancel", r), Closes} \cap ToSet(toAgent[c]) # {}
    BY DEF NobodyWorksInVain
  <2>1. r \in Calls
    BY <1>1 DEF WorkInv, Types
  <2>2. PICK c \in Conns : peer[c] = p /\ Told(c, 0, r)
    BY <1>1, <2>1 DEF WorkInv, NewsFollows
  <2>3. PICK j \in Nat : Sent(c, j, Frame("cancel", r)) \/ Sent(c, j, Closes)
    BY <2>2 DEF Told
  <2>4. j \in DOMAIN toAgent[c] /\ toAgent[c][j] \in {Frame("cancel", r), Closes}
    <3>1. toAgent[c] \in Seq(ToAgentFrames)
      BY <1>1 DEF WorkInv, Types
    <3> QED BY <2>3, <3>1 DEF Sent
  <2>5. toAgent[c][j] \in ToSet(toAgent[c])
    BY <2>4 DEF ToSet
  <2> QED BY <2>2, <2>4, <2>5
<1> QED BY <1>1, ConnectionsWorkInvariant, PTL

-----------------------------------------------------------------------------
(* The heartbeat.                                                           *)

\* The peer's socket has sent no close event, and the server has closed nothing.
Alive(c) == conn[c] \in {"upgrading", "open"} /\ Works(c)

\* A ping of c or its pong is under way.
Unanswered(c) == Ping \in ToSet(toAgent[c]) \/ Pong \in ToSet(toServer[c])

\* A process that is not down has the only socket of its own.
OneSocket ==
  /\ \A c \in Conns : peer[c] # None => mode[peer[c]] # "down"
  /\ \A c, d \in Conns : peer[c] # None /\ peer[c] = peer[d] => c = d
  /\ \A c \in Conns : Alive(c) => socket[peer[c]] = c /\ Closes \notin ToSet(toAgent[c])

\* The interval fires often enough; a pong sets the clock back.
Clocks ==
  /\ \A c \in Open : age[c] + timer[c] <= Timeout + Interval
  /\ \A c \in Open : Works(c) => age[c] + timer[c] <= Interval \/ Unanswered(c)

HeartbeatInv == OneSocket /\ Clocks

\* The members of a sequence that grew by a frame, or lost its head.
LEMMA Members ==
  ASSUME NEW S, NEW s \in Seq(S), NEW f \in S
  PROVE  /\ ToSet(Append(s, f)) = ToSet(s) \cup {f}
         /\ ToSet(s \o <<f>>) = ToSet(s) \cup {f}
         /\ s # <<>> => /\ ToSet(Tail(s)) \subseteq ToSet(s)
                        /\ ToSet(s) \subseteq ToSet(Tail(s)) \cup {Head(s)}
                        /\ Head(s) \in ToSet(s)
<1>1. ASSUME NEW t \in Seq(S), Len(t) = Len(s) + 1,
             \A i \in 1 .. Len(t) : t[i] = IF i <= Len(s) THEN s[i] ELSE f
      PROVE  ToSet(t) = ToSet(s) \cup {f}
  <2>1. DOMAIN t = 1 .. Len(s) + 1 /\ DOMAIN s = 1 .. Len(s) /\ Len(s) \in Nat
    BY <1>1
  <2>2. t[Len(s) + 1] = f /\ \A i \in 1 .. Len(s) : t[i] = s[i]
    BY <1>1, <2>1
  <2> QED BY <2>1, <2>2 DEF ToSet
<1>2. /\ Append(s, f) \in Seq(S) /\ Len(Append(s, f)) = Len(s) + 1
      /\ \A i \in 1 .. Len(s) + 1 : Append(s, f)[i] = IF i <= Len(s) THEN s[i] ELSE f
  OBVIOUS
<1>3. /\ s \o <<f>> \in Seq(S) /\ Len(s \o <<f>>) = Len(s) + 1
      /\ \A i \in 1 .. Len(s) + 1 : (s \o <<f>>)[i] = IF i <= Len(s) THEN s[i] ELSE f
  OBVIOUS
<1>4. ASSUME s # <<>>
      PROVE  /\ ToSet(Tail(s)) \subseteq ToSet(s)
             /\ ToSet(s) \subseteq ToSet(Tail(s)) \cup {Head(s)}
             /\ Head(s) \in ToSet(s)
  <2> DEFINE t == Tail(s)
  <2>1. /\ t \in Seq(S) /\ Len(t) = Len(s) - 1 /\ Len(s) \in Nat \ {0} /\ Head(s) = s[1]
        /\ \A i \in 1 .. Len(t) : t[i] = s[i + 1]
    BY <1>4
  <2> HIDE DEF t
  <2>2. DOMAIN t = 1 .. Len(s) - 1 /\ DOMAIN s = 1 .. Len(s)
    BY <2>1
  <2>3. ToSet(t) \subseteq ToSet(s)
    <3> SUFFICES ASSUME NEW i \in 1 .. Len(s) - 1 PROVE t[i] \in ToSet(s)
      BY <2>2 DEF ToSet
    <3>1. i + 1 \in DOMAIN s /\ t[i] = s[i + 1]
      BY <2>1, <2>2
    <3> QED BY <3>1 DEF ToSet
  <2>4. ToSet(s) \subseteq ToSet(t) \cup {Head(s)}
    <3> SUFFICES ASSUME NEW i \in 1 .. Len(s), i # 1 PROVE s[i] \in ToSet(t)
      BY <2>1, <2>2 DEF ToSet
    <3>1. i - 1 \in DOMAIN t /\ t[i - 1] = s[i]
      BY <2>1, <2>2
    <3> QED BY <3>1 DEF ToSet
  <2>5. Head(s) \in ToSet(s)
    BY <2>1, <2>2 DEF ToSet
  <2> QED BY <2>3, <2>4, <2>5 DEF t
<1>5. ToSet(Append(s, f)) = ToSet(s) \cup {f}
  BY <1>1, <1>2
<1>6. ToSet(s \o <<f>>) = ToSet(s) \cup {f}
  BY <1>1, <1>3
<1> QED BY <1>4, <1>5, <1>6

LEMMA CloseBehind ==
  ASSUME NEW t \in Seq(ToServerFrames)
  PROVE  ToSet(Append(t, Closes)) = ToSet(t) \cup {Closes}
<1>1. Closes \in ToServerFrames
  BY FrameKinds
<1> QED BY <1>1, Members

LEMMA FewMembers == ToSet(<<>>) = {} /\ \A f : ToSet(<<f>>) = {f}
BY DEF ToSet

\* What is under way to the agent, as a set.
LEMMA SendsSet ==
  ASSUME Types, NEW c \in Conns, NEW f \in ToAgentFrames, toAgent' = WithFrames(c, <<f>>)
  PROVE  /\ \A d \in Conns : d # c => toAgent'[d] = toAgent[d]
         /\ ToSet(toAgent[c]) \subseteq ToSet(toAgent'[c])
         /\ ToSet(toAgent'[c]) \subseteq ToSet(toAgent[c]) \cup {f}
         /\ peer[c] # None /\ Closes \notin ToSet(toAgent[c]) => f \in ToSet(toAgent'[c])
<1>1. toAgent \in [Conns -> Seq(ToAgentFrames)] /\ toAgent[c] \in Seq(ToAgentFrames)
  BY DEF Types
<1>2. CASE peer[c] = None \/ Closes \in ToSet(toAgent[c])
  <2>1. toAgent' = toAgent
    BY <1>1, <1>2 DEF WithFrames
  <2> QED BY <1>2, <2>1
<1>3. CASE peer[c] # None /\ Closes \notin ToSet(toAgent[c])
  <2>1. toAgent' = [toAgent EXCEPT ![c] = @ \o <<f>>]
    BY <1>1, <1>3 DEF WithFrames
  <2>2. toAgent'[c] = toAgent[c] \o <<f>> /\ \A d \in Conns : d # c => toAgent'[d] = toAgent[d]
    BY <1>1, <2>1
  <2>3. ToSet(toAgent'[c]) = ToSet(toAgent[c]) \cup {f}
    <3>1. ToSet(toAgent[c] \o <<f>>) = ToSet(toAgent[c]) \cup {f}
      BY <1>1, Members
    <3> QED BY <2>2, <3>1
  <2> QED BY <2>2, <2>3
<1> QED BY <1>2, <1>3

LEMMA OneSocketKept ==
  ASSUME OneSocket, UNCHANGED <<peer, mode, socket>>,
         \A c \in Conns : Alive(c)' => /\ Alive(c)
                                       /\ Closes \in ToSet(toAgent'[c]) => Closes \in ToSet(toAgent[c])
  PROVE  OneSocket'
BY DEF OneSocket

LEMMA ClocksKept ==
  ASSUME Clocks, UNCHANGED <<age, timer>>,
         \A c \in Open' : c \in Open /\ (Works(c)' => Works(c) /\ (Unanswered(c) => Unanswered(c)'))
  PROVE  Clocks'
BY DEF Clocks

LEMMA CloseBeats ==
  ASSUME WorkInv, HeartbeatInv, NEW c \in Conns, Close(c), UNCHANGED agent
  PROVE  HeartbeatInv'
<1>1. Types /\ conn \in [Conns -> {"unused", "upgrading", "open", "closed"}] /\ UNCHANGED <<peer, mode, socket>>
  BY DEF WorkInv, RegistryInv, ServerTypes, agent
<1>2. /\ toAgent' = WithFrames(c, <<Closes>>) /\ toServer' = [toServer EXCEPT ![c] = <<>>]
      /\ conn' = [conn EXCEPT ![c] = "closed"]
      /\ age' = [age EXCEPT ![c] = 0] /\ timer' = [timer EXCEPT ![c] = 0]
  BY DEF Close, HandleSocketClosed
<1>3. \A d \in Conns : d # c => /\ toAgent'[d] = toAgent[d] /\ toServer'[d] = toServer[d]
                                /\ conn'[d] = conn[d] /\ age'[d] = age[d] /\ timer'[d] = timer[d]
  <2>1. \A d \in Conns : d # c => toAgent'[d] = toAgent[d]
    <3>1. Closes \in ToAgentFrames
      BY FrameKinds
    <3> QED BY <1>1, <1>2, <3>1, SendsSet
  <2> QED BY <1>1, <1>2, <2>1 DEF Types
<1>4. conn'[c] = "closed"
  BY <1>1, <1>2
<1>5. OneSocket'
  BY <1>1, <1>3, <1>4, OneSocketKept DEF HeartbeatInv, Alive, Works
<1>6. Clocks'
  BY <1>1, <1>3, <1>4 DEF HeartbeatInv, Clocks, Open, Works, Unanswered
<1> QED BY <1>5, <1>6 DEF HeartbeatInv

LEMMA RegisterBeats ==
  ASSUME WorkInv, HeartbeatInv, NEW c \in Conns, Register(c)
  PROVE  HeartbeatInv'
<1>1. /\ Types /\ conn[c] = "upgrading"
      /\ conn' = [d \in Conns |-> IF d = c THEN "open" ELSE IF d = registered THEN "closed" ELSE conn[d]]
      /\ age' = [d \in Conns |-> 0] /\ timer' = [d \in Conns |-> IF d = c THEN Interval ELSE 0]
      /\ UNCHANGED <<peer, mode, socket>> /\ Open = {registered} \ {None}
  BY DEF Register, agent, WorkInv, RegistryInv, OneConnection
<1>2. Open' = {c} /\ c # registered
  <2>1. c # registered /\ (registered # None => registered \in Conns)
    BY <1>1, ConnectionsAssumption DEF Open
  <2>2. \A d \in Conns : conn[d] = "open" => d = registered
    BY <1>1 DEF Open
  <2>3. \A d \in Conns : conn'[d] = "open" <=> d = c
    BY <1>1, <2>1, <2>2
  <2> QED BY <2>1, <2>3 DEF Open
<1>3. \A d \in Conns : d # registered => toAgent'[d] = toAgent[d] /\ toServer'[d] = toServer[d]
  <2>1. CASE registered = None
    BY <2>1 DEF Register
  <2>2. CASE registered # None
    <3>1. registered \in Conns /\ HandleSocketClosed(registered, c)
      BY <2>2 DEF Register, WorkInv, RegistryInv, ServerTypes
    <3>2. toAgent' = WithFrames(registered, <<Closes>>) /\ toServer' = [toServer EXCEPT ![registered] = <<>>]
      BY <3>1 DEF HandleSocketClosed
    <3>3. Closes \in ToAgentFrames
      BY FrameKinds
    <3>4. \A d \in Conns : d # registered => toAgent'[d] = toAgent[d]
      BY <1>1, <3>1, <3>2, <3>3, SendsSet
    <3> QED BY <1>1, <3>1, <3>2, <3>4 DEF Types
  <2> QED BY <2>1, <2>2
<1>4. \A d \in Conns : Alive(d)' => Alive(d) /\ d # registered
  <2> SUFFICES ASSUME NEW d \in Conns, Alive(d)' PROVE Alive(d) /\ d # registered
    OBVIOUS
  <2>1. d # registered /\ conn[d] \in {"upgrading", "open"}
    BY <1>1, <1>2 DEF Alive
  <2> QED BY <1>1, <1>3, <2>1 DEF Alive, Works
<1>5. OneSocket'
  BY <1>1, <1>3, <1>4, OneSocketKept DEF HeartbeatInv
<1>6. Clocks'
  BY <1>1, <1>2, ConnectionsAssumption DEF Clocks
<1> QED BY <1>5, <1>6 DEF HeartbeatInv

LEMMA ServerReceivesBeats ==
  ASSUME WorkInv, HeartbeatInv, NEW c \in Conns, ServerReceives(c)
  PROVE  HeartbeatInv'
<1> DEFINE f == Head(toServer[c])
<1>1. Types /\ UNCHANGED agent /\ UNCHANGED <<peer, mode, socket>>
  BY DEF WorkInv, ServerReceives, agent
<1>2. CASE Close(c)
  BY <1>1, <1>2, CloseBeats
<1>3. CASE /\ toServer' = [toServer EXCEPT ![c] = Tail(@)] /\ UNCHANGED <<conn, timer, toAgent>>
           /\ \/ f = Pong /\ age' = [age EXCEPT ![c] = 0]
              \/ f.type \in {"response", "error"} /\ UNCHANGED age
  <2>1. toServer[c] \in Seq(ToServerFrames) /\ toServer[c] # <<>> /\ Closes \in ToServerFrames /\ c \in Open
    BY <1>1, FrameKinds DEF Types, ServerReceives
  <2>2. toServer'[c] = Tail(toServer[c]) /\ \A d \in Conns : d # c => toServer'[d] = toServer[d]
    BY <1>1, <1>3 DEF Types
  <2>3. /\ ToSet(toServer'[c]) \subseteq ToSet(toServer[c])
        /\ ToSet(toServer[c]) \subseteq ToSet(toServer'[c]) \cup {f}
    BY <2>1, <2>2, Members
  <2>4. f # Closes /\ ((f = Pong /\ age' = [age EXCEPT ![c] = 0]) \/ (f # Pong /\ UNCHANGED age))
    <3>1. Pong # Closes /\ Pong.type = "pong" /\ Closes.type = "close"
      <4>1. Pong.type = "pong" /\ Closes.type = "close"
        BY DEF Pong, Closes, Frame
      <4> QED BY <4>1
    <3> HIDE DEF f
    <3> QED BY <1>3, <3>1
  <2> HIDE DEF f
  <2>5. \A d \in Conns : Works(d)' <=> Works(d)
    BY <1>1, <2>2, <2>3, <2>4 DEF Works
  <2>6. OneSocket'
    BY <1>1, <1>3, <2>5, OneSocketKept DEF HeartbeatInv, Alive
  <2>7. Open' = Open
    BY <1>3 DEF Open
  <2>8. CASE f = Pong /\ age' = [age EXCEPT ![c] = 0]
    <3>1. \A d \in Conns : /\ age'[d] = IF d = c THEN 0 ELSE age[d]
                           /\ age[d] \in Nat /\ timer[d] \in 0 .. Interval
      BY <1>1, <2>8 DEF Types
    <3>2. \A d \in Conns : d # c => (Unanswered(d)' <=> Unanswered(d))
      BY <1>3, <2>2 DEF Unanswered
    <3> QED BY <1>3, <2>5, <2>6, <2>7, <3>1, <3>2, ConnectionsAssumption DEF HeartbeatInv, Clocks, Open
  <2>9. CASE f # Pong /\ UNCHANGED age
    <3>1. \A d \in Conns : Unanswered(d) => Unanswered(d)'
      BY <1>3, <2>2, <2>3, <2>9 DEF Unanswered
    <3> QED BY <1>3, <2>5, <2>6, <2>7, <2>9, <3>1, ClocksKept DEF HeartbeatInv, Open
  <2> QED BY <1>3, <2>4, <2>8, <2>9
<1> QED BY <1>2, <1>3 DEF ServerReceives, server, heart

LEMMA ServerBeats ==
  ASSUME WorkInv, HeartbeatInv,
         \/ \E c \in Conns : UpgradeFails(c) \/ SendPing(c) \/ NetworkDrops(c)
         \/ \E r \in Calls : Request(r) \/ Ceiling(r)
         \/ TimePasses
  PROVE  HeartbeatInv'
<1>0. Types /\ OneSocket /\ Clocks /\ conn \in [Conns -> {"unused", "upgrading", "open", "closed"}]
  BY DEF WorkInv, RegistryInv, ServerTypes, HeartbeatInv
<1>1. ASSUME NEW c \in Conns, UpgradeFails(c) PROVE HeartbeatInv'
  <2>1. /\ toAgent' = WithFrames(c, <<Closes>>) /\ toServer' = [toServer EXCEPT ![c] = <<>>]
        /\ conn[c] = "upgrading" /\ conn' = [conn EXCEPT ![c] = "closed"]
        /\ UNCHANGED <<age, timer, peer, mode, socket>>
    BY <1>1 DEF UpgradeFails, agent, heart
  <2>2. Closes \in ToAgentFrames
    BY FrameKinds
  <2>3. \A d \in Conns : d # c => toAgent'[d] = toAgent[d]
    BY <1>0, <2>1, <2>2, SendsSet
  <2>4. \A d \in Conns : d # c => toServer'[d] = toServer[d] /\ conn'[d] = conn[d]
    BY <1>0, <2>1 DEF Types
  <2>5. conn'[c] = "closed" /\ Open' = Open /\ c \notin Open
    BY <1>0, <2>1 DEF Open
  <2>6. OneSocket'
    BY <1>0, <2>1, <2>3, <2>4, <2>5, OneSocketKept DEF Alive, Works
  <2>7. Clocks'
    BY <1>0, <2>1, <2>3, <2>4, <2>5, ClocksKept DEF Works, Unanswered, Open
  <2> QED BY <2>6, <2>7 DEF HeartbeatInv
<1>2. ASSUME NEW c \in Conns, SendPing(c) PROVE HeartbeatInv'
  <2>0. age[c] \in Nat /\ ~(age[c] > Timeout)
    BY <1>0, <1>2 DEF SendPing, Overdue, Types
  <2>1. /\ c \in Open /\ age[c] <= Timeout /\ timer' = [timer EXCEPT ![c] = Interval]
        /\ toAgent' = WithFrames(c, <<Ping>>)
        /\ UNCHANGED <<conn, age, toServer, peer, mode, socket>>
    BY <1>2, <2>0, ConnectionsAssumption DEF SendPing, NextTick, server, agent
  <2>2. Ping \in ToAgentFrames /\ Ping # Closes
    BY FrameKinds DEF Ping, Closes
  <2>3. /\ \A d \in Conns : d # c => toAgent'[d] = toAgent[d]
        /\ ToSet(toAgent[c]) \subseteq ToSet(toAgent'[c])
        /\ ToSet(toAgent'[c]) \subseteq ToSet(toAgent[c]) \cup {Ping}
        /\ peer[c] # None /\ Closes \notin ToSet(toAgent[c]) => Ping \in ToSet(toAgent'[c])
    BY <1>0, <2>1, <2>2, SendsSet
  <2>4. \A d \in Conns : (Works(d)' <=> Works(d)) /\ (Alive(d)' <=> Alive(d))
    BY <2>1 DEF Works, Alive
  <2>5. OneSocket'
    BY <1>0, <2>1, <2>2, <2>3, <2>4, OneSocketKept
  <2>6. Works(c) => Unanswered(c)'
    BY <1>0, <2>1, <2>3 DEF OneSocket, Alive, Works, Open, Unanswered
  <2>7. \A d \in Conns : d # c => (Unanswered(d)' <=> Unanswered(d)) /\ timer'[d] = timer[d]
    BY <1>0, <2>1, <2>3 DEF Unanswered, Types
  <2>8. timer'[c] = Interval /\ age[c] + Interval <= Timeout + Interval
    BY <1>0, <2>1, ConnectionsAssumption DEF Types, Open
  <2>9. Clocks'
    BY <1>0, <2>1, <2>4, <2>6, <2>7, <2>8 DEF Clocks, Open
  <2> QED BY <2>5, <2>9 DEF HeartbeatInv
<1>3. ASSUME NEW c \in Conns, NetworkDrops(c) PROVE HeartbeatInv'
  <2>1. /\ UNCHANGED <<conn, age, timer, peer, mode, socket>>
        /\ \A d \in Conns : d # c => toAgent'[d] = toAgent[d] /\ toServer'[d] = toServer[d]
        /\ toServer'[c] = <<Closes>>
    BY <1>0, <1>3 DEF NetworkDrops, server, heart, agent, Types
  <2>2. ~Works(c)'
    BY <2>1, FewMembers DEF Works
  <2>3. OneSocket'
    BY <1>0, <2>1, <2>2, OneSocketKept DEF Alive, Works
  <2>4. Clocks'
    BY <1>0, <2>1, <2>2, ClocksKept DEF Works, Unanswered, Open
  <2> QED BY <2>3, <2>4 DEF HeartbeatInv
<1>4. ASSUME NEW c \in Conns, NEW f \in ToAgentFrames, f # Closes, toAgent' = WithFrames(c, <<f>>) \/ UNCHANGED toAgent,
             UNCHANGED <<conn, age, timer, toServer, peer, mode, socket>>
      PROVE  HeartbeatInv'
  <2>1. \A d \in Conns : /\ ToSet(toAgent[d]) \subseteq ToSet(toAgent'[d])
                         /\ ToSet(toAgent'[d]) \subseteq ToSet(toAgent[d]) \cup {f}
    BY <1>0, <1>4, SendsSet
  <2>2. OneSocket'
    BY <1>0, <1>4, <2>1, OneSocketKept DEF Alive, Works
  <2>3. Clocks'
    BY <1>0, <1>4, <2>1, ClocksKept DEF Works, Unanswered, Open
  <2> QED BY <2>2, <2>3 DEF HeartbeatInv
<1>5. ASSUME NEW r \in Calls, Request(r) PROVE HeartbeatInv'
  <2>1. UNCHANGED <<conn, age, timer, toServer, peer, mode, socket>>
    BY <1>5 DEF Request, heart, agent
  <2>2. Frame("decide", r) \in ToAgentFrames /\ Frame("decide", r) # Closes
    BY FrameKinds DEF Closes
  <2>3. CASE UNCHANGED toAgent
    <3>1. OneSocket'
      BY <1>0, <2>1, <2>3, OneSocketKept DEF Alive, Works
    <3>2. Clocks'
      BY <1>0, <2>1, <2>3, ClocksKept DEF Works, Unanswered, Open
    <3> QED BY <3>1, <3>2 DEF HeartbeatInv
  <2>4. CASE registered \in Conns /\ toAgent' = WithFrames(registered, <<Frame("decide", r)>>)
    BY <1>4, <2>1, <2>2, <2>4
  <2> QED BY <1>5, <2>3, <2>4 DEF Request, WorkInv, RegistryInv, ServerTypes
<1>6. ASSUME NEW r \in Calls, Ceiling(r) PROVE HeartbeatInv'
  <2>1. PICK c \in Conns : toAgent' = WithFrames(c, <<Frame("cancel", r)>>)
    BY <1>6 DEF Ceiling, AtCeiling, Open
  <2>2. UNCHANGED <<conn, age, timer, toServer, peer, mode, socket>>
    BY <1>6 DEF Ceiling, heart, agent
  <2>3. Frame("cancel", r) \in ToAgentFrames /\ Frame("cancel", r) # Closes
    BY FrameKinds DEF Closes
  <2> QED BY <1>4, <2>1, <2>2, <2>3
<1>7. CASE TimePasses
  <2>1. /\ UNCHANGED <<conn, toAgent, toServer, peer, mode, socket>> /\ Open' = Open
        /\ \A c \in Open : age'[c] = age[c] + 1 /\ timer[c] # 0
        /\ \A c \in Open : timer'[c] = IF timer[c] > 0 THEN timer[c] - 1 ELSE timer[c]
    BY <1>7 DEF TimePasses, server, agent, Open
  <2>2. \A c \in Open : age'[c] + timer'[c] = age[c] + timer[c]
    BY <1>0, <2>1, ConnectionsAssumption DEF Types, Open
  <2>3. OneSocket'
    BY <1>0, <2>1, OneSocketKept DEF Alive, Works
  <2>4. Clocks'
    BY <1>0, <2>1, <2>2 DEF Clocks, Works, Unanswered
  <2> QED BY <2>3, <2>4 DEF HeartbeatInv
<1> QED BY <1>1, <1>2, <1>3, <1>5, <1>6, <1>7

\* What the SDK sends reaches an open connection, behind the rest.
LEMMA SendsBackSet ==
  ASSUME Types, NEW p \in Procs, NEW f \in ToServerFrames, f # Closes, Send(p, f)
  PROVE  /\ \A d \in Conns : /\ ToSet(toServer[d]) \subseteq ToSet(toServer'[d])
                             /\ Closes \in ToSet(toServer'[d]) <=> Closes \in ToSet(toServer[d])
         /\ socket[p] \in Open => f \in ToSet(toServer'[socket[p]])
<1>1. CASE socket[p] \notin Open
  BY <1>1 DEF Send
<1>2. CASE socket[p] \in Open
  <2>1. socket[p] \in Conns /\ toServer' = [toServer EXCEPT ![socket[p]] = Append(@, f)]
    BY <1>2 DEF Send, Open
  <2>2. /\ toServer'[socket[p]] = Append(toServer[socket[p]], f)
        /\ \A d \in Conns : d # socket[p] => toServer'[d] = toServer[d]
        /\ toServer[socket[p]] \in Seq(ToServerFrames)
    BY <2>1 DEF Types
  <2>3. ToSet(toServer'[socket[p]]) = ToSet(toServer[socket[p]]) \cup {f}
    BY <2>2, Members
  <2> QED BY <2>1, <2>2, <2>3
<1> QED BY <1>1, <1>2

LEMMA AgentReceivesBeats ==
  ASSUME WorkInv, HeartbeatInv, NEW c \in Conns, AgentReceives(c)
  PROVE  HeartbeatInv'
<1> DEFINE p == peer[c]  f == Head(toAgent[c])
<1>1. /\ Types /\ OneSocket /\ Clocks /\ p \in Procs /\ p # None /\ toAgent[c] # <<>>
      /\ toAgent' = [toAgent EXCEPT ![c] = Tail(@)] /\ UNCHANGED <<conn, age, timer>>
      /\ Open' = Open
  BY DEF WorkInv, HeartbeatInv, AgentReceives, Types, server, heart, Open
<1>2. /\ \A d \in Conns : d # c => toAgent'[d] = toAgent[d]
      /\ toAgent'[c] = Tail(toAgent[c]) /\ toAgent[c] \in Seq(ToAgentFrames) /\ Closes \in ToAgentFrames
  BY <1>1, FrameKinds DEF Types
<1>3. /\ ToSet(toAgent'[c]) \subseteq ToSet(toAgent[c])
      /\ ToSet(toAgent[c]) \subseteq ToSet(toAgent'[c]) \cup {f}
      /\ f \in ToSet(toAgent[c])
  BY <1>1, <1>2, Members
<1> HIDE DEF p, f
<1>4. CASE f = Ping /\ Send(p, Pong) /\ UNCHANGED agent
  <2>1. Pong \in ToServerFrames /\ Pong # Closes /\ UNCHANGED <<peer, mode, socket>>
    BY <1>4, FrameKinds DEF Pong, Closes, agent
  <2>2. /\ \A d \in Conns : /\ ToSet(toServer[d]) \subseteq ToSet(toServer'[d])
                            /\ Closes \in ToSet(toServer'[d]) <=> Closes \in ToSet(toServer[d])
        /\ socket[p] \in Open => Pong \in ToSet(toServer'[socket[p]])
    BY <1>1, <1>4, <2>1, SendsBackSet
  <2>3. \A d \in Conns : (Works(d)' <=> Works(d)) /\ (Alive(d)' <=> Alive(d))
    BY <1>1, <2>1, <2>2 DEF Works, Alive
  <2>4. OneSocket'
    BY <1>1, <1>2, <1>3, <2>1, <2>3, OneSocketKept
  <2>5. c \in Open /\ Works(c) => Unanswered(c)'
    BY <1>1, <2>2 DEF OneSocket, Alive, Open, Unanswered, p
  <2>6. \A d \in Conns : d # c => (Unanswered(d) => Unanswered(d)')
    BY <1>2, <2>2 DEF Unanswered
  <2>7. Clocks'
    BY <1>1, <2>3, <2>5, <2>6, ClocksKept DEF Open
  <2> QED BY <2>4, <2>7 DEF HeartbeatInv
<1>5. CASE f.type \in {"decide", "cancel"} /\ UNCHANGED <<toServer, peer, mode, socket>>
  <2>1. f # Ping
    BY <1>5 DEF Ping, Frame
  <2>2. \A d \in Conns : /\ Works(d)' <=> Works(d)
                         /\ Alive(d)' <=> Alive(d)
                         /\ Unanswered(d) => Unanswered(d)'
    BY <1>1, <1>2, <1>3, <1>5, <2>1 DEF Works, Alive, Unanswered
  <2>3. OneSocket'
    BY <1>1, <1>2, <1>3, <1>5, <2>2, OneSocketKept
  <2>4. Clocks'
    BY <1>1, <2>2, ClocksKept DEF Open
  <2> QED BY <2>3, <2>4 DEF HeartbeatInv
<1>6. CASE /\ f = Closes
           /\ peer' = [peer EXCEPT ![c] = None] /\ socket' = [socket EXCEPT ![p] = None]
           /\ mode' = [mode EXCEPT ![p] = IF @ = "stopped" THEN @ ELSE "down"]
           /\ UNCHANGED toServer
  <2>1. /\ \A d \in Conns : peer'[d] = IF d = c THEN None ELSE peer[d]
        /\ \A q \in Procs : q # p => socket'[q] = socket[q] /\ mode'[q] = mode[q]
    BY <1>1, <1>6 DEF Types
  <2>2. \A d \in Conns : d # c /\ peer[d] # None => peer[d] # p /\ peer[d] \in Procs
    BY <1>1 DEF OneSocket, p, Types
  <2>3. ~Works(c)'
    BY <2>1 DEF Works
  <2>4. \A d \in Conns : d # c => /\ Works(d)' <=> Works(d)
                                  /\ Alive(d)' <=> Alive(d)
                                  /\ Unanswered(d)' <=> Unanswered(d)
    BY <1>1, <1>2, <1>6, <2>1 DEF Works, Alive, Unanswered
  <2>5. OneSocket'
    <3>1. \A d \in Conns : peer'[d] # None => mode'[peer'[d]] # "down"
      BY <1>1, <2>1, <2>2 DEF OneSocket
    <3>2. \A d, e \in Conns : peer'[d] # None /\ peer'[d] = peer'[e] => d = e
      BY <1>1, <2>1 DEF OneSocket
    <3>3. \A d \in Conns : Alive(d)' => d # c /\ Alive(d) /\ peer[d] # None
      BY <2>3, <2>4 DEF Alive, Works
    <3>4. \A d \in Conns : Alive(d)' => socket'[peer'[d]] = d /\ Closes \notin ToSet(toAgent'[d])
      BY <1>1, <1>2, <2>1, <2>2, <3>3 DEF OneSocket
    <3> QED BY <3>1, <3>2, <3>4 DEF OneSocket
  <2>6. Clocks'
    BY <1>1, <2>3, <2>4, ClocksKept DEF Open
  <2> QED BY <2>5, <2>6 DEF HeartbeatInv
<1> QED BY <1>4, <1>5, <1>6 DEF AgentReceives, p, f

LEMMA ProcessesBeat ==
  ASSUME WorkInv, HeartbeatInv, NEW p \in Procs,
         OpenSocket(p) \/ Stop(p) \/ Vanish(p) \/ \E r \in Calls : DecideEnds(p, r)
  PROVE  HeartbeatInv'
<1>0. /\ Types /\ OneSocket /\ Clocks /\ Delivery /\ p # None
      /\ conn \in [Conns -> {"unused", "upgrading", "open", "closed"}]
  BY ConnectionsAssumption DEF WorkInv, RegistryInv, ServerTypes, HeartbeatInv
<1>1. CASE OpenSocket(p)
  <2>1. PICK c \in Conns : /\ mode[p] = "down" /\ conn[c] = "unused" /\ conn' = [conn EXCEPT ![c] = "upgrading"]
                           /\ peer' = [peer EXCEPT ![c] = p] /\ socket' = [socket EXCEPT ![p] = c]
    BY <1>1 DEF OpenSocket
  <2>2. mode' = [mode EXCEPT ![p] = "up"] /\ UNCHANGED <<age, timer, toAgent, toServer>>
    BY <1>1 DEF OpenSocket, heart
  <2>3. /\ \A d \in Conns : peer'[d] = IF d = c THEN p ELSE peer[d]
        /\ \A d \in Conns : conn'[d] = IF d = c THEN "upgrading" ELSE conn[d]
        /\ \A q \in Procs : socket'[q] = IF q = p THEN c ELSE socket[q]
        /\ \A q \in Procs : mode'[q] = IF q = p THEN "up" ELSE mode[q]
    BY <1>0, <2>1, <2>2 DEF Types
  <2>4. \A d \in Conns : peer[d] # p
    BY <1>0, <2>1 DEF OneSocket
  <2>5. Closes \notin ToSet(toAgent[c])
    BY <1>0, <2>1, FewMembers DEF Delivery
  <2>6. OneSocket'
    <3>1. \A d \in Conns : peer[d] # None => peer[d] \in Procs
      BY <1>0 DEF Types
    <3>2. \A d \in Conns : d # c => (Alive(d)' <=> Alive(d))
      BY <2>2, <2>3 DEF Alive, Works
    <3>3. \A d \in Conns : peer'[d] # None => mode'[peer'[d]] # "down"
      BY <1>0, <2>3, <3>1 DEF OneSocket
    <3>4. \A d, e \in Conns : peer'[d] # None /\ peer'[d] = peer'[e] => d = e
      BY <1>0, <2>3, <2>4 DEF OneSocket
    <3>5. ASSUME NEW d \in Conns, Alive(d)' PROVE socket'[peer'[d]] = d /\ Closes \notin ToSet(toAgent'[d])
      <4>1. CASE d = c
        BY <2>2, <2>3, <2>5, <4>1
      <4>2. CASE d # c
        BY <1>0, <2>2, <2>3, <2>4, <3>1, <3>2, <3>5, <4>2 DEF OneSocket, Alive, Works
      <4> QED BY <4>1, <4>2
    <3> QED BY <3>3, <3>4, <3>5 DEF OneSocket
  <2>7. Open' = Open /\ c \notin Open
    BY <2>1, <2>3 DEF Open
  <2>8. Clocks'
    BY <1>0, <2>2, <2>3, <2>7, ClocksKept DEF Open, Works, Unanswered
  <2> QED BY <2>6, <2>8 DEF HeartbeatInv
<1>2. CASE Stop(p)
  <2>1. /\ UNCHANGED <<conn, age, timer, toAgent, peer>> /\ Open' = Open
        /\ toServer' = IF socket[p] = None \/ conn[socket[p]] = "closed" THEN toServer
                       ELSE [toServer EXCEPT ![socket[p]] = Append(@, Closes)]
        /\ \A q \in Procs : socket'[q] = IF q = p THEN None ELSE socket[q]
        /\ \A q \in Procs : mode'[q] = IF q = p THEN "stopped" ELSE mode[q]
    BY <1>0, <1>2 DEF Stop, server, heart, Types, Open
  <2>2. \A d \in Conns : ToSet(toServer[d]) \subseteq ToSet(toServer'[d])
    <3>1. CASE UNCHANGED toServer
      BY <3>1
    <3>2. CASE socket[p] # None /\ toServer' = [toServer EXCEPT ![socket[p]] = Append(@, Closes)]
      <4>1. socket[p] \in Conns /\ toServer[socket[p]] \in Seq(ToServerFrames) /\ Closes \in ToServerFrames
        BY <1>0, <3>2, FrameKinds DEF Types
      <4>2. ToSet(Append(toServer[socket[p]], Closes)) = ToSet(toServer[socket[p]]) \cup {Closes}
        BY <4>1, CloseBehind
      <4> QED BY <1>0, <3>2, <4>1, <4>2 DEF Types
    <3> QED BY <2>1, <3>1, <3>2
  <2>3. \A d \in Conns : Alive(d) /\ peer[d] = p => Closes \in ToSet(toServer'[d])
    <3> SUFFICES ASSUME NEW d \in Conns, Alive(d), peer[d] = p PROVE Closes \in ToSet(toServer'[d])
      OBVIOUS
    <3>1. socket[p] = d /\ d # None /\ conn[d] # "closed" /\ toServer[d] \in Seq(ToServerFrames)
      BY <1>0, ConnectionsAssumption DEF OneSocket, Alive, Types
    <3>2. toServer'[d] = Append(toServer[d], Closes)
      BY <1>0, <2>1, <3>1 DEF Types
    <3>3. ToSet(Append(toServer[d], Closes)) = ToSet(toServer[d]) \cup {Closes}
      BY <3>1, CloseBehind
    <3> QED BY <3>2, <3>3
  <2>4. \A d \in Conns : /\ Works(d)' => Works(d)
                         /\ Alive(d)' => Alive(d) /\ peer[d] # p
                         /\ Unanswered(d) => Unanswered(d)'
    BY <2>1, <2>2, <2>3 DEF Works, Alive, Unanswered
  <2>5. OneSocket'
    <3>1. \A d \in Conns : peer[d] # None => peer[d] \in Procs
      BY <1>0 DEF Types
    <3>2. \A d \in Conns : Alive(d) => peer[d] # None
      BY DEF Alive, Works
    <3> QED BY <1>0, <2>1, <2>4, <3>1, <3>2 DEF OneSocket
  <2>6. Clocks'
    BY <1>0, <2>1, <2>4, ClocksKept DEF Open
  <2> QED BY <2>5, <2>6 DEF HeartbeatInv
<1>3. CASE Vanish(p)
  <2>1. /\ UNCHANGED <<conn, age, timer, toServer>> /\ Open' = Open
        /\ \A d \in Conns : peer'[d] = IF peer[d] = p THEN None ELSE peer[d]
        /\ \A d \in Conns : toAgent'[d] = IF peer[d] = p THEN <<>> ELSE toAgent[d]
        /\ \A q \in Procs : socket'[q] = IF q = p THEN None ELSE socket[q]
        /\ \A q \in Procs : mode'[q] = IF q = p THEN "down" ELSE mode[q]
    BY <1>0, <1>3 DEF Vanish, server, heart, Types, Open
  <2>2. \A d \in Conns : /\ Works(d)' => Works(d) /\ peer[d] # p
                         /\ Alive(d)' => Alive(d) /\ peer[d] # p
                         /\ peer[d] # p => (Unanswered(d)' <=> Unanswered(d))
    BY <1>0, <2>1 DEF Works, Alive, Unanswered
  <2>3. OneSocket'
    <3>1. \A d \in Conns : peer[d] # None => peer[d] \in Procs
      BY <1>0 DEF Types
    <3>2. \A d \in Conns : Alive(d) => peer[d] # None
      BY DEF Alive, Works
    <3> QED BY <1>0, <2>1, <2>2, <3>1, <3>2 DEF OneSocket
  <2>4. Clocks'
    BY <1>0, <2>1, <2>2, ClocksKept DEF Open
  <2> QED BY <2>3, <2>4 DEF HeartbeatInv
<1>4. ASSUME NEW r \in Calls, DecideEnds(p, r) PROVE HeartbeatInv'
  <2>1. UNCHANGED <<conn, age, timer, toAgent, peer, mode, socket>>
    BY <1>4 DEF DecideEnds, server, heart
  <2>2. PICK f \in {Frame("response", r), Frame("error", r)} : Send(p, f)
    BY <1>4 DEF DecideEnds
  <2>3. f \in ToServerFrames /\ f # Closes
    BY <2>2, FrameKinds DEF Closes
  <2>4. \A d \in Conns : /\ ToSet(toServer[d]) \subseteq ToSet(toServer'[d])
                         /\ Closes \in ToSet(toServer'[d]) <=> Closes \in ToSet(toServer[d])
    BY <1>0, <2>2, <2>3, SendsBackSet
  <2>5. \A d \in Conns : /\ Works(d)' <=> Works(d)
                         /\ Alive(d)' <=> Alive(d)
                         /\ Unanswered(d) => Unanswered(d)'
    BY <2>1, <2>4 DEF Works, Alive, Unanswered
  <2>6. OneSocket'
    BY <1>0, <2>1, <2>5, OneSocketKept
  <2>7. Clocks'
    BY <1>0, <2>1, <2>5, ClocksKept DEF Open
  <2> QED BY <2>6, <2>7 DEF HeartbeatInv
<1> QED BY <1>1, <1>2, <1>3, <1>4

\* Where there is a ping or a pong under way, the peer is behind.
LEMMA UnansweredLags ==
  ASSUME Types, NEW c \in Conns, Unanswered(c)
  PROVE  Lag(c) > 0
<1>1. ASSUME NEW S, NEW s \in Seq(S), NEW f
      PROVE  Count(f, s) \in Nat /\ (f \in ToSet(s) => Count(f, s) > 0)
  <2> DEFINE I == {i \in DOMAIN s : s[i] = f}
  <2>1. I \subseteq 1 .. Len(s) /\ Len(s) \in Nat
    BY <1>1
  <2>2. IsFiniteSet(I)
    BY <2>1, FS_Interval, FS_Subset
  <2>3. Cardinality(I) \in Nat /\ (Cardinality(I) = 0 => I = {})
    BY <2>2, FS_CardinalityType, FS_EmptySet
  <2>4. f \in ToSet(s) => I # {}
    BY DEF ToSet
  <2> QED BY <2>3, <2>4 DEF Count
<1>2. toAgent[c] \in Seq(ToAgentFrames) /\ toServer[c] \in Seq(ToServerFrames)
  BY DEF Types
<1>3. /\ Count(Ping, toAgent[c]) \in Nat /\ (Ping \in ToSet(toAgent[c]) => Count(Ping, toAgent[c]) > 0)
      /\ Count(Pong, toServer[c]) \in Nat /\ (Pong \in ToSet(toServer[c]) => Count(Pong, toServer[c]) > 0)
  BY <1>1, <1>2
<1> QED BY <1>3 DEF Unanswered, Lag

\* A connection whose peer is silent is closed within an interval of the limit, and
\* one that works is dropped only with a ping unanswered.
THEOREM ConnectionsHeartbeat == Spec => HeartbeatSound
<1>1. Init => HeartbeatInv
  BY DEF Init, HeartbeatInv, OneSocket, Clocks, Alive, Works, Open
<1>2. WorkInv /\ HeartbeatInv /\ [Next]_vars => HeartbeatInv'
  <2> SUFFICES ASSUME WorkInv, HeartbeatInv, [Next]_vars PROVE HeartbeatInv'
    OBVIOUS
  <2>1. CASE UNCHANGED vars
    BY <2>1 DEF vars, server, heart, agent, HeartbeatInv, OneSocket, Clocks, Alive, Works, Unanswered, Open
  <2>2. ASSUME NEW c \in Conns, PingTimeout(c) PROVE HeartbeatInv'
    BY <2>2, CloseBeats DEF PingTimeout
  <2>3. CASE CloseAll
    BY <2>3, CloseBeats DEF CloseAll, WorkInv, RegistryInv, ServerTypes
  <2> QED BY <2>1, <2>2, <2>3, ServerBeats, RegisterBeats, ServerReceivesBeats, AgentReceivesBeats, ProcessesBeat
          DEF Next, Heartbeat
<1>3. ASSUME WorkInv, HeartbeatInv PROVE \A c \in Open : age[c] <= Timeout + Interval
  BY <1>3, ConnectionsAssumption DEF WorkInv, Types, HeartbeatInv, Clocks, Open
<1>4. ASSUME WorkInv, HeartbeatInv, NEW c \in Conns, Works(c), PingTimeout(c) PROVE Lag(c) > 0
  <2>1. c \in Open /\ age[c] > Timeout /\ timer[c] = 0 /\ age[c] \in Nat
    BY <1>4 DEF PingTimeout, Overdue, WorkInv, Types
  <2>2. ~(age[c] + timer[c] <= Interval)
    BY <2>1, ConnectionsAssumption
  <2> QED BY <1>4, <2>1, <2>2, UnansweredLags DEF HeartbeatInv, Clocks, WorkInv
<1>5. Spec => []HeartbeatInv
  BY <1>1, <1>2, ConnectionsWorkInvariant, PTL DEF Spec
<1>6. Spec => [](\A c \in Open : age[c] <= Timeout + Interval)
  BY <1>3, <1>5, ConnectionsWorkInvariant, PTL
<1>7. Spec => [][\A c \in Conns : Works(c) /\ PingTimeout(c) => Lag(c) > 0]_vars
  <2>1. WorkInv /\ HeartbeatInv /\ [Next]_vars => [\A c \in Conns : Works(c) /\ PingTimeout(c) => Lag(c) > 0]_vars
    BY <1>4
  <2> QED BY <2>1, <1>5, ConnectionsWorkInvariant, PTL DEF Spec
<1> QED BY <1>6, <1>7, PTL DEF HeartbeatSound
=============================================================================
