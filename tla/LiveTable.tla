------------------------------ MODULE LiveTable ------------------------------
(***************************************************************************)
(* A poker table and the page of one user who watches it: PokerTable, the   *)
(* RealtimeHub (packages/realtime/src/hub.ts) with the /ws route in front   *)
(* of it, and in the browser WsClient, the liveTableReducer and the effects *)
(* of TablePage (apps/web/src).                                             *)
(*                                                                          *)
(* What the server publishes reaches the page in order, as long as the      *)
(* socket is up and subscribed, and is lost otherwise; snapshots come by    *)
(* HTTP and may be old when they arrive; so may the answers to the page's   *)
(* POSTs.  Of the frames those are kept that the reducer gives a meaning    *)
(* for the user's own hand: the rest (board, pots, log) is display.         *)
(***************************************************************************)
EXTENDS PokerTable

CONSTANTS Me,        \* the user of the page
          Seating,   \* who sits at the table when the page is opened: the agent,
                     \* his owner and kind, or Nobody, for every seat
          MaxDrops, MaxGets, MaxPosts \* bounds of the model

SeatedBy == {i \in Seats : Seating[i] # Nobody}

\* The seating is one that the table's Sit steps lead to.
ASSUME LiveAssumption ==
  /\ Me \in Users /\ {MaxDrops, MaxGets, MaxPosts} \subseteq Nat
  /\ \A i \in SeatedBy : Seating[i] \in [agent : Agents, owner : Users, kind : {"human", "mock"}]
  /\ {Seating[i].agent : i \in SeatedBy} = 1 .. Cardinality(SeatedBy)
  /\ \A i, j \in SeatedBy : i # j =>
       /\ Seating[i].agent # Seating[j].agent
       /\ Seating[i].owner = Seating[j].owner => "mock" \in {Seating[i].kind, Seating[j].kind}

VARIABLES socket,    \* the page's WebSocket as the server sees it
          wire,      \* frames under way to the page
          view,      \* LiveTableViewState: handId, pendingAction, my hole cards
          gets,      \* GET /tables/:id under way: "asked", or the hand of the answer
          page,      \* TablePage: submittingAction, submittedRequestId and what the
                     \* user's POST under way was meant for
          posts,     \* POST /actions under way
          drops, getsDone, postsDone, \* how many there have been
          whole      \* no frame for the page was lost since the last hand began

pageVars == <<socket, wire, view, gets, page, posts, drops, getsDone, postsDone, whole>>
vars == <<tableVars, pageVars>>

-----------------------------------------------------------------------------
(* From the server to the page.                                             *)

\* safePublishTable and safePublishSeat: the hub sends to whoever is subscribed.
\* A subscriber of table:<id> gets the seat:<user>:<id> frames of his own.
Publish(frames) ==
  /\ wire' = IF socket = "subscribed" THEN wire \o frames ELSE wire
  /\ UNCHANGED <<socket, view, gets, page, posts, drops, getsDone, postsDone>>

Mine(a) == \E i \in SeatsOf(Me) : seats[i].agent = a
MineHuman(a) == \E i \in SeatsOf(Me) : seats[i].agent = a /\ seats[i].kind = "human"

HandStarted == [type |-> "hand.started"]  \* names no hand
HoleCards(a, h) == [type |-> "seat.hole_cards", hand |-> h, agent |-> a]
ActionRequested(a, h, r) ==
  [type |-> "seat.action_requested", hand |-> h, agent |-> a, request |-> r]
ActionApplied(a) == [type |-> "action.applied", agent |-> a]
HandCompleted == [type |-> "hand.completed"]

\* The frame of a request of hand h, for the page of the human who is asked.
RequestFrames(h) ==
  IF turns'[h] # Nobody /\ MineHuman(turns'[h].agent)
  THEN <<ActionRequested(turns'[h].agent, h, turns'[h].request)>> ELSE <<>>
CardFrames ==
  LET S == {a \in DOMAIN hand'.chips : Mine(a)}
  IN SetToSeq({HoleCards(a, handNumber') : a \in S})
\* Whose turns the step ends: the runner goes on, and announces what they did.
TurnsEnded == {h \in Hands : turns[h] # Nobody /\ turns'[h] # turns[h]}
DecidedFrames == SetToSeq({ActionApplied(turns[h].agent) : h \in TurnsEnded})

LiveStart ==
  /\ StartHand /\ whole' = (socket = "subscribed")
  /\ Publish(<<HandStarted>> \o CardFrames \o RequestFrames(handNumber') \o DecidedFrames)
LiveRequest ==
  /\ whole' = whole
  /\ \E h \in Hands : RequestDecision(h) /\ Publish(RequestFrames(h) \o DecidedFrames)
LiveHandOver ==
  /\ whole' = whole
  /\ \E h \in Hands : HandOver(h) /\ Publish(<<HandCompleted>>)

\* Every other operation of the table leaves the page to its refreshes, but for the
\* actions of those whose turns it ends.  (No route calls closeTable, and a page
\* whose table was deleted shows an error.)
Others ==
  \/ \E u \in Users :
       \/ \E i \in Seats : RemoveAgent(u, i) \/ SitAsHuman(u, i) \/ SitAsAgent(u, i)
       \/ LeaveSeat(u) \/ AddSpectator(u) \/ RemoveSpectator(u)
  \/ \E h \in Hands :
       \/ BotAnswers(h) \/ TimerFires(h)
       \/ HandSettled(h) \/ HandStored(h) \/ HandFails(h) \/ HandSaveFails(h)
LiveOthers == Others /\ Publish(DecidedFrames) /\ whole' = whole

-----------------------------------------------------------------------------
(* The socket.                                                              *)

\* WsClient.connect: onopen sends the subscriptions again, and the /ws route
\* subscribes the socket to table:<id> and, for its user, to his seat.  Until that
\* message arrives nothing is for this socket, so the opening is one step with it.
SocketOpens ==
  /\ socket = "down" /\ socket' = "subscribed"
  /\ UNCHANGED <<tableVars, wire, view, gets, page, posts, drops, getsDone, postsDone, whole>>

\* The socket closes, or a send to it throws: unsubscribeAll on the server,
\* scheduleReconnect on the page, and what was under way is lost.
SocketDrops ==
  /\ socket # "down" /\ drops < MaxDrops /\ drops' = drops + 1
  /\ socket' = "down" /\ wire' = <<>> /\ whole' = FALSE
  /\ UNCHANGED <<tableVars, view, gets, page, posts, getsDone, postsDone>>

-----------------------------------------------------------------------------
(* The page.                                                                *)

NoPending == [hand |-> 0, agent |-> 0, request |-> 0]

\* The effect on pendingRequestId: another request unlocks the buttons.
BugStaysLocked(v) == page
Unlocked(v) ==
  IF v.pending.request = view.pending.request THEN page
  ELSE [submitting |-> FALSE, submitted |-> 0]
Show(v) == view' = v /\ page' = Unlocked(v)

\* liveTableReducer, by type of frame
BugAnyHand(f) == TRUE
ForThisHand(f) == view.hand \in {0, f.hand}
BugKeepsPending(f) == view
AfterApplied(f) ==
  IF view.pending.agent = f.agent THEN [view EXCEPT !.pending = NoPending] ELSE view
After(f) ==
  CASE f.type = "hand.started" -> [view EXCEPT !.pending = NoPending, !.cards = {}]
    [] f.type = "seat.hole_cards" ->
         IF ~ForThisHand(f) THEN view
         ELSE [view EXCEPT !.hand = f.hand,
                 !.cards = @ \cup (IF f.agent \in view.seats THEN {[agent |-> f.agent, hand |-> f.hand]} ELSE {})]
    [] f.type = "seat.action_requested" ->
         IF ~ForThisHand(f) THEN view
         ELSE [view EXCEPT !.hand = f.hand,
                 !.pending = [hand |-> f.hand, agent |-> f.agent, request |-> f.request]]
    [] f.type = "action.applied" -> AfterApplied(f)
    [] f.type = "hand.completed" -> [view EXCEPT !.pending = NoPending]

FrameArrives ==
  /\ wire # <<>> /\ wire' = Tail(wire)
  /\ Show(After(Head(wire)))
  /\ UNCHANGED <<tableVars, socket, gets, posts, drops, getsDone, postsDone, whole>>

\* refreshTable: after hand.started and hand.completed, when somebody sits down,
\* leaves or watches, and after the page's own requests: it may happen at any
\* time.  GET /tables/:id reads the table's state; the answer may be late, or lost.
Refresh ==
  /\ live /\ getsDone < MaxGets /\ getsDone' = getsDone + 1
  /\ gets' = gets \cup {[id |-> getsDone', hand |-> currentHand, seats |-> adapters]}
  /\ UNCHANGED <<tableVars, socket, wire, view, page, posts, drops, postsDone, whole>>

\* snapshot.loaded: hole cards are kept only within the hand they were dealt in.
BugPreservesAlways(g) == {c \in view.cards : c.agent \in g.seats}
Preserved(g) ==
  IF g.hand # 0 /\ g.hand = view.hand THEN {c \in view.cards : c.agent \in g.seats} ELSE {}
SnapshotLoaded ==
  \E g \in gets :
    /\ gets' = gets \ {g}
    /\ Show([view EXCEPT !.hand = g.hand, !.seats = g.seats, !.cards = Preserved(g)])
    /\ UNCHANGED <<tableVars, socket, wire, posts, drops, getsDone, postsDone, whole>>

\* isActionRequestLocked
Locked == page.submitting \/ view.pending.request = page.submitted

\* submitAction, up to its await
Click ==
  /\ view.pending # NoPending /\ ~Locked
  /\ postsDone < MaxPosts /\ postsDone' = postsDone + 1
  /\ posts' = posts \cup {[id |-> postsDone', hand |-> view.pending.hand,
                           request |-> view.pending.request, state |-> "sent"]}
  /\ page' = [page EXCEPT !.submitting = TRUE]
  /\ UNCHANGED <<tableVars, socket, wire, view, gets, drops, getsDone, whole>>

Becomes(p, s) == posts' = (posts \ {p}) \cup {[p EXCEPT !.state = s]}

\* POST /actions: the body names the hand and no request.  An accepted one
\* settles what is pending, and the runner announces the action.
PostAccepted ==
  \E p \in {x \in posts : x.state = "sent"} :
    /\ Submit(Me, p.hand)
    /\ Becomes(p, "accepted")
    /\ wire' = IF socket = "subscribed" THEN wire \o DecidedFrames ELSE wire
    /\ UNCHANGED <<socket, view, gets, page, drops, getsDone, postsDone, whole>>

\* Nothing is pending, or what the user chose is not on the menu of what is; or
\* the POST is lost.
PostRefused ==
  \E p \in {x \in posts : x.state = "sent"} :
    /\ Becomes(p, "failed")
    /\ UNCHANGED <<tableVars, socket, wire, view, gets, page, drops, getsDone, postsDone, whole>>

\* submitAction after its await, with the request it was called for; the answer
\* of an accepted POST may be lost.
PostAnswered ==
  \E p \in {x \in posts : x.state # "sent"} :
    /\ posts' = posts \ {p}
    /\ \/ p.state = "accepted" /\ page' = [page EXCEPT !.submitted = p.request]
       \/ page' = [page EXCEPT !.submitting = FALSE]
    /\ UNCHANGED <<tableVars, socket, wire, view, gets, drops, getsDone, postsDone, whole>>

-----------------------------------------------------------------------------
\* The page is opened, and has loaded its first snapshot, on a table where some
\* have taken their seats: the state that their Sit steps lead to from TableInit.
Init ==
  /\ live = TRUE /\ tableStatus = "preparing"
  /\ seats = [i \in Seats |-> IF i \in SeatedBy
                THEN [agent |-> Seating[i].agent, owner |-> Seating[i].owner,
                      kind |-> Seating[i].kind, stack |-> BuyIn, sitOut |-> FALSE]
                ELSE Nobody]
  /\ adapters = {Seating[i].agent : i \in SeatedBy}
  /\ seated = Cardinality(SeatedBy) /\ bank = BuyIn * seated
  /\ currentHand = 0 /\ handNumber = 0 /\ button = 0
  /\ handInProgress = FALSE /\ spectators = {}
  /\ hands = NoHands /\ turns = NoTurns /\ overrun = FALSE
  /\ pending = [a \in Agents |-> NoRequest] /\ requests = 0
  /\ socket = "down" /\ wire = <<>> /\ gets = {} /\ posts = {}
  /\ view = [hand |-> 0, pending |-> NoPending, seats |-> adapters, cards |-> {}]
  /\ page = [submitting |-> FALSE, submitted |-> 0]
  /\ drops = 0 /\ getsDone = 0 /\ postsDone = 0
  /\ whole = FALSE

Next ==
  \/ LiveStart \/ LiveRequest \/ LiveHandOver \/ LiveOthers
  \/ SocketOpens \/ SocketDrops
  \/ FrameArrives \/ Refresh \/ SnapshotLoaded
  \/ Click \/ PostAccepted \/ PostRefused \/ PostAnswered

Spec == Init /\ [][Next]_vars

-----------------------------------------------------------------------------
(* Properties.                                                              *)

\* Whether the request that the page shows is awaited.
Awaited(p) == \E h \in Hands : turns[h] = [agent |-> p.agent, request |-> p.request]

\* What the page shows is the hand that is played.  Hole cards on the table are
\* those of the hand it shows, in whatever order frames and old snapshots came.
\* A page that lost no frame since the hand began, and has seen them all, shows
\* buttons only while its user's answer is awaited.  And the buttons are never
\* dead: with no POST under way they are not locked while the answer to the
\* request that they show is awaited.
PageShowsHand ==
  /\ \A c \in view.cards : c.hand = view.hand
  /\ whole /\ wire = <<>> /\ view.pending # NoPending => Awaited(view.pending)
  /\ view.pending # NoPending /\ Locked /\ posts = {} => ~Awaited(view.pending)

\* It does, at a table that is sound (see TableSound): a third hand beside another,
\* which the table's one exception lets start, is more than a page can show.
PageInStep == overrun \/ PageShowsHand
=============================================================================
