------------------------------ MODULE ReplayPage ------------------------------
(***************************************************************************)
(* The page of a finished poker match: MatchReplayPage.tsx, its             *)
(* MatchReplayWorkbench.tsx and the timelines of lib/matchReplayView.ts     *)
(* (apps/web/src).  The page asks for the record, the events and the        *)
(* analysis of the match in its URL, each by a request of its own, and the  *)
(* user walks through the actions of a hand, or lets them play.             *)
(*                                                                          *)
(* The effects of React run to their end after every change, before the     *)
(* user or the network can do anything: they are Settled, a part of every   *)
(* action.                                                                  *)
(***************************************************************************)
EXTENDS Integers, FiniteSets, FiniteSetsExt, SequencesExt

CONSTANTS Artifacts,     \* the saved matches: hands in their order, each with its
                         \* actions, and the public events
          ReplayStreets, \* the phases that the filter offers
          NoItem,
          MaxVisits      \* bound of the model: matches opened one after another

\* Hands, events and actions have ids of their own, and an action is applied once.
Replayable(hands, events) ==
  /\ events \in Seq(Range(events))
  /\ \A i, j \in DOMAIN events :
       /\ events[i].id # NoItem
       /\ events[i].id = events[j].id => i = j
       /\ events[i].action = events[j].action /\ events[i].action # NoItem
            /\ events[i].type = "action.applied" /\ events[j].type = "action.applied" => i = j
  /\ \A h \in Range(hands) :
       /\ h # NoItem /\ h.actions \in Seq(Range(h.actions))
       /\ \A j, k \in DOMAIN h.actions :
            h.actions[j].id # NoItem /\ (h.actions[j].id = h.actions[k].id => j = k)
ASSUME ReplayAssumption ==
  /\ NoItem \notin DOMAIN Artifacts
  /\ \A m \in DOMAIN Artifacts : Replayable(Artifacts[m].hands, Artifacts[m].events)

VARIABLES visits,  \* the matches the page was opened for; the last is in the URL
          asked,   \* the requests under way: which visit asked for what
          shown,   \* record, events and analysis: of which match, or NoItem
          loading, \* what is awaited
          failed,  \* what has an error message
          tab,
          hand,    \* selectedHandId
          action,  \* selectedActionId: hand and index
          timeline, \* the actions of the selected hand
          filter,  \* the workbench's street filter
          playing

selectVars == <<hand, action, timeline, filter, playing>>
replayVars == <<visits, asked, shown, loading, failed, tab, selectVars>>

Loads == {"record", "events", "analysis"}
Tabs == {"replay", "analysis"}
Filters == {"all"} \cup ReplayStreets

-----------------------------------------------------------------------------
(* Timelines.                                                               *)

\* The events of hand h that apply an action, and their order.
AppliedEvents(h, events) ==
  {i \in DOMAIN events : events[i].hand = h.id /\ events[i].type = "action.applied"}
Sooner(events, i, j) ==
  \/ events[i].sequence < events[j].sequence
  \/ events[i].sequence = events[j].sequence /\ i < j

\* matchAppliedEvents: an action takes the first event that names it; those left
\* over take, in their order, the events that nobody took.
Naming(actions, events, applied, k) == {i \in applied : events[i].action = actions[k].id}
First(events, places) == CHOOSE i \in places : \A j \in places \ {i} : Sooner(events, i, j)
ExactMatches(actions, events, applied) ==
  {k \in DOMAIN actions : Naming(actions, events, applied, k) # {}}
BugFallbackTakesAny(actions, events, applied) == applied
Unreserved(actions, events, applied) ==
  applied \ {First(events, Naming(actions, events, applied, k)) : k \in ExactMatches(actions, events, applied)}
PlaceOf(actions, events, applied, k) ==
  LET named == ExactMatches(actions, events, applied)
      free == Unreserved(actions, events, applied)
      before == Cardinality(1 .. (k - 1) \ named)
  IN IF k \in named THEN {First(events, Naming(actions, events, applied, k))}
     ELSE {i \in free : Cardinality({j \in free : Sooner(events, j, i)}) = before}

\* buildActionTimeline; the street is the action's, or else the event's.
Item(h, events, k) ==
  LET places == PlaceOf(h.actions, events, AppliedEvents(h, events), k)
      street == h.actions[k].street
      i == CHOOSE i \in places : TRUE
  IN [id |-> [hand |-> h.id, index |-> k],
      event |-> IF places = {} THEN NoItem ELSE events[i].id,
      street |-> IF street # NoItem \/ places = {} THEN street ELSE events[i].street]
BuildTimeline(h, events) ==
  IF h = NoItem THEN <<>> ELSE [k \in DOMAIN h.actions |-> Item(h, events, k)]

\* filterActionTimelineByStreet: the places in the timeline that are on the street.
OnStreet(items, f) == {k \in DOMAIN items : f \in {"all", items[k].street}}
IdsAt(items, places) == {items[k].id : k \in places}
Ids(items) == IdsAt(items, DOMAIN items)
FirstId(items, places) == IF places = {} THEN NoItem ELSE items[Min(places)].id
\* getPreviousActionId and getNextActionId
NextId(items, places, id) ==
  FirstId(items, {j \in places : \E k \in places : items[k].id = id /\ j > k})
PreviousId(items, places, id) ==
  LET before == {j \in places : \E k \in places : items[k].id = id /\ j < k}
  IN IF before = {} THEN NoItem ELSE items[Max(before)].id

-----------------------------------------------------------------------------
(* What is on the page.                                                     *)

Current == Last(visits)
Hands(s) == IF s.record = NoItem THEN <<>> ELSE Artifacts[s.record].hands
Events(s) == IF s.events = NoItem THEN <<>> ELSE Artifacts[s.events].events
HandOf(s, id) ==
  LET hs == Range(Hands(s)) IN
  IF \E h \in hs : h.id = id THEN CHOOSE h \in hs : h.id = id ELSE NoItem
TimelineOf(s, h) == BuildTimeline(HandOf(s, h), Events(s))

\* The page is past "Loading match..." and its error.
Rendered == shown.record # NoItem /\ "record" \notin loading
Workbench == Rendered /\ tab = "replay"
Filtered == OnStreet(timeline, filter)

\* The effects: the page selects the first action if the selected one is not in
\* the hand's timeline; the workbench, if it is not on the street, the first that
\* is, and nothing plays where there is nothing.
BugKeepsSelection(items, places, a, open) ==
  IF a = NoItem THEN FirstId(items, DOMAIN items) ELSE a
Selected(items, places, a, open) ==
  LET inHand == IF a \in Ids(items) THEN a ELSE FirstId(items, DOMAIN items)
  IN IF ~open \/ places = {} \/ inHand \in IdsAt(items, places) THEN inHand
     ELSE FirstId(items, places)
Settled(items, h, a, f, p, open) ==
  LET places == OnStreet(items, f)
  IN /\ timeline' = items /\ hand' = h /\ filter' = f
     /\ action' = Selected(items, places, a, open)
     /\ playing' = (p /\ places # {})

-----------------------------------------------------------------------------
(* Loading.                                                                 *)

AskFor(v) == [visit : {v}, kind : Loads]

\* The load effect, when the page is mounted or its URL names another match; the
\* workbench is gone while the record loads.
OpenMatch(m) ==
  /\ Len(visits) < MaxVisits /\ m # Current
  /\ visits' = Append(visits, m)
  /\ asked' = asked \cup AskFor(Len(visits) + 1)
  /\ shown' = [k \in Loads |-> NoItem] /\ loading' = Loads /\ failed' = {}
  /\ tab' \in {tab, "replay"}
  /\ hand' = NoItem /\ action' = NoItem /\ timeline' = <<>> /\ filter' = "all" /\ playing' = FALSE

\* alive
BugTakesStaleAnswers(r) == TRUE
Alive(r) == r.visit = Len(visits)

Dropped(r) ==
  /\ r \in asked /\ ~Alive(r)
  /\ asked' = asked \ {r}
  /\ UNCHANGED <<visits, shown, loading, failed, tab, selectVars>>

\* An answer; with the record the first hand is selected.
Answered(r) ==
  /\ r \in asked /\ Alive(r)
  /\ asked' = asked \ {r} /\ loading' = loading \ {r.kind}
  /\ shown' = [shown EXCEPT ![r.kind] = visits[r.visit]]
  /\ LET hs == Hands(shown')
         h == IF r.kind # "record" THEN hand ELSE IF hs = <<>> THEN NoItem ELSE hs[1].id
     IN Settled(TimelineOf(shown', h), h, action, filter, playing, Rendered' /\ tab = "replay")
  /\ UNCHANGED <<visits, failed, tab>>

Refused(r) ==
  /\ r \in asked /\ Alive(r)
  /\ asked' = asked \ {r} /\ loading' = loading \ {r.kind} /\ failed' = failed \cup {r.kind}
  /\ UNCHANGED <<visits, shown, tab, selectVars>>

-----------------------------------------------------------------------------
(* The user.                                                                *)

Loaded == UNCHANGED <<visits, asked, shown, loading, failed>>

\* The workbench keeps its filter only while it is on the page.
SelectTab(t) ==
  /\ Rendered /\ t # tab /\ tab' = t /\ Loaded
  /\ Settled(timeline, hand, action, "all", FALSE, t = "replay")

SelectHand(h) ==
  /\ Workbench /\ h \in Range(Hands(shown))
  /\ LET items == TimelineOf(shown, h.id)
     IN Settled(items, h.id, FirstId(items, DOMAIN items), "all", FALSE, TRUE)
  /\ Loaded /\ UNCHANGED tab

\* onSelectAction from the workbench: from the board, from the slider, by a step.
\* Each sets isPlaying to FALSE first.
BugPlaysOnAfterChoice == playing
AfterChoice == FALSE
Choose(a) ==
  /\ Settled(timeline, hand, a, filter, AfterChoice, TRUE)
  /\ Loaded /\ UNCHANGED tab
SelectAction(a) == Workbench /\ a \in IdsAt(timeline, Filtered) /\ Choose(a)
\* Buttons and arrow keys.
Step(a) == Workbench /\ a # NoItem /\ Choose(a)
NextAction == NextId(timeline, Filtered, action)
PreviousAction == PreviousId(timeline, Filtered, action)

SelectFilter(f) ==
  /\ Workbench /\ Settled(timeline, hand, action, f, FALSE, TRUE)
  /\ Loaded /\ UNCHANGED tab

\* The button is disabled where there is nothing to play.
TogglePlay ==
  /\ Workbench /\ Filtered # {}
  /\ playing \/ NextAction # NoItem
  /\ Settled(timeline, hand, action, filter, ~playing, TRUE)
  /\ Loaded /\ UNCHANGED tab

\* The interval of 800 ms; at the end it stops.
BugPlaysAtEnd(next) == TRUE
MorePlay(next) == next # NoItem
Tick ==
  LET next == NextAction
  IN /\ Workbench /\ playing
     /\ Settled(timeline, hand, IF next = NoItem THEN action ELSE next, filter, MorePlay(next), TRUE)
     /\ Loaded /\ UNCHANGED tab

-----------------------------------------------------------------------------
ReplayInit ==
  /\ visits \in {<<m>> : m \in DOMAIN Artifacts}
  /\ asked = AskFor(1) /\ shown = [k \in Loads |-> NoItem] /\ loading = Loads /\ failed = {}
  /\ tab = "replay" /\ hand = NoItem /\ action = NoItem /\ timeline = <<>> /\ filter = "all" /\ playing = FALSE

UserNext ==
  \/ \E t \in Tabs : SelectTab(t)
  \/ \E h \in Range(Hands(shown)) : SelectHand(h)
  \/ \E a \in IdsAt(timeline, Filtered) : SelectAction(a)
  \/ Step(PreviousAction) \/ Step(NextAction) \/ TogglePlay
  \/ \E f \in Filters : SelectFilter(f)

ReplayNext ==
  \/ \E m \in DOMAIN Artifacts : OpenMatch(m)
  \/ \E r \in asked : Answered(r) \/ Refused(r) \/ Dropped(r)
  \/ UserNext \/ Tick

ReplaySpec == ReplayInit /\ [][ReplayNext]_replayVars

\* A timer that is set goes off.
ReplayFairness == WF_replayVars(Tick)

-----------------------------------------------------------------------------
(* Properties.                                                              *)

\* What the page shows is the match of its URL, whichever answers came late, and
\* its parts agree: an action that is selected is of the selected hand and on the
\* chosen street, as soon as there is one; no event is shown for two actions, and
\* an event that names an action is shown for no other.  Playback goes forward one
\* action of the street at a time, and stops when the user chooses anything himself.
ReplayShows ==
  /\ [](/\ \A k \in Loads : shown[k] \in {NoItem, Current} /\ (k \in failed => shown[k] = NoItem)
        /\ Workbench =>
             /\ Filtered # {} => action \in IdsAt(timeline, Filtered)
             /\ DOMAIN timeline # {} => action \in Ids(timeline)
             /\ playing => Filtered # {}
        /\ ~Workbench => ~playing
        /\ \A j, k \in DOMAIN timeline : \A e \in Range(Events(shown)) :
             timeline[j].event = e.id =>
               /\ j # k => timeline[k].event # e.id
               /\ e.action = HandOf(shown, hand).actions[k].id => j = k)
  /\ [][playing /\ playing' =>
          /\ hand' = hand /\ filter' = filter /\ tab' = tab
          /\ Filtered' = Filtered => action' \in {action, NextAction}]_replayVars

\* And playback comes to an end.
ReplaySound ==
  /\ ReplayShows
  /\ playing ~> ~playing
=============================================================================
