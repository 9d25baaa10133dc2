--------------------------- MODULE SpectatorTimeline ---------------------------
(***************************************************************************)
(* A werewolf match and what a spectator reads of it: the replay events the *)
(* runner emits (werewolf-orchestrator/src/match-runner.ts), the public     *)
(* filter (realtime/src/werewolf-filter.ts), and in the browser             *)
(* (apps/web/src/werewolf-room) the reducer's lights and speeches, the      *)
(* lines of the timeline (normalizeWerewolfReplayEvent) and the booth's     *)
(* fading last speech (useStickyValue).                                     *)
(*                                                                          *)
(* Here every event arrives; what the page makes of lost and late ones is   *)
(* SpectatorRoom's subject.  A step of the runner emits its events in one   *)
(* go, and the browser renders them together.                               *)
(***************************************************************************)
EXTENDS WerewolfMatch, SequencesExt

VARIABLES booth,  \* of WerewolfRoomState: the phase as the page knows it, its
                  \* counters, who is lit, the speeches, who is shown dead of what
          told,   \* of the timeline: its last line, how often each death was
                  \* told, the votes without a result, and the players that lines
                  \* of night events named
          sticky  \* useStickyValue: visible and latchedValue

pageVars == <<booth, told, sticky>>
watchVars == <<allVars, pageVars>>

\* None stands for "no speech" too.
Speeches == [actor : Players, day : Nat]
ASSUME WatchAssumption == None \notin Speeches

PrivatePhases == {"night-werewolf-vote", "night-witch", "night-seer"}
DayPhases == {"day-speeches", "day-vote"}

-----------------------------------------------------------------------------
(* The events.                                                              *)

AgentEvent(type, p, ph, a) == [type |-> type, player |-> p, phase |-> ph, action |-> a]
NoAction == Act("none", None)
Started == [type |-> "match.started", phase |-> "none"]
Applied(ph) == [type |-> "engine.action_applied", phase |-> ph]
Completed == [type |-> "match.completed", phase |-> "none", winner |-> winner]

\* sanitizeActionForBroadcast
Sanitized(a) ==
  IF a.type \in {"werewolf-vote", "witch-save", "witch-poison", "seer-divine"}
  THEN Act(a.type, None) ELSE a

\* What the runner finds at the tail of the history after the step.
Deaths(before, after) == {p \in Players : after[p] # before[p]}
\* noBanishmentVote: the ballot was closed, and nobody was sent out.
BugFlopsAtEveryTie == phase = "day-vote" /\ deaths' = deaths /\ PhaseChanges
Flopped == phase = "day-vote" /\ phase' # "day-vote" /\ deaths' = deaths

Changed ==
  [type |-> "phase.changed", phase |-> phase', night |-> nightNumber', day |-> dayNumber',
   dead |-> Deaths(deaths, deaths'), causes |-> deaths', pkRound |-> pendingDayVote'.pkRound,
   candidates |-> pendingDayVote'.pkCandidates, flopped |-> Flopped]

\* runOneAction from the answer on: how it came about, that it was received and
\* applied, and the change of phase if there was one.
StepEvents(p, a, how) ==
  (IF how = "fine" THEN <<>> ELSE <<AgentEvent(how, p, phase, NoAction)>>)
    \o <<AgentEvent("agent.action_received", p, phase, Sanitized(a)), Applied(phase)>>
    \o (IF PhaseChanges THEN <<Changed>> ELSE <<>>)

\* werewolfReplayEventToPublic
AgentEvents == {"agent.action_requested", "agent.action_received", "agent.timeout",
                "agent.invalid_action"}
BugHidesWolvesOnly(e) ==
  IF e.type \in AgentEvents /\ e.phase = "night-werewolf-vote" THEN [e EXCEPT !.player = None] ELSE e
Public(e) ==
  IF e.type \in AgentEvents /\ e.phase \in PrivatePhases THEN [e EXCEPT !.player = None] ELSE e

-----------------------------------------------------------------------------
(* The timeline.                                                            *)

Line(kind, names, n) == [kind |-> kind, names |-> names, n |-> n]
NamesOf(p) == {p} \ {None}

\* The lines of a change of phase: the deaths, the PK round, the vote without a
\* result, the banner; a PK round is not a new day.
IsNewDay(e) == e.phase \in DayPhases /\ e.pkRound = 0
ChangeLines(e) ==
  SetToSeq({Line("death", {p}, 0) : p \in e.dead})
    \o (IF e.phase = "day-vote" /\ e.pkRound > 0
        THEN <<Line("pk", e.candidates, e.pkRound)>> ELSE <<>>)
    \o (IF e.flopped THEN <<Line("no-banishment", {}, e.day)>> ELSE <<>>)
    \o (CASE e.phase \in PrivatePhases -> <<Line("phase-night", {}, e.night)>>
          [] IsNewDay(e) -> <<Line("phase-day", {}, e.day)>>
          [] e.phase = "game-over" -> <<Line("system", {}, 0)>>
          [] OTHER -> <<>>)

ActionLines(e) ==
  IF e.phase \in PrivatePhases THEN <<>>
  ELSE CASE e.action.type = "speak" -> <<Line("speak", NamesOf(e.player), 0)>>
         [] e.action.type = "day-vote" ->
              <<Line("vote", NamesOf(e.player) \cup NamesOf(e.action.target), 0)>>
         [] OTHER -> <<Line("system", NamesOf(e.player) \cup NamesOf(e.action.target), 0)>>

\* normalizeWerewolfReplayEvent
Lines(e) ==
  CASE e.type = "match.started" -> <<Line("system", {}, 0)>>
    [] e.type = "phase.changed" -> ChangeLines(e)
    [] e.type = "agent.action_received" -> ActionLines(e)
    [] e.type = "match.completed" -> <<Line("completion", {}, 0)>>
    [] e.type \in {"agent.timeout", "agent.invalid_action"} -> <<Line("system", NamesOf(e.player), 0)>>
    [] OTHER -> <<>>

\* What has no line of its own is "night n, in progress", once in a row, and not
\* before the page knows of a night.
Fold(n) == Line("night-fold", {}, n)
BugFoldsNightZero(e, b) == e.phase \in PrivatePhases
Folds(e, b) == e.phase \in PrivatePhases /\ b.night >= 1
LinesOf(e, b, t) ==
  IF Lines(e) # <<>> THEN Lines(e)
  ELSE IF Folds(e, b) /\ t.last # Fold(b.night) THEN <<Fold(b.night)>> ELSE <<>>

Tell(t, e, ls) ==
  LET told1(p) == Cardinality({i \in DOMAIN ls : ls[i].kind = "death" /\ p \in ls[i].names})
      flops == Cardinality({i \in DOMAIN ls : ls[i].kind = "no-banishment"})
      exposed == IF e.type \in AgentEvents /\ e.phase \in PrivatePhases
                 THEN UNION {ls[i].names : i \in DOMAIN ls} ELSE {}
  IN [last    |-> IF ls = <<>> THEN t.last ELSE ls[Len(ls)],
      deaths  |-> [p \in Players |-> t.deaths[p] + told1(p)],
      flops   |-> t.flops + flops,
      exposed |-> t.exposed \cup exposed]

-----------------------------------------------------------------------------
(* The reducer.                                                             *)

Speech(p) == [actor |-> p, day |-> dayNumber]

\* phase.changed puts the lights out and ends the current speech, not the last.
BugForgetsLastSpeech(b, e) ==
  [b EXCEPT !.phase = e.phase, !.night = e.night, !.day = e.day, !.thinking = None,
            !.speaking = None, !.current = None, !.last = None,
            !.causes = [p \in Players |-> IF p \in e.dead THEN e.causes[p] ELSE @[p]]]
OnChange(b, e) ==
  [b EXCEPT !.phase = e.phase, !.night = e.night, !.day = e.day, !.thinking = None,
            !.speaking = None, !.current = None,
            !.causes = [p \in Players |-> IF p \in e.dead THEN e.causes[p] ELSE @[p]]]

OnRequested(b, e) ==
  IF e.phase \in PrivatePhases \/ e.player = None THEN b
  ELSE [b EXCEPT !.thinking = e.player, !.speaking = None]

\* A speech lights its speaker; any other action leaves the speech to be read.
BugThinksOn(b, e) ==
  IF e.action.type = "speak" /\ e.player # None /\ e.phase \notin PrivatePhases
  THEN [b EXCEPT !.speaking = e.player, !.current = Speech(e.player), !.last = Speech(e.player)]
  ELSE [b EXCEPT !.speaking = None]
OnReceived(b, e) ==
  IF e.action.type = "speak" /\ e.player # None /\ e.phase \notin PrivatePhases
  THEN [b EXCEPT !.thinking = None, !.speaking = e.player,
                 !.current = Speech(e.player), !.last = Speech(e.player)]
  ELSE [b EXCEPT !.thinking = None, !.speaking = None]

OnCompleted(b) ==
  [b EXCEPT !.phase = "completed", !.thinking = None, !.speaking = None,
            !.current = None, !.last = None]

Reduced(b, e) ==
  CASE e.type = "phase.changed" -> OnChange(b, e)
    [] e.type = "agent.action_requested" -> OnRequested(b, e)
    [] e.type = "agent.action_received" -> OnReceived(b, e)
    [] e.type = "match.completed" -> OnCompleted(b)
    [] OTHER -> b

OnEvent(page, e) ==
  LET b == Reduced(page.booth, e)
  IN [booth |-> b, told |-> Tell(page.told, e, LinesOf(e, b, page.told))]

\* The reducer on one event after another.
AfterEvents(es) ==
  LET page[i \in 0..Len(es)] ==
        IF i = 0 THEN [booth |-> booth, told |-> told] ELSE OnEvent(page[i - 1], Public(es[i]))
  IN page[Len(es)]

\* useStickyValue(state.lastSpeech), while rendering.
StuckTo(last) ==
  IF last # None /\ last # sticky.latched THEN [visible |-> last, latched |-> last]
  ELSE IF last = None THEN [visible |-> None, latched |-> None] ELSE sticky

Show(es) ==
  \E page \in {AfterEvents(es)} :
    /\ booth' = page.booth /\ told' = page.told
    /\ sticky' = StuckTo(page.booth.last)
Quiet == UNCHANGED pageVars

\* The timer of useStickyValue.
Fade ==
  /\ sticky.visible # None
  /\ sticky' = [sticky EXCEPT !.visible = None]
  /\ UNCHANGED <<allVars, booth, told>>

-----------------------------------------------------------------------------
WatchInit ==
  /\ MatchInit
  /\ booth = [phase |-> "pre-match", night |-> 0, day |-> 0, thinking |-> None,
              speaking |-> None, current |-> None, last |-> None,
              causes |-> [p \in Players |-> {}]]
  /\ told = [last |-> Line("none", {}, 0), deaths |-> [p \in Players |-> 0], flops |-> 0,
             exposed |-> {}]
  /\ sticky = [visible |-> None, latched |-> None]

AskNext ==
  /\ Request
  /\ Show(IF call' = NoCall THEN <<>>
          ELSE <<AgentEvent("agent.action_requested", call'.player, phase, NoAction)>>)

\* An answer that is well formed and seldom on the menu; the runner treats all
\* answers that are not in the same way.
Stray == Act("hunter-shoot", None)

TakeAnswer(a) ==
  /\ AgentAnswers(a)
  /\ IF Validates(a, call.menu) THEN Show(StepEvents(call.player, a, "fine"))
     ELSE Show(StepEvents(call.player, Fallback(call.menu), "agent.invalid_action"))

TakeFallback ==
  /\ AgentTimesOut /\ Show(StepEvents(call.player, Fallback(call.menu), "agent.timeout"))

WatchNext ==
  \/ \E p \in Players : RegisterAgent(p) /\ Quiet
  \/ RunMatch /\ Show(IF status' = "running" THEN <<Started>> ELSE <<>>)
  \/ AskNext
  \/ \E a \in call.menu \cup {Malformed, Stray} : TakeAnswer(a)
  \/ TakeFallback
  \/ Complete /\ Show(IF status' = "completed" THEN <<Completed>> ELSE <<>>)
  \/ PersistArtifact /\ Quiet
  \/ Fade

WatchSpec == WatchInit /\ [][WatchNext]_watchVars

-----------------------------------------------------------------------------
(* Properties.                                                              *)

SpeechShown == IF booth.current # None THEN booth.current ELSE sticky.visible

\* The spectator's account of the match is right.  By day exactly the player the
\* runner waits for is shown thinking, by night nobody, and no line about a night's
\* events names a player.  Every death is told once, with the cause it had, every
\* vote without a result is told, and there is no night 0.  Each speech is on the
\* board after it was made, the last one of the day too, whose current speech the
\* change to the vote ends within the same rendering.
TimelineSound ==
  [](/\ booth.thinking = IF call # NoCall /\ phase \notin PrivatePhases THEN call.player ELSE None
     /\ phase \in PrivatePhases => booth.speaking = None
     /\ booth.speaking # None => booth.current # None /\ booth.current.actor = booth.speaking
     /\ told.exposed = {}
     /\ \A p \in Players : told.deaths[p] = Cardinality(deaths[p]) /\ booth.causes[p] = deaths[p]
     /\ phase = "night-werewolf-vote" =>
          told.flops = nightNumber - 1 - Cardinality({p \in Players : "banishment" \in deaths[p]})
     /\ told.last.kind \in {"night-fold", "phase-night"} => told.last.n = nightNumber
     /\ told.last.kind = "phase-day" => told.last.n = dayNumber /\ phase \in DayPhases)
  /\ [][\A p \in Players : p \in pendingDaySpeeches' \ pendingDaySpeeches =>
          SpeechShown' = Speech(p)]_watchVars
=============================================================================
