------------------------------- MODULE MCPages -------------------------------
(***************************************************************************)
(* Three pages of the browser that share no state with one another: the     *)
(* room of a running werewolf match, its timeline, and the replay of a      *)
(* poker match.  A behaviour is of one of them, the others at rest: what    *)
(* they do together is what each does alone.  The timeline's behaviours are *)
(* those of WerewolfMatch, whose invariants are checked here as well.       *)
(***************************************************************************)
EXTENDS SpectatorRoom, SpectatorTimeline, ReplayPage, TLC

CONSTANTS w1, v1, s1, x1, h1

RoleMap ==
  w1 :> "werewolf" @@ v1 :> "villager" @@ s1 :> "seer" @@ x1 :> "witch" @@ h1 :> "hunter"
SeatMap == h1 :> 0 @@ x1 :> 1 @@ w1 :> 2 @@ v1 :> 3 @@ s1 :> 4

\* Two matches.  The events of the first name their actions, and are out of order;
\* of the second, as of artifacts written before actions had ids and phases, one
\* does, and the street is only on the events.
Move(id, street) == [id |-> id, street |-> street]
Saved(id, h, n, type, a, street) ==
  [id |-> id, hand |-> h, sequence |-> n, type |-> type, action |-> a, street |-> street]
SavedMatches ==
  [m1 |-> [hands  |-> << [id |-> "h1", actions |-> <<Move("a1", "preflop"), Move("a2", "flop"),
                                                     Move("a3", "flop")>>],
                         [id |-> "h2", actions |-> <<Move("b1", "preflop")>>] >>,
           events |-> << Saved("e2", "h1", 3, "action.applied", "a2", "flop"),
                         Saved("e1", "h1", 1, "action.applied", "a1", "preflop"),
                         Saved("e3", "h1", 2, "betting_round.complete", NoItem, "preflop"),
                         Saved("e4", "h1", 5, "action.applied", "a3", "flop"),
                         Saved("e5", "h2", 1, "action.applied", "b1", "preflop") >>],
   m2 |-> [hands  |-> << [id |-> "h3", actions |-> <<Move("c1", NoItem), Move("c2", NoItem),
                                                     Move("c3", NoItem)>>] >>,
           events |-> << Saved("f1", "h3", 1, "action.applied", "c2", "flop"),
                         Saved("f2", "h3", 2, "action.applied", NoItem, "preflop"),
                         Saved("f3", "h3", 4, "action.applied", NoItem, "flop") >>]]

VARIABLE focus

RoomOnly == focus = "room" /\ UNCHANGED <<watchVars, replayVars, focus>>
TimelineOnly == focus = "timeline" /\ UNCHANGED <<roomVars, replayVars, focus>>
ReplayOnly == focus = "replay" /\ UNCHANGED <<roomVars, watchVars, focus>>

PagesInit ==
  /\ RoomInit /\ WatchInit /\ ReplayInit
  /\ focus \in {"room", "timeline", "replay"}
  /\ focus # "room" => game.status = "waiting"
  /\ focus # "replay" => visits = <<"m1">>

PagesNext ==
  \/ RoomOnly /\ RoomNext
  \/ TimelineOnly /\ WatchNext
  \/ ReplayOnly /\ ReplayNext

\* Fairness is owed to the page the run is of, RoomFairness and ReplayFairness: to
\* ask it of the others too, which are at rest, would leave no behaviour at all.
PagesFairness ==
  /\ WF_roomVars(RoomOnly /\ SettleEntry)
  /\ \A i \in Polls : /\ WF_roomVars(RoomOnly /\ SendPoll(i))
                      /\ WF_roomVars(RoomOnly /\ AnswerPoll(i))
                      /\ WF_roomVars(RoomOnly /\ ReceiveEntry(i))
  /\ WF_replayVars(ReplayOnly /\ Tick)

PagesSpec == PagesInit /\ [][PagesNext]_<<roomVars, watchVars, replayVars, focus>> /\ PagesFairness
=============================================================================
