----------------------------- MODULE WerewolfNpc -----------------------------
(***************************************************************************)
(* A match among built-in players.  The runner sends the player it asks    *)
(* what he may know (getPublicState, getPrivateState) and his menu; the    *)
(* inner mock agent draws an action from the menu; the NPC around it       *)
(* (agent-runtime/src/werewolf-npc-agent.ts) puts words to a speech and    *)
(* adds a reasoning summary.                                               *)
(*                                                                         *)
(* Of a speech only the player it names is kept, of a summary the key its  *)
(* intent is looked up with and the observations it may draw.              *)
(***************************************************************************)
EXTENDS WerewolfEngine

CONSTANT Personalities

ASSUME PersonalityAssumption == Personalities \subseteq {"cautious", "aggressive", "balanced"}

VARIABLE divined  \* the seerTarget of the history's night-action entries

npcVars == <<vars, divined>>

SideOf(p) == IF Role[p] = "werewolf" THEN "werewolf" ELSE "good"

-----------------------------------------------------------------------------
(* What a player is told.                                                   *)

BugShowsRolesOfTheDead(p) == IF phase = "game-over" \/ p \notin alive THEN Role[p] ELSE "hidden"
RevealedRole(p) == IF phase = "game-over" THEN Role[p] ELSE "hidden"

BugShowsNightDeaths ==
  [phase |-> phase, night |-> nightNumber, day |-> dayNumber, winner |-> winner,
   living |-> alive \ Killed(pendingNight), roles |-> [p \in Players |-> RevealedRole(p)],
   history |-> deaths]
PublicState ==
  [phase |-> phase, night |-> nightNumber, day |-> dayNumber, winner |-> winner,
   living |-> alive, roles |-> [p \in Players |-> RevealedRole(p)], history |-> deaths]

NoPotions == [hasSave |-> FALSE, hasPoison |-> FALSE]

KnownAllies(p) == IF Role[p] = "werewolf" THEN Wolves(Players) \ {p} ELSE {}

PrivateState(p) ==
  [selfId |-> p, selfRole |-> Role[p],
   knownAllies |-> KnownAllies(p),
   seerKnowledge |-> {[target |-> t, side |-> SideOf(t)] :
                        t \in IF Role[p] = "seer" THEN divined ELSE {}},
   potions |-> IF Role[p] = "witch" THEN witchPotions ELSE NoPotions,
   killTarget |-> IF Role[p] = "witch" /\ phase = "night-witch"
                  THEN Plurality(pendingNight.werewolfVotes) ELSE None,
   hunterCanShoot |-> phase = "hunter-shoot" /\ pendingHunterShoot.hunterId = p]

-----------------------------------------------------------------------------
(* What the NPC says.                                                       *)

BugWolvesAccuseAnyone(pub, priv) == pub.living \ {priv.selfId}
\* accusationTarget.  A wolf spares his allies.  A seer picks one of the wolves
\* he has found, dead or alive; if that one is dead he picks anybody.
AccusationTargets(pub, priv) ==
  LET others == pub.living \ {priv.selfId}
      safe   == others \ priv.knownAllies
      found  == {k.target : k \in {j \in priv.seerKnowledge : j.side = "werewolf"}}
  IN IF priv.selfRole = "werewolf" /\ safe # {} THEN safe
     ELSE IF priv.selfRole = "seer" /\ found # {}
          THEN IF found \subseteq others THEN found ELSE others
          ELSE others

\* INNER, PERFORMANCE and SPEECH: whether a speech of a role and a personality
\* names the target; the hunter's two aggressive ones differ.
NamesTarget(role, personality) ==
  CASE personality = "cautious" /\ role \in {"witch", "hunter", "villager"} -> {FALSE}
    [] personality = "aggressive" /\ role = "hunter" -> {TRUE, FALSE}
    [] OTHER -> {TRUE}

\* generateInner, generatePerformance, generateSpeech
Accusations(pub, priv, personality) ==
  UNION {IF named THEN AccusationTargets(pub, priv) ELSE {None} :
           named \in NamesTarget(priv.selfRole, personality)}

\* enrichSpeakAction: only a speech is rewritten, and it remains its speaker's.
Enriched(a, pub, priv, personality) ==
  {[action |-> a, accuses |-> t] :
     t \in IF a.type = "speak" THEN Accusations(pub, priv, personality) ELSE {None}}

-----------------------------------------------------------------------------
(* The reasoning summary.                                                   *)

\* The keys of INTENT_POOL.
IntentKeys ==
  {"speak-werewolf", "speak-seer", "speak-witch", "speak-hunter", "speak-villager",
   "day-vote", "werewolf-vote", "seer-divine", "witch-save", "witch-poison",
   "witch-skip-save", "witch-skip-poison", "hunter-shoot"}
SpeakKey == [werewolf |-> "speak-werewolf", seer |-> "speak-seer", witch |-> "speak-witch",
             hunter |-> "speak-hunter", villager |-> "speak-villager"]
IntentKey(a, priv) == IF a.type = "speak" THEN SpeakKey[priv.selfRole] ELSE a.type

BugForgetsPotionsSpent(pub, priv) ==
  {"night", "deaths", "pack", "day"}
    \cup (IF priv.selfRole = "witch" THEN {"save ready", "poison ready"} ELSE {})
\* The candidates buildObservations shuffles and cuts to two or three.
Observations(pub, priv) ==
  {"night", "deaths", "pack", "day"}
    \cup (IF priv.seerKnowledge # {} THEN {"roles confirmed"} ELSE {})
    \cup (IF priv.potions.hasSave THEN {"save ready"} ELSE {})
    \cup (IF priv.potions.hasPoison THEN {"poison ready"} ELSE {})
    \cup (IF priv.selfRole = "hunter" THEN {"shot ready"} ELSE {})

-----------------------------------------------------------------------------
\* WerewolfRandomMockAgent.requestDecision draws from the menu; what the NPC
\* adds changes nothing in the game.
NpcActs(p) ==
  \E a \in ValidActions(p) :
     /\ Apply(p, a)
     /\ divined' = divined \cup (IF a.type = "seer-divine" THEN {a.target} ELSE {})

NpcInit == Init /\ divined = {}
NpcNext ==
  \/ StartFirstNight /\ UNCHANGED divined
  \/ \E p \in Players : NpcActs(p)
NpcSpec == NpcInit /\ [][NpcNext]_npcVars

-----------------------------------------------------------------------------
(* Properties.                                                              *)

\* Whatever an NPC is asked: the runner accepts his answer; a wolf never accuses
\* a wolf, because the match ends before only wolves are left; nobody accuses
\* himself or the dead; a seer whose only found wolf lives accuses that wolf; the
\* intent is one of the pool, not its last resort; and a witch speaks only of
\* potions she still has.
NpcsInCharacter ==
  \A p \in Players : ValidActions(p) # {} =>
    LET pub  == PublicState
        priv == PrivateState(p)
    IN /\ \A a \in ValidActions(p) :
            /\ Accepts(p, a)
            /\ IntentKey(a, priv) \in IntentKeys
            /\ a.type = "speak" => \A personality \in Personalities :
                 LET said == Enriched(a, pub, priv, personality)
                 IN /\ said # {}
                    /\ \A e \in said : e.accuses # None =>
                         /\ e.accuses \in alive \ {p}
                         /\ Role[p] = "werewolf" => Role[e.accuses] # "werewolf"
                         /\ Role[p] = "seer" =>
                              \A w \in Wolves(alive) :
                                Wolves(divined) = {w} => e.accuses = w
       /\ Role[p] = "witch" =>
            /\ "save ready" \in Observations(pub, priv) =>
                 pendingNight.witchSaved = None /\ witchPotions.hasSave
            /\ "poison ready" \in Observations(pub, priv) =>
                 \A q \in Players : "witch-poison" \notin deaths[q]

\* What is decided at night stays there until dawn: no step within a night shows in
\* the public state but as a change of phase, or in the private state of anybody
\* but the one player who decides in the phase it leads from or to.  Until the game
\* is over nobody's role is public, and only wolves know another player's role
\* without divining it.
NightStaysHidden ==
  /\ [][ /\ phase \in NightPhases
         /\ phase' \in NightPhases
         => /\ PublicState' = [PublicState EXCEPT !.phase = phase']
            /\ \A p \in alive : Role[p] # "witch" => (PrivateState(p))' = PrivateState(p) ]_npcVars
  /\ [](winner = "none" => \A p \in Players :
          /\ RevealedRole(p) = "hidden"
          /\ KnownAllies(p) # {} => Role[p] = "werewolf")
=============================================================================
