------------------------------ MODULE MCServices ------------------------------
(***************************************************************************)
(* Parts of the server that share no state with one another: a werewolf     *)
(* match of NPCs, a poker table, a simulated poker match, the database's    *)
(* record of a werewolf match, the object archive, and accounts and         *)
(* sessions.  Each run is of one of them, the others at rest: what they do  *)
(* together is what each does alone.                                        *)
(***************************************************************************)
EXTENDS WerewolfNpc, PokerTable, SimulatedMatch, MatchRecords, ObjectArchive, Accounts, TLC

CONSTANTS me, other, w1, w2, v1, s1, x1

\* Two wolves, and one of every other role but the hunter, whose shots the run of
\* MCWerewolfEngine takes.
RoleMap ==
  w1 :> "werewolf" @@ w2 :> "werewolf" @@ v1 :> "villager" @@ s1 :> "seer" @@ x1 :> "witch"
SeatOf == v1 :> 1 @@ w1 :> 2 @@ s1 :> 3 @@ w2 :> 4 @@ x1 :> 5

VARIABLE focus

serviceVars ==
  <<npcVars, tableVars, simVars, recordVars, archiveVars, accountVars, focus>>

NpcOnly == focus = "npc"
  /\ UNCHANGED <<tableVars, simVars, recordVars, archiveVars, accountVars, focus>>
TableOnly == focus = "table"
  /\ UNCHANGED <<npcVars, simVars, recordVars, archiveVars, accountVars, focus>>
SimOnly == focus = "simulation"
  /\ UNCHANGED <<npcVars, tableVars, recordVars, archiveVars, accountVars, focus>>
RecordsOnly == focus = "records"
  /\ UNCHANGED <<npcVars, tableVars, simVars, archiveVars, accountVars, focus>>
ArchiveOnly == focus = "archive"
  /\ UNCHANGED <<npcVars, tableVars, simVars, recordVars, accountVars, focus>>
AccountsOnly == focus = "accounts"
  /\ UNCHANGED <<npcVars, tableVars, simVars, recordVars, archiveVars, focus>>

\* The runner asks the players in the order of their seats (pickNextActor); the run of
\* MCWerewolfEngine takes every order.
AskedInTurn ==
  \A p, q \in alive : SeatOf[p] < SeatOf[q] =>
    /\ q \in pendingDaySpeeches => p \in pendingDaySpeeches
    /\ pendingDayVote.votes[q] # NotVoted => pendingDayVote.votes[p] # NotVoted
    /\ pendingNight.werewolfVotes[q] # NotVoted /\ Role[p] = "werewolf" =>
         pendingNight.werewolfVotes[p] # NotVoted

\* Bounds of the simulation: three bots play one hand, two may play more; the guest
\* comes, or the owner deals a hand, not both; and what another client posts is
\* what the page does not let through, for the rest is played as the page's.
SimBounds ==
  /\ job.stage = "playing" => job.request.hands + Len(job.request.buyIns) <= MaxSimHands + 2
  /\ Guest \in DealtIn \cup DOMAIN stacks => ownHand.stage = "none"
  /\ job.stage # "none" /\ job.by = "api" => ~PageAccepts(job.request)

ServicesInit ==
  /\ NpcInit /\ TableInit /\ SimInit /\ RecordsInit /\ ArchiveInit /\ AccountsInit
  /\ focus \in {"npc", "table", "simulation", "records", "archive", "accounts"}
  /\ focus # "simulation" => job.by = "page"

ServicesNext ==
  \/ NpcOnly /\ NpcNext /\ AskedInTurn'
  \/ TableOnly /\ TableNext
  \/ SimOnly /\ SimNext /\ SimBounds'
  \/ RecordsOnly /\ RecordsNext
  \/ ArchiveOnly /\ ArchiveNext
  \/ AccountsOnly /\ AccountsNext

ServicesSpec == ServicesInit /\ [][ServicesNext]_serviceVars

\* What the stores keep is sound: RecordsSound of the database's match records,
\* ArchiveSound of the artifacts' index and the trace files, AccountsSound of
\* accounts, sessions and the rate limiter.
StoresSound == RecordsSound /\ ArchiveSound /\ AccountsSound
=============================================================================
