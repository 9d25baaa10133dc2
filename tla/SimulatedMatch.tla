---------------------------- MODULE SimulatedMatch ----------------------------
(***************************************************************************)
(* A poker match between bots, from its definition to its saved artifact:   *)
(* the form of SimulatePage.tsx, POST /simulate (routes/simulate.ts) or the *)
(* ScheduledMatchRunner, TableOrchestrator.runSimulation, the decision      *)
(* traces, and the artifact that match-artifact-serialization.ts and        *)
(* match-analysis-summary.ts build of it (persistence/src).                 *)
(*                                                                          *)
(* The table of POST /simulate is one of the lobby's: between the awaits of *)
(* the simulation somebody else may sit down and leave again, and the owner *)
(* may start a hand of his own or delete the table.  A hand divides its     *)
(* players' chips in any way (PokerHand has how); a decision is remembered  *)
(* by its agent and by what became of it, and is in the log when its hand   *)
(* ends.                                                                    *)
(***************************************************************************)
EXTENDS Integers, FiniteSetsExt, SequencesExt, Sums

CONSTANTS MaxTableSeats, \* the largest maxSeats that form and schema accept (9)
          MaxSimHands,   \* MAX_SIMULATION_HANDS of both (20)
          TraceLimit,    \* maxTracesPerMatch
          Buys           \* the buy-ins of the model; 0 is the invalid one

ASSUME SimulationAssumption ==
  /\ MaxTableSeats \in Nat /\ MaxTableSeats >= 2
  /\ MaxSimHands \in Nat \ {0} /\ TraceLimit \in Nat
  /\ Buys \subseteq Nat /\ Max(Buys) \in Buys

VARIABLES form,        \* SimulateFormState: maxSeats, hands, the agents' buy-ins
          submission,  \* SimulateSubmissionState
          job,         \* the simulation: who asks (one client a behaviour), for what,
                       \* how far it is, and the stacks it answers with
          stacks,      \* the seats: the stack of every agent at the table
          simTable,    \* the table's entry: in the orchestrator's map, in a hand, its
                       \* last hand's number, and whether the guest sits out the next
          simHand,     \* the simulation's hand under way: its players' stacks
          ownHand,     \* the hand that the owner starts: its stage, its players' stacks
          played,      \* runSimulation's summaries: each player's stack before and after
          traceLog,    \* the trace store's entries of this match
          artifact     \* the saved artifact

seating == <<stacks, simTable, simHand, ownHand>>
simVars == <<form, submission, job, seating, played, traceLog, artifact>>

Guest == 0 \* who sits down uninvited; the bots are 1, 2, ...
NoArtifact == [hands |-> <<>>]
NoHand == [number |-> 0, before |-> <<>>]
Dealt == [number |-> simTable.handNumber + 1, before |-> stacks]

-----------------------------------------------------------------------------
(* The form.                                                                *)

\* buildSimulateRequest
BugCountsNoSeats(f) ==
  /\ f.maxSeats \in 2 .. MaxTableSeats /\ f.hands \in 1 .. MaxSimHands
  /\ Len(f.buyIns) >= 2 /\ 0 \notin ToSet(f.buyIns)
PageAccepts(f) ==
  /\ f.maxSeats \in 2 .. MaxTableSeats /\ f.hands \in 1 .. MaxSimHands
  /\ Len(f.buyIns) \in 2 .. f.maxSeats
  /\ 0 \notin ToSet(f.buyIns)

Edited(f) ==
  /\ job.by = "page" /\ job.stage = "none"
  /\ form' = f
  /\ UNCHANGED <<submission, job, seating, played, traceLog, artifact>>
UpdateField ==
  \/ \E m \in 1 .. MaxTableSeats + 1 : Edited([form EXCEPT !.maxSeats = m])
  \/ \E n \in 0 .. MaxSimHands + 1 : Edited([form EXCEPT !.hands = n])
UpdateAgent == \E i \in DOMAIN form.buyIns, b \in Buys : Edited([form EXCEPT !.buyIns[i] = b])
AddAgent ==
  /\ Len(form.buyIns) < form.maxSeats
  /\ Edited([form EXCEPT !.buyIns = Append(@, Max(Buys))])
RemoveFormAgent ==
  /\ Len(form.buyIns) > 2
  /\ \E i \in DOMAIN form.buyIns : Edited([form EXCEPT !.buyIns = RemoveAt(@, i)])

-----------------------------------------------------------------------------
(* The simulation starts.                                                   *)

\* SimulateRequestSchema: not every request it lets through fits its table.
SchemaAccepts(r) ==
  /\ r.maxSeats \in 2 .. MaxTableSeats /\ r.hands \in 1 .. MaxSimHands
  /\ Len(r.buyIns) >= 2 /\ 0 \notin ToSet(r.buyIns)

\* createTable, with every seat empty.
Created(by, r) ==
  /\ job.by = by /\ job.stage = "none"
  /\ job' = [job EXCEPT !.stage = "seating", !.request = r]
  /\ UNCHANGED <<seating, played, traceLog, artifact>>

\* onSubmit of the page, and POST /simulate if the form is valid.
Submitted ==
  /\ submission # "submitting" /\ job.by = "page" /\ job.stage = "none"
  /\ UNCHANGED form
  /\ IF PageAccepts(form)
     THEN IF SchemaAccepts(form)
          THEN submission' = "submitting" /\ Created("page", form)
          ELSE /\ submission' = "submitting"
               /\ job' = [job EXCEPT !.stage = "failed", !.failure = "schema"]
               /\ UNCHANGED <<seating, played, traceLog, artifact>>
     ELSE submission' = "error" /\ UNCHANGED <<job, seating, played, traceLog, artifact>>

\* POST /simulate of another client
Posted ==
  /\ \E m \in 2 .. MaxTableSeats, n \in 1 .. MaxTableSeats + 1, b \in Buys, h \in 1 .. MaxSimHands :
       LET r == [maxSeats |-> m, buyIns |-> [i \in 1 .. n |-> b], hands |-> h]
       IN SchemaAccepts(r) /\ Created("api", r)
  /\ UNCHANGED <<form, submission>>

\* ScheduledMatchRunner.run: the table is as large as the match.
TableFor(n) == Max({2, Min({MaxTableSeats, n})})
Scheduled ==
  /\ \E n \in 2 .. MaxTableSeats + 1, b \in Buys \ {0}, h \in 1 .. MaxSimHands :
       Created("schedule", [maxSeats |-> TableFor(n), buyIns |-> [i \in 1 .. n |-> b], hands |-> h])
  /\ UNCHANGED <<form, submission>>

-----------------------------------------------------------------------------
(* The simulation runs.                                                     *)

\* An exception: the table stays in the orchestrator, with whoever sits at it.
FailsWith(reason) ==
  /\ job' = [job EXCEPT !.stage = "failed", !.failure = reason]
  /\ UNCHANGED <<form, submission, seating, played, artifact>>

Running == job.stage \in {"seating", "playing", "saving"}

\* Any of its awaits may throw: createTable's save and the seats', a hand's, the
\* replay's and the log's, the artifact's.
StorageFails == Running /\ FailsWith("storage") /\ UNCHANGED traceLog

FreeSeats == job.request.maxSeats - Cardinality(DOMAIN stacks)
SitDown(a, b) ==
  stacks' = [c \in DOMAIN stacks \cup {a} |-> IF c = a THEN b ELSE stacks[c]]

\* addAgent of the loop over the agents; after the last one the hands begin.
SeatFailure ==
  IF ~simTable.live THEN "not_found" ELSE IF simTable.inHand THEN "hand_in_progress"
  ELSE IF FreeSeats = 0 THEN "table_full" ELSE "none"
SeatNext ==
  LET n == job.seated + 1
  IN /\ job.stage = "seating"
     /\ IF SeatFailure # "none"
        THEN FailsWith(SeatFailure) /\ UNCHANGED traceLog
        ELSE /\ SitDown(n, job.request.buyIns[n])
             /\ job' = [job EXCEPT !.seated = n,
                          !.stage = IF n = Len(job.request.buyIns) THEN "playing" ELSE "seating"]
             /\ UNCHANGED <<form, submission, simTable, simHand, ownHand, played, traceLog, artifact>>

-----------------------------------------------------------------------------
(* Who else is at the table.  The scheduled match has an orchestrator of its *)
(* own, whose tables the routes do not know; and no route closes a table.    *)

Found == Running /\ job.by # "schedule" /\ simTable.live

\* POST /tables/:id/seats of anyone, while no hand is running
GuestSits ==
  /\ Found /\ ~simTable.inHand
  /\ FreeSeats > 0 /\ Guest \notin DOMAIN stacks
  /\ \A i \in DOMAIN played : Guest \notin DOMAIN played[i].before \* once, in the model
  /\ SitDown(Guest, 1)
  /\ UNCHANGED <<form, submission, job, simTable, simHand, ownHand, played, traceLog, artifact>>

\* leaveSeat: with his chips, or after the hand that runs.
GuestLeaves ==
  /\ Found /\ Guest \in DOMAIN stacks
  /\ IF simTable.inHand
     THEN simTable' = [simTable EXCEPT !.leaving = TRUE] /\ UNCHANGED stacks
     ELSE stacks' = Restrict(stacks, DOMAIN stacks \ {Guest}) /\ UNCHANGED simTable
  /\ UNCHANGED <<form, submission, job, simHand, ownHand, played, traceLog, artifact>>

\* deleteTable of the owner; a hand under way goes on.
TableDeleted ==
  /\ Found /\ simTable' = [simTable EXCEPT !.live = FALSE]
  /\ UNCHANGED <<form, submission, job, stacks, simHand, ownHand, played, traceLog, artifact>>

\* What becomes of a decision: the agent's, with its reasoning or without, or the
\* fallback's, in time or not.
Outcomes == {"reasoned", "silent", "invalid", "late"}
Trace(h, a, outcome) ==
  [hand |-> h, agent |-> a, timedOut |-> outcome = "late",
   invalid |-> outcome = "invalid", fallback |-> outcome \in {"late", "invalid"},
   reasoned |-> outcome \in {"reasoned", "invalid"}]

\* The decisions of a hand: one of some player, or one of each with one outcome.
Decisions(hand) ==
  LET all == SetToSeq(DOMAIN hand.before)
  IN {<<Trace(hand.number, a, "late")>> : a \in DOMAIN hand.before}
     \cup {[i \in DOMAIN all |-> Trace(hand.number, all[i], o)] : o \in Outcomes}

DivisionsOf(f) == {d \in [DOMAIN f -> 0 .. SumOf(f)] : SumOf(d) = SumOf(f)}

\* assertWithinLimits: a trace has a size and a log a length in bytes as well, here
\* there is their number only.
OverLimits(ts) == Len(traceLog) + Len(ts) > TraceLimit
Cut(ts) == SubSeq(traceLog \o ts, 1, TraceLimit)

\* The end of startHand: the stacks are written back to who still sits there, who is
\* busted leaves, and so does who wants to sit out; the flags are reset.
Seated(d) == [a \in DOMAIN stacks |-> IF a \in DOMAIN d THEN d[a] ELSE stacks[a]]
Settle(d) ==
  /\ stacks' = Restrict(Seated(d), {a \in DOMAIN stacks :
                 Seated(d)[a] > 0 /\ ~(a = Guest /\ simTable.leaving)})
  /\ simTable' = [simTable EXCEPT !.inHand = FALSE, !.leaving = FALSE]

\* POST /tables/:id/hands/start of the owner, once in the model
OwnerDeals ==
  /\ Found /\ ~simTable.inHand /\ ownHand.stage = "none" /\ Cardinality(DOMAIN stacks) >= 2
  /\ ownHand' = [stage |-> "running", dealt |-> Dealt]
  /\ simTable' = [simTable EXCEPT !.inHand = TRUE, !.handNumber = @ + 1]
  /\ UNCHANGED <<form, submission, job, stacks, simHand, played, traceLog, artifact>>

\* It ends, or breaks off; its decisions are in the table's log with the others.
OwnerHandEnds ==
  /\ Running /\ ownHand.stage = "running"
  /\ \E ts \in Decisions(ownHand.dealt) :
       \/ /\ ~OverLimits(ts) /\ traceLog' = traceLog \o ts
          /\ \E d \in DivisionsOf(ownHand.dealt.before) : Settle(d)
          /\ ownHand' = [ownHand EXCEPT !.stage = "storing"]
       \/ /\ traceLog' = IF OverLimits(ts) THEN Cut(ts) ELSE traceLog \o ts
          /\ simTable' = [simTable EXCEPT !.inHand = FALSE] /\ UNCHANGED stacks
          /\ ownHand' = [ownHand EXCEPT !.stage = "over"]
  /\ UNCHANGED <<form, submission, job, simHand, played, artifact>>

\* Its last save fails: the flags are reset again, whichever hand they are of.
OwnerSaveFails ==
  /\ Running /\ ownHand.stage = "storing"
  /\ ownHand' = [ownHand EXCEPT !.stage = "over"]
  /\ simTable' = [simTable EXCEPT !.inHand = FALSE]
  /\ UNCHANGED <<form, submission, job, stacks, simHand, played, traceLog, artifact>>

-----------------------------------------------------------------------------
(* runSimulation's loop.                                                    *)

BugPlaysAlone == simTable.live /\ Len(played) < job.request.hands
MoreHands ==
  simTable.live /\ Len(played) < job.request.hands /\ Cardinality(DOMAIN stacks) >= 2

\* startHand, up to its awaits
DealFailure ==
  IF simTable.inHand THEN "hand_in_progress"
  ELSE IF Cardinality(DOMAIN stacks) < 2 THEN "not_enough_players" ELSE "none"
DealHand ==
  /\ job.stage = "playing" /\ simHand = NoHand /\ MoreHands
  /\ IF DealFailure # "none"
     THEN FailsWith(DealFailure) /\ UNCHANGED traceLog
     ELSE /\ simHand' = Dealt
          /\ simTable' = [simTable EXCEPT !.inHand = TRUE, !.handNumber = @ + 1]
          /\ UNCHANGED <<form, submission, job, stacks, ownHand, played, traceLog, artifact>>

\* The hand ends; a trace over the store's limit breaks it off.
EndHand ==
  /\ job.stage = "playing" /\ simHand # NoHand
  /\ \E ts \in Decisions(simHand) :
       IF OverLimits(ts)
       THEN traceLog' = Cut(ts) /\ FailsWith("trace_limit")
       ELSE /\ traceLog' = traceLog \o ts
            /\ \E d \in DivisionsOf(simHand.before) :
                 /\ played' = Append(played, [number |-> simHand.number,
                                              before |-> simHand.before, after |-> d])
                 /\ Settle(d)
            /\ simHand' = NoHand
            /\ UNCHANGED <<form, submission, job, ownHand, artifact>>

\* The loop is over, and getTable looks the table up for the answer's finalStacks.
HandsPlayed ==
  /\ job.stage = "playing" /\ simHand = NoHand /\ ~MoreHands
  /\ IF ~simTable.live
     THEN FailsWith("not_found") /\ UNCHANGED traceLog
     ELSE /\ job' = [job EXCEPT !.stage = "saving", !.answered = stacks]
          /\ UNCHANGED <<form, submission, seating, played, traceLog, artifact>>

-----------------------------------------------------------------------------
(* The artifact.                                                            *)

\* applyTrace and finalizeMetricSummary, for the traces at some places of the log
BugStopsAtMissingReasoning(ts, places) ==
  LET reasoned == {i \in places : ts[i].reasoned}
  IN [decisions  |-> Cardinality(places),
      timeouts   |-> Cardinality({i \in reasoned : ts[i].timedOut}),
      invalid    |-> Cardinality({i \in reasoned : ts[i].invalid}),
      fallbacks  |-> Cardinality({i \in reasoned : ts[i].fallback}),
      unreasoned |-> Cardinality(places \ reasoned)]
Metrics(ts, places) ==
  [decisions  |-> Cardinality(places),
   timeouts   |-> Cardinality({i \in places : ts[i].timedOut}),
   invalid    |-> Cardinality({i \in places : ts[i].invalid}),
   fallbacks  |-> Cardinality({i \in places : ts[i].fallback}),
   unreasoned |-> Cardinality({i \in places : ~ts[i].reasoned})]

\* finalizeAgentSummary
AgentSummary(a, ts) ==
  LET own == {i \in DOMAIN ts : ts[i].agent = a}
  IN [agent |-> a, hands |-> {ts[i].hand : i \in own}, metrics |-> Metrics(ts, own)]

\* buildAnalysisSummary: the agents of the summary and those of the traceLog
Analysis(agentIds, ts) ==
  [totals |-> Metrics(ts, DOMAIN ts),
   agents |-> {AgentSummary(a, ts) : a \in agentIds \cup {ts[i].agent : i \in DOMAIN ts}}]

\* buildSummary: the hands by number, and the stacks after the last of them
BugStacksBefore(hands) == IF hands = <<>> THEN <<>> ELSE Last(hands).before
FinalStacks(hands) == IF hands = <<>> THEN <<>> ELSE Last(hands).after
\* No two hands have the same number.
Sorted(hands) ==
  LET Before(i) == {j \in DOMAIN hands : hands[j].number < hands[i].number}
  IN [k \in DOMAIN hands |-> hands[CHOOSE i \in DOMAIN hands : Cardinality(Before(i)) = k - 1]]
MatchSummary(hands) ==
  LET sorted == Sorted(hands)
  IN [hands    |-> [i \in DOMAIN sorted |-> sorted[i].number],
      stacks   |-> FinalStacks(sorted),
      agentIds |-> UNION {DOMAIN hands[i].before : i \in DOMAIN hands}]

\* listDecisionTraces, and saveMatchArtifact of what was played
SaveMatch ==
  /\ job.stage = "saving"
  /\ LET summary == MatchSummary(played)
     IN artifact' = [hands     |-> summary.hands, finalStacks |-> summary.stacks,
                     agentIds  |-> summary.agentIds,
                     analysis  |-> Analysis(summary.agentIds, traceLog)]
  /\ job' = [job EXCEPT !.stage = "saved"]
  /\ UNCHANGED <<form, submission, seating, played, traceLog>>

\* The page hears of it, or its connection breaks.
Answered ==
  /\ submission = "submitting"
  /\ \/ job.stage = "saved" /\ submission' = "done"
     \/ job.stage \in {"failed", "saved"} /\ submission' = "error"
  /\ UNCHANGED <<form, job, seating, played, traceLog, artifact>>

-----------------------------------------------------------------------------
SimInit ==
  /\ form = [maxSeats |-> MaxTableSeats, hands |-> MaxSimHands,
             buyIns |-> <<Max(Buys), Max(Buys)>>]
  /\ submission = "idle"
  /\ \E by \in {"page", "api", "schedule"} :
       job = [stage |-> "none", by |-> by, request |-> form, seated |-> 0,
              failure |-> "none", answered |-> <<>>]
  /\ simTable = [live |-> TRUE, inHand |-> FALSE, handNumber |-> 0, leaving |-> FALSE]
  /\ simHand = NoHand /\ ownHand = [stage |-> "none", dealt |-> NoHand]
  /\ stacks = <<>> /\ played = <<>> /\ traceLog = <<>> /\ artifact = NoArtifact

SimNext ==
  \/ UpdateField \/ UpdateAgent \/ AddAgent \/ RemoveFormAgent
  \/ Submitted \/ Posted \/ Scheduled \/ SeatNext \/ StorageFails
  \/ GuestSits \/ GuestLeaves \/ TableDeleted
  \/ OwnerDeals \/ OwnerHandEnds \/ OwnerSaveFails
  \/ DealHand \/ EndHand \/ HandsPlayed \/ SaveMatch \/ Answered

SimSpec == SimInit /\ [][SimNext]_simVars

-----------------------------------------------------------------------------
(* Properties.                                                              *)

\* The agents that the simulation dealt in, what one of them brought to the table,
\* and what his last hand left him.
DealtIn == UNION {DOMAIN played[i].before : i \in DOMAIN played}
Bought(a) == IF a = Guest THEN 1 ELSE job.request.buyIns[a]
LastHandOf(a) == Max({i \in DOMAIN played : a \in DOMAIN played[i].before})
LeftWith(a) == played[LastHandOf(a)].after[a]

\* The hands of the artifact are those that the simulation played, all of them and
\* in their order, whatever hand the owner had dealt between them.
HandsTold ==
  /\ artifact.hands = [i \in DOMAIN played |-> played[i].number]
  /\ \A i, j \in DOMAIN played : i < j => artifact.hands[i] < artifact.hands[j]
  /\ artifact.agentIds = DealtIn

\* If the owner dealt none: they are fewer than asked for only if at most one bot is
\* left with chips; every chip that was bought is in the stacks of the last hand or
\* left with the guest; and these stacks agree with the answer's, where only the
\* guest may be missing for another reason than having nothing left.
StacksTold ==
  /\ Len(played) < job.request.hands =>
       Cardinality({a \in DealtIn \ {Guest} : LeftWith(a) > 0}) <= 1
  /\ SumOf(artifact.finalStacks)
       + SumOf([a \in DealtIn \ DOMAIN artifact.finalStacks |-> LeftWith(a)])
     = SumOf([a \in DealtIn |-> Bought(a)])
  /\ \A a \in DealtIn :
       IF a \in DOMAIN job.answered
       THEN a \in DOMAIN artifact.finalStacks /\ artifact.finalStacks[a] = job.answered[a]
       ELSE a = Guest \/ LeftWith(a) = 0

\* The analysis counts every decision of the log once, in the totals and for the
\* agent who took it, and knows of nobody's decision in a hand he was not in.
DecisionsTold ==
  LET sums(k) == SumOf([x \in artifact.analysis.agents |-> x.metrics[k]])
      totals == artifact.analysis.totals
  IN /\ sums("decisions") = totals.decisions /\ totals.decisions = Len(traceLog)
     /\ sums("fallbacks") = totals.fallbacks
     /\ totals.fallbacks = totals.timeouts + totals.invalid
     /\ totals.fallbacks = Cardinality({i \in DOMAIN traceLog : traceLog[i].fallback})
     /\ \A x \in artifact.analysis.agents : \A h \in x.hands :
          \/ \E i \in DOMAIN played : played[i].number = h /\ x.agent \in DOMAIN played[i].before
          \/ ownHand.dealt.number = h /\ x.agent \in DOMAIN ownHand.dealt.before

\* What may keep a match from its artifact: nothing but a store that refuses, or is
\* full of traces; more bots than a table has seats, which the page does not let
\* through, or a guest in one of them; the owner's own hand; and his deleting the
\* table.  The last three do not happen to a scheduled match.
Excused ==
  /\ job.failure \in {"none", "storage", "trace_limit", "table_full"}
       \cup (IF job.by = "schedule" THEN {} ELSE {"hand_in_progress", "not_found"})
  /\ job.failure = "table_full" /\ job.by = "page" => Guest \in DOMAIN stacks
  /\ job.failure = "hand_in_progress" => ownHand.stage # "none"
  /\ job.failure = "not_found" => ~simTable.live

\* The artifact tells the match as it was played, however it ended and whoever
\* joined it or left; and what the page lets through the server carries out, unless
\* one of the causes above came to pass.
SimulationSound ==
  /\ artifact # NoArtifact =>
       HandsTold /\ DecisionsTold /\ (ownHand.stage = "none" => StacksTold)
  /\ submission = "done" => artifact # NoArtifact /\ PageAccepts(job.request)
  /\ Excused
=============================================================================
