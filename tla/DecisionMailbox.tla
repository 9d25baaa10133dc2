--------------------------- MODULE DecisionMailbox ---------------------------
(***************************************************************************)
(* The mailbox through which a match asks agents that poll for work: the   *)
(* tables werewolf_decision_requests and werewolf_decision_actions         *)
(* (supabase/migrations/20260508020000_werewolf_decision_mailbox.sql and   *)
(* persistence/src/postgres/werewolf-decision-mailbox.ts), the adapter on  *)
(* the orchestrator's side (mailbox-agent-adapter.ts), and the agent       *)
(* programs on the other side of /wait and /action                         *)
(* (agent-runtime/src/werewolf-mailbox-runner.ts).                         *)
(*                                                                         *)
(* One match asks for its decisions one after the other.  Several runners  *)
(* may work for one agent.  Every await on the database is a step that may *)
(* fail, before or after the database did its part; a submission may       *)
(* arrive after its sender gave up on it.  An answer is identified with    *)
(* the runner that gave it.  The column fulfilled_at, which nothing reads, *)
(* is left out: a claim writes nothing else.                               *)
(*                                                                         *)
(* Operators named Bug... are mutations, as in WerewolfEngine.             *)
(***************************************************************************)
EXTENDS Naturals, Sequences

CONSTANTS
  NumRequests,   \* how many decisions the match asks for (the bound)
  Runners,       \* the WerewolfMailboxRunner processes
  AskedAgent,    \* the agent each request is for
  RunnerAgent,   \* the agent each runner works for
  None, Fallback \* no request or no answer; the answer of werewolfFallback

Requests == 1..NumRequests

ASSUME MailboxAssumption ==
  /\ NumRequests \in Nat
  /\ None \notin Runners \cup Requests /\ Fallback \notin Runners \cup {None}
  /\ DOMAIN AskedAgent = Requests /\ DOMAIN RunnerAgent = Runners

VARIABLES
  adapter,     \* where requestDecision is
  decision,    \* what the match runner's TimeoutHandler settled on
  queue,       \* the request rows in the order they were inserted
  status,      \* the status column of each row
  overdue,     \* the rows whose expires_at has passed
  action,      \* the rows of the actions table
  holding,     \* the claimed request each runner works on
  submitting,  \* the runners that wait for the response to their POST
  inflight,    \* the POST /action requests that the server has yet to handle
  faulted      \* (history) the requests a database call has failed for

vars == <<adapter, decision, queue, status, overdue, action,
          holding, submitting, inflight, faulted>>
table == <<queue, status, overdue, action>>
runners == <<holding, submitting, inflight>>

-----------------------------------------------------------------------------
(* The orchestrator's side.                                                 *)

\* The first of the agent's promise and the timer settles a decision.
Settle(q, answer) ==
  decision' = [decision EXCEPT ![q] = IF @ = None THEN answer ELSE @]
At(q, from, to) ==
  adapter[q] = from /\ adapter' = [adapter EXCEPT ![q] = to]
\* UPDATE ... WHERE status = 'pending'
Close(q, outcome) ==
  status' = [status EXCEPT ![q] = IF @ = "pending" THEN outcome ELSE @]

\* The match runner asks for the next decision when the last one is settled.
RequestDecision(q) ==
  /\ \A p \in 1..(q - 1) : decision[p] # None
  /\ At(q, "idle", "inserting")
  /\ UNCHANGED <<decision, table, runners, faulted>>

BugRetryInsertsTwice(q) ==
  /\ queue' = Append(Append(queue, q), q)
  /\ status' = [status EXCEPT ![q] = "pending"]
InsertRow(q) ==
  /\ queue' = Append(queue, q)
  /\ status' = [status EXCEPT ![q] = "pending"]

EnqueueRequest(q) ==
  /\ At(q, "inserting", "waiting")
  /\ InsertRow(q)
  /\ UNCHANGED <<decision, overdue, action, runners, faulted>>

\* The loop of waitForAction ends with an action, or with the deadline.
BugWaitsForever(q) == FALSE
DeadlinePasses(q) == At(q, "waiting", "cancelling")
WaitForAction(q) ==
  /\ \/ action[q] # None /\ At(q, "waiting", "found")
     \/ DeadlinePasses(q)
  /\ UNCHANGED <<decision, table, runners, faulted>>

BugKeepsRow(q) == UNCHANGED status
FulfilRow(q) == Close(q, "fulfilled")
MarkFulfilled(q) ==
  /\ At(q, "found", "answered")
  /\ FulfilRow(q)
  /\ Settle(q, action[q])
  /\ UNCHANGED <<queue, overdue, action, runners, faulted>>

CancelRequest(q) ==
  /\ At(q, "cancelling", "rejected")
  /\ Close(q, "aborted")
  /\ Settle(q, Fallback)
  /\ UNCHANGED <<queue, overdue, action, runners, faulted>>

\* A database call of the adapter fails, be it that the statement was executed
\* or not; requestDecision throws without a further call (the error of
\* cancelRequest is swallowed, but there it was about to throw anyway).
DatabaseFails(q) ==
  /\ \/ /\ At(q, "inserting", "rejected")
        /\ InsertRow(q) \/ UNCHANGED <<queue, status>>
     \/ /\ At(q, "waiting", "rejected")
        /\ UNCHANGED <<queue, status>>
     \/ /\ At(q, "found", "rejected")
        /\ FulfilRow(q) \/ UNCHANGED status
        /\ UNCHANGED queue
     \/ /\ At(q, "cancelling", "rejected")
        /\ Close(q, "aborted") \/ UNCHANGED status
        /\ UNCHANGED queue
  /\ Settle(q, Fallback)
  /\ faulted' = faulted \cup {q}
  /\ UNCHANGED <<overdue, action, runners>>

\* The TimeoutHandler's timer; the adapter goes on with what it was doing.
TimerFires(q) ==
  /\ adapter[q] # "idle" /\ decision[q] = None
  /\ Settle(q, Fallback)
  /\ UNCHANGED <<adapter, table, runners, faulted>>

-----------------------------------------------------------------------------
(* The database by itself.                                                  *)

\* The expires_at of a row passes (of a row no longer pending, nobody asks).
TimePasses(q) ==
  /\ status[q] = "pending" /\ q \notin overdue
  /\ overdue' = overdue \cup {q}
  /\ UNCHANGED <<adapter, decision, queue, status, action, runners, faulted>>

\* expire_old_werewolf_decision_requests, called from outside the repository.
ExpireOverdue ==
  /\ status' = [q \in Requests |-> IF status[q] = "pending" /\ q \in overdue
                                   THEN "expired" ELSE status[q]]
  /\ status' # status
  /\ UNCHANGED <<adapter, decision, queue, overdue, action, runners, faulted>>

-----------------------------------------------------------------------------
(* The agent's side.                                                        *)

\* claim_next_werewolf_decision_request, which leaves the status as it is.
Claimable(agent, q) == AskedAgent[q] = agent /\ status[q] = "pending" /\ q \notin overdue
ClaimNextRequest(r) ==
  /\ holding[r] = None
  /\ \E i \in DOMAIN queue :
       /\ Claimable(RunnerAgent[r], queue[i])
       /\ \A j \in 1..(i - 1) : ~Claimable(RunnerAgent[r], queue[j])
       /\ holding' = [holding EXCEPT ![r] = queue[i]]
  /\ UNCHANGED <<adapter, decision, table, submitting, inflight, faulted>>

\* decide throws, or the runner is restarted: it loops without submitting.
DecideFails(r) ==
  /\ holding[r] # None /\ r \notin submitting
  /\ holding' = [holding EXCEPT ![r] = None]
  /\ UNCHANGED <<adapter, decision, table, submitting, inflight, faulted>>

Submit(r) ==
  /\ holding[r] # None /\ r \notin submitting
  /\ submitting' = submitting \cup {r}
  /\ inflight' = inflight \cup {<<r, holding[r]>>}
  /\ UNCHANGED <<adapter, decision, table, holding, faulted>>

\* The insert into the actions table: the primary key admits one per request.
BugUpsert(r, q) == action' = [action EXCEPT ![q] = r]
InsertAction(r, q) == action' = [action EXCEPT ![q] = IF @ = None THEN r ELSE @]

\* POST /action, whatever has become of the row or of the sender by now.
SubmitAction(r, q) ==
  /\ <<r, q>> \in inflight
  /\ inflight' = inflight \ {<<r, q>>}
  /\ InsertAction(r, q)
  /\ IF r \in submitting /\ holding[r] = q
     THEN /\ submitting' = submitting \ {r}
          /\ holding' = [holding EXCEPT ![r] = None]
     ELSE UNCHANGED <<submitting, holding>>
  /\ UNCHANGED <<adapter, decision, queue, status, overdue, faulted>>

\* The runner gives up on its POST, which is still under way.  (Had it been
\* lost, that would be DecideFails.)
SubmitTimesOut(r) ==
  /\ r \in submitting
  /\ submitting' = submitting \ {r}
  /\ holding' = [holding EXCEPT ![r] = None]
  /\ UNCHANGED <<adapter, decision, table, inflight, faulted>>

-----------------------------------------------------------------------------
Init ==
  /\ adapter = [q \in Requests |-> "idle"] /\ decision = [q \in Requests |-> None]
  /\ queue = <<>> /\ status = [q \in Requests |-> "absent"] /\ overdue = {}
  /\ action = [q \in Requests |-> None]
  /\ holding = [r \in Runners |-> None] /\ submitting = {} /\ inflight = {}
  /\ faulted = {}

AdapterStep(q) ==
  EnqueueRequest(q) \/ WaitForAction(q) \/ MarkFulfilled(q) \/ CancelRequest(q)

Next ==
  \/ \E q \in Requests : \/ RequestDecision(q) \/ AdapterStep(q) \/ DatabaseFails(q)
                         \/ TimerFires(q) \/ TimePasses(q)
  \/ ExpireOverdue
  \/ \E r \in Runners : \/ ClaimNextRequest(r) \/ DecideFails(r)
                        \/ Submit(r) \/ SubmitTimesOut(r)
                        \/ \E q \in Requests : SubmitAction(r, q)

\* The event loop runs the adapter's continuations.  Nothing is asked of the
\* agents, of the sweeper, or of the match runner's timer.
Fairness == \A q \in Requests : WF_vars(AdapterStep(q))
Spec == Init /\ [][Next]_vars /\ Fairness

-----------------------------------------------------------------------------
(* Properties.                                                              *)

\* The types of the columns and of the processes' states; a request has one
\* row, as unique (match_id, sequence) demands.
TypeOK ==
  /\ adapter \in [Requests -> {"idle", "inserting", "waiting", "found", "cancelling",
                               "answered", "rejected"}]
  /\ decision \in [Requests -> Runners \cup {None, Fallback}]
  /\ queue \in Seq(Requests)
  /\ \A i, j \in DOMAIN queue : queue[i] = queue[j] => i = j
  /\ status \in [Requests -> {"absent", "pending", "fulfilled", "expired", "aborted"}]
  /\ overdue \subseteq Requests /\ faulted \subseteq Requests
  /\ action \in [Requests -> Runners \cup {None}]
  /\ holding \in [Runners -> Requests \cup {None}]
  /\ submitting \subseteq Runners /\ inflight \subseteq Runners \X Requests

\* What the match acts on and what the tables say agree.  "The orchestrator will
\* use the first": an answer acted on is the one the actions table holds for that
\* request, for good, although a duplicated runner or a late POST may have answered
\* again.  And while no database call fails, a row is open to claims only as long
\* as somebody waits for it, even if the match runner's timer went off first.
RowsMatchDecisions ==
  /\ \A q \in Requests : decision[q] \in Runners => decision[q] = action[q]
  /\ \A q \in Requests \ faulted :
       status[q] = "pending" => adapter[q] \in {"waiting", "found", "cancelling"}

\* The mailbox is sound: its states are of their types, one row a request, and rows
\* and decisions agree.
MailboxSound == TypeOK /\ RowsMatchDecisions

\* What the SQL comment says of the claim (20260508020000_...:125-127, "so concurrent
\* /wait calls from a duplicated runner don't both claim the same row") and
\* werewolf-decision-mailbox.ts:204-205 ("one gets the row, the other gets null"): two
\* runners do not work on one request.  The claim leaves the row pending, and they do.
ClaimedByOne ==
  \A r, s \in Runners : r # s /\ holding[r] # None => holding[r] # holding[s]

\* requestDecision always comes to an end, and then the decision is settled,
\* whatever agents, timer and sweeper do: a silent agent cannot hold a match.
RequestsEnd ==
  []<>\A q \in Requests :
        adapter[q] = "idle" \/ (adapter[q] \in {"answered", "rejected"} /\ decision[q] # None)
=============================================================================
