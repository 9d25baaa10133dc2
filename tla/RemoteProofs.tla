---------------------------- MODULE RemoteProofs ----------------------------
(***************************************************************************)
(* Agents that are far away.  For any number of requests, agents and       *)
(* runners, and any of them whose database calls fail: the mailbox's       *)
(* tables keep one row a request, and what a match acts on is what the     *)
(* actions table says for good.  And for any timeouts: a decision asked of *)
(* an HTTP endpoint is taken once and in time, whatever the endpoint does. *)
(***************************************************************************)
EXTENDS DecisionMailbox, HttpAgent, TLAPS

-----------------------------------------------------------------------------
(* The mailbox.                                                             *)


\* A request has a row just when it is in the queue, and none before the adapter's
\* insert; the adapter that goes on to fulfil has found an action.
Rows ==
  /\ \A q \in Requests : status[q] = "absent" <=> \A i \in DOMAIN queue : queue[i] # q
  /\ \A q \in Requests : adapter[q] \in {"idle", "inserting"} => status[q] = "absent"
Found == \A q \in Requests : adapter[q] = "found" => action[q] # None

MailboxInv == MailboxSound /\ Rows /\ Found

\* A row is inserted for a request that has none.
LEMMA InsertKeepsRows ==
  ASSUME TypeOK, Rows, NEW q \in Requests, InsertRow(q), adapter[q] = "inserting"
  PROVE  /\ queue' \in Seq(Requests)
         /\ \A i, j \in DOMAIN queue' : queue'[i] = queue'[j] => i = j
         /\ status' \in [Requests -> {"absent", "pending", "fulfilled", "expired", "aborted"}]
         /\ \A p \in Requests : status'[p] = IF p = q THEN "pending" ELSE status[p]
         /\ \A p \in Requests : status'[p] = "absent" <=> \A i \in DOMAIN queue' : queue'[i] # p
<1>1. /\ queue \in Seq(Requests) /\ \A i, j \in DOMAIN queue : queue[i] = queue[j] => i = j
      /\ status \in [Requests -> {"absent", "pending", "fulfilled", "expired", "aborted"}]
      /\ \A i \in DOMAIN queue : queue[i] # q
      /\ queue' = Append(queue, q) /\ status' = [status EXCEPT ![q] = "pending"]
  BY DEF TypeOK, Rows, InsertRow
<1>2. /\ queue' \in Seq(Requests) /\ DOMAIN queue = 1 .. Len(queue) /\ DOMAIN queue' = 1 .. Len(queue) + 1
      /\ Len(queue) \in Nat
      /\ \A i \in 1 .. Len(queue) : queue'[i] = queue[i]
      /\ queue'[Len(queue) + 1] = q
  BY <1>1
<1>3. \A i, j \in DOMAIN queue' : queue'[i] = queue'[j] => i = j
  BY <1>1, <1>2
<1>4. /\ status' \in [Requests -> {"absent", "pending", "fulfilled", "expired", "aborted"}]
      /\ \A p \in Requests : status'[p] = IF p = q THEN "pending" ELSE status[p]
  BY <1>1
<1>5. ASSUME NEW p \in Requests PROVE status'[p] = "absent" <=> \A i \in DOMAIN queue' : queue'[i] # p
  <2>1. CASE p = q
    <3>1. Len(queue) + 1 \in DOMAIN queue'
      BY <1>2
    <3> QED BY <1>2, <1>4, <2>1, <3>1
  <2>2. CASE p # q
    <3>1. status[p] = "absent" <=> \A i \in 1 .. Len(queue) : queue[i] # p
      BY <1>2 DEF Rows
    <3>2. \A i \in 1 .. Len(queue) + 1 : i \in 1 .. Len(queue) \/ i = Len(queue) + 1
      BY <1>2
    <3> QED BY <1>2, <1>4, <2>2, <3>1, <3>2
  <2> QED BY <2>1, <2>2
<1> QED BY <1>2, <1>3, <1>4, <1>5

\* A row once open may be closed; the answers in the actions table stay.
LEMMA CloseKeepsRows ==
  ASSUME TypeOK, Rows, NEW q \in Requests, NEW outcome \in {"fulfilled", "aborted"}, Close(q, outcome), UNCHANGED queue
  PROVE  /\ status' \in [Requests -> {"absent", "pending", "fulfilled", "expired", "aborted"}]
         /\ \A p \in Requests : status'[p] = "pending" => status[p] = "pending" /\ p # q
         /\ \A p \in Requests : status'[p] = "absent" <=> status[p] = "absent"
<1>1. status \in [Requests -> {"absent", "pending", "fulfilled", "expired", "aborted"}]
  BY DEF TypeOK
<1>2. status' = [status EXCEPT ![q] = IF @ = "pending" THEN outcome ELSE @]
  BY DEF Close
<1> QED BY <1>1, <1>2

LEMMA SettleKeepsDecisions ==
  ASSUME TypeOK, RowsMatchDecisions, NEW q \in Requests, NEW answer, Settle(q, answer), UNCHANGED action,
         answer = Fallback \/ (answer = action[q] /\ answer \in Runners)
  PROVE  /\ decision' \in [Requests -> Runners \cup {None, Fallback}]
         /\ \A p \in Requests : decision'[p] \in Runners => decision'[p] = action'[p]
BY MailboxAssumption DEF TypeOK, RowsMatchDecisions, Settle

\* Steps of the adapter.
LEMMA AdapterKeeps ==
  ASSUME MailboxInv, NEW q \in Requests,
         RequestDecision(q) \/ AdapterStep(q) \/ DatabaseFails(q) \/ TimerFires(q)
  PROVE  MailboxInv'
<1>0. TypeOK /\ RowsMatchDecisions /\ Rows /\ Found
  BY DEF MailboxInv, MailboxSound
<1> USE MailboxAssumption
<1>1. CASE RequestDecision(q)
  <2>1. /\ adapter[q] = "idle" /\ adapter' = [adapter EXCEPT ![q] = "inserting"]
        /\ UNCHANGED <<decision, queue, status, overdue, action, holding, submitting, inflight, faulted>>
    BY <1>1 DEF RequestDecision, At, table, runners
  <2> QED BY <1>0, <2>1 DEF MailboxInv, MailboxSound, TypeOK, RowsMatchDecisions, Rows, Found
<1>2. CASE EnqueueRequest(q)
  <2>1. /\ adapter[q] = "inserting" /\ adapter' = [adapter EXCEPT ![q] = "waiting"] /\ InsertRow(q)
        /\ UNCHANGED <<decision, overdue, action, holding, submitting, inflight, faulted>>
    BY <1>2 DEF EnqueueRequest, At, runners
  <2>2. /\ queue' \in Seq(Requests)
        /\ \A i, j \in DOMAIN queue' : queue'[i] = queue'[j] => i = j
        /\ status' \in [Requests -> {"absent", "pending", "fulfilled", "expired", "aborted"}]
        /\ \A p \in Requests : status'[p] = IF p = q THEN "pending" ELSE status[p]
        /\ \A p \in Requests : status'[p] = "absent" <=> \A i \in DOMAIN queue' : queue'[i] # p
    BY <1>0, <2>1, InsertKeepsRows
  <2>3. adapter' \in [Requests -> {"idle", "inserting", "waiting", "found", "cancelling", "answered", "rejected"}]
        /\ \A p \in Requests : adapter'[p] = IF p = q THEN "waiting" ELSE adapter[p]
    BY <1>0, <2>1 DEF TypeOK
  <2>4. TypeOK'
    BY <1>0, <2>1, <2>2, <2>3 DEF TypeOK
  <2>5. RowsMatchDecisions' /\ Rows' /\ Found'
    BY <1>0, <2>1, <2>2, <2>3 DEF RowsMatchDecisions, Rows, Found
  <2> QED BY <2>4, <2>5 DEF MailboxInv, MailboxSound
<1>3. CASE WaitForAction(q)
  <2>1. /\ adapter[q] = "waiting"
        /\ \/ action[q] # None /\ adapter' = [adapter EXCEPT ![q] = "found"]
           \/ adapter' = [adapter EXCEPT ![q] = "cancelling"]
        /\ UNCHANGED <<decision, queue, status, overdue, action, holding, submitting, inflight, faulted>>
    BY <1>3 DEF WaitForAction, DeadlinePasses, At, table, runners
  <2>2. /\ adapter' \in [Requests -> {"idle", "inserting", "waiting", "found", "cancelling", "answered", "rejected"}]
        /\ \A p \in Requests : p # q => adapter'[p] = adapter[p]
        /\ adapter'[q] \in {"found", "cancelling"} /\ (adapter'[q] = "found" => action[q] # None)
    BY <1>0, <2>1 DEF TypeOK
  <2> QED BY <1>0, <2>1, <2>2 DEF MailboxInv, MailboxSound, TypeOK, RowsMatchDecisions, Rows, Found
<1>4. ASSUME adapter[q] # "idle", NEW to \in {"answered", "rejected"}, adapter' = [adapter EXCEPT ![q] = to],
             NEW answer, Settle(q, answer), answer = Fallback \/ (answer = action[q] /\ answer \in Runners),
             UNCHANGED <<overdue, action, holding, submitting, inflight>>,
             \/ faulted' = faulted \cup {q} /\ \A p \in Requests : status'[p] = "pending" => status[p] = "pending" \/ p = q
             \/ faulted' = faulted /\ \A p \in Requests : status'[p] = "pending" => status[p] = "pending" /\ p # q,
             /\ queue' \in Seq(Requests)
             /\ \A i, j \in DOMAIN queue' : queue'[i] = queue'[j] => i = j
             /\ status' \in [Requests -> {"absent", "pending", "fulfilled", "expired", "aborted"}]
             /\ \A p \in Requests : status'[p] = "absent" <=> \A i \in DOMAIN queue' : queue'[i] # p
             /\ \A p \in Requests : p # q /\ status[p] = "absent" => status'[p] = "absent"
      PROVE  MailboxInv'
  <2>1. /\ adapter' \in [Requests -> {"idle", "inserting", "waiting", "found", "cancelling", "answered", "rejected"}]
        /\ \A p \in Requests : adapter'[p] = IF p = q THEN to ELSE adapter[p]
    BY <1>0, <1>4 DEF TypeOK
  <2>2. /\ decision' \in [Requests -> Runners \cup {None, Fallback}]
        /\ \A p \in Requests : decision'[p] \in Runners => decision'[p] = action'[p]
    BY <1>0, <1>4, SettleKeepsDecisions
  <2>3. TypeOK'
    BY <1>0, <1>4, <2>1, <2>2 DEF TypeOK
  <2>4. RowsMatchDecisions'
    BY <1>0, <1>4, <2>1, <2>2 DEF RowsMatchDecisions
  <2>5. Rows' /\ Found'
    BY <1>0, <1>4, <2>1 DEF Rows, Found
  <2> QED BY <2>3, <2>4, <2>5 DEF MailboxInv, MailboxSound
<1>5. ASSUME NEW outcome \in {"fulfilled", "aborted"}, UNCHANGED queue, Close(q, outcome) \/ UNCHANGED status
      PROVE  /\ queue' \in Seq(Requests)
             /\ \A i, j \in DOMAIN queue' : queue'[i] = queue'[j] => i = j
             /\ status' \in [Requests -> {"absent", "pending", "fulfilled", "expired", "aborted"}]
             /\ \A p \in Requests : status'[p] = "absent" <=> \A i \in DOMAIN queue' : queue'[i] # p
             /\ \A p \in Requests : p # q /\ status[p] = "absent" => status'[p] = "absent"
             /\ \A p \in Requests : status'[p] = "pending" => status[p] = "pending"
             /\ Close(q, outcome) => \A p \in Requests : status'[p] = "pending" => p # q
  <2>1. CASE Close(q, outcome)
    BY <1>0, <1>5, <2>1, CloseKeepsRows DEF TypeOK, Rows
  <2>2. CASE UNCHANGED status /\ ~Close(q, outcome)
    BY <1>0, <1>5, <2>2 DEF TypeOK, Rows
  <2> QED BY <1>5, <2>1, <2>2
<1>6. CASE MarkFulfilled(q)
  <2>1. /\ adapter[q] = "found" /\ adapter' = [adapter EXCEPT ![q] = "answered"]
        /\ Close(q, "fulfilled") /\ Settle(q, action[q])
        /\ UNCHANGED <<queue, overdue, action, holding, submitting, inflight, faulted>>
    BY <1>6 DEF MarkFulfilled, FulfilRow, At, runners
  <2>2. action[q] \in Runners
    BY <1>0, <2>1 DEF Found, TypeOK
  <2> QED BY <1>4, <1>5, <2>1, <2>2
<1>7. CASE CancelRequest(q)
  <2>1. /\ adapter[q] = "cancelling" /\ adapter' = [adapter EXCEPT ![q] = "rejected"]
        /\ Close(q, "aborted") /\ Settle(q, Fallback)
        /\ UNCHANGED <<queue, overdue, action, holding, submitting, inflight, faulted>>
    BY <1>7 DEF CancelRequest, At, runners
  <2> QED BY <1>4, <1>5, <2>1
<1>8. CASE DatabaseFails(q)
  <2>1. /\ adapter[q] # "idle" /\ adapter' = [adapter EXCEPT ![q] = "rejected"]
        /\ Settle(q, Fallback) /\ faulted' = faulted \cup {q}
        /\ UNCHANGED <<overdue, action, holding, submitting, inflight>>
    BY <1>8 DEF DatabaseFails, At, runners
  <2>2. CASE adapter[q] = "inserting" /\ InsertRow(q)
    <3>1. /\ queue' \in Seq(Requests)
          /\ \A i, j \in DOMAIN queue' : queue'[i] = queue'[j] => i = j
          /\ status' \in [Requests -> {"absent", "pending", "fulfilled", "expired", "aborted"}]
          /\ \A p \in Requests : status'[p] = IF p = q THEN "pending" ELSE status[p]
          /\ \A p \in Requests : status'[p] = "absent" <=> \A i \in DOMAIN queue' : queue'[i] # p
      BY <1>0, <2>2, InsertKeepsRows
    <3> QED BY <1>4, <2>1, <3>1
  <2>3. CASE UNCHANGED <<queue, status>>
    BY <1>4, <1>5, <2>1, <2>3
  <2>4. CASE UNCHANGED queue /\ (Close(q, "fulfilled") \/ Close(q, "aborted"))
    BY <1>4, <1>5, <2>1, <2>4
  <2> QED BY <1>8, <2>2, <2>3, <2>4 DEF DatabaseFails, FulfilRow, At
<1>9. CASE TimerFires(q)
  <2>1. Settle(q, Fallback) /\ UNCHANGED <<adapter, queue, status, overdue, action, holding, submitting, inflight, faulted>>
    BY <1>9 DEF TimerFires, table, runners
  <2>2. /\ decision' \in [Requests -> Runners \cup {None, Fallback}]
        /\ \A p \in Requests : decision'[p] \in Runners => decision'[p] = action'[p]
    BY <1>0, <2>1, SettleKeepsDecisions
  <2> QED BY <1>0, <2>1, <2>2 DEF MailboxInv, MailboxSound, TypeOK, RowsMatchDecisions, Rows, Found
<1> QED BY <1>1, <1>2, <1>3, <1>6, <1>7, <1>8, <1>9 DEF AdapterStep

\* Steps of the database by itself, and of the agents.
LEMMA OthersKeep ==
  ASSUME MailboxInv,
         \/ \E q \in Requests : TimePasses(q)
         \/ ExpireOverdue
         \/ \E r \in Runners : \/ ClaimNextRequest(r) \/ DecideFails(r)
                               \/ Submit(r) \/ SubmitTimesOut(r)
                               \/ \E q \in Requests : SubmitAction(r, q)
         \/ UNCHANGED vars
  PROVE  MailboxInv'
<1>0. TypeOK /\ RowsMatchDecisions /\ Rows /\ Found
  BY DEF MailboxInv, MailboxSound
<1> USE MailboxAssumption
<1>1. ASSUME NEW q \in Requests, TimePasses(q) PROVE MailboxInv'
  BY <1>0, <1>1 DEF TimePasses, runners, MailboxInv, MailboxSound, TypeOK, RowsMatchDecisions, Rows, Found
<1>2. CASE ExpireOverdue
  <2>1. /\ status' \in [Requests -> {"absent", "pending", "fulfilled", "expired", "aborted"}]
        /\ \A q \in Requests : /\ status'[q] = "pending" => status[q] = "pending"
                               /\ status'[q] = "absent" <=> status[q] = "absent"
    BY <1>0, <1>2 DEF ExpireOverdue, TypeOK
  <2>2. UNCHANGED <<adapter, decision, queue, overdue, action, holding, submitting, inflight, faulted>>
    BY <1>2 DEF ExpireOverdue, runners
  <2> QED BY <1>0, <2>1, <2>2 DEF MailboxInv, MailboxSound, TypeOK, RowsMatchDecisions, Rows, Found
<1>3. ASSUME UNCHANGED <<adapter, decision, queue, status, overdue, faulted>>,
             action' \in [Requests -> Runners \cup {None}], \A q \in Requests : action[q] # None => action'[q] = action[q],
             holding' \in [Runners -> Requests \cup {None}], submitting' \subseteq Runners,
             inflight' \subseteq Runners \X Requests
      PROVE  MailboxInv'
  BY <1>0, <1>3 DEF MailboxInv, MailboxSound, TypeOK, RowsMatchDecisions, Rows, Found
<1>4. ASSUME NEW r \in Runners, ClaimNextRequest(r) PROVE MailboxInv'
  <2>1. PICK i \in DOMAIN queue : holding' = [holding EXCEPT ![r] = queue[i]]
    BY <1>4 DEF ClaimNextRequest
  <2>2. queue[i] \in Requests
    BY <1>0 DEF TypeOK
  <2> QED BY <1>0, <1>3, <1>4, <2>1, <2>2 DEF ClaimNextRequest, TypeOK, table
<1>5. ASSUME NEW r \in Runners, DecideFails(r) \/ SubmitTimesOut(r) PROVE MailboxInv'
  BY <1>0, <1>3, <1>5 DEF DecideFails, SubmitTimesOut, TypeOK, table
<1>6. ASSUME NEW r \in Runners, Submit(r) PROVE MailboxInv'
  <2>1. holding[r] \in Requests
    BY <1>0, <1>6 DEF Submit, TypeOK
  <2> QED BY <1>0, <1>3, <1>6, <2>1 DEF Submit, TypeOK, table
<1>7. ASSUME NEW r \in Runners, NEW q \in Requests, SubmitAction(r, q) PROVE MailboxInv'
  <2>1. action' = [action EXCEPT ![q] = IF @ = None THEN r ELSE @]
    BY <1>7 DEF SubmitAction, InsertAction
  <2>2. /\ holding' \in [Runners -> Requests \cup {None}] /\ submitting' \subseteq Runners
        /\ inflight' \subseteq Runners \X Requests
    BY <1>0, <1>7 DEF SubmitAction, TypeOK
  <2>3. UNCHANGED <<adapter, decision, queue, status, overdue, faulted>>
    BY <1>7 DEF SubmitAction
  <2>4. action' \in [Requests -> Runners \cup {None}] /\ \A p \in Requests : action[p] # None => action'[p] = action[p]
    BY <1>0, <2>1 DEF TypeOK
  <2> QED BY <1>3, <2>2, <2>3, <2>4
<1>8. CASE UNCHANGED vars
  BY <1>0, <1>3, <1>8 DEF vars, table, runners, TypeOK
<1> QED BY <1>1, <1>2, <1>4, <1>5, <1>6, <1>7, <1>8

\* Rows, actions and the adapters' positions stay in step, whichever database
\* calls fail and however late answers arrive.
THEOREM MailboxInvariant == Spec => []MailboxInv
<1>1. Init => MailboxInv
  <2> SUFFICES ASSUME Init PROVE MailboxInv
    OBVIOUS
  <2>1. queue = <<>> /\ <<>> \in Seq(Requests) /\ DOMAIN queue = {}
    BY DEF Init
  <2> QED BY <2>1, MailboxAssumption DEF Init, MailboxInv, MailboxSound, TypeOK, RowsMatchDecisions, Rows, Found
<1>2. MailboxInv /\ [Next]_vars => MailboxInv'
  BY AdapterKeeps, OthersKeep DEF Next
<1> QED BY <1>1, <1>2, PTL DEF Spec

\* A request has one row; the answer a match acted on is and remains the one stored;
\* and while no database call fails, only a request somebody waits for can be
\* claimed.
THEOREM MailboxIsSound == Spec => []MailboxSound
BY MailboxInvariant, PTL DEF MailboxInv

-----------------------------------------------------------------------------
(* An agent behind an endpoint.                                             *)

HttpTypes ==
  /\ endpoint \in [kind : {"poker", "werewolf"}, adapterMs : Nat, handlerMs : Nat]
  /\ fetches \in [Calls -> {"idle", "fetching", "reading", "answered", "threw"}]
  /\ aged \in [Calls -> Nat]
  /\ verdicts \in [Calls -> {"none", "answer", "fallback"}]
  /\ sockets \subseteq Calls

\* A call's age stays within what is armed, it starts at nought, and a call that has
\* come to its end has a verdict.
CallInv(q) ==
  /\ fetches[q] = "fetching" => aged[q] <= endpoint.adapterMs
  /\ Awaited(q) => aged[q] <= endpoint.handlerMs
  /\ fetches[q] = "idle" => aged[q] = 0 /\ verdicts[q] = "none" /\ q \notin sockets
  /\ fetches[q] \in {"answered", "threw"} => verdicts[q] # "none"
  /\ fetches[q] = "answered" => q \notin sockets
  /\ q \in sockets /\ endpoint.kind = "werewolf" => fetches[q] \in {"fetching", "reading"}

HttpInv == HttpTypes /\ \A q \in Calls : CallInv(q)

\* What a step does to a verdict.
OneVerdict ==
  \A q \in Calls : verdicts'[q] # verdicts[q] =>
    /\ verdicts[q] = "none"
    /\ verdicts'[q] = "answer" <=> fetches'[q] = "answered"

LEMMA HttpStarts == HttpInit => HttpInv
<1> SUFFICES ASSUME HttpInit PROVE HttpInv
  OBVIOUS
<1>1. HttpTypes
  BY HttpAssumption DEF HttpInit, HttpTypes
<1>2. ASSUME NEW q \in Calls PROVE CallInv(q)
  BY <1>1 DEF HttpInit, HttpTypes, CallInv, Awaited
<1> QED BY <1>1, <1>2 DEF HttpInv

\* A step that is one call's and leaves the clock alone.
LEMMA CallStep ==
  ASSUME HttpInv, NEW q \in Calls,
         \/ Ask(q) \/ HandlerTimesOut(q) \/ Aborts(q) \/ NetworkFails(q) \/ BadStatus(q)
         \/ HeadersArrive(q) \/ BodyArrives(q) \/ BodyRefused(q) \/ Reclaimed(q)
  PROVE  HttpInv' /\ OneVerdict
<1>1. HttpTypes /\ CallInv(q)
  BY DEF HttpInv
<1>2. HttpTypes' /\ UNCHANGED <<endpoint, aged>>
  BY <1>1 DEF HttpTypes, Ask, HandlerTimesOut, Aborts, NetworkFails, BadStatus, HeadersArrive,
              BodyArrives, BodyRefused, Reclaimed, Throws, Settles, AfterBadStatus
<1>3. ASSUME NEW p \in Calls, p # q
      PROVE  fetches'[p] = fetches[p] /\ verdicts'[p] = verdicts[p] /\ (p \in sockets' <=> p \in sockets)
  BY <1>1, <1>3 DEF HttpTypes, Ask, HandlerTimesOut, Aborts, NetworkFails, BadStatus, HeadersArrive,
              BodyArrives, BodyRefused, Reclaimed, Throws, Settles, AfterBadStatus
<1>4. \A p \in Calls : p # q => CallInv(p)'
  BY <1>2, <1>3 DEF HttpInv, CallInv, Awaited
<1>5. CallInv(q)' /\ (verdicts'[q] # verdicts[q] =>
                       /\ verdicts[q] = "none"
                       /\ verdicts'[q] = "answer" <=> fetches'[q] = "answered")
  <2>1. CASE Ask(q)
    BY <1>1, <1>2, <2>1 DEF HttpTypes, CallInv, Awaited, Ask
  <2>2. CASE HandlerTimesOut(q)
    BY <1>1, <1>2, <2>2 DEF HttpTypes, CallInv, Awaited, HandlerTimesOut, HandlerTimer, Settles
  <2>3. CASE Aborts(q) \/ NetworkFails(q) \/ BodyRefused(q)
    BY <1>1, <1>2, <2>3 DEF HttpTypes, CallInv, Awaited, Aborts, AdapterTimer, NetworkFails,
                            BodyRefused, Throws, Settles
  <2>4. CASE BadStatus(q)
    BY <1>1, <1>2, <2>4 DEF HttpTypes, CallInv, Awaited, BadStatus, Throws, Settles, AfterBadStatus
  <2>5. CASE HeadersArrive(q)
    BY <1>1, <1>2, <2>5 DEF HttpTypes, CallInv, Awaited, HeadersArrive
  <2>6. CASE BodyArrives(q)
    BY <1>1, <1>2, <2>6 DEF HttpTypes, CallInv, Awaited, BodyArrives, Settles
  <2>7. CASE Reclaimed(q)
    BY <1>1, <1>2, <2>7 DEF HttpTypes, CallInv, Awaited, Reclaimed
  <2> QED BY <2>1, <2>2, <2>3, <2>4, <2>5, <2>6, <2>7
<1> QED BY <1>2, <1>3, <1>4, <1>5 DEF HttpInv, OneVerdict

\* Time passes no timer that is due.
LEMMA TickStep ==
  ASSUME HttpInv, HttpTick
  PROVE  HttpInv' /\ OneVerdict
<1>1. /\ UNCHANGED <<endpoint, fetches, verdicts, sockets>>
      /\ \A q \in Calls : ~HandlerTimer(q) /\ ~AdapterTimer(q)
      /\ aged' = [q \in Calls |-> IF Ages(q) THEN aged[q] + 1 ELSE aged[q]]
  BY DEF HttpTick
<1>2. HttpTypes'
  BY <1>1 DEF HttpInv, HttpTypes
<1>3. ASSUME NEW q \in Calls PROVE CallInv(q)'
  <2>1. CallInv(q) /\ HttpTypes
    BY DEF HttpInv
  <2>2. aged'[q] = IF Ages(q) THEN aged[q] + 1 ELSE aged[q]
    BY <1>1
  <2>3. fetches[q] = "fetching" => aged[q] < endpoint.adapterMs
    BY <1>1, <2>1 DEF AdapterTimer, HttpTypes
  <2>4. Awaited(q) => aged[q] < endpoint.handlerMs
    BY <1>1, <2>1 DEF HandlerTimer, HttpTypes
  <2> QED BY <1>1, <2>1, <2>2, <2>3, <2>4 DEF CallInv, Ages, Awaited, HttpTypes
<1> QED BY <1>1, <1>2, <1>3 DEF HttpInv, OneVerdict

LEMMA HttpStep ==
  ASSUME HttpInv, [HttpNext]_httpVars
  PROVE  HttpInv' /\ (OneVerdict \/ UNCHANGED httpVars)
<1>1. CASE HttpNext
  BY <1>1, CallStep, TickStep DEF HttpNext
<1>2. CASE UNCHANGED httpVars
  <2>1. UNCHANGED <<endpoint, fetches, aged, verdicts, sockets>>
    BY <1>2 DEF httpVars
  <2> QED BY <1>2, <2>1 DEF HttpInv, HttpTypes, CallInv, Awaited
<1> QED BY <1>1, <1>2

\* A decision asked of an endpoint is taken once and in time, for any two timeouts, the
\* adapter's and the handler's, and no connection of a werewolf match outlives its call:
\* the part of HttpSound that is not liveness.
THEOREM HttpIsInTime == HttpSpec => HttpInTime
<1> DEFINE Within == \A q \in Calls :
             /\ fetches[q] = "fetching" => aged[q] <= endpoint.adapterMs
             /\ Awaited(q) => aged[q] <= endpoint.handlerMs
             /\ q \in sockets /\ endpoint.kind = "werewolf" => fetches[q] \in {"fetching", "reading"}
           Verdict == \A q \in Calls : verdicts'[q] # verdicts[q] =>
             /\ verdicts[q] = "none"
             /\ verdicts'[q] = "answer" <=> fetches'[q] = "answered"
<1>1. HttpInv /\ [HttpNext]_httpVars => HttpInv' /\ [Verdict]_httpVars
  BY HttpStep DEF OneVerdict
<1>2. HttpInv => Within
  BY DEF HttpInv, CallInv
<1> HIDE DEF Within, Verdict
<1>3. HttpSpec => []Within /\ [][Verdict]_httpVars
  BY <1>1, <1>2, HttpStarts, PTL DEF HttpSpec
<1> QED BY <1>3 DEF HttpInTime, Within, Verdict
=============================================================================
