------------------------------ MODULE HttpAgent ------------------------------
(***************************************************************************)
(* An agent behind an HTTP endpoint: HttpAgentAdapter of a poker table or   *)
(* WerewolfHttpAgentAdapter of a match (agent-runtime/src), under the       *)
(* TimeoutHandler that asks it.  One seat's decisions are asked for one     *)
(* after the other, but a call may outlive the decision it was made for.    *)
(*                                                                          *)
(* There are two clocks: the adapter's, from the agent's own timeoutMs,     *)
(* which is cleared as soon as the headers are there, and the handler's,    *)
(* from the match's.  Neither need be the shorter one.  Time passes in      *)
(* ticks, and none passes a timer that is due.  What the endpoint does, and *)
(* when, is open: it owes no answer.                                        *)
(***************************************************************************)
EXTENDS Naturals

CONSTANTS HttpCalls,   \* bound: decisions asked for
          HttpTimeouts \* the values of timeoutMs, in ticks

ASSUME HttpAssumption == HttpCalls \in Nat /\ HttpTimeouts \subseteq Nat

Calls == 1 .. HttpCalls

VARIABLES endpoint, \* the adapter's class, its timeoutMs and the handler's
          fetches,  \* where each requestDecision of the adapter is
          aged,     \* the time since it was called
          verdicts, \* what the handler's promise was resolved with
          sockets   \* the calls whose connection is neither read to its end nor given up

httpVars == <<endpoint, fetches, aged, verdicts, sockets>>

-----------------------------------------------------------------------------
(* TimeoutHandler.                                                          *)

BugLastWins(q, v) == verdicts' = [verdicts EXCEPT ![q] = v]
Settles(q, v) == verdicts' = [verdicts EXCEPT ![q] = IF @ = "none" THEN v ELSE @]

Awaited(q) == fetches[q] # "idle" /\ verdicts[q] = "none"

Ask(q) ==
  /\ fetches[q] = "idle"
  /\ \A p \in 1 .. q - 1 : verdicts[p] # "none"
  /\ fetches' = [fetches EXCEPT ![q] = "fetching"]
  /\ sockets' = sockets \cup {q}
  /\ UNCHANGED <<endpoint, aged, verdicts>>

BugNoHandlerTimer(q) == FALSE
HandlerTimer(q) == Awaited(q) /\ aged[q] >= endpoint.handlerMs

HandlerTimesOut(q) ==
  /\ HandlerTimer(q)
  /\ Settles(q, "fallback")
  /\ UNCHANGED <<endpoint, fetches, aged, sockets>>

-----------------------------------------------------------------------------
(* requestDecision of the adapters.  Whatever it throws, the handler takes   *)
(* the fallback.                                                             *)

Throws(q) ==
  /\ fetches' = [fetches EXCEPT ![q] = "threw"]
  /\ Settles(q, "fallback")
  /\ UNCHANGED <<endpoint, aged>>

AdapterTimer(q) == fetches[q] = "fetching" /\ aged[q] >= endpoint.adapterMs

\* fetch rejects: its signal was aborted, or the network failed.
Aborts(q) == AdapterTimer(q) /\ Throws(q) /\ sockets' = sockets \ {q}
NetworkFails(q) == fetches[q] = "fetching" /\ Throws(q) /\ sockets' = sockets \ {q}

\* Headers with a status other than 2xx.  Only the werewolf adapter cancels the body.
BugLeavesBody(q) == sockets
AfterBadStatus(q) == IF endpoint.kind = "werewolf" THEN sockets \ {q} ELSE sockets
BadStatus(q) == fetches[q] = "fetching" /\ Throws(q) /\ sockets' = AfterBadStatus(q)

HeadersArrive(q) ==
  /\ fetches[q] = "fetching"
  /\ fetches' = [fetches EXCEPT ![q] = "reading"]
  /\ UNCHANGED <<endpoint, aged, verdicts, sockets>>

\* resp.json(): a body that the schema accepts, or one that breaks off, is no JSON or
\* is refused.
BodyArrives(q) ==
  /\ fetches[q] = "reading"
  /\ fetches' = [fetches EXCEPT ![q] = "answered"]
  /\ Settles(q, "answer")
  /\ sockets' = sockets \ {q}
  /\ UNCHANGED <<endpoint, aged>>
BodyRefused(q) == fetches[q] = "reading" /\ Throws(q) /\ sockets' = sockets \ {q}

\* The garbage collector finds a response that nobody read.
Reclaimed(q) ==
  /\ q \in sockets /\ fetches[q] = "threw"
  /\ sockets' = sockets \ {q}
  /\ UNCHANGED <<endpoint, fetches, aged, verdicts>>

\* Ages matter until the last timer has gone off.
Ages(q) == Awaited(q) \/ fetches[q] = "fetching"
HttpTick ==
  /\ \E q \in Calls : Ages(q)
  /\ \A q \in Calls : ~HandlerTimer(q) /\ ~AdapterTimer(q)
  /\ aged' = [q \in Calls |-> IF Ages(q) THEN aged[q] + 1 ELSE aged[q]]
  /\ UNCHANGED <<endpoint, fetches, verdicts, sockets>>

HttpInit ==
  /\ endpoint \in [kind : {"poker", "werewolf"},
                   adapterMs : HttpTimeouts, handlerMs : HttpTimeouts]
  /\ fetches = [q \in Calls |-> "idle"]
  /\ aged = [q \in Calls |-> 0]
  /\ verdicts = [q \in Calls |-> "none"]
  /\ sockets = {}

HttpNext ==
  \/ \E q \in Calls :
       \/ Ask(q) \/ HandlerTimesOut(q) \/ Aborts(q) \/ NetworkFails(q) \/ BadStatus(q)
       \/ HeadersArrive(q) \/ BodyArrives(q) \/ BodyRefused(q) \/ Reclaimed(q)
  \/ HttpTick

\* The clock, and the timers of the event loop; of the endpoint nothing is asked.
HttpFairness ==
  WF_httpVars(HttpTick \/ \E q \in Calls : HandlerTimesOut(q) \/ Aborts(q))

HttpSpec == HttpInit /\ [][HttpNext]_httpVars /\ HttpFairness

-----------------------------------------------------------------------------
(* Properties.                                                              *)

\* While no headers come, nobody waits longer than either timeout.  A werewolf match
\* leaves no connection behind but of calls that still run, which is what its adapter
\* cancels the body for.  And what a decision came to is said once, by an answer that was
\* read to its end or by the fallback, whatever comes of the call afterwards.
HttpInTime ==
  /\ [](\A q \in Calls :
          /\ fetches[q] = "fetching" => aged[q] <= endpoint.adapterMs
          /\ Awaited(q) => aged[q] <= endpoint.handlerMs
          /\ q \in sockets /\ endpoint.kind = "werewolf" => fetches[q] \in {"fetching", "reading"})
  /\ [][\A q \in Calls : verdicts'[q] # verdicts[q] =>
          /\ verdicts[q] = "none"
          /\ verdicts'[q] = "answer" <=> fetches'[q] = "answered"]_httpVars

\* A decision comes to an end, once and in time, whatever the endpoint does: it
\* falls silent before its headers or in the middle of a body, or answers a decision
\* that has long been taken by the fallback.
HttpSound == HttpInTime /\ []<>(\A q \in Calls : ~Awaited(q))
=============================================================================
