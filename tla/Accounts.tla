------------------------------- MODULE Accounts -------------------------------
(***************************************************************************)
(* Accounts and sessions: the auth plugin's onRequest hook and sessions.ts  *)
(* (packages/auth), the SQLite user and session stores, the /auth routes    *)
(* and the rate limiter in front of login and register.                     *)
(*                                                                          *)
(* One browser with several requests open at a time.  Each await of a       *)
(* handler is a step of its own, so the requests interleave between finding *)
(* a session and touching it, and answers may arrive in any order.          *)
(***************************************************************************)
EXTENDS Naturals, Sequences, FiniteSets

CONSTANTS Emails,
          SessionTtl,           \* ttlMs
          RateWindow, RateMax,  \* windowMs and max of the rate limiter
          MaxCalls, MaxSessions, MaxHits, MaxClock \* bounds of the model

ASSUME AccountsAssumption ==
  {SessionTtl, RateWindow, RateMax} \subseteq Nat \ {0} /\ MaxSessions \in Nat

VARIABLES clock,
          accounts,  \* rows of users: id and email
          sessions,  \* rows of sessions: NoSession, or user and expiry
          jar,       \* the browser's cookie: a session and its expiry, or NoCookie
          calls,     \* the browser's open requests
          destroyed, \* sessions that were deleted
          hits,      \* the limiter's entry for the browser's address
          passes     \* when it let a request pass

accountVars == <<clock, accounts, sessions, jar, calls, destroyed, hits, passes>>
limiter == <<hits, passes>>

Kinds == {"visit", "bearer", "register", "login", "logout"}
Limited == {"register", "login"}
NoSession == [user |-> "none", until |-> 0]
NoCookie == [sid |-> 0, until |-> 0]
NoHits == [count |-> 0, resetAt |-> 0]
Open == [at |-> "free"]
Sids == 1..MaxSessions
Unissued == {s \in Sids : sessions[s] = NoSession /\ s \notin destroyed}

Registered(e) == \E a \in accounts : a.email = e
AccountOf(e) == CHOOSE a \in accounts : a.email = e

\* Call c goes on to stage `at`; what else changes follows.
At(c, at) == calls' = [calls EXCEPT ![c].at = at]
Ends(c, cookie) == calls' = [calls EXCEPT ![c] = [at |-> "answered", cookie |-> cookie]]
Keep == [does |-> "keep"]
Clear == [does |-> "clear"]
Set(sid) == [does |-> "set", sid |-> sid]
\* A handler that sets no cookie of its own leaves the hook's.
HookCookie(c) == IF calls[c].stale THEN Clear ELSE Keep

Tick == /\ clock < MaxClock /\ clock' = clock + 1
        /\ UNCHANGED <<accounts, sessions, jar, calls, destroyed, limiter>>

-----------------------------------------------------------------------------
(* The request and the onRequest hook.                                      *)

\* A browser sends its cookie until it expires; a bearer token goes without.
Send(c, kind, email) ==
  /\ calls[c] = Open
  /\ calls' = [calls EXCEPT ![c] =
       [at |-> "hook", kind |-> kind, email |-> email, stale |-> FALSE,
        sid |-> IF kind = "bearer" \/ jar.until <= clock THEN 0 ELSE jar.sid]]
  /\ UNCHANGED <<clock, accounts, sessions, jar, destroyed, limiter>>

AfterHook(kind) == IF kind \in Limited THEN "limiter" ELSE "handler"

\* validateSession, first half.
Live(s) == sessions[s] # NoSession /\ sessions[s].until > clock
FindSession(c) ==
  /\ calls[c].at = "hook"
  /\ LET call == calls[c] IN
     IF call.sid # 0 /\ Live(call.sid) THEN At(c, "touch")
     ELSE calls' = [calls EXCEPT ![c] =
            [at |-> AfterHook(call.kind), kind |-> call.kind, email |-> call.email,
             stale |-> call.sid # 0, sid |-> 0]]
  /\ UNCHANGED <<clock, accounts, sessions, jar, destroyed, limiter>>

\* ... and the second: an UPDATE, which brings no deleted row back.
BugUpserts(s) == [sessions EXCEPT ![s].until = clock + SessionTtl]
Touched(s) == IF sessions[s] = NoSession THEN sessions
              ELSE [sessions EXCEPT ![s].until = clock + SessionTtl]
TouchSession(c) ==
  /\ calls[c].at = "touch"
  /\ sessions' = Touched(calls[c].sid)
  /\ At(c, AfterHook(calls[c].kind))
  /\ UNCHANGED <<clock, accounts, jar, destroyed, limiter>>

-----------------------------------------------------------------------------
(* RateLimiter.check, and prune.                                            *)

WithinMax(n) == n <= RateMax

CheckRate(c) ==
  /\ calls[c].at = "limiter"
  /\ Len(passes) < MaxHits /\ hits.count < MaxHits
  /\ LET fresh == hits = NoHits \/ hits.resetAt <= clock
         entry == IF fresh THEN [count |-> 1, resetAt |-> clock + RateWindow]
                  ELSE [hits EXCEPT !.count = @ + 1]
     IN /\ hits' = entry
        /\ IF fresh \/ WithinMax(entry.count)
           THEN passes' = Append(passes, clock) /\ At(c, "handler")
           ELSE passes' = passes /\ Ends(c, HookCookie(c))
  /\ UNCHANGED <<clock, accounts, sessions, jar, destroyed>>

\* The map has grown past its threshold, by other addresses.
BugPrunesAll == hits # NoHits
MayPrune == hits # NoHits /\ hits.resetAt <= clock
Prune ==
  /\ MayPrune
  /\ hits' = NoHits
  /\ UNCHANGED <<clock, accounts, sessions, jar, calls, destroyed, passes>>

-----------------------------------------------------------------------------
(* The handlers.                                                            *)

Visit(c) ==
  /\ calls[c].at = "handler" /\ calls[c].kind = "visit"
  /\ Ends(c, HookCookie(c))
  /\ UNCHANGED <<clock, accounts, sessions, jar, destroyed, limiter>>

\* materializeJwtUser: finds by email, then hashes a password, then inserts.
FindByEmail(c) ==
  /\ calls[c].at = "handler" /\ calls[c].kind = "bearer"
  /\ IF Registered(calls[c].email) THEN Ends(c, Keep) ELSE At(c, "insert")
  /\ UNCHANGED <<clock, accounts, sessions, jar, destroyed, limiter>>

\* The password of a registration is hashed before the insert as well.
HashPassword(c) ==
  /\ calls[c].at = "handler" /\ calls[c].kind = "register"
  /\ At(c, "insert")
  /\ UNCHANGED <<clock, accounts, sessions, jar, destroyed, limiter>>

\* The table has a unique index on the email.
BugNoUniqueIndex(e) == FALSE
EmailTaken(e) == Registered(e)

CreateUser(c) ==
  /\ calls[c].at = "insert"
  /\ LET call == calls[c] IN
     IF EmailTaken(call.email) THEN accounts' = accounts /\ Ends(c, HookCookie(c))
     ELSE /\ accounts' = accounts \cup {[id |-> call.kind, email |-> call.email]}
          /\ IF call.kind = "bearer" THEN Ends(c, Keep) ELSE At(c, "issue")
  /\ UNCHANGED <<clock, sessions, jar, destroyed, limiter>>

\* findByEmail and verifyPassword: an account made from a token has no password.
VerifyPassword(c) ==
  /\ calls[c].at = "handler" /\ calls[c].kind = "login"
  /\ \/ /\ [id |-> "register", email |-> calls[c].email] \in accounts
        /\ At(c, IF calls[c].sid # 0 THEN "destroy" ELSE "issue")
     \/ Ends(c, HookCookie(c))
  /\ UNCHANGED <<clock, accounts, sessions, jar, destroyed, limiter>>

DestroySession(c) ==
  /\ \/ calls[c].at = "destroy"
     \/ calls[c].at = "handler" /\ calls[c].kind = "logout" /\ calls[c].sid # 0
  /\ sessions' = [sessions EXCEPT ![calls[c].sid] = NoSession]
  /\ destroyed' = destroyed \cup {calls[c].sid}
  /\ IF calls[c].kind = "logout" THEN Ends(c, Clear) ELSE At(c, "issue")
  /\ UNCHANGED <<clock, accounts, jar, limiter>>

LogoutAnonymous(c) ==
  /\ calls[c].at = "handler" /\ calls[c].kind = "logout" /\ calls[c].sid = 0
  /\ Ends(c, Clear)
  /\ UNCHANGED <<clock, accounts, sessions, jar, destroyed, limiter>>

\* A session id is random: any that was never issued.
CreateSession(c) ==
  /\ calls[c].at = "issue" /\ Unissued # {}
  /\ LET s == CHOOSE t \in Unissued : \A u \in Unissued : t <= u
     IN /\ sessions' = [sessions EXCEPT ![s] = [user |-> AccountOf(calls[c].email).id,
                                                until |-> clock + SessionTtl]]
        /\ Ends(c, Set(s))
  /\ UNCHANGED <<clock, accounts, jar, destroyed, limiter>>

\* The cookie's Max-Age runs from here, and no later request renews it.
Receive(c) ==
  /\ calls[c].at = "answered"
  /\ \/ calls[c].cookie = Keep /\ jar' = jar
     \/ calls[c].cookie = Clear /\ jar' = NoCookie
     \/ \E s \in Sids :
          calls[c].cookie = Set(s) /\ jar' = [sid |-> s, until |-> clock + SessionTtl]
  /\ calls' = [calls EXCEPT ![c] = Open]
  /\ UNCHANGED <<clock, accounts, sessions, destroyed, limiter>>

-----------------------------------------------------------------------------
AccountsInit ==
  /\ clock = 0 /\ accounts = {} /\ sessions = [s \in Sids |-> NoSession]
  /\ jar = NoCookie /\ calls = [c \in 1..MaxCalls |-> Open]
  /\ destroyed = {} /\ hits = NoHits /\ passes = <<>>

AccountsNext ==
  \/ Tick \/ Prune
  \/ \E c \in 1..MaxCalls :
       \/ \E kind \in Kinds, e \in Emails : Send(c, kind, e)
       \/ FindSession(c) \/ TouchSession(c) \/ CheckRate(c) \/ Visit(c)
       \/ FindByEmail(c) \/ HashPassword(c) \/ CreateUser(c) \/ VerifyPassword(c)
       \/ DestroySession(c) \/ LogoutAnonymous(c) \/ CreateSession(c) \/ Receive(c)

AccountsSpec == AccountsInit /\ [][AccountsNext]_accountVars

-----------------------------------------------------------------------------
PassesIn(from) == Cardinality({i \in DOMAIN passes :
                                 passes[i] \in from..(from + RateWindow - 1)})

\* Accounts are sound.  A session that was logged out of, or replaced by a new
\* login, never lives again, whatever other request had found it before; an email
\* has one account, also when a registration and a first bearer request race; and
\* the limiter lets at most twice its maximum through in any stretch as long as
\* its window, which is what a counter restarted by the first hit after it gives.
AccountsSound ==
  /\ \A s \in destroyed : sessions[s] = NoSession
  /\ \A s \in Sids : sessions[s] # NoSession => \E a \in accounts : a.id = sessions[s].user
  /\ \A a, b \in accounts : a.email = b.email => a = b
  /\ \A t \in 0..clock : PassesIn(t) <= 2 * RateMax
=============================================================================
