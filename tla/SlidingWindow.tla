--------------------------- MODULE SlidingWindow ---------------------------
(* What the Task 4 limiter promises: every reserve() call takes effect at     *)
(* one instant or not at all.  Expiry, the sum, the decision and the insert   *)
(* are one step, over the clock value the caller sampled when it entered      *)
(* reserve(), which may be older than that of a call that has already         *)
(* committed.  Limiter implements this module statement by statement.         *)
EXTENDS TokenLedger

CONSTANTS
  Times,   \* the clock values a caller may have sampled
  NoCall   \* the value of request[c] before c is submitted

ASSUME TimesAssumption == Times \subseteq Nat
ASSUME NoCallAssumption == NoCall \notin Request

VARIABLES
  rows,     \* the committed token_events table
  request,  \* the arguments of each call and the instant it sampled
  verdict,  \* what its caller has been told
  granted,  \* history: every reservation ever committed
  newest,   \* history: the largest now_ms any committed transaction used
  lag       \* history: the most a granted request was behind newest

vars == <<rows, request, verdict, granted, newest, lag>>

Verdicts == {"none", "pending", "allowed", "denied", "error"}

TypeOK ==
  /\ rows \in SUBSET Row
  /\ granted \in SUBSET Row
  /\ request \in [Calls -> Request \cup {NoCall}]
  /\ verdict \in [Calls -> Verdicts]
  /\ newest \in Nat
  /\ lag \in Nat
  /\ \A c \in Calls : verdict[c] # "none" /\ verdict[c] # "error" => request[c] \in Request

Init ==
  /\ rows = {}
  /\ request = [c \in Calls |-> NoCall]
  /\ verdict = [c \in Calls |-> "none"]
  /\ granted = {}
  /\ newest = 0
  /\ lag = 0

\* A caller enters reserve(); its now_ms is fixed from here on.
Submit(c, t, n, now) ==
  /\ verdict[c] = "none"
  /\ request' = [request EXCEPT ![c] = [tenant |-> t, tokens |-> n, now |-> now]]
  /\ verdict' = [verdict EXCEPT ![c] = "pending"]
  /\ UNCHANGED <<rows, granted, newest, lag>>

\* The history a committed transaction leaves.
Observe(now) == newest' = IF now > newest THEN now ELSE newest
ObserveGrant(now) == lag' = IF newest - now > lag THEN newest - now ELSE lag

\* Mutant: a reservation that expires nothing.
GrantWithoutExpiry(c, told) ==
  LET q == request[c] IN
  /\ verdict[c] = "pending"
  /\ ~OverLimit(Usage(rows, q.tenant, q.now), q.tokens)
  /\ rows' = rows \cup {RowOf(c, q)}
  /\ granted' = granted \cup {RowOf(c, q)}
  /\ verdict' = [verdict EXCEPT ![c] = told]
  /\ Observe(q.now)
  /\ ObserveGrant(q.now)
  /\ UNCHANGED request

\* The transaction reserves.  The caller is told so, or fails to hear of it.
Grant(c, told) ==
  LET q == request[c] IN
  /\ verdict[c] = "pending"
  /\ ~OverLimit(Usage(rows, q.tenant, q.now), q.tokens)
  /\ rows' = Surviving(rows, q.now) \cup {RowOf(c, q)}
  /\ granted' = granted \cup {RowOf(c, q)}
  /\ verdict' = [verdict EXCEPT ![c] = told]
  /\ Observe(q.now)
  /\ ObserveGrant(q.now)
  /\ UNCHANGED request

\* The transaction refuses; what it expired stays expired.
Refuse(c, told) ==
  LET q == request[c] IN
  /\ verdict[c] = "pending"
  /\ OverLimit(Usage(rows, q.tenant, q.now), q.tokens)
  /\ rows' = Surviving(rows, q.now)
  /\ verdict' = [verdict EXCEPT ![c] = told]
  /\ Observe(q.now)
  /\ UNCHANGED <<request, granted, lag>>

\* Calls end without any effect on the table: an invalid token_count, an
\* error, or the death of the process that was serving all of them.
Abort(S) ==
  /\ \A c \in S : verdict[c] \in {"none", "pending"}
  /\ verdict' = [c \in Calls |-> IF c \in S THEN "error" ELSE verdict[c]]
  /\ UNCHANGED <<rows, request, granted, newest, lag>>

Next ==
  \/ \E c \in Calls, t \in Tenants, n \in 1..MaxTokens, now \in Times :
       Submit(c, t, n, now)
  \/ \E c \in Calls, told \in {"allowed", "error"} : Grant(c, told)
  \/ \E c \in Calls, told \in {"denied", "error"} : Refuse(c, told)
  \/ \E S \in SUBSET Calls : Abort(S)

Spec == Init /\ [][Next]_vars

(* The table never holds more than the limit for a tenant, whichever instant  *)
(* usage() is asked about: the DELETE of a grant leaves exactly the rows its  *)
(* SELECT counted (limiter.py:170-216).                                       *)
StoredWithinLimit == \A t \in Tenants : Tokens(OfTenant(rows, t)) <= LimitTokens

(* A reservation leaves the table only when it has left the window of some    *)
(* committed transaction, whatever the order in which calls commit.           *)
OnlyExpiredAreGone ==
  /\ rows \subseteq granted
  /\ \A r \in granted \ rows : r.at <= newest - WindowMs

(* usage() with a stale clock reports at least what the window of the newest  *)
(* committed clock holds and at most what was granted in its own window; it   *)
(* is exact when no later clock has committed (limiter.py:312-332).           *)
UsageSeesWindow ==
  \A t \in Tenants, now \in Times :
    /\ Usage(rows, t, now) <= Usage(granted, t, now)
    /\ Usage(rows, t, now) >= Usage(granted, t, IF now > newest THEN now ELSE newest)

\* The reservations of tenant t in the half-open interval (end - width, end].
Within(t, end, width) ==
  {r \in granted : r.tenant = t /\ r.at > end - width /\ r.at <= end}

(* No interval of the window's length, less the worst lag between a sampled   *)
(* clock and the newest one committed before it, was ever granted more than   *)
(* the limit.  Without lag this is the rolling-window promise itself.         *)
RollingWindowLessLag ==
  \A t \in Tenants, end \in Times :
    Tokens(Within(t, end, WindowMs - lag)) <= LimitTokens
=============================================================================
