---------------------------- MODULE TokenLedger ----------------------------
(* The vocabulary of the Task 4 limiter (task4_model_router/limiter.py): the  *)
(* rows of the token_events table, the sum the limiter takes over them, the   *)
(* sliding window, the admission test and the Retry-After computation.  It    *)
(* has no state; SlidingWindow (atomic) and Limiter (statement by statement)  *)
(* are both written with it.                                                  *)
EXTENDS Integers, FiniteSets

CONSTANTS
  Calls,        \* one element per execution of reserve()
  Tenants,      \* the hashed Bearer keys
  LimitTokens,  \* limit_tokens
  WindowMs,     \* window_ms
  MaxTokens     \* bound: the largest token_count a call asks for

\* SQLiteSlidingWindowLimiter.__init__ raises ValueError unless both are positive.
ASSUME LimitsAssumption ==
  /\ LimitTokens \in Nat \ {0}
  /\ WindowMs \in Nat \ {0}
  /\ MaxTokens \in Nat

ASSUME CallsAssumption == IsFiniteSet(Calls)

\* A row of token_events.  The id is AUTOINCREMENT in the code; the call that
\* inserted the row identifies it here, since a call inserts at most one.
Row == [id : Calls, tenant : Tenants, at : Nat, tokens : 1..MaxTokens]

\* What reserve() works with after hashing its key and sampling the clock.
Request == [tenant : Tenants, tokens : 1..MaxTokens, now : Nat]

\* COALESCE(SUM(token_count), 0): a row is worth as many units as it has
\* tokens, and the sum is the number of units.
Units(R) == {u \in R \X (1..MaxTokens) : u[2] <= u[1].tokens}
Tokens(R) == Cardinality(Units(R))

OfTenant(R, t) == {r \in R : r.tenant = t}

\* Mutant: the cutoff is one millisecond late.
SurvivingOffByOne(R, now) == {r \in R : r.at > now - WindowMs + 1}

\* DELETE ... WHERE occurred_at_ms <= cutoff leaves these: for every tenant,
\* and a row exactly at the cutoff is gone.
Surviving(R, now) == {r \in R : r.at > now - WindowMs}

\* Mutant: the cutoff is one millisecond late.
ActiveOffByOne(R, t, now) == {r \in R : r.tenant = t /\ r.at > now - WindowMs + 1}

\* SELECT ... WHERE tenant_hash = ? AND occurred_at_ms > cutoff
Active(R, t, now) == {r \in R : r.tenant = t /\ r.at > now - WindowMs}

\* usage(): the active sum of one tenant at one instant.
Usage(R, t, now) == Tokens(Active(R, t, now))

\* Mutant: the limit is tested before the request is added.
OverLimitBefore(sum, n) == sum >= LimitTokens

OverLimit(sum, n) == sum + n > LimitTokens

\* Mutant: the row is stamped with the cutoff.
RowAtCutoff(c, q) ==
  [id |-> c, tenant |-> q.tenant, at |-> q.now - WindowMs, tokens |-> q.tokens]

RowOf(c, q) == [id |-> c, tenant |-> q.tenant, at |-> q.now, tokens |-> q.tokens]

\* None: no amount of waiting admits a request larger than the limit.
Never == -1

\* Mutant: the loop goes on to the row after the one that releases the excess.
RetryAfterLate(R, t, now, sum, n) ==
  LET active == Active(R, t, now)
      enough == {r \in active :
                   Tokens({s \in active : s.at <= r.at}) > sum + n - LimitTokens}
  IN  IF enough = {} THEN Never
      ELSE (CHOOSE r \in enough : \A s \in enough : r.at <= s.at).at + WindowMs - now

\* _retry_after_seconds in milliseconds.  The code adds up the active rows in
\* order of occurred_at_ms until they release the excess; the row it stops at
\* is the earliest one whose predecessors (itself included) release it.  The
\* id only orders rows of one instant, which expire together.
RetryAfter(R, t, now, sum, n) ==
  LET excess == sum + n - LimitTokens
      active == Active(R, t, now)
      enough == {r \in active : Tokens({s \in active : s.at <= r.at}) >= excess}
      wait(r) == IF r.at + WindowMs - now < 1 THEN 1 ELSE r.at + WindowMs - now
  IN  IF enough = {} THEN Never
      ELSE wait(CHOOSE r \in enough : \A s \in enough : r.at <= s.at)
=============================================================================
