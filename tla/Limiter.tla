------------------------------ MODULE Limiter ------------------------------
(* SQLiteSlidingWindowLimiter.reserve() (task4_model_router/limiter.py), one  *)
(* action per SQL statement, for any number of overlapping calls of any       *)
(* number of tasks and processes on one database file.  Between two           *)
(* statements of a call anything else may run: other calls, an exception, a   *)
(* cancellation, the clock (which may be set back), the death of the process. *)
EXTENDS TokenLedger

CONSTANTS
  NoCall,    \* the value of request[c] before c is made
  Nobody,    \* the value of writer when no transaction holds the write lock
  Counts,    \* the token_count arguments callers pass, valid or not
  MaxClock,  \* bound: the last instant modelled
  Settable   \* whether the wall clock can be set back

ASSUME NoCallAssumption == NoCall \notin Request
ASSUME NobodyAssumption == Nobody \notin Calls
ASSUME CountsAssumption == Counts \subseteq 0..MaxTokens
ASSUME MaxClockAssumption == MaxClock \in Nat
ASSUME SettableAssumption == Settable \in BOOLEAN

VARIABLES
  clock,    \* time.time_ns() // 1_000_000
  up,       \* the gateway process is running and initialize() has returned
  db,       \* the committed token_events table
  writer,   \* the call whose BEGIN IMMEDIATE holds the write lock, or Nobody
  view,     \* the table as the writer's own transaction sees it
  pc,       \* the statement each call is about to execute, or its outcome
  request,  \* the arguments of each call and the now_ms it sampled
  used,     \* used_tokens of each call
  retry,    \* retry_after of each call, in milliseconds
  granted,  \* history: every row ever committed
  newest,   \* history: the largest now_ms any committed transaction used
  lag       \* history: the most a granted call was behind newest

vars == <<clock, up, db, writer, view, pc, request, used, retry, granted, newest, lag>>
ghosts == <<granted, newest, lag>>

InTransaction == {"delete", "select", "retry", "insert", "grant", "deny", "rollback"}
Settled == {"allowed", "denied", "failed", "lost"}

\* usage(), by a reader that sees the committed table at instant now.
UsageAt(t, now) == Usage(db, t, now)

Init ==
  /\ clock \in 0..MaxClock
  /\ up = FALSE
  /\ db = {}
  /\ writer = Nobody
  /\ view = {}
  /\ pc = [c \in Calls |-> "idle"]
  /\ request = [c \in Calls |-> NoCall]
  /\ used = [c \in Calls |-> 0]
  /\ retry = [c \in Calls |-> Never]
  /\ granted = {}
  /\ newest = 0
  /\ lag = 0

Goto(c, label) == pc' = [pc EXCEPT ![c] = label]

\* Mutant: the table is created anew at every start.
InitializeDropsTable ==
  /\ ~up
  /\ up' = TRUE
  /\ db' = {}
  /\ UNCHANGED <<clock, writer, view, pc, request, used, retry, ghosts>>

\* CREATE TABLE and CREATE INDEX ... IF NOT EXISTS: a table that is there
\* keeps its rows.
Initialize ==
  /\ ~up
  /\ up' = TRUE
  /\ UNCHANGED <<clock, db, writer, view, pc, request, used, retry, ghosts>>

Tick ==
  /\ clock < MaxClock
  /\ clock' = clock + 1
  /\ UNCHANGED <<up, db, writer, view, pc, request, used, retry, ghosts>>

\* time_ns() reads the wall clock, which NTP or an operator can set back.
SetBack ==
  /\ Settable
  /\ clock' \in 0 .. clock - 1
  /\ UNCHANGED <<up, db, writer, view, pc, request, used, retry, ghosts>>

\* Mutant: token_count is not validated.
CallUnchecked(c, t, n) ==
  /\ up
  /\ pc[c] = "idle"
  /\ request' = [request EXCEPT ![c] = [tenant |-> t, tokens |-> n, now |-> clock]]
  /\ Goto(c, "begin")
  /\ UNCHANGED <<clock, up, db, writer, view, used, retry, ghosts>>

\* reserve() up to the connection: the clock is sampled here, before the lock.
Call(c, t, n) ==
  /\ up
  /\ pc[c] = "idle"
  /\ n > 0
  /\ request' = [request EXCEPT ![c] = [tenant |-> t, tokens |-> n, now |-> clock]]
  /\ Goto(c, "begin")
  /\ UNCHANGED <<clock, up, db, writer, view, used, retry, ghosts>>

\* token_count <= 0: ValueError, before the database is opened.
CallRejected(c, n) ==
  /\ up
  /\ pc[c] = "idle"
  /\ n = 0
  /\ Goto(c, "failed")
  /\ UNCHANGED <<clock, up, db, writer, view, request, used, retry, ghosts>>

\* Mutant: a plain BEGIN, which does not wait for other writers.
BeginDeferred(c) ==
  /\ pc[c] = "begin"
  /\ writer' = c
  /\ view' = db
  /\ Goto(c, "delete")
  /\ UNCHANGED <<clock, up, db, request, used, retry, ghosts>>

\* BEGIN IMMEDIATE takes the write lock, and with it a view of the committed table.
Begin(c) ==
  /\ pc[c] = "begin"
  /\ writer = Nobody
  /\ writer' = c
  /\ view' = db
  /\ Goto(c, "delete")
  /\ UNCHANGED <<clock, up, db, request, used, retry, ghosts>>

\* The file cannot be opened, the lock stays taken for the whole busy timeout,
\* or the caller is cancelled while it waits.  BEGIN is outside the try block:
\* there is nothing to roll back.
BeginFails(c) ==
  /\ pc[c] = "begin"
  /\ Goto(c, "failed")
  /\ UNCHANGED <<clock, up, db, writer, view, request, used, retry, ghosts>>

\* Mutant: a cancelled call keeps the lock its thread was waiting for.
BeginUnheardKeepsLock(c) ==
  /\ pc[c] = "begin"
  /\ writer = Nobody
  /\ writer' = c
  /\ view' = db
  /\ Goto(c, "failed")
  /\ UNCHANGED <<clock, up, db, request, used, retry, ghosts>>

\* The caller is cancelled while the connection's thread waits for the lock:
\* the thread takes it all the same, and only the close() queued behind it
\* gives it back.
BeginUnheard(c) ==
  /\ pc[c] = "begin"
  /\ writer = Nobody
  /\ writer' = c
  /\ view' = db
  /\ Goto(c, "rollback")
  /\ UNCHANGED <<clock, up, db, request, used, retry, ghosts>>

\* The expiry of every tenant's rows, against the caller's own cutoff.
Delete(c) ==
  /\ pc[c] = "delete"
  /\ view' = Surviving(view, request[c].now)
  /\ Goto(c, "select")
  /\ UNCHANGED <<clock, up, db, writer, request, used, retry, ghosts>>

\* The sum and the decision taken on it.
Select(c) ==
  LET q == request[c]
      sum == Usage(view, q.tenant, q.now)
  IN
  /\ pc[c] = "select"
  /\ used' = [used EXCEPT ![c] = sum]
  /\ Goto(c, IF OverLimit(sum, q.tokens) THEN "retry" ELSE "insert")
  /\ UNCHANGED <<clock, up, db, writer, view, request, retry, ghosts>>

\* _retry_after_seconds, inside the same transaction.
Retry(c) ==
  LET q == request[c] IN
  /\ pc[c] = "retry"
  /\ retry' = [retry EXCEPT ![c] = RetryAfter(view, q.tenant, q.now, used[c], q.tokens)]
  /\ Goto(c, "deny")
  /\ UNCHANGED <<clock, up, db, writer, view, request, used, ghosts>>

Insert(c) ==
  /\ pc[c] = "insert"
  /\ view' = view \cup {RowOf(c, request[c])}
  /\ Goto(c, "grant")
  /\ UNCHANGED <<clock, up, db, writer, request, used, retry, ghosts>>

\* What COMMIT does to the database, and what history keeps of it.
Install(c, isGrant) ==
  LET now == request[c].now IN
  /\ db' = view
  /\ view' = {}
  /\ writer' = Nobody
  /\ newest' = IF now > newest THEN now ELSE newest
  /\ IF isGrant
     THEN /\ granted' = granted \cup {RowOf(c, request[c])}
          /\ lag' = IF newest - now > lag THEN newest - now ELSE lag
     ELSE UNCHANGED <<granted, lag>>

\* Mutant: the Admission is returned without a COMMIT, and closing the
\* connection drops the row.
CommitForgotten(c) ==
  /\ \/ pc[c] = "grant" /\ Goto(c, "allowed")
     \/ pc[c] = "deny" /\ Goto(c, "denied")
  /\ view' = {}
  /\ writer' = Nobody
  /\ UNCHANGED <<clock, up, db, request, used, retry, ghosts>>

\* COMMIT returns and the caller gets its Admission.
Commit(c) ==
  /\ \/ pc[c] = "grant" /\ Install(c, TRUE) /\ Goto(c, "allowed")
     \/ pc[c] = "deny" /\ Install(c, FALSE) /\ Goto(c, "denied")
  /\ UNCHANGED <<clock, up, request, used, retry>>

\* The caller is cancelled while COMMIT runs in the connection's thread: the
\* commit takes effect, the ROLLBACK queued behind it finds no transaction,
\* and the caller sees an exception.
CommitUnheard(c) ==
  /\ \/ pc[c] = "grant" /\ Install(c, TRUE)
     \/ pc[c] = "deny" /\ Install(c, FALSE)
  /\ Goto(c, "rollback")
  /\ UNCHANGED <<clock, up, request, used, retry>>

\* Any statement of the try block raises, COMMIT included, or the caller is
\* cancelled there.
Fail(c) ==
  /\ pc[c] \in InTransaction \ {"rollback"}
  /\ Goto(c, "rollback")
  /\ UNCHANGED <<clock, up, db, writer, view, request, used, retry, ghosts>>

\* Mutant: the exception path commits what the transaction has done so far.
RollbackCommits(c) ==
  /\ pc[c] = "rollback"
  /\ IF writer = c
     THEN writer' = Nobody /\ db' = view /\ view' = {}
     ELSE UNCHANGED <<writer, db, view>>
  /\ Goto(c, "failed")
  /\ UNCHANGED <<clock, up, request, used, retry, ghosts>>

\* except BaseException: ROLLBACK (or the connection closing behind it) drops
\* the view and the lock, if the call still has them; the exception goes on.
Rollback(c) ==
  /\ pc[c] = "rollback"
  /\ IF writer = c
     THEN writer' = Nobody /\ view' = {}
     ELSE UNCHANGED <<writer, view>>
  /\ Goto(c, "failed")
  /\ UNCHANGED <<clock, up, db, request, used, retry, ghosts>>

\* The process dies.  SQLite keeps what was committed and forgets the rest.
Crash ==
  /\ up
  /\ up' = FALSE
  /\ writer' = Nobody
  /\ view' = {}
  /\ pc' = [c \in Calls |-> IF pc[c] \in {"begin"} \cup InTransaction THEN "lost" ELSE pc[c]]
  /\ UNCHANGED <<clock, db, request, used, retry, ghosts>>

\* What the call does when it is left alone, the busy timeout included.
Progress(c) ==
  \/ Begin(c) \/ BeginFails(c) \/ Delete(c) \/ Select(c) \/ Retry(c)
  \/ Insert(c) \/ Commit(c) \/ Rollback(c)

\* What an error or a cancellation makes of it.
Disturbance(c) == BeginUnheard(c) \/ CommitUnheard(c) \/ Fail(c)

Next ==
  \/ Initialize
  \/ Tick
  \/ SetBack
  \/ \E c \in Calls, t \in Tenants, n \in Counts : Call(c, t, n)
  \/ \E c \in Calls, n \in Counts : CallRejected(c, n)
  \/ \E c \in Calls : Progress(c) \/ Disturbance(c)
  \/ Crash

Spec == Init /\ [][Next]_vars

\* The connection's thread runs every statement it is given, and busy_timeout
\* bounds the wait for the lock.  Nothing promises that a call ever gets the
\* lock, that the clock moves, that callers come, or that anything fails.
FairSpec == Spec /\ \A c \in Calls : WF_vars(Progress(c))

TypeOK ==
  /\ clock \in 0..MaxClock
  /\ up \in BOOLEAN
  /\ db \in SUBSET Row
  /\ writer \in Calls \cup {Nobody}
  /\ view \in SUBSET Row
  /\ pc \in [Calls -> {"idle", "begin"} \cup InTransaction \cup Settled]
  /\ request \in [Calls -> Request \cup {NoCall}]
  /\ used \in [Calls -> Nat]
  /\ retry \in [Calls -> Nat \cup {Never}]
  /\ granted \in SUBSET Row
  /\ newest \in Nat
  /\ lag \in Nat

(* Whoever is between BEGIN IMMEDIATE and COMMIT alone holds the lock, and    *)
(* the sum it decided on is still the committed one: no call observes stale   *)
(* capacity (limiter.py:40-45, 178-191).                                      *)
DecisionNotStale ==
  \A c \in Calls :
    pc[c] \in {"insert", "retry", "grant", "deny"} =>
      /\ writer = c
      /\ used[c] = UsageAt(request[c].tenant, request[c].now)

(* However calls interleave, fail and crash, usage() never reports more than  *)
(* the limit for any tenant at any instant (limiter.py:191, 302-332).         *)
UsageWithinLimit ==
  \A t \in Tenants : Tokens(OfTenant(db, t)) <= LimitTokens

(* A crash, a rollback or another tenant's expiry never loses a reservation:  *)
(* a committed row is gone only when a committed call had it out of its       *)
(* window (limiter.py:170-176, 243-245).                                      *)
OnlyExpiredAreGone ==
  /\ db \subseteq granted
  /\ \A r \in granted \ db : r.at <= newest - WindowMs

(* usage() reads without a transaction and with a clock it sampled earlier:   *)
(* it reports at least what the window of the newest committed clock holds    *)
(* and at most what was granted in its own, so exactly that when no call with *)
(* a later clock has committed in between (limiter.py:312-332).               *)
UsageSeesWindow ==
  \A t \in Tenants, now \in 0..MaxClock :
    /\ UsageAt(t, now) <= Usage(granted, t, now)
    /\ UsageAt(t, now) >= Usage(granted, t, IF now > newest THEN now ELSE newest)

(* What a caller is told is what the table was told: an allowed call has its  *)
(* row committed; one that has not begun, was denied or still holds the lock  *)
(* has none.  Of a call that raised or died nothing is said: its COMMIT may   *)
(* have run (limiter.py:202-245).                                             *)
AnswerMatchesLedger ==
  \A c \in Calls :
    LET charged == \E r \in granted : r.id = c IN
    /\ pc[c] = "allowed" => RowOf(c, request[c]) \in granted
    /\ pc[c] \in {"idle", "begin", "denied"} \/ writer = c => ~charged

(* The Retry-After of a denial is exact: if nobody reserves meanwhile, the    *)
(* same request is refused at every earlier instant and fits at every later   *)
(* one; and there is none exactly when waiting is useless                     *)
(* (limiter.py:256-300).                                                      *)
RetryAfterExact ==
  \A c \in Calls :
    LET q == request[c] IN
    pc[c] = "deny" =>
      /\ (retry[c] = Never) = (q.tokens > LimitTokens)
      /\ \A later \in q.now .. MaxClock + WindowMs + 1 :
           ~OverLimit(Usage(view, q.tenant, later), q.tokens)
             = (retry[c] # Never /\ later >= q.now + retry[c])

\* The reservations of tenant t in the half-open interval (end - width, end].
Within(t, end, width) ==
  {r \in granted : r.tenant = t /\ r.at > end - width /\ r.at <= end}

(* Over an interval shorter than the window by the worst lag, a tenant was    *)
(* never granted more than the limit (limiter.py:152-155, 166, 191).          *)
RollingWindowLessLag ==
  \A t \in Tenants, end \in 0..MaxClock :
    Tokens(Within(t, end, WindowMs - lag)) <= LimitTokens

(* The documented promise, "a maximum of 50,000 reserved tokens per rolling   *)
(* 60-second window" (docs/TASK4_WALKTHROUGH.md:7), over the full window.     *)
RollingWindow ==
  \A t \in Tenants, end \in 0..MaxClock :
    Tokens(Within(t, end, WindowMs)) <= LimitTokens

(* Every call that reaches the database is answered, or lost with its         *)
(* process, and its lock is free again: waiting for the write lock never      *)
(* becomes waiting forever, and no error or cancellation, not even one that   *)
(* arrives while the lock is awaited, leaves it taken for the calls to come   *)
(* (limiter.py:157-166, 243-245).                                             *)
EveryCallSettles ==
  \A c \in Calls : (pc[c] = "begin") ~> (pc[c] \in Settled /\ writer # c)

\* What the caller of each call has been told, in the words of SlidingWindow.
Verdict ==
  [c \in Calls |->
     IF pc[c] = "idle" THEN "none"
     ELSE IF pc[c] = "begin" \/ writer = c THEN "pending"
     ELSE IF pc[c] \in {"allowed", "denied"} THEN pc[c]
     ELSE "error"]

Atomic == INSTANCE SlidingWindow
            WITH Times <- 0..MaxClock, rows <- db, verdict <- Verdict

(* Statement by statement, reserve() does what the one-step SlidingWindow     *)
(* does: the whole call takes effect at its COMMIT or not at all.             *)
ImplementsAtomic == Atomic!Spec
=============================================================================
