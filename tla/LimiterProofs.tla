--------------------------- MODULE LimiterProofs ---------------------------
(* The statement-level limiter is well typed, never decides on a stale sum,   *)
(* and implements the one-step SlidingWindow, for every number of calls and   *)
(* tenants, every limit and every window; so it keeps what is proved of that. *)
EXTENDS Limiter, TokenLedgerProofs

\* The calls that have an admission request behind them.
Requesting == {"begin", "allowed", "denied"} \cup InTransaction

\* The table the transaction of c sees once it has expired, and the sum it
\* must come to.
Expiry(c) == Surviving(db, request[c].now)
Committed(c) == UsageAt(request[c].tenant, request[c].now)

\* The sums are over finite tables.
Finite == IsFiniteSet(db) /\ IsFiniteSet(view) /\ IsFiniteSet(granted)

RequestsKnown == \A c \in Calls : pc[c] \in Requesting => request[c] \in Request

(* The rest of the inductive invariant: whoever holds the lock is inside its  *)
(* try block, alone there, and sees the committed table with its own          *)
(* statements applied; the branch it took is the one the sum calls for.       *)
OneWriter ==
  \A c \in Calls :
    /\ pc[c] \in InTransaction \ {"rollback"} => writer = c
    /\ writer = c => pc[c] \in InTransaction

ViewOK ==
  \A c \in Calls :
    /\ pc[c] = "delete" => view = db
    /\ pc[c] \in {"select", "retry", "insert", "deny"} => view = Expiry(c)
    /\ pc[c] = "grant" => view = Expiry(c) \cup {RowOf(c, request[c])}

BranchOK ==
  \A c \in Calls :
    /\ pc[c] \in {"insert", "retry", "grant", "deny"} => used[c] = Committed(c)
    /\ pc[c] \in {"insert", "grant"} => ~OverLimit(Committed(c), request[c].tokens)
    /\ pc[c] \in {"retry", "deny"} => OverLimit(Committed(c), request[c].tokens)

IInv == TypeOK /\ Finite /\ RequestsKnown /\ OneWriter /\ ViewOK /\ BranchOK

(* The DELETE removes nothing that the SELECT, which uses the same cutoff,    *)
(* would have counted.                                                        *)
LEMMA ExpiryKeepsActive ==
  ASSUME NEW R, NEW t, NEW now
  PROVE  Usage(Surviving(R, now), t, now) = Usage(R, t, now)
<1>1. Active(Surviving(R, now), t, now) = Active(R, t, now)
  BY DEF Active, Surviving
<1> QED
  BY <1>1 DEF Usage

(* Before the first call nobody holds the lock.                               *)
LEMMA InitIInv == Init => IInv
<1> USE DEF Init, InTransaction, Requesting, Settled
<1> SUFFICES ASSUME Init PROVE IInv
  OBVIOUS
<1>1. TypeOK
  BY DEF TypeOK, Never
<1>2. Finite
  BY FS_EmptySet DEF Finite
<1>3. RequestsKnown /\ ViewOK /\ BranchOK
  BY DEF RequestsKnown, ViewOK, BranchOK
<1>4. OneWriter
  BY NobodyAssumption DEF OneWriter
<1> QED
  BY <1>1, <1>2, <1>3, <1>4 DEF IInv

(* A call that makes a request asks with its own arguments, in their types.   *)
LEMMA RequestTypes ==
  ASSUME IInv, NEW c \in Calls, pc[c] \in InTransaction \cup {"begin"}
  PROVE  /\ request[c] \in Request
         /\ request[c].tenant \in Tenants
         /\ request[c].now \in Nat
         /\ request[c].tokens \in 1..MaxTokens
         /\ RowOf(c, request[c]) \in Row
<1>1. request[c] \in Request
  BY DEF IInv, RequestsKnown, Requesting
<1> QED
  BY <1>1 DEF Request, RowOf, Row

(* Steps that touch neither the database nor a transaction keep the           *)
(* invariant: the clock, the start of the process, and a call that ends or    *)
(* begins outside the try block.                                              *)
LEMMA OutsideStep ==
  ASSUME IInv,
         \/ Initialize \/ Tick \/ SetBack
         \/ \E c \in Calls, t \in Tenants, n \in Counts : Call(c, t, n)
         \/ \E c \in Calls, n \in Counts : CallRejected(c, n)
         \/ \E c \in Calls : BeginFails(c)
  PROVE  IInv'
<1> USE DEF IInv, TypeOK, Finite, RequestsKnown, OneWriter, ViewOK, BranchOK,
            Expiry, Committed, UsageAt, ghosts, Goto, Requesting, InTransaction, Settled
<1>1. CASE Initialize
  BY <1>1 DEF Initialize
<1>2. CASE Tick \/ SetBack
  BY <1>2, MaxClockAssumption DEF Tick, SetBack
<1>3. ASSUME NEW c \in Calls, NEW t \in Tenants, NEW n \in Counts, Call(c, t, n)
      PROVE  IInv'
  <2>1. [tenant |-> t, tokens |-> n, now |-> clock] \in Request
    BY <1>3, CountsAssumption, MaxClockAssumption, LimitsAssumption DEF Call, Request
  <2> QED
    BY <1>3, <2>1 DEF Call
<1>4. ASSUME NEW c \in Calls, NEW n \in Counts, CallRejected(c, n)
      PROVE  IInv'
  BY <1>4 DEF CallRejected
<1>5. ASSUME NEW c \in Calls, BeginFails(c)
      PROVE  IInv'
  BY <1>5 DEF BeginFails
<1> QED
  BY <1>1, <1>2, <1>3, <1>4, <1>5

(* BEGIN IMMEDIATE, heard or not: the only transaction starts from the        *)
(* committed table.                                                           *)
LEMMA BeginStep ==
  ASSUME IInv, NEW c \in Calls, Begin(c) \/ BeginUnheard(c)
  PROVE  IInv'
<1> USE DEF Begin, BeginUnheard, Goto, ghosts, InTransaction, Settled
<1>1. TypeOK' /\ Finite'
  BY DEF IInv, TypeOK, Finite
<1>2. RequestsKnown'
  BY DEF IInv, TypeOK, RequestsKnown, Requesting
<1>3. OneWriter'
  BY NobodyAssumption DEF IInv, TypeOK, OneWriter
<1>4. \A d \in Calls : d # c => pc[d] \notin InTransaction \ {"rollback"}
  BY NobodyAssumption DEF IInv, OneWriter
<1>5. ViewOK' /\ BranchOK'
  BY <1>4 DEF IInv, TypeOK, ViewOK, BranchOK, Expiry, Committed, UsageAt
<1> QED
  BY <1>1, <1>2, <1>3, <1>5 DEF IInv

(* DELETE turns the committed table into its survivors.                       *)
LEMMA DeleteStep ==
  ASSUME IInv, NEW c \in Calls, Delete(c)
  PROVE  IInv'
<1> USE DEF Delete, Goto, ghosts, InTransaction, Settled
<1>1. view' \in SUBSET view
  BY DEF Surviving
<1>2. TypeOK'
  BY <1>1 DEF IInv, TypeOK
<1>3. Finite'
  BY <1>1, FS_Subset DEF IInv, Finite
<1>4. RequestsKnown' /\ OneWriter'
  BY DEF IInv, TypeOK, RequestsKnown, Requesting, OneWriter
<1>5. \A d \in Calls : d # c => pc[d] \notin InTransaction \ {"rollback"}
  BY DEF IInv, OneWriter
<1>6. ViewOK' /\ BranchOK'
  BY <1>5 DEF IInv, TypeOK, ViewOK, BranchOK, Expiry, Committed, UsageAt
<1> QED
  BY <1>2, <1>3, <1>4, <1>6 DEF IInv

(* SELECT over the survivors is the committed sum, and the branch follows it. *)
LEMMA SelectStep ==
  ASSUME IInv, NEW c \in Calls, Select(c)
  PROVE  IInv'
<1> USE DEF Goto, ghosts, InTransaction, Settled
<1> DEFINE q   == request[c]
           sum == Usage(view, q.tenant, q.now)
<1>1. pc[c] = "select" /\ view = Expiry(c)
  BY DEF IInv, ViewOK, Select
<1>2. sum = Committed(c)
  BY <1>1, ExpiryKeepsActive DEF Expiry, Committed, UsageAt
<1>3. sum \in Nat
  <2>1. Active(view, q.tenant, q.now) \in SUBSET view
    BY DEF Active
  <2> QED
    BY <2>1, FS_Subset, TokensType DEF IInv, Finite, Usage
<1>4. TypeOK' /\ Finite'
  BY <1>3 DEF IInv, TypeOK, Finite, Select
<1>5. RequestsKnown' /\ OneWriter'
  BY <1>1 DEF IInv, TypeOK, RequestsKnown, Requesting, OneWriter, Select
<1>6. ViewOK'
  BY <1>1 DEF IInv, TypeOK, ViewOK, Expiry, Select
<1>7. BranchOK'
  BY <1>2 DEF IInv, TypeOK, BranchOK, Committed, UsageAt, Select
<1> QED
  BY <1>4, <1>5, <1>6, <1>7 DEF IInv

(* The Retry-After query changes nothing but its result.                      *)
LEMMA RetryStep ==
  ASSUME IInv, NEW c \in Calls, Retry(c)
  PROVE  IInv'
<1> USE DEF Goto, ghosts, InTransaction, Settled
<1> DEFINE q == request[c]
<1>1. pc[c] = "retry" /\ q.now \in Nat
  BY RequestTypes DEF Retry
<1>2. RetryAfter(view, q.tenant, q.now, used[c], q.tokens) \in Nat \cup {Never}
  BY <1>1, RetryAfterType DEF IInv, TypeOK
<1>3. TypeOK' /\ Finite'
  BY <1>2 DEF IInv, TypeOK, Finite, Retry
<1>4. RequestsKnown' /\ OneWriter'
  BY <1>1 DEF IInv, TypeOK, RequestsKnown, Requesting, OneWriter, Retry
<1>5. ViewOK' /\ BranchOK'
  BY <1>1 DEF IInv, TypeOK, ViewOK, BranchOK, Expiry, Committed, UsageAt, Retry
<1> QED
  BY <1>3, <1>4, <1>5 DEF IInv

(* INSERT adds the one row of the call to its view.                           *)
LEMMA InsertStep ==
  ASSUME IInv, NEW c \in Calls, Insert(c)
  PROVE  IInv'
<1> USE DEF Insert, Goto, ghosts, InTransaction, Settled
<1>1. RowOf(c, request[c]) \in Row
  BY RequestTypes
<1>2. TypeOK'
  BY <1>1 DEF IInv, TypeOK
<1>3. Finite'
  BY FS_AddElement DEF IInv, Finite
<1>4. RequestsKnown' /\ OneWriter'
  BY DEF IInv, TypeOK, RequestsKnown, Requesting, OneWriter
<1>5. \A d \in Calls : d # c => pc[d] \notin InTransaction \ {"rollback"}
  BY DEF IInv, OneWriter
<1>6. ViewOK' /\ BranchOK'
  BY <1>5 DEF IInv, TypeOK, ViewOK, BranchOK, Expiry, Committed, UsageAt
<1> QED
  BY <1>2, <1>3, <1>4, <1>6 DEF IInv

(* COMMIT, heard or not, installs the view and leaves nobody in a             *)
(* transaction that has yet to commit.                                        *)
LEMMA CommitStep ==
  ASSUME IInv, NEW c \in Calls, Commit(c) \/ CommitUnheard(c)
  PROVE  IInv'
<1> USE DEF Goto, ghosts, InTransaction, Settled
<1>1. pc[c] \in {"grant", "deny"} /\ (Install(c, TRUE) \/ Install(c, FALSE))
      /\ UNCHANGED <<clock, up, request, used, retry>>
      /\ \E outcome \in {"allowed", "denied", "rollback"} : Goto(c, outcome)
  BY DEF Commit, CommitUnheard
<1>2. RowOf(c, request[c]) \in Row /\ request[c].now \in Nat
  BY <1>1, RequestTypes
<1>3. db' = view /\ view' = {} /\ writer' = Nobody
  BY <1>1 DEF Install
<1>4. newest' \in Nat /\ lag' \in Nat /\ granted' \in SUBSET Row
  BY <1>1, <1>2 DEF IInv, TypeOK, Install
<1>5. TypeOK'
  BY <1>1, <1>3, <1>4 DEF IInv, TypeOK
<1>6. IsFiniteSet(granted')
  BY <1>1, FS_AddElement DEF IInv, Finite, Install
<1>7. Finite'
  BY <1>3, <1>6, FS_EmptySet DEF IInv, Finite
<1>8. \A d \in Calls : d # c => pc[d] \notin InTransaction \ {"rollback"}
  BY <1>1 DEF IInv, OneWriter
<1>9. \A d \in Calls : pc'[d] \notin InTransaction \ {"rollback"}
  BY <1>1, <1>8 DEF IInv, TypeOK
<1>10. RequestsKnown'
  BY <1>1 DEF IInv, TypeOK, RequestsKnown, Requesting
<1>11. OneWriter' /\ ViewOK' /\ BranchOK'
  BY <1>3, <1>9, NobodyAssumption DEF OneWriter, ViewOK, BranchOK
<1> QED
  BY <1>5, <1>7, <1>10, <1>11 DEF IInv

(* An exception in the try block leads to ROLLBACK, which drops the view.     *)
LEMMA UndoStep ==
  ASSUME IInv, NEW c \in Calls, Fail(c) \/ Rollback(c)
  PROVE  IInv'
<1> USE DEF Goto, ghosts, InTransaction, Settled
<1>1. CASE Fail(c)
  <2>1. TypeOK' /\ Finite' /\ RequestsKnown' /\ OneWriter'
    BY <1>1 DEF IInv, TypeOK, Finite, RequestsKnown, Requesting, OneWriter, Fail
  <2>2. ViewOK' /\ BranchOK'
    BY <1>1 DEF IInv, TypeOK, ViewOK, BranchOK, Expiry, Committed, UsageAt, Fail
  <2> QED
    BY <2>1, <2>2 DEF IInv
<1>2. CASE Rollback(c)
  <2>1. TypeOK' /\ Finite' /\ RequestsKnown'
    BY <1>2, FS_EmptySet DEF IInv, TypeOK, Finite, RequestsKnown, Requesting, Rollback
  <2>2. OneWriter'
    BY <1>2, NobodyAssumption DEF IInv, TypeOK, OneWriter, Rollback
  <2>3. \A d \in Calls : d # c /\ writer = c => pc[d] \notin InTransaction \ {"rollback"}
    BY DEF IInv, OneWriter
  <2>4. ViewOK' /\ BranchOK'
    BY <1>2, <2>3 DEF IInv, TypeOK, ViewOK, BranchOK, Expiry, Committed, UsageAt, Rollback
  <2> QED
    BY <2>1, <2>2, <2>4 DEF IInv
<1> QED
  BY <1>1, <1>2

(* A crash leaves the committed table and no transaction.                     *)
LEMMA CrashStep ==
  ASSUME IInv, Crash
  PROVE  IInv'
<1> USE DEF Crash, ghosts, InTransaction, Settled
<1>1. TypeOK' /\ Finite' /\ RequestsKnown'
  BY FS_EmptySet DEF IInv, TypeOK, Finite, RequestsKnown, Requesting
<1>2. \A d \in Calls : pc'[d] \notin InTransaction
  BY DEF IInv, TypeOK
<1>3. OneWriter' /\ ViewOK' /\ BranchOK'
  BY <1>2, NobodyAssumption DEF OneWriter, ViewOK, BranchOK
<1> QED
  BY <1>1, <1>3 DEF IInv

(* Every step keeps the inductive invariant.                                  *)
LEMMA IInvStep == IInv /\ [Next]_vars => IInv'
<1> SUFFICES ASSUME IInv, [Next]_vars PROVE IInv'
  OBVIOUS
<1>1. ASSUME NEW c \in Calls, Progress(c) \/ Disturbance(c) PROVE IInv'
  BY <1>1, OutsideStep, BeginStep, DeleteStep, SelectStep, RetryStep, InsertStep,
     CommitStep, UndoStep DEF Progress, Disturbance
<1>2. CASE UNCHANGED vars
  BY <1>2 DEF vars, IInv, TypeOK, Finite, RequestsKnown, OneWriter, ViewOK, BranchOK,
              Expiry, Committed, UsageAt
<1> QED
  BY <1>1, <1>2, OutsideStep, CrashStep DEF Next

(* The inductive invariant holds in every reachable state.                    *)
THEOREM InvariantHolds == Spec => []IInv
  BY InitIInv, IInvStep, PTL DEF Spec

(* Every reachable state of the limiter is well typed.                        *)
THEOREM TypeCorrect == Spec => []TypeOK
<1>1. IInv => TypeOK
  BY DEF IInv
<1> QED
  BY <1>1, InvariantHolds, PTL

(* No call ever decides, or commits, on a sum that has stopped being the      *)
(* committed one.                                                             *)
THEOREM DecisionNotStaleHolds == Spec => []DecisionNotStale
<1>1. IInv => DecisionNotStale
  BY DEF IInv, DecisionNotStale, OneWriter, BranchOK, InTransaction, Committed
<1> QED
  BY <1>1, InvariantHolds, PTL

(* Initially SlidingWindow is in its initial state.                           *)
LEMMA RefinesInit == Init => Atomic!Init
<1> SUFFICES ASSUME Init PROVE Atomic!Init
  OBVIOUS
<1>1. Verdict = [c \in Calls |-> "none"]
  BY DEF Init, Verdict
<1> QED
  BY <1>1 DEF Init, Atomic!Init

(* The statements between BEGIN and COMMIT, and everything else that neither  *)
(* ends a call nor starts one, are stutters of SlidingWindow.                 *)
LEMMA RefinesStutter ==
  ASSUME IInv,
         \/ Initialize \/ Tick \/ SetBack
         \/ \E c \in Calls :
              \/ Begin(c) \/ BeginUnheard(c) \/ Delete(c) \/ Select(c)
              \/ Retry(c) \/ Insert(c) \/ Fail(c)
  PROVE  UNCHANGED Atomic!vars
<1> USE DEF Atomic!vars, Verdict, ghosts, Goto, InTransaction
<1>1. CASE Initialize \/ Tick \/ SetBack
  BY <1>1 DEF Initialize, Tick, SetBack
<1>2. ASSUME NEW c \in Calls, Begin(c) \/ BeginUnheard(c)
      PROVE  UNCHANGED Atomic!vars
  BY <1>2, NobodyAssumption DEF Begin, BeginUnheard, IInv, TypeOK
<1>3. ASSUME NEW c \in Calls,
             Delete(c) \/ Select(c) \/ Retry(c) \/ Insert(c) \/ Fail(c)
      PROVE  UNCHANGED Atomic!vars
  <2>1. writer = c /\ writer' = writer /\ UNCHANGED <<db, request, ghosts>>
    BY <1>3 DEF IInv, OneWriter, Delete, Select, Retry, Insert, Fail
  <2>2. pc[c] \notin {"idle", "begin"} /\ pc'[c] \notin {"idle", "begin"}
        /\ \A d \in Calls : d # c => pc'[d] = pc[d]
    BY <1>3 DEF IInv, TypeOK, Delete, Select, Retry, Insert, Fail
  <2>3. Verdict' = Verdict
    BY <2>1, <2>2
  <2> QED
    BY <2>1, <2>3
<1> QED
  BY <1>1, <1>2, <1>3

(* Entering reserve() is Submit.                                              *)
LEMMA RefinesSubmit ==
  ASSUME IInv, NEW c \in Calls, NEW t \in Tenants, NEW n \in Counts, Call(c, t, n)
  PROVE  Atomic!Submit(c, t, n, clock) /\ n \in 1..MaxTokens /\ clock \in 0..MaxClock
<1>1. n \in 1..MaxTokens /\ clock \in 0..MaxClock
  BY CountsAssumption, LimitsAssumption DEF Call, IInv, TypeOK
<1>2. Verdict[c] = "none" /\ Verdict' = [Verdict EXCEPT ![c] = "pending"]
  BY DEF Call, Goto, Verdict, IInv, TypeOK
<1> QED
  BY <1>1, <1>2 DEF Call, ghosts, Atomic!Submit

(* The sum of SlidingWindow is the sum of the limiter.                        *)
LEMMA SameSum == \A R : Atomic!Tokens(R) = Tokens(R)
  BY DEF Atomic!Tokens, Atomic!Units, Atomic!Cardinality, Tokens, Units, Cardinality

(* The COMMIT of a reservation is Grant, that of a refusal is Refuse, whether *)
(* or not the caller hears of it.                                             *)
LEMMA RefinesCommit ==
  ASSUME IInv, NEW c \in Calls, Commit(c) \/ CommitUnheard(c)
  PROVE  Atomic!Next
<1> DEFINE q == request[c]
<1> USE DEF Atomic!Surviving, Atomic!Active, Atomic!Usage, Atomic!OverLimit, Atomic!RowOf,
            Surviving, Active, Usage, OverLimit, RowOf, Atomic!Observe, Atomic!ObserveGrant
<1>1. writer = c /\ Verdict[c] = "pending"
  BY DEF Commit, CommitUnheard, IInv, OneWriter, InTransaction, Verdict
<1>2. PICK outcome \in {"allowed", "denied", "rollback"} :
        /\ Goto(c, outcome)
        /\ \/ pc[c] = "grant" /\ Install(c, TRUE) /\ outcome # "denied"
           \/ pc[c] = "deny" /\ Install(c, FALSE) /\ outcome # "allowed"
  BY DEF Commit, CommitUnheard
<1> DEFINE told == IF outcome = "rollback" THEN "error" ELSE outcome
<1>3. request' = request /\ db' = view /\ writer' = Nobody
  BY <1>2 DEF Commit, CommitUnheard, Install
<1>4. Verdict' = [Verdict EXCEPT ![c] = told]
  <2>1. \A d \in Calls : Verdict'[d] = IF d = c THEN told ELSE Verdict[d]
    BY <1>1, <1>2, <1>3, NobodyAssumption DEF Verdict, Goto, IInv, TypeOK
  <2> QED
    BY <2>1 DEF Verdict
<1>5. CASE pc[c] = "grant"
  <2>1. ~OverLimit(Usage(db, q.tenant, q.now), q.tokens)
    BY <1>5 DEF IInv, BranchOK, Committed, UsageAt
  <2>2. db' = Surviving(db, q.now) \cup {RowOf(c, q)}
    BY <1>3, <1>5 DEF IInv, ViewOK, Expiry
  <2>3. told \in {"allowed", "error"} /\ Install(c, TRUE)
    BY <1>2, <1>5
  <2>4. Atomic!Grant(c, told)
    BY <1>1, <1>3, <1>4, <2>1, <2>2, <2>3, SameSum DEF Atomic!Grant, Install
  <2> QED
    BY <2>3, <2>4 DEF Atomic!Next
<1>6. CASE pc[c] = "deny"
  <2>1. OverLimit(Usage(db, q.tenant, q.now), q.tokens)
    BY <1>6 DEF IInv, BranchOK, Committed, UsageAt
  <2>2. db' = Surviving(db, q.now)
    BY <1>3, <1>6 DEF IInv, ViewOK, Expiry
  <2>3. told \in {"denied", "error"} /\ Install(c, FALSE)
    BY <1>2, <1>6
  <2>4. Atomic!Refuse(c, told)
    BY <1>1, <1>3, <1>4, <2>1, <2>2, <2>3, SameSum DEF Atomic!Refuse, Install
  <2> QED
    BY <2>3, <2>4 DEF Atomic!Next
<1> QED
  BY <1>2, <1>5, <1>6

(* Calls that end outside COMMIT end without effect: that is Abort, of one    *)
(* call or, in a crash, of all that were running.                             *)
LEMMA RefinesAbort ==
  ASSUME IInv,
         \/ \E c \in Calls, n \in Counts : CallRejected(c, n)
         \/ \E c \in Calls : BeginFails(c) \/ Rollback(c)
         \/ Crash
  PROVE  \E S \in SUBSET Calls : Atomic!Abort(S)
<1>1. ASSUME NEW c \in Calls, NEW n \in Counts, CallRejected(c, n)
      PROVE  Atomic!Abort({c})
  BY <1>1 DEF CallRejected, Atomic!Abort, Verdict, ghosts, Goto, IInv, TypeOK,
              OneWriter, InTransaction
<1>2. ASSUME NEW c \in Calls, BeginFails(c)
      PROVE  Atomic!Abort({c})
  BY <1>2 DEF BeginFails, Atomic!Abort, Verdict, ghosts, Goto, IInv, TypeOK,
              OneWriter, InTransaction
<1>3. ASSUME NEW c \in Calls, Rollback(c), writer = c
      PROVE  Atomic!Abort({c})
  BY <1>3, NobodyAssumption DEF Rollback, Atomic!Abort, Verdict, ghosts, Goto, IInv, TypeOK
<1>4. ASSUME NEW c \in Calls, Rollback(c), writer # c
      PROVE  Atomic!Abort({})
  BY <1>4 DEF Rollback, Atomic!Abort, Verdict, ghosts, Goto, IInv, TypeOK
<1>5. ASSUME Crash
      PROVE  Atomic!Abort({c \in Calls : Verdict[c] = "pending"})
  BY <1>5, NobodyAssumption
  DEF Crash, Atomic!Abort, Verdict, ghosts, IInv, TypeOK, OneWriter, InTransaction
<1>6. {c \in Calls : Verdict[c] = "pending"} \in SUBSET Calls
      /\ {} \in SUBSET Calls /\ \A c \in Calls : {c} \in SUBSET Calls
  OBVIOUS
<1> QED
  BY <1>1, <1>2, <1>3, <1>4, <1>5, <1>6

(* Every step of the limiter is a step of SlidingWindow or a stutter.         *)
LEMMA RefinesNext == IInv /\ [Next]_vars => [Atomic!Next]_(Atomic!vars)
<1> SUFFICES ASSUME IInv, [Next]_vars PROVE [Atomic!Next]_(Atomic!vars)
  OBVIOUS
<1>1. ASSUME NEW c \in Calls, Progress(c) \/ Disturbance(c)
      PROVE  [Atomic!Next]_(Atomic!vars)
  <2>1. CASE \/ Begin(c) \/ BeginUnheard(c) \/ Delete(c) \/ Select(c)
             \/ Retry(c) \/ Insert(c) \/ Fail(c)
    BY <2>1, RefinesStutter
  <2>2. CASE Commit(c) \/ CommitUnheard(c)
    BY <2>2, RefinesCommit
  <2>3. CASE BeginFails(c) \/ Rollback(c)
    BY <2>3, RefinesAbort DEF Atomic!Next
  <2> QED
    BY <1>1, <2>1, <2>2, <2>3 DEF Progress, Disturbance
<1>2. ASSUME NEW c \in Calls, NEW t \in Tenants, NEW n \in Counts, Call(c, t, n)
      PROVE  [Atomic!Next]_(Atomic!vars)
  BY <1>2, RefinesSubmit DEF Atomic!Next
<1>3. CASE (\E c \in Calls, n \in Counts : CallRejected(c, n)) \/ Crash
  BY <1>3, RefinesAbort DEF Atomic!Next
<1>4. CASE Initialize \/ Tick \/ SetBack
  BY <1>4, RefinesStutter
<1>5. CASE UNCHANGED vars
  BY <1>5 DEF vars, Atomic!vars, Verdict
<1> QED
  BY <1>1, <1>2, <1>3, <1>4, <1>5 DEF Next

(* reserve(), statement by statement, is the one-step reservation.            *)
THEOREM Refinement == Spec => ImplementsAtomic
  BY InitIInv, IInvStep, RefinesInit, RefinesNext, PTL
  DEF Spec, ImplementsAtomic, Atomic!Spec

-----------------------------------------------------------------------------
(* What is proved of the one-step SlidingWindow holds of the statement-level  *)
(* limiter, because the one implements the other.                             *)

\* The theorems of SlidingWindow, about the limiter's own state.
Window == INSTANCE SlidingWindowProofs
            WITH Times <- 0..MaxClock, rows <- db, verdict <- Verdict

(* The limiter's constants meet the assumptions of SlidingWindow.             *)
LEMMA WindowAssumptions ==
  /\ Window!IsFiniteSet(Calls)
  /\ NoCall \notin Window!Request
  /\ 0..MaxClock \subseteq Nat
<1>1. Window!IsFiniteSet(Calls)
  BY CallsAssumption DEF Window!IsFiniteSet, IsFiniteSet
<1>2. NoCall \notin Window!Request
  BY NoCallAssumption DEF Window!Request, Request
<1> QED
  BY <1>1, <1>2, MaxClockAssumption

(* Both instances of SlidingWindow and the limiter take the same sum.         *)
LEMMA WindowSum == \A R : Window!Tokens(R) = Tokens(R) /\ Atomic!Tokens(R) = Tokens(R)
  BY DEF Window!Tokens, Window!Units, Window!Cardinality, Tokens, Units, Cardinality,
         Atomic!Tokens, Atomic!Units, Atomic!Cardinality

(* Both instances of SlidingWindow take the same steps.                       *)
LEMMA SameNext == Atomic!Next => Window!Next
<1> USE WindowSum
    DEF Atomic!Surviving, Atomic!Active, Atomic!Usage, Atomic!OverLimit, Atomic!RowOf,
        Atomic!Observe, Atomic!ObserveGrant, Window!Surviving, Window!Active, Window!Usage,
        Window!OverLimit, Window!RowOf, Window!Observe, Window!ObserveGrant
<1>1. \A c \in Calls, t \in Tenants, n \in 1..MaxTokens, now \in 0..MaxClock :
        Atomic!Submit(c, t, n, now) => Window!Submit(c, t, n, now)
  BY DEF Atomic!Submit, Window!Submit
<1>2. \A c \in Calls, told \in {"allowed", "error"} :
        Atomic!Grant(c, told) => Window!Grant(c, told)
  BY DEF Atomic!Grant, Window!Grant
<1>3. \A c \in Calls, told \in {"denied", "error"} :
        Atomic!Refuse(c, told) => Window!Refuse(c, told)
  BY DEF Atomic!Refuse, Window!Refuse
<1>4. \A S \in SUBSET Calls : Atomic!Abort(S) => Window!Abort(S)
  BY DEF Atomic!Abort, Window!Abort
<1> QED
  BY <1>1, <1>2, <1>3, <1>4 DEF Atomic!Next, Window!Next

(* So the limiter is a SlidingWindow its theorems speak about.                *)
LEMMA IsWindow == Spec => Window!Spec
<1>1. Atomic!Init => Window!Init
  BY DEF Atomic!Init, Window!Init
<1>2. [Atomic!Next]_(Atomic!vars) => [Window!Next]_(Window!vars)
  <2>1. UNCHANGED Atomic!vars => UNCHANGED Window!vars
    BY DEF Atomic!vars, Window!vars
  <2> QED
    BY <2>1, SameNext
<1> QED
  BY <1>1, <1>2, Refinement, PTL DEF ImplementsAtomic, Atomic!Spec, Window!Spec

(* usage() never reports more than limit_tokens for a tenant, whatever the    *)
(* interleaving, the failures and the crashes.                                *)
THEOREM UsageWithinLimitHolds == Spec => []UsageWithinLimit
<1>1. Window!Spec => []Window!StoredWithinLimit
  BY Window!StoredWithinLimitHolds, WindowAssumptions, LimitsAssumption
<1>2. Window!StoredWithinLimit => UsageWithinLimit
  BY WindowSum DEF Window!StoredWithinLimit, Window!OfTenant, UsageWithinLimit, OfTenant
<1> QED
  BY <1>1, <1>2, IsWindow, PTL

(* A committed reservation leaves the table only out of the window of some    *)
(* committed transaction; no crash, rollback or failure loses one.            *)
THEOREM OnlyExpiredAreGoneHolds == Spec => []OnlyExpiredAreGone
<1>1. Window!Spec => []Window!OnlyExpiredAreGone
  BY Window!OnlyExpiredAreGoneHolds, WindowAssumptions, LimitsAssumption
<1>2. Window!OnlyExpiredAreGone => OnlyExpiredAreGone
  BY DEF Window!OnlyExpiredAreGone, OnlyExpiredAreGone
<1> QED
  BY <1>1, <1>2, IsWindow, PTL

(* usage() reports nothing that was not granted in its window, and misses     *)
(* nothing that the newest committed clock still counts.                      *)
THEOREM UsageSeesWindowHolds == Spec => []UsageSeesWindow
<1>1. Window!Spec => []Window!UsageSeesWindow
  BY Window!UsageSeesWindowHolds, WindowAssumptions, LimitsAssumption
<1>2. Window!UsageSeesWindow => UsageSeesWindow
  BY WindowSum
  DEF Window!UsageSeesWindow, Window!Usage, Window!Active, UsageSeesWindow, UsageAt,
      Usage, Active
<1> QED
  BY <1>1, <1>2, IsWindow, PTL

(* No interval shorter than the window by the worst lag is ever granted more  *)
(* than limit_tokens: the rolling-window promise, less the time a call waited *)
(* between sampling its clock and committing while later ones overtook it.    *)
THEOREM RollingWindowLessLagHolds == Spec => []RollingWindowLessLag
<1>1. Window!Spec => []Window!RollingWindowLessLag
  BY Window!RollingWindowLessLagHolds, WindowAssumptions, LimitsAssumption
<1>2. Window!RollingWindowLessLag => RollingWindowLessLag
  BY WindowSum
  DEF Window!RollingWindowLessLag, Window!Within, RollingWindowLessLag, Within
<1> QED
  BY <1>1, <1>2, IsWindow, PTL
(* Whoever has not committed a grant has no row, whoever has been allowed has *)
(* its own: nobody else writes a row with a call's id.                        *)
LEMMA AnswersStep == IInv /\ AnswerMatchesLedger /\ [Next]_vars => AnswerMatchesLedger'
<1> SUFFICES ASSUME IInv, AnswerMatchesLedger, [Next]_vars PROVE AnswerMatchesLedger'
  OBVIOUS
<1> USE DEF AnswerMatchesLedger, InTransaction, Settled, Goto, ghosts
<1>1. ASSUME NEW c \in Calls, Begin(c) \/ BeginUnheard(c)
      PROVE  AnswerMatchesLedger'
  BY <1>1, NobodyAssumption DEF IInv, TypeOK, Begin, BeginUnheard
<1>2. ASSUME NEW c \in Calls,
             Delete(c) \/ Select(c) \/ Retry(c) \/ Insert(c) \/ Fail(c)
      PROVE  AnswerMatchesLedger'
  <2>1. /\ UNCHANGED <<writer, request, granted>>
        /\ \A d \in Calls : d # c => pc'[d] = pc[d]
        /\ writer = c
        /\ pc'[c] \in InTransaction
    BY <1>2 DEF IInv, TypeOK, OneWriter, Delete, Select, Retry, Insert, Fail
  <2> QED
    BY <2>1
<1>3. ASSUME NEW c \in Calls, Commit(c) \/ CommitUnheard(c)
      PROVE  AnswerMatchesLedger'
  <2>1. writer = c /\ writer' = Nobody /\ request' = request
        /\ \A d \in Calls : d # c => pc'[d] = pc[d]
    BY <1>3 DEF IInv, TypeOK, OneWriter, Commit, CommitUnheard, Install
  <2>2. \/ pc'[c] \in {"allowed", "rollback"} /\ granted' = granted \cup {RowOf(c, request[c])}
        \/ pc'[c] \in {"denied", "rollback"} /\ granted' = granted
    BY <1>3 DEF IInv, TypeOK, Commit, CommitUnheard, Install
  <2>3. RowOf(c, request[c]).id = c
    BY DEF RowOf
  <2> QED
    BY <2>1, <2>2, <2>3, NobodyAssumption
<1>4. ASSUME NEW c \in Calls, BeginFails(c) \/ Rollback(c)
      PROVE  AnswerMatchesLedger'
  BY <1>4, NobodyAssumption DEF IInv, TypeOK, BeginFails, Rollback
<1>5. ASSUME NEW c \in Calls, NEW t \in Tenants, NEW n \in Counts, Call(c, t, n)
      PROVE  AnswerMatchesLedger'
  BY <1>5 DEF IInv, TypeOK, OneWriter, Call
<1>6. ASSUME NEW c \in Calls, NEW n \in Counts, CallRejected(c, n)
      PROVE  AnswerMatchesLedger'
  BY <1>6 DEF IInv, TypeOK, CallRejected
<1>7. CASE Crash
  BY <1>7, NobodyAssumption DEF IInv, TypeOK, Crash
<1>8. CASE Initialize \/ Tick \/ SetBack \/ UNCHANGED vars
  BY <1>8 DEF Initialize, Tick, SetBack, vars
<1> QED
  BY <1>1, <1>2, <1>3, <1>4, <1>5, <1>6, <1>7, <1>8 DEF Next, Progress, Disturbance

(* An allowed caller has its row committed, a denied one has none, whatever   *)
(* happened to the other calls and to the process.                            *)
THEOREM AnswerMatchesLedgerHolds == Spec => []AnswerMatchesLedger
<1>1. Init => AnswerMatchesLedger
  BY NobodyAssumption DEF Init, AnswerMatchesLedger
<1> QED
  BY <1>1, AnswersStep, InvariantHolds, PTL DEF Spec
\* A refusing call has the Retry-After of the table it will commit.
RetryOK ==
  \A c \in Calls :
    LET q == request[c] IN
    pc[c] = "deny" => retry[c] = RetryAfter(view, q.tenant, q.now, used[c], q.tokens)

(* The wait is computed from the transaction's own view, which nobody else    *)
(* can change before its COMMIT.                                              *)
LEMMA RetryStepOK == IInv /\ RetryOK /\ [Next]_vars => RetryOK'
<1> SUFFICES ASSUME IInv, RetryOK, [Next]_vars PROVE RetryOK'
  OBVIOUS
<1> USE DEF RetryOK, InTransaction, Goto, ghosts
<1>1. ASSUME NEW c \in Calls, Begin(c) \/ BeginUnheard(c) \/ Delete(c) \/ Select(c)
                               \/ Insert(c) \/ Commit(c) \/ CommitUnheard(c)
      PROVE  RetryOK'
  <2>1. \A d \in Calls : pc'[d] # "deny" \/ (d = c /\ pc[c] = "deny")
    BY <1>1, NobodyAssumption
    DEF IInv, TypeOK, OneWriter, Begin, BeginUnheard, Delete, Select, Insert, Commit, CommitUnheard
  <2>2. pc'[c] # "deny"
    BY <1>1 DEF IInv, TypeOK, Begin, BeginUnheard, Delete, Select, Insert, Commit, CommitUnheard
  <2> QED
    BY <2>1, <2>2
<1>2. ASSUME NEW c \in Calls, Retry(c)
      PROVE  RetryOK'
  BY <1>2 DEF IInv, TypeOK, OneWriter, Retry
<1>3. ASSUME NEW c \in Calls, BeginFails(c) \/ Rollback(c) \/ Fail(c)
      PROVE  RetryOK'
  BY <1>3, NobodyAssumption DEF IInv, TypeOK, OneWriter, BeginFails, Rollback, Fail
<1>4. ASSUME NEW c \in Calls, NEW t \in Tenants, NEW n \in Counts, Call(c, t, n)
      PROVE  RetryOK'
  BY <1>4 DEF IInv, TypeOK, Call
<1>5. ASSUME NEW c \in Calls, NEW n \in Counts, CallRejected(c, n)
      PROVE  RetryOK'
  BY <1>5 DEF IInv, TypeOK, CallRejected
<1>6. CASE Crash
  BY <1>6 DEF IInv, TypeOK, Crash
<1>7. CASE Initialize \/ Tick \/ SetBack \/ UNCHANGED vars
  BY <1>7 DEF Initialize, Tick, SetBack, vars
<1> QED
  BY <1>1, <1>2, <1>3, <1>4, <1>5, <1>6, <1>7 DEF Next, Progress, Disturbance

(* The Retry-After of a refusal is the first instant at which the same        *)
(* request would fit if nobody else reserved, and is missing exactly when no  *)
(* instant will do.                                                           *)
THEOREM RetryAfterExactHolds == Spec => []RetryAfterExact
<1>1. Init => RetryOK
  BY DEF Init, RetryOK
<1>2. ASSUME IInv, RetryOK, NEW c \in Calls, pc[c] = "deny"
      PROVE  LET q == request[c] IN
             /\ (retry[c] = Never) = (q.tokens > LimitTokens)
             /\ \A later \in q.now .. MaxClock + WindowMs + 1 :
                  ~OverLimit(Usage(view, q.tenant, later), q.tokens)
                    = (retry[c] # Never /\ later >= q.now + retry[c])
  <2> DEFINE q == request[c]
             sum == Usage(view, q.tenant, q.now)
             wait == RetryAfter(view, q.tenant, q.now, sum, q.tokens)
  <2>1. q.now \in Nat /\ q.tokens \in 1..MaxTokens
    BY <1>2, RequestTypes DEF InTransaction
  <2>2. view \in SUBSET Row /\ IsFiniteSet(view)
    BY <1>2 DEF IInv, TypeOK, Finite
  <2>3. used[c] = sum /\ OverLimit(sum, q.tokens)
    <3>1. view = Expiry(c) /\ used[c] = Committed(c) /\ OverLimit(Committed(c), q.tokens)
      BY <1>2 DEF IInv, ViewOK, BranchOK
    <3>2. Usage(Surviving(db, q.now), q.tenant, q.now) = Usage(db, q.tenant, q.now)
      BY ExpiryKeepsActive
    <3> QED
      BY <3>1, <3>2 DEF Expiry, Committed, UsageAt
  <2>4. retry[c] = wait
    BY <1>2, <2>3 DEF RetryOK
  <2>5. /\ (wait = Never) <=> (q.tokens > LimitTokens)
        /\ \A later \in Nat : later >= q.now =>
             (~OverLimit(Usage(view, q.tenant, later), q.tokens)
                <=> (wait # Never /\ later >= q.now + wait))
    BY <2>1, <2>2, <2>3, RetryAfterFits
  <2>6. \A later \in q.now .. MaxClock + WindowMs + 1 : later \in Nat /\ later >= q.now
    BY <2>1, MaxClockAssumption, LimitsAssumption
  <2> HIDE DEF wait, q
  <2>7. (retry[c] = Never) <=> (q.tokens > LimitTokens)
    BY <2>4, <2>5
  <2>8. ASSUME NEW later \in q.now .. MaxClock + WindowMs + 1
        PROVE  ~OverLimit(Usage(view, q.tenant, later), q.tokens)
                 <=> (retry[c] # Never /\ later >= q.now + retry[c])
    BY <2>4, <2>5, <2>6
  <2> QED
    BY <2>7, <2>8 DEF q, OverLimit
<1>3. IInv /\ RetryOK => RetryAfterExact
  BY <1>2 DEF RetryAfterExact
<1> QED
  BY <1>1, <1>3, RetryStepOK, InvariantHolds, PTL DEF Spec
=============================================================================
