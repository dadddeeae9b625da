------------------------ MODULE SlidingWindowProofs ------------------------
(* SlidingWindow keeps its promises for every number of calls and tenants,    *)
(* every limit, every window and every order of the sampled clocks.           *)
EXTENDS SlidingWindow, TokenLedgerProofs

(* The inductive invariant.  RollingWindowLessLag is inductive only with the  *)
(* knowledge of which reservations the table still shows (OnlyExpiredAreGone) *)
(* and of the types that make times and sums comparable.                      *)
IInv ==
  /\ TypeOK
  /\ IsFiniteSet(granted)
  /\ OnlyExpiredAreGone
  /\ StoredWithinLimit
  /\ RollingWindowLessLag

(* Types are kept by every step.                                              *)
LEMMA TypeStep == TypeOK /\ [Next]_vars => TypeOK'
<1> SUFFICES ASSUME TypeOK, [Next]_vars PROVE TypeOK'
  OBVIOUS
<1> USE LimitsAssumption, TimesAssumption
<1>1. ASSUME NEW c \in Calls, NEW t \in Tenants, NEW n \in 1..MaxTokens,
             NEW now \in Times, Submit(c, t, n, now)
      PROVE  TypeOK'
  <2>1. [tenant |-> t, tokens |-> n, now |-> now] \in Request
    BY DEF Request
  <2> QED
    BY <1>1, <2>1 DEF TypeOK, Submit, Verdicts
<1>2. ASSUME NEW c \in Calls, NEW told \in {"allowed", "error"}, Grant(c, told)
      PROVE  TypeOK'
  <2>1. request[c] \in Request
    BY <1>2 DEF TypeOK, Grant
  <2>2. RowOf(c, request[c]) \in Row
    BY <2>1 DEF RowOf, Row, Request
  <2>3. request[c].now \in Nat
    BY <2>1 DEF Request
  <2>4. rows' \in SUBSET Row /\ granted' \in SUBSET Row
    BY <1>2, <2>2 DEF TypeOK, Grant, Surviving
  <2>5. newest' \in Nat /\ lag' \in Nat
    BY <1>2, <2>3 DEF TypeOK, Grant, Observe, ObserveGrant
  <2>6. verdict' \in [Calls -> Verdicts] /\ request' = request
    BY <1>2 DEF TypeOK, Grant, Verdicts
  <2>7. \A d \in Calls : verdict'[d] # "none" /\ verdict'[d] # "error" => request[d] \in Request
    BY <1>2, <2>1 DEF TypeOK, Grant
  <2> QED
    BY <2>4, <2>5, <2>6, <2>7 DEF TypeOK
<1>3. ASSUME NEW c \in Calls, NEW told \in {"denied", "error"}, Refuse(c, told)
      PROVE  TypeOK'
  <2>1. request[c] \in Request
    BY <1>3 DEF TypeOK, Refuse
  <2>2. request[c].now \in Nat
    BY <2>1 DEF Request
  <2>3. rows' \in SUBSET Row /\ newest' \in Nat
    BY <1>3, <2>2 DEF TypeOK, Refuse, Surviving, Observe
  <2>4. verdict' \in [Calls -> Verdicts] /\ UNCHANGED <<request, granted, lag>>
    BY <1>3 DEF TypeOK, Refuse, Verdicts
  <2>5. \A d \in Calls : verdict'[d] # "none" /\ verdict'[d] # "error" => request[d] \in Request
    BY <1>3, <2>1 DEF TypeOK, Refuse
  <2> QED
    BY <2>3, <2>4, <2>5 DEF TypeOK
<1>4. ASSUME NEW S \in SUBSET Calls, Abort(S)
      PROVE  TypeOK'
  BY <1>4 DEF TypeOK, Abort, Verdicts
<1>5. CASE UNCHANGED vars
  BY <1>5 DEF TypeOK, vars
<1> QED
  BY <1>1, <1>2, <1>3, <1>4, <1>5 DEF Next

(* The initial table is empty.                                                *)
LEMMA InitIInv == Init => IInv
<1> SUFFICES ASSUME Init PROVE IInv
  OBVIOUS
<1>1. TypeOK
  BY DEF Init, TypeOK, Verdicts
<1>2. IsFiniteSet({}) /\ Tokens({}) = 0
  <2>1. IsFiniteSet({}) /\ Cardinality({}) = 0
    BY FS_EmptySet
  <2>2. Units({}) = {}
    BY DEF Units
  <2> QED
    BY <2>1, <2>2 DEF Tokens
<1>3. \A t \in Tenants : OfTenant(rows, t) = {}
  BY DEF Init, OfTenant
<1>4. \A t \in Tenants, end \in Times : Within(t, end, WindowMs - lag) = {}
  BY DEF Init, Within
<1>5. OnlyExpiredAreGone
  BY DEF Init, OnlyExpiredAreGone
<1>6. StoredWithinLimit
  BY <1>2, <1>3, LimitsAssumption DEF StoredWithinLimit
<1>7. RollingWindowLessLag
  BY <1>2, <1>4, LimitsAssumption DEF RollingWindowLessLag
<1>8. IsFiniteSet(granted)
  BY <1>2 DEF Init
<1> QED
  BY <1>1, <1>5, <1>6, <1>7, <1>8 DEF IInv

(* A transaction that expires rows against its own cutoff, and moves newest   *)
(* to its own instant if that is later, removes only what has expired.        *)
LEMMA ExpiryRemovesOnlyExpired ==
  ASSUME TypeOK, OnlyExpiredAreGone, NEW now \in Nat, Observe(now),
         NEW new \in SUBSET Row,
         rows' = Surviving(rows, now) \cup new, granted' = granted \cup new
  PROVE  OnlyExpiredAreGone'
<1>1. newest \in Nat /\ newest' \in Nat /\ newest <= newest' /\ now <= newest'
  BY DEF TypeOK, Observe
<1>2. rows' \subseteq granted'
  BY DEF OnlyExpiredAreGone, Surviving
<1>3. ASSUME NEW r \in granted' \ rows' PROVE r.at <= newest' - WindowMs
  <2>1. r \in granted /\ r \notin Surviving(rows, now) /\ r.at \in Nat
    BY <1>3 DEF TypeOK, Row
  <2>2. CASE r \in rows
    BY <1>1, <2>1, <2>2, LimitsAssumption DEF Surviving
  <2>3. CASE r \notin rows
    BY <1>1, <2>1, <2>3, LimitsAssumption DEF OnlyExpiredAreGone
  <2> QED
    BY <2>2, <2>3
<1> QED
  BY <1>2, <1>3 DEF OnlyExpiredAreGone

(* A grant keeps the window: the reservations that share a window with the    *)
(* new one are still in the table, because anything already expired is older  *)
(* than the window less the lag, and the limiter has just counted them.       *)
LEMMA GrantKeepsWindow ==
  ASSUME IInv, TypeOK', NEW c \in Calls, NEW told, Grant(c, told)
  PROVE  RollingWindowLessLag'
<1> DEFINE q == request[c]
           x == RowOf(c, q)
<1>1. q \in Request /\ q.now \in Nat /\ x \in Row /\ x.at = q.now
      /\ x.tenant = q.tenant /\ x.tokens = q.tokens
  BY DEF IInv, TypeOK, Grant, Request, RowOf, Row
<1>2. /\ newest \in Nat /\ lag \in Nat /\ lag' \in Nat
      /\ lag <= lag' /\ newest - q.now <= lag'
  BY <1>1 DEF IInv, TypeOK, Grant, ObserveGrant
<1>3. ASSUME NEW t \in Tenants, NEW end \in Times
      PROVE  Tokens(Within(t, end, WindowMs - lag)') <= LimitTokens
  <2> DEFINE W == Within(t, end, WindowMs - lag)'
  <2>1. end \in Nat
    BY TimesAssumption
  <2>2. W \subseteq granted \cup {x}
    BY DEF Within, Grant
  <2>3. \A r \in granted \cup {x} : r.at \in Nat
    BY <1>1 DEF IInv, TypeOK, Row
  <2>4. CASE x \notin W
    <3>1. W \in SUBSET Within(t, end, WindowMs - lag)
      BY <1>2, <2>1, <2>2, <2>3, <2>4, LimitsAssumption DEF Within
    <3>2. IsFiniteSet(Within(t, end, WindowMs - lag))
      <4>1. Within(t, end, WindowMs - lag) \in SUBSET granted
        BY DEF Within
      <4> QED
        BY <4>1, FS_Subset DEF IInv
    <3>3. IsFiniteSet(W) /\ Tokens(W) <= Tokens(Within(t, end, WindowMs - lag))
      BY <3>1, <3>2, TokensMono
    <3>4. Tokens(W) \in Nat /\ Tokens(Within(t, end, WindowMs - lag)) \in Nat
      BY <3>2, <3>3, TokensType
    <3>5. Tokens(Within(t, end, WindowMs - lag)) <= LimitTokens
      BY DEF IInv, RollingWindowLessLag
    <3> QED
      BY <3>3, <3>4, <3>5, LimitsAssumption
  <2>5. CASE x \in W
    <3>1. t = q.tenant /\ q.now <= end /\ q.now > end - (WindowMs - lag')
      BY <1>1, <2>5 DEF Within
    <3>2. W \subseteq Active(rows, q.tenant, q.now) \cup {x}
      <4> SUFFICES ASSUME NEW r \in W, r # x
                   PROVE  r \in Active(rows, q.tenant, q.now)
        OBVIOUS
      <4>1. r \in granted /\ r.at \in Nat /\ r.tenant = q.tenant
            /\ r.at > end - (WindowMs - lag')
        BY <2>2, <2>3, <3>1 DEF Within
      <4>2. r.at > q.now - WindowMs /\ r.at > newest - WindowMs
        BY <1>1, <1>2, <2>1, <3>1, <4>1, LimitsAssumption
      <4>3. r \in rows
        BY <1>2, <4>1, <4>2, LimitsAssumption DEF IInv, OnlyExpiredAreGone
      <4> QED
        BY <4>1, <4>2, <4>3 DEF Active
    <3>3. IsFiniteSet(Active(rows, q.tenant, q.now))
      <4>1. Active(rows, q.tenant, q.now) \in SUBSET granted
        BY DEF IInv, OnlyExpiredAreGone, Active
      <4> QED
        BY <4>1, FS_Subset DEF IInv
    <3>4. ~OverLimit(Tokens(Active(rows, q.tenant, q.now)), x.tokens)
      BY <1>1 DEF Grant, Usage
    <3> QED
      BY <1>1, <3>2, <3>3, <3>4, AdmitWithinLimit
  <2> QED
    BY <2>4, <2>5
<1> QED
  BY <1>3 DEF RollingWindowLessLag

(* A transaction that leaves the table no larger keeps the limit.             *)
LEMMA ExpiryKeepsLimit ==
  ASSUME IInv, NEW now, rows' = Surviving(rows, now)
  PROVE  StoredWithinLimit'
<1> SUFFICES ASSUME NEW t \in Tenants
             PROVE  Tokens(OfTenant(rows', t)) <= LimitTokens
  BY DEF StoredWithinLimit
<1>1. OfTenant(rows, t) \in SUBSET granted
  BY DEF IInv, OnlyExpiredAreGone, OfTenant
<1>2. IsFiniteSet(OfTenant(rows, t))
  BY <1>1, FS_Subset DEF IInv
<1>3. OfTenant(rows', t) \in SUBSET OfTenant(rows, t)
  BY DEF OfTenant, Surviving
<1>4. IsFiniteSet(OfTenant(rows', t)) /\ Tokens(OfTenant(rows', t)) <= Tokens(OfTenant(rows, t))
  BY <1>2, <1>3, TokensMono
<1>5. Tokens(OfTenant(rows', t)) \in Nat /\ Tokens(OfTenant(rows, t)) \in Nat
  BY <1>2, <1>4, TokensType
<1>6. Tokens(OfTenant(rows, t)) <= LimitTokens
  BY DEF IInv, StoredWithinLimit
<1> QED
  BY <1>4, <1>5, <1>6, LimitsAssumption

(* A grant keeps the limit for its own tenant, whose remaining rows it has    *)
(* just counted, and takes nothing but expired rows from the others.          *)
LEMMA GrantKeepsLimit ==
  ASSUME IInv, NEW c \in Calls, NEW told, Grant(c, told)
  PROVE  StoredWithinLimit'
<1> DEFINE q == request[c]
           x == RowOf(c, q)
<1>1. q \in Request /\ q.now \in Nat /\ x \in Row /\ x.tenant = q.tenant /\ x.tokens = q.tokens
  BY DEF IInv, TypeOK, Grant, Request, RowOf, Row
<1> SUFFICES ASSUME NEW t \in Tenants
             PROVE  Tokens(OfTenant(rows', t)) <= LimitTokens
  BY DEF StoredWithinLimit
<1>2. rows' = Surviving(rows, q.now) \cup {x}
  BY DEF Grant
<1>3. CASE t = q.tenant
  <2>1. OfTenant(rows', t) \subseteq Active(rows, q.tenant, q.now) \cup {x}
    BY <1>2, <1>3 DEF OfTenant, Surviving, Active
  <2>2. Active(rows, q.tenant, q.now) \in SUBSET granted
    BY DEF IInv, OnlyExpiredAreGone, Active
  <2>3. IsFiniteSet(Active(rows, q.tenant, q.now))
    BY <2>2, FS_Subset DEF IInv
  <2>4. ~OverLimit(Tokens(Active(rows, q.tenant, q.now)), x.tokens)
    BY <1>1 DEF Grant, Usage
  <2> QED
    BY <1>1, <2>1, <2>3, <2>4, AdmitWithinLimit
<1>4. CASE t # q.tenant
  <2>1. OfTenant(rows', t) \in SUBSET OfTenant(rows, t)
    BY <1>1, <1>2, <1>4 DEF OfTenant, Surviving
  <2>2. OfTenant(rows, t) \in SUBSET granted
    BY DEF IInv, OnlyExpiredAreGone, OfTenant
  <2>3. IsFiniteSet(OfTenant(rows, t))
    BY <2>2, FS_Subset DEF IInv
  <2>4. IsFiniteSet(OfTenant(rows', t)) /\ Tokens(OfTenant(rows', t)) <= Tokens(OfTenant(rows, t))
    BY <2>1, <2>3, TokensMono
  <2>5. Tokens(OfTenant(rows', t)) \in Nat /\ Tokens(OfTenant(rows, t)) \in Nat
    BY <2>3, <2>4, TokensType
  <2>6. Tokens(OfTenant(rows, t)) <= LimitTokens
    BY DEF IInv, StoredWithinLimit
  <2> QED
    BY <2>4, <2>5, <2>6, LimitsAssumption
<1> QED
  BY <1>3, <1>4

(* Every step keeps the inductive invariant.                                  *)
LEMMA IInvStep == IInv /\ [Next]_vars => IInv'
<1> SUFFICES ASSUME IInv, [Next]_vars PROVE IInv'
  OBVIOUS
<1>0. TypeOK'
  BY TypeStep DEF IInv
<1>1. ASSUME UNCHANGED <<rows, granted, newest, lag>>
      PROVE  IInv'
  BY <1>0, <1>1 DEF IInv, OnlyExpiredAreGone, StoredWithinLimit, OfTenant,
                    RollingWindowLessLag, Within
<1>2. ASSUME NEW c \in Calls, NEW told \in {"allowed", "error"}, Grant(c, told)
      PROVE  IInv'
  <2>1. request[c].now \in Nat /\ RowOf(c, request[c]) \in Row
    BY <1>2 DEF IInv, TypeOK, Grant, Request, RowOf, Row
  <2>2. IsFiniteSet(granted')
    BY <1>2, FS_AddElement DEF IInv, Grant
  <2>3. OnlyExpiredAreGone'
    <3> DEFINE new == {RowOf(c, request[c])}
    <3>1. rows' = Surviving(rows, request[c].now) \cup new /\ granted' = granted \cup new
          /\ Observe(request[c].now) /\ new \in SUBSET Row
      BY <1>2, <2>1 DEF Grant
    <3> QED
      BY <2>1, <3>1, ExpiryRemovesOnlyExpired DEF IInv
  <2>4. StoredWithinLimit'
    BY <1>2, GrantKeepsLimit
  <2>5. RollingWindowLessLag'
    BY <1>0, <1>2, GrantKeepsWindow
  <2> QED
    BY <1>0, <2>2, <2>3, <2>4, <2>5 DEF IInv
<1>3. ASSUME NEW c \in Calls, NEW told \in {"denied", "error"}, Refuse(c, told)
      PROVE  IInv'
  <2>1. request[c].now \in Nat
    BY <1>3 DEF IInv, TypeOK, Refuse, Request
  <2>2. OnlyExpiredAreGone'
    <3>1. rows' = Surviving(rows, request[c].now) \cup {} /\ granted' = granted \cup {}
          /\ Observe(request[c].now) /\ {} \in SUBSET Row
      BY <1>3 DEF Refuse
    <3> QED
      BY <2>1, <3>1, ExpiryRemovesOnlyExpired DEF IInv
  <2>3. StoredWithinLimit'
    BY <1>3, ExpiryKeepsLimit DEF Refuse
  <2>4. RollingWindowLessLag' /\ IsFiniteSet(granted')
    BY <1>3 DEF IInv, Refuse, RollingWindowLessLag, Within
  <2> QED
    BY <1>0, <2>2, <2>3, <2>4 DEF IInv
<1>4. ASSUME NEW c \in Calls, NEW t \in Tenants, NEW n \in 1..MaxTokens,
             NEW now \in Times, Submit(c, t, n, now)
      PROVE  IInv'
  BY <1>1, <1>4 DEF Submit
<1>5. ASSUME NEW S \in SUBSET Calls, Abort(S)
      PROVE  IInv'
  BY <1>1, <1>5 DEF Abort
<1>6. CASE UNCHANGED vars
  BY <1>1, <1>6 DEF vars
<1> QED
  BY <1>2, <1>3, <1>4, <1>5, <1>6 DEF Next

(* The inductive invariant holds in every reachable state.                    *)
THEOREM InvariantHolds == Spec => []IInv
  BY InitIInv, IInvStep, PTL DEF Spec

(* Every reachable state of SlidingWindow is well typed.                      *)
THEOREM TypeCorrect == Spec => []TypeOK
<1>1. IInv => TypeOK
  BY DEF IInv
<1> QED
  BY <1>1, InvariantHolds, PTL

(* The table never holds more than limit_tokens for a tenant.                 *)
THEOREM StoredWithinLimitHolds == Spec => []StoredWithinLimit
<1>1. IInv => StoredWithinLimit
  BY DEF IInv
<1> QED
  BY <1>1, InvariantHolds, PTL

(* Only reservations out of a committed window ever leave the table.          *)
THEOREM OnlyExpiredAreGoneHolds == Spec => []OnlyExpiredAreGone
<1>1. IInv => OnlyExpiredAreGone
  BY DEF IInv
<1> QED
  BY <1>1, InvariantHolds, PTL

(* What usage() can report lies between the window of the newest committed    *)
(* clock and the grants of its own window, because only expired rows go.      *)
THEOREM UsageSeesWindowHolds == Spec => []UsageSeesWindow
<1>1. ASSUME IInv, NEW t \in Tenants, NEW now \in Times
      PROVE  LET seen == IF now > newest THEN now ELSE newest IN
             /\ Usage(rows, t, now) <= Usage(granted, t, now)
             /\ Usage(rows, t, now) >= Usage(granted, t, seen)
  <2> DEFINE seen == IF now > newest THEN now ELSE newest
  <2>1. Active(rows, t, now) \in SUBSET Active(granted, t, now)
    BY <1>1 DEF IInv, OnlyExpiredAreGone, Active
  <2>2. Active(granted, t, seen) \in SUBSET Active(rows, t, now)
    <3>1. newest \in Nat /\ now \in Nat /\ \A r \in granted : r.at \in Nat
      BY <1>1, TimesAssumption DEF IInv, TypeOK, Row
    <3> QED
      BY <1>1, <3>1, LimitsAssumption DEF IInv, OnlyExpiredAreGone, Active
  <2>3. Active(granted, t, now) \in SUBSET granted
    BY DEF Active
  <2>4. IsFiniteSet(Active(granted, t, now))
    BY <1>1, <2>3, FS_Subset DEF IInv
  <2>5. IsFiniteSet(Active(rows, t, now))
        /\ Tokens(Active(rows, t, now)) <= Tokens(Active(granted, t, now))
    BY <2>1, <2>4, TokensMono
  <2>6. IsFiniteSet(Active(granted, t, seen))
        /\ Tokens(Active(granted, t, seen)) <= Tokens(Active(rows, t, now))
    BY <2>2, <2>5, TokensMono
  <2>7. Tokens(Active(granted, t, seen)) \in Nat /\ Tokens(Active(rows, t, now)) \in Nat
    BY <2>5, <2>6, TokensType
  <2> QED
    BY <2>5, <2>6, <2>7 DEF Usage
<1>2. IInv => UsageSeesWindow
  BY <1>1 DEF UsageSeesWindow
<1> QED
  BY <1>2, InvariantHolds, PTL

(* No interval of the window's length less the lag is ever over-granted.      *)
THEOREM RollingWindowLessLagHolds == Spec => []RollingWindowLessLag
<1>1. IInv => RollingWindowLessLag
  BY DEF IInv
<1> QED
  BY <1>1, InvariantHolds, PTL
=============================================================================
