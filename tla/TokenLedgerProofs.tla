------------------------- MODULE TokenLedgerProofs -------------------------
(* What the sum over token_events does when rows come and go.                 *)
EXTENDS TokenLedger, FiniteSetTheorems, WellFoundedInduction, TLAPS

(* A finite table has finitely many units, so its sum is a number.            *)
LEMMA TokensType ==
  ASSUME NEW R, IsFiniteSet(R)
  PROVE  IsFiniteSet(Units(R)) /\ Tokens(R) \in Nat
<1>1. IsFiniteSet(1..MaxTokens)
  BY FS_Interval, LimitsAssumption
<1>2. IsFiniteSet(R \X (1..MaxTokens))
  BY <1>1, FS_Product
<1>3. Units(R) \in SUBSET (R \X (1..MaxTokens))
  BY DEF Units
<1>4. IsFiniteSet(Units(R))
  BY <1>2, <1>3, FS_Subset
<1> QED
  BY <1>4, FS_CardinalityType DEF Tokens

(* Fewer rows, no larger a sum: expiry never raises a tenant's usage.         *)
LEMMA TokensMono ==
  ASSUME NEW S, IsFiniteSet(S), NEW R \in SUBSET S
  PROVE  IsFiniteSet(R) /\ Tokens(R) <= Tokens(S)
<1>1. IsFiniteSet(R)
  BY FS_Subset
<1>2. Units(R) \in SUBSET Units(S)
  BY DEF Units
<1>3. IsFiniteSet(Units(S))
  BY TokensType
<1> QED
  BY <1>1, <1>2, <1>3, FS_Subset DEF Tokens

(* One row is worth its token_count.                                          *)
LEMMA TokensOfRow ==
  ASSUME NEW x \in Row
  PROVE  Tokens({x}) = x.tokens
<1>1. x.tokens \in 1..MaxTokens
  BY DEF Row
<1>2. Units({x}) = {x} \X (1..x.tokens)
  BY <1>1, LimitsAssumption DEF Units
<1>3. IsFiniteSet({x}) /\ Cardinality({x}) = 1
  BY FS_Singleton
<1>4. IsFiniteSet(1..x.tokens) /\ Cardinality(1..x.tokens) = x.tokens
  BY <1>1, FS_Interval, LimitsAssumption
<1>5. Cardinality({x} \X (1..x.tokens)) = Cardinality({x}) * Cardinality(1..x.tokens)
  BY <1>3, <1>4, FS_Product
<1>6. Cardinality({x} \X (1..x.tokens)) = 1 * x.tokens
  BY <1>3, <1>4, <1>5
<1>7. 1 * x.tokens = x.tokens
  BY <1>1, LimitsAssumption
<1> QED
  BY <1>2, <1>6, <1>7 DEF Tokens

(* An insert raises the sum by at most its token_count.                       *)
LEMMA TokensAdd ==
  ASSUME NEW R, IsFiniteSet(R), NEW x \in Row
  PROVE  /\ IsFiniteSet(R \cup {x})
         /\ Tokens(R \cup {x}) <= Tokens(R) + x.tokens
<1>1. IsFiniteSet({x}) /\ IsFiniteSet(R \cup {x})
  BY FS_Singleton, FS_AddElement
<1>2. /\ IsFiniteSet(Units(R)) /\ Tokens(R) \in Nat
      /\ IsFiniteSet(Units({x})) /\ Tokens({x}) \in Nat
  BY <1>1, TokensType
<1>3. Units(R \cup {x}) = Units(R) \cup Units({x})
  BY DEF Units
<1>4. Cardinality(Units(R \cup {x}))
        = Cardinality(Units(R)) + Cardinality(Units({x}))
            - Cardinality(Units(R) \cap Units({x}))
  BY <1>2, <1>3, FS_Union
<1>5. Cardinality(Units(R) \cap Units({x})) \in Nat
  <2>1. Units(R) \cap Units({x}) \in SUBSET Units(R)
    OBVIOUS
  <2> QED
    BY <1>2, <2>1, FS_Subset, FS_CardinalityType
<1>6. Tokens(R \cup {x}) <= Tokens(R) + Tokens({x})
  BY <1>2, <1>4, <1>5 DEF Tokens
<1> QED
  BY <1>1, <1>6, TokensOfRow

(* An admitted insert keeps every set of active rows within the limit.        *)
LEMMA AdmitWithinLimit ==
  ASSUME NEW R, IsFiniteSet(R), NEW x \in Row, NEW S,
         ~OverLimit(Tokens(R), x.tokens),
         S \subseteq R \cup {x}
  PROVE  Tokens(S) <= LimitTokens
<1>1. IsFiniteSet(R \cup {x}) /\ Tokens(R \cup {x}) <= Tokens(R) + x.tokens
  BY TokensAdd
<1>2. IsFiniteSet(S) /\ Tokens(S) <= Tokens(R \cup {x})
  BY <1>1, TokensMono
<1>3. Tokens(S) \in Nat /\ Tokens(R) \in Nat /\ Tokens(R \cup {x}) \in Nat
  BY <1>1, <1>2, TokensType
<1>4. x.tokens \in Nat
  BY LimitsAssumption DEF Row
<1> QED
  BY <1>1, <1>2, <1>3, <1>4, LimitsAssumption DEF OverLimit

(* A non-empty set of instants has an earliest one.                           *)
LEMMA EarliestExists ==
  ASSUME NEW T, T \subseteq Nat, T # {}
  PROVE  \E x \in T : \A y \in T : x <= y
<1>1. PICK x \in T : \A y \in T : ~(<<y, x>> \in OpToRel(<, Nat))
  BY NatLessThanWellFounded, WFMin
<1>2. \A y \in T : ~(y < x)
  BY <1>1 DEF OpToRel
<1> QED
  BY <1>2

(* Retry-After is a number of milliseconds, or Never.                         *)
LEMMA RetryAfterType ==
  ASSUME NEW R \in SUBSET Row, NEW t, NEW now \in Nat, NEW sum, NEW n
  PROVE  RetryAfter(R, t, now, sum, n) \in Nat \cup {Never}
<1> DEFINE excess == sum + n - LimitTokens
           active == Active(R, t, now)
           enough == {r \in active : Tokens({s \in active : s.at <= r.at}) >= excess}
           first  == CHOOSE r \in enough : \A s \in enough : r.at <= s.at
<1>1. CASE enough = {}
  BY <1>1 DEF RetryAfter
<1>2. CASE enough # {}
  <2>1. \A r \in enough : r.at \in Nat
    BY DEF Active, Row
  <2>2. \E x \in {r.at : r \in enough} : \A y \in {r.at : r \in enough} : x <= y
    <3>1. {r.at : r \in enough} \subseteq Nat /\ {r.at : r \in enough} # {}
      BY <1>2, <2>1
    <3> QED
      BY <3>1, EarliestExists
  <2>3. \E r \in enough : \A s \in enough : r.at <= s.at
    BY <2>2
  <2>4. first \in enough
    BY <2>3
  <2>5. first.at \in Nat
    BY <2>1, <2>4
  <2>6. (IF first.at + WindowMs - now < 1 THEN 1 ELSE first.at + WindowMs - now) \in Nat
    BY <2>5, LimitsAssumption
  <2> QED
    BY <1>2, <2>6 DEF RetryAfter
<1> QED
  BY <1>1, <1>2
(* Rows that leave take their tokens with them.                               *)
LEMMA TokensSplit ==
  ASSUME NEW R, IsFiniteSet(R), NEW S \in SUBSET R
  PROVE  /\ Tokens(R) \in Nat /\ Tokens(S) \in Nat
         /\ Tokens(R \ S) = Tokens(R) - Tokens(S)
<1>1. IsFiniteSet(S) /\ IsFiniteSet(R \ S)
  BY FS_Subset
<1>2. /\ IsFiniteSet(Units(S)) /\ IsFiniteSet(Units(R \ S))
      /\ Tokens(R) \in Nat /\ Tokens(S) \in Nat /\ Tokens(R \ S) \in Nat
  BY <1>1, TokensType
<1>3. Units(S) \cup Units(R \ S) = Units(R) /\ Units(S) \cap Units(R \ S) = {}
  BY DEF Units
<1>4. Cardinality(Units(S) \cup Units(R \ S))
        = Cardinality(Units(S)) + Cardinality(Units(R \ S))
            - Cardinality(Units(S) \cap Units(R \ S))
  BY <1>2, FS_Union
<1>5. Cardinality({}) = 0
  BY FS_EmptySet
<1>6. Cardinality(Units(R)) = Cardinality(Units(S)) + Cardinality(Units(R \ S)) - 0
  BY <1>3, <1>4, <1>5
<1>7. Tokens(R) = Tokens(S) + Tokens(R \ S) - 0
  BY <1>6 DEF Tokens
<1> QED
  BY <1>2, <1>7

(* A finite table with a row has a latest one.                                *)
LEMMA LatestExists ==
  ASSUME NEW A, IsFiniteSet(A), A # {}, \A r \in A : r.at \in Nat
  PROVE  \E r \in A : \A s \in A : s.at <= r.at
<1> DEFINE After(r) == {s \in A : s.at > r.at}
           Counts   == {Cardinality(After(r)) : r \in A}
<1>1. \A r \in A : IsFiniteSet(After(r)) /\ Cardinality(After(r)) \in Nat
  <2> TAKE r \in A
  <2>1. After(r) \in SUBSET A
    OBVIOUS
  <2> QED
    BY <2>1, FS_Subset, FS_CardinalityType
<1>2. Counts \subseteq Nat /\ Counts # {}
  BY <1>1
<1>3. PICK least \in Counts : \A k \in Counts : least <= k
  BY <1>2, EarliestExists
<1>4. PICK r \in A : Cardinality(After(r)) = least
  OBVIOUS
<1>5. ASSUME NEW s \in A, s.at > r.at
      PROVE  FALSE
  <2>1. After(s) \in SUBSET After(r) /\ s \in After(r) /\ s \notin After(s)
    BY <1>5
  <2>2. /\ Cardinality(After(s)) <= Cardinality(After(r))
        /\ Cardinality(After(r)) = Cardinality(After(s)) => After(r) = After(s)
    BY <1>1, <2>1, FS_Subset
  <2>3. Cardinality(After(s)) < Cardinality(After(r))
    BY <1>1, <2>1, <2>2
  <2>4. least <= Cardinality(After(s))
    BY <1>3
  <2>5. Cardinality(After(s)) \in Nat /\ Cardinality(After(r)) \in Nat
    BY <1>1
  <2> HIDE DEF After, Counts
  <2> QED
    BY <1>4, <2>3, <2>4, <2>5
<1> QED
  BY <1>5

(* What Retry-After promises of a refused request: a wait exactly if the      *)
(* request can ever fit, and then it fits from the end of the wait on and at  *)
(* no instant before.                                                         *)
LEMMA RetryAfterFits ==
  ASSUME NEW R \in SUBSET Row, IsFiniteSet(R), NEW t, NEW now \in Nat,
         NEW n \in 1..MaxTokens,
         OverLimit(Usage(R, t, now), n)
  PROVE  LET wait == RetryAfter(R, t, now, Usage(R, t, now), n) IN
         /\ (wait = Never) <=> (n > LimitTokens)
         /\ \A later \in Nat : later >= now =>
              (~OverLimit(Usage(R, t, later), n) <=> (wait # Never /\ later >= now + wait))
<1> DEFINE sum       == Usage(R, t, now)
           excess    == sum + n - LimitTokens
           active    == Active(R, t, now)
           Upto(k)   == {s \in active : s.at <= k}
           enough    == {r \in active : Tokens({s \in active : s.at <= r.at}) >= excess}
           wait      == RetryAfter(R, t, now, sum, n)
           first     == CHOOSE r \in enough : \A s \in enough : r.at <= s.at
<1>1. /\ active \in SUBSET R /\ IsFiniteSet(active)
      /\ \A r \in active : r.at \in Nat /\ r.at > now - WindowMs
  <2>1. active \in SUBSET R
    BY DEF Active
  <2> QED
    BY <2>1, FS_Subset DEF Active, Row
<1>2. sum = Tokens(active) /\ sum \in Nat /\ n \in Nat /\ excess \in Int /\ excess >= 1
  BY <1>1, TokensType, LimitsAssumption DEF Usage, OverLimit
<1>3. \A k \in Int : Upto(k) \in SUBSET active /\ IsFiniteSet(Upto(k)) /\ Tokens(Upto(k)) \in Nat
  <2> TAKE k \in Int
  <2>1. Upto(k) \in SUBSET active
    OBVIOUS
  <2> QED
    BY <1>1, <2>1, FS_Subset, TokensType
<1>4. Tokens({}) = 0
  BY FS_EmptySet DEF Tokens, Units
<1>5. ASSUME NEW k \in Int, Tokens(Upto(k)) >= excess
      PROVE  \E r \in enough : r.at <= k
  <2>1. Upto(k) # {}
    <3>1. ASSUME Upto(k) = {}
          PROVE  FALSE
      <4>1. Tokens(Upto(k)) = 0
        BY <1>4, <3>1
      <4> HIDE DEF Upto, excess
      <4> QED
        BY <1>2, <1>5, <4>1
    <3> QED
      BY <3>1
  <2>2. PICK r \in Upto(k) : \A s \in Upto(k) : s.at <= r.at
    BY <1>1, <1>3, <2>1, LatestExists
  <2>3. {s \in active : s.at <= r.at} = Upto(k)
    BY <1>1, <2>2
  <2> QED
    BY <1>5, <2>2, <2>3
<1>6. ASSUME NEW k \in Int, NEW r \in enough, r.at <= k
      PROVE  Tokens(Upto(k)) >= excess
  <2>1. {s \in active : s.at <= r.at} \in SUBSET Upto(k) /\ r.at \in Int
    BY <1>1, <1>6
  <2>2. Tokens({s \in active : s.at <= r.at}) <= Tokens(Upto(k))
    BY <1>3, <2>1, TokensMono
  <2>3. Tokens({s \in active : s.at <= r.at}) >= excess
    OBVIOUS
  <2>4. IsFiniteSet({s \in active : s.at <= r.at}) /\ IsFiniteSet(Upto(k))
    BY <1>3, <2>1, FS_Subset
  <2>5. Tokens({s \in active : s.at <= r.at}) \in Nat /\ Tokens(Upto(k)) \in Nat
    BY <2>4, TokensType
  <2> DEFINE early == Tokens({s \in active : s.at <= r.at})
  <2> HIDE DEF early, Upto, enough, excess
  <2> QED
    BY <1>2, <2>2, <2>3, <2>5 DEF early
<1>7. ASSUME NEW later \in Nat, later >= now
      PROVE  ~OverLimit(Usage(R, t, later), n) <=> Tokens(Upto(later - WindowMs)) >= excess
  <2>1. Active(R, t, later) = active \ Upto(later - WindowMs)
    BY <1>1, <1>7, LimitsAssumption DEF Active, Row
  <2>2. later - WindowMs \in Int
    BY LimitsAssumption
  <2>3. /\ Tokens(Upto(later - WindowMs)) \in Nat
        /\ Tokens(active \ Upto(later - WindowMs)) = sum - Tokens(Upto(later - WindowMs))
    BY <1>1, <1>2, <1>3, <2>2, TokensSplit
  <2> QED
    BY <1>2, <2>1, <2>3, LimitsAssumption DEF OverLimit, Usage
<1>8. CASE enough = {}
  <2>1. wait = Never
    BY <1>8 DEF RetryAfter
  <2>2. \A k \in Int : ~(Tokens(Upto(k)) >= excess)
    BY <1>5, <1>8
  <2>3. n > LimitTokens
    <3>1. CASE active = {}
      BY <1>2, <1>4, <3>1, LimitsAssumption
    <3>2. CASE active # {}
      <4>1. PICK r \in active : \A s \in active : s.at <= r.at
        BY <1>1, <3>2, LatestExists
      <4>2. Upto(r.at) = active /\ r.at \in Int
        BY <1>1, <4>1
      <4> QED
        BY <1>2, <2>2, <4>2, LimitsAssumption
    <3> QED
      BY <3>1, <3>2
  <2>4. ASSUME NEW later \in Nat, later >= now
        PROVE  OverLimit(Usage(R, t, later), n)
    <3>1. later - WindowMs \in Int
      BY LimitsAssumption
    <3>2. ~(Tokens(Upto(later - WindowMs)) >= excess)
      BY <2>2, <3>1
    <3> QED
      BY <1>7, <2>4, <3>2
  <2> QED
    BY <2>1, <2>3, <2>4
<1>9. CASE enough # {}
  <2>1. first \in enough /\ \A s \in enough : first.at <= s.at
    <3>1. {r.at : r \in enough} \subseteq Nat /\ {r.at : r \in enough} # {}
      BY <1>1, <1>9
    <3>2. \E x \in {r.at : r \in enough} : \A y \in {r.at : r \in enough} : x <= y
      BY <3>1, EarliestExists
    <3>3. \E r \in enough : \A s \in enough : r.at <= s.at
      BY <3>2
    <3> QED
      BY <3>3
  <2>2. first.at \in Nat /\ first.at + WindowMs - now >= 1
    BY <1>1, <2>1, LimitsAssumption
  <2>3. wait = first.at + WindowMs - now
    BY <1>9, <2>2, LimitsAssumption DEF RetryAfter
  <2>4. wait \in Nat /\ wait # Never
    BY <2>2, <2>3, LimitsAssumption DEF Never
  <2>5. n <= LimitTokens
    <3> DEFINE released == Tokens(Upto(first.at))
    <3>1. first.at \in Int /\ first.at <= first.at
      BY <2>2
    <3>2. released >= excess
      BY <1>6, <2>1, <3>1
    <3>3. released \in Nat /\ released <= sum
      BY <1>1, <1>2, <1>3, <3>1, TokensMono
    <3> HIDE DEF released, sum, first
    <3> QED
      BY <1>2, <3>2, <3>3, LimitsAssumption
  <2>6. ASSUME NEW later \in Nat, later >= now
        PROVE  ~OverLimit(Usage(R, t, later), n) <=> later >= now + wait
    <3>1. later - WindowMs \in Int
      BY LimitsAssumption
    <3>2. Tokens(Upto(later - WindowMs)) >= excess <=> first.at <= later - WindowMs
      <4>1. ASSUME Tokens(Upto(later - WindowMs)) >= excess
            PROVE  first.at <= later - WindowMs
        <5>1. PICK r \in enough : r.at <= later - WindowMs
          BY <1>5, <3>1, <4>1
        <5>2. first.at <= r.at /\ r.at \in Nat
          BY <1>1, <2>1
        <5> QED
          BY <2>2, <3>1, <5>1, <5>2
      <4> QED
        BY <1>6, <2>1, <3>1, <4>1
    <3> QED
      BY <1>7, <2>2, <2>3, <2>6, <3>2, LimitsAssumption
  <2> QED
    BY <2>4, <2>5, <2>6, LimitsAssumption
<1> QED
  BY <1>8, <1>9
=============================================================================
