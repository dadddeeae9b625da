--------------------------- MODULE RedactorProofs ---------------------------
(* Proofs about the texts of the redactor, for every limit and every mask:    *)
(*   - Finditer, Sub and Present do what a scan from the left does;           *)
(*   - where a cut is Sealed, redacting the parts is redacting the whole;     *)
(*   - where feed() cuts, the cut is Sealed in every text that goes on from   *)
(*     the buffered one and whose values stand apart.                         *)
EXTENDS Redactor, FiniteSetTheorems, SequenceTheorems, WellFoundedInduction, TLAPS

LEMMA MinOfSet ==
  ASSUME NEW S, S \subseteq Nat, S # {}
  PROVE  Min(S) \in S /\ \A y \in S : Min(S) <= y
<1>1. PICK x \in S : \A y \in S : ~(<<y, x>> \in OpToRel(<, Nat))
  BY NatLessThanWellFounded, WFMin
<1>2. \A y \in S : ~(y < x)
  BY <1>1 DEF OpToRel
<1>3. \A y \in S : x <= y
  BY <1>2
<1> QED
  BY <1>3 DEF Min

LEMMA MaxOfSet ==
  ASSUME NEW n \in Nat, NEW S, S \subseteq 0 .. n, S # {}
  PROVE  Max(S) \in S /\ \A y \in S : Max(S) >= y
<1> DEFINE T == {n - y : y \in S}
<1>1. T \subseteq Nat /\ T # {}
  <2>1. \A y \in S : n - y \in Nat
    OBVIOUS
  <2> QED
    BY <2>1
<1>2. PICK least \in T : \A k \in T : least <= k
  BY <1>1, MinOfSet
<1>3. PICK x \in S : least = n - x
  OBVIOUS
<1>4. \A y \in S : x >= y
  BY <1>2, <1>3
<1> QED
  BY <1>4 DEF Max

LEMMA MaxOfTwo ==
  ASSUME NEW a \in Int, NEW b \in Int
  PROVE  Max({a, b}) = IF a >= b THEN a ELSE b
BY DEF Max

\* A trailing run ends where it should and is no longer than its limit.
LEMMA RunStartFits ==
  ASSUME NEW t, NEW end \in Nat, NEW S, NEW limit \in Nat
  PROVE  RunStart(t, end, S, limit) \in 0 .. end /\ RunStart(t, end, S, limit) >= end - limit
<1> DEFINE low == Max({0, end - limit})
           starts == {s \in low .. end : All(t, s + 1, end, S)}
<1>1. low \in 0 .. end /\ low >= end - limit
  BY MaxOfTwo
<1>2. end \in starts
  BY <1>1 DEF All
<1>3. starts \subseteq Nat /\ \A s \in starts : s \in low .. end
  BY <1>1
<1> HIDE DEF low, starts
<1>4. Min(starts) \in starts
  BY <1>2, <1>3, MinOfSet
<1> QED
  BY <1>1, <1>3, <1>4 DEF RunStart, low, starts

\* Where a classifier or feed() may cut t: no more than EmailSpan is held back.
Holding(t) == {c \in 0 .. Len(t) : c >= Len(t) - EmailSpan}

LEMMA EmailCandidateFits ==
  ASSUME NEW t, Len(t) \in Nat
  PROVE  EmailCandidate(t) \subseteq Holding(t)
<1> DEFINE end == Len(t)
           run == RunStart(t, end, CandidateChars, EmailSpan)
           ats == {p \in run + 1 .. end : t[p] = "at"}
           tail == IF ats = {} THEN end ELSE Max(ats) - 1
           local == RunStart(t, tail, LocalChars, LocalMax)
<1>1. EmailSpan \in Nat /\ LocalMax \in Nat
  BY PatternAssumption
<1>2. run \in 0 .. end /\ run >= end - EmailSpan
  BY <1>1, RunStartFits
<1>3. tail \in 0 .. end
  <2>1. CASE ats = {}
    BY <2>1
  <2>2. CASE ats # {}
    <3>1. ats \subseteq 0 .. end
      BY <1>2
    <3>2. Max(ats) \in ats
      BY <2>2, <3>1, MaxOfSet
    <3> QED
      BY <1>2, <2>2, <3>2
  <2> QED
    BY <2>1, <2>2
<1>4. local \in 0 .. tail
  BY <1>1, <1>3, RunStartFits
<1>5. Max({run, local}) \in Holding(t)
  <2> HIDE DEF run, tail, local
  <2>1. Max({run, local}) = IF run >= local THEN run ELSE local
    BY <1>2, <1>4, MaxOfTwo
  <2> QED
    BY <1>1, <1>2, <1>3, <1>4, <2>1 DEF Holding
<1> QED
  BY <1>5 DEF EmailCandidate

LEMMA SsnCandidateFits ==
  ASSUME NEW t, Len(t) \in Nat
  PROVE  SsnCandidate(t) \subseteq Holding(t)
<1>1. Len(SsnMask) \in 0 .. EmailSpan /\ EmailSpan \in Nat
  BY PatternAssumption, SpanAssumption
<1>2. /\ Min({Len(SsnMask), Len(t)}) \in {Len(SsnMask), Len(t)}
      /\ \A k \in {Len(SsnMask), Len(t)} : Min({Len(SsnMask), Len(t)}) <= k
  <2>1. {Len(SsnMask), Len(t)} \subseteq Nat /\ {Len(SsnMask), Len(t)} # {}
    BY <1>1
  <2> QED
    BY <2>1, MinOfSet
<1>3. \A m \in 1 .. Min({Len(SsnMask), Len(t)}) : Len(t) - m \in Holding(t)
  BY <1>1, <1>2 DEF Holding
<1> QED
  BY <1>3 DEF SsnCandidate

LEMMA CardCandidateFits ==
  ASSUME NEW t, Len(t) \in Nat
  PROVE  CardCandidate(t) \subseteq Holding(t)
<1> DEFINE end == Len(t)
           run == RunStart(t, end, CardChars, CardSpan)
           digits == {p \in run + 1 .. end : t[p] = "digit"}
<1>1. CardSpan \in 0 .. EmailSpan /\ EmailSpan \in Nat
  BY PatternAssumption, SpanAssumption
<1>2. run \in 0 .. end /\ run >= end - CardSpan
  BY <1>1, RunStartFits
<1>3. SUFFICES ASSUME Cardinality(digits) \in 1 .. CardMax
               PROVE  Min(digits) - 1 \in Holding(t)
  BY DEF CardCandidate
<1>4. digits # {}
  <2>1. Cardinality(digits) # 0
    BY <1>3
  <2> QED
    BY <2>1, FS_EmptySet, Zenon
<1>5. digits \subseteq Nat
  BY <1>2
<1>6. Min(digits) \in digits
  BY <1>4, <1>5, MinOfSet
<1> QED
  BY <1>1, <1>2, <1>6 DEF Holding

\* None of the three classifiers holds back more than the longest value.
LEMMA UnsafeSuffixFits ==
  ASSUME NEW t, Len(t) \in Nat
  PROVE  UnsafeSuffix(t) \in Holding(t)
<1> DEFINE cuts == {Len(t)} \cup EmailCandidate(t) \cup SsnCandidate(t) \cup CardCandidate(t)
<1>1. EmailSpan \in Nat
  BY PatternAssumption
<1>2. cuts \subseteq Holding(t)
  BY <1>1, EmailCandidateFits, SsnCandidateFits, CardCandidateFits DEF Holding
<1>3. cuts \subseteq Nat /\ cuts # {}
  BY <1>2 DEF Holding
<1> HIDE DEF cuts
<1>4. Min(cuts) \in cuts
  BY <1>3, MinOfSet
<1> QED
  BY <1>2, <1>4 DEF UnsafeSuffix, cuts

\* Extending the cut only releases more.
LEMMA SafeCutFits ==
  ASSUME NEW t, Len(t) \in Nat
  PROVE  SafeCut(t) \in Holding(t)
<1> DEFINE low == UnsafeSuffix(t)
           split(c) == \E m \in UNION {Finditer(pattern, t) : pattern \in Patterns} :
                         m[1] - 1 < c /\ c < m[2]
           cuts == {Len(t)} \cup {c \in low .. Len(t) : ~split(c)}
<1>1. low \in Holding(t) /\ EmailSpan \in Nat
  BY UnsafeSuffixFits, PatternAssumption
<1>2. \A c \in low .. Len(t) : c \in Holding(t)
  BY <1>1 DEF Holding
<1>3. cuts \subseteq Holding(t)
  BY <1>1, <1>2 DEF Holding
<1>4. cuts \subseteq Nat /\ cuts # {}
  BY <1>3 DEF Holding
<1>5. SafeCut(t) = Min(cuts)
  <2>1. cuts = {Len(t)} \cup
          {c \in low .. Len(t) : \A m \in UNION {Finditer(pattern, t) : pattern \in Patterns} :
             ~(m[1] - 1 < c /\ c < m[2])}
    OBVIOUS
  <2> QED
    BY <2>1 DEF SafeCut, ExtendCut
<1> HIDE DEF cuts
<1>6. Min(cuts) \in cuts
  BY <1>4, MinOfSet
<1> QED
  BY <1>3, <1>5, <1>6

\* So the memory bound never moves the cut.
LEMMA BoundedCutIsSafeCut ==
  ASSUME NEW t, Len(t) \in Nat
  PROVE  BoundedCut(t) = SafeCut(t)
<1>1. SafeCut(t) \in Int /\ SafeCut(t) >= Len(t) - EmailSpan /\ EmailSpan \in Nat
  BY SafeCutFits, PatternAssumption DEF Holding
<1> QED
  BY <1>1, MaxOfTwo DEF BoundedCut

-----------------------------------------------------------------------------
\* Recursion towards the end of a text, by least counterexample: the library's
\* induction theorems take operators.
Recursion(n, V, base, next, combine) ==
  /\ n \in Nat
  /\ base \in V
  /\ next \in [1 .. n -> Nat] /\ \A i \in 1 .. n : next[i] \in i + 1 .. n + 1
  /\ combine \in [1 .. n -> [V -> V]]

Solves(f, n, V, base, next, combine) ==
  /\ f \in [1 .. n + 1 -> V]
  /\ \A i \in 1 .. n + 1 : f[i] = IF i > n THEN base ELSE combine[i][f[next[i]]]

LEMMA RecursionDefined ==
  ASSUME NEW n, NEW V, NEW base, NEW next, NEW combine, Recursion(n, V, base, next, combine)
  PROVE  \E f : Solves(f, n, V, base, next, combine)
<1> USE DEF Recursion
<1> DEFINE step(f, i) == IF i > n THEN base ELSE combine[i][f[next[i]]]
           from(k) == n + 1 - k .. n + 1
           solves(f, k) == \A i \in from(k) : f[i] = step(f, i)
           solvable(k) == \E f \in [from(k) -> V] : solves(f, k)
           failing == {k \in 0 .. n : ~solvable(k)}
<1>1. ASSUME failing # {}
      PROVE  FALSE
  <2>1. PICK k \in failing : \A l \in failing : k <= l
    <3>1. failing \subseteq Nat
      OBVIOUS
    <3> HIDE DEF failing
    <3> QED
      BY <1>1, <3>1, MinOfSet
  <2>2. k \in 0 .. n /\ ~solvable(k)
    OBVIOUS
  <2>3. CASE k = 0
    <3> DEFINE f == [i \in from(k) |-> base]
    <3>1. f \in [from(k) -> V] /\ solves(f, k)
      BY <2>3
    <3> QED
      BY <2>2, <3>1
  <2>4. CASE k > 0
    <3>1. solvable(k - 1)
      <4> HIDE DEF solvable
      <4>1. k - 1 \in 0 .. n /\ ~(k <= k - 1)
        BY <2>2, <2>4
      <4> QED
        BY <2>1, <4>1
    <3>2. PICK f \in [from(k - 1) -> V] : solves(f, k - 1)
      BY <3>1
    <3> DEFINE first == n + 1 - k
               g == [i \in from(k) |-> IF i = first THEN combine[first][f[next[first]]] ELSE f[i]]
    <3>3. first \in 1 .. n /\ next[first] \in from(k - 1)
      BY <2>2, <2>4
    <3>4. from(k) = {first} \cup from(k - 1) /\ first \notin from(k - 1)
      BY <2>2, <2>4
    <3>5. combine[first][f[next[first]]] \in V
      <4>1. f[next[first]] \in V
        BY <3>3
      <4>2. combine[first] \in [V -> V]
        BY <3>3
      <4> QED
        BY <4>1, <4>2
    <3>6. g \in [from(k) -> V]
      BY <3>4, <3>5
    <3>7. \A i \in from(k) : g[i] = step(g, i)
      <4> TAKE i \in from(k)
      <4>1. CASE i = first
        <5>1. g[next[first]] = f[next[first]]
          BY <3>3, <3>4
        <5> QED
          BY <3>3, <4>1, <5>1
      <4>2. CASE i # first
        <5>1. i \in from(k - 1) /\ g[i] = f[i]
          BY <3>4, <4>2
        <5>2. i <= n => next[i] \in from(k - 1) /\ g[next[i]] = f[next[i]]
          <6>1. i <= n => i \in 1 .. n /\ next[i] \in i + 1 .. n + 1
            BY <5>1, <2>2, <2>4
          <6>2. i <= n => next[i] \in from(k - 1)
            BY <5>1, <6>1, <2>2, <2>4
          <6> QED
            BY <3>4, <6>2
        <5>3. f[i] = step(f, i)
          BY <3>2, <5>1
        <5> QED
          BY <5>1, <5>2, <5>3
      <4> QED
        BY <4>1, <4>2
    <3> QED
      BY <2>2, <3>6, <3>7
  <2> QED
    BY <2>2, <2>3, <2>4
<1>2. PICK f \in [from(n) -> V] : solves(f, n)
  <2> HIDE DEF solvable
  <2>1. solvable(n)
    BY <1>1
  <2> QED
    BY <2>1 DEF solvable
<1>3. from(n) = 1 .. n + 1
  OBVIOUS
<1>4. Solves(f, n, V, base, next, combine)
  BY <1>2, <1>3 DEF Solves
<1> QED
  BY <1>4

LEMMA RecursionInside ==
  ASSUME NEW n \in Nat, NEW V, NEW f,
         \A i \in 1 .. n + 1 :
           f[i] \in V \/ \E j \in i + 1 .. n + 1 : f[j] \notin V
  PROVE  \A i \in 1 .. n + 1 : f[i] \in V
<1> DEFINE outside == {i \in 1 .. n + 1 : f[i] \notin V}
<1>1. SUFFICES ASSUME outside # {}
               PROVE  FALSE
  OBVIOUS
<1>2. outside \subseteq 0 .. n + 1 /\ n + 1 \in Nat
  OBVIOUS
<1> HIDE DEF outside
<1>3. Max(outside) \in outside /\ \A j \in outside : Max(outside) >= j
  BY <1>1, <1>2, MaxOfSet
<1>4. PICK j \in Max(outside) + 1 .. n + 1 : f[j] \notin V
  BY <1>3 DEF outside
<1>5. Max(outside) \in 1 .. n + 1
  BY <1>3 DEF outside
<1>6. j \in outside /\ j > Max(outside)
  BY <1>4, <1>5 DEF outside
<1> QED
  BY <1>3, <1>5, <1>6

Spans(t) == {m \in (1 .. Len(t)) \X (1 .. Len(t)) : m[1] <= m[2]}

\* Where the matches that begin at i end.
Lasts(pattern, t, i) == {j \in i .. Len(t) : Matches(pattern, t, i, j)}

\* found[i]: the matches of t from i on.
Finds(found, pattern, t) ==
  /\ found \in [1 .. Len(t) + 1 -> SUBSET Spans(t)]
  /\ \A i \in 1 .. Len(t) + 1 :
       found[i] = IF i > Len(t) THEN {}
                  ELSE IF Lasts(pattern, t, i) = {} THEN found[i + 1]
                  ELSE {<<i, Max(Lasts(pattern, t, i))>>}
                       \cup found[Max(Lasts(pattern, t, i)) + 1]

LEMMA LastFits ==
  ASSUME NEW t, Len(t) \in Nat, NEW pattern, NEW i \in 1 .. Len(t), Lasts(pattern, t, i) # {}
  PROVE  /\ Max(Lasts(pattern, t, i)) \in Lasts(pattern, t, i)
         /\ \A j \in Lasts(pattern, t, i) : Max(Lasts(pattern, t, i)) >= j
         /\ Max(Lasts(pattern, t, i)) \in i .. Len(t)
<1>1. Lasts(pattern, t, i) \subseteq 0 .. Len(t) /\ Lasts(pattern, t, i) \subseteq i .. Len(t)
  BY DEF Lasts
<1> QED
  BY <1>1, MaxOfSet

LEMMA FinditerRecursion ==
  ASSUME NEW t, Len(t) \in Nat, NEW pattern
  PROVE  \E found : Finds(found, pattern, t) /\ found[1] = Finditer(pattern, t)
<1> DEFINE n == Len(t)
           V == SUBSET Spans(t)
           last(i) == {j \in i .. n : Matches(pattern, t, i, j)}
           body(f, i) == IF i > n THEN {}
                         ELSE IF last(i) = {} THEN f[i + 1]
                         ELSE {<<i, Max(last(i))>>} \cup f[Max(last(i)) + 1]
           found == CHOOSE f : f = [i \in 1 .. n + 1 |-> body(f, i)]
<1>1. ASSUME NEW i \in 1 .. n, last(i) # {}
      PROVE  Max(last(i)) \in i .. n
  <2>1. last(i) \subseteq 0 .. n
    OBVIOUS
  <2> HIDE DEF last
  <2>2. Max(last(i)) \in last(i)
    BY <1>1, <2>1, MaxOfSet
  <2> QED
    BY <2>2 DEF last
<1> HIDE DEF last
<1>2. \E f : f = [i \in 1 .. n + 1 |-> body(f, i)]
  <2> DEFINE next == [i \in 1 .. n |-> IF last(i) = {} THEN i + 1 ELSE Max(last(i)) + 1]
             combine == [i \in 1 .. n |-> [v \in V |->
                           IF last(i) = {} THEN v ELSE {<<i, Max(last(i))>>} \cup v]]
  <2>1. next \in [1 .. n -> Nat] /\ \A i \in 1 .. n : next[i] \in i + 1 .. n + 1
    BY <1>1
  <2>2. combine \in [1 .. n -> [V -> V]]
    <3>1. \A i \in 1 .. n, v \in V : last(i) # {} => {<<i, Max(last(i))>>} \cup v \in V
      BY <1>1 DEF Spans
    <3> QED
      BY <3>1
  <2>3. {} \in V
    OBVIOUS
  <2>4. PICK f : Solves(f, n, V, {}, next, combine)
    <3>1. Recursion(n, V, {}, next, combine)
      BY <2>1, <2>2, <2>3 DEF Recursion
    <3> HIDE DEF V, n, next, combine
    <3> QED
      BY <3>1, RecursionDefined
  <2>5. \A i \in 1 .. n + 1 :
          (IF i > n THEN {} ELSE combine[i][f[next[i]]]) = body(f, i)
    <3> TAKE i \in 1 .. n + 1
    <3>1. CASE i > n
      BY <3>1
    <3>2. CASE i <= n
      <4>1. i \in 1 .. n /\ next[i] \in 1 .. n + 1
        BY <2>1, <3>2
      <4>2. f[next[i]] \in V
        BY <2>4, <4>1 DEF Solves
      <4>3. combine[i][f[next[i]]] =
              IF last(i) = {} THEN f[next[i]] ELSE {<<i, Max(last(i))>>} \cup f[next[i]]
        BY <4>1, <4>2
      <4> QED
        BY <3>2, <4>1, <4>3
    <3> QED
      BY <3>1, <3>2
  <2>6. f = [i \in 1 .. n + 1 |-> f[i]] /\ \A i \in 1 .. n + 1 : f[i] = body(f, i)
    BY <2>4, <2>5 DEF Solves
  <2> HIDE DEF body
  <2> QED
    BY <2>6
<1>3. found = [i \in 1 .. n + 1 |-> body(found, i)]
  <2> HIDE DEF body
  <2> QED
    BY <1>2
<1>4. \A i \in 1 .. n + 1 : found[i] = body(found, i)
  <2> HIDE DEF body, found
  <2> QED
    BY <1>3
<1> HIDE DEF found
<1>5. ASSUME NEW i \in 1 .. n + 1, \A j \in i + 1 .. n + 1 : found[j] \in V
      PROVE  found[i] \in V
  <2>1. CASE i > n
    BY <1>4, <2>1
  <2>2. CASE i <= n /\ last(i) = {}
    <3>1. found[i] = found[i + 1]
      <4>1. found[i] = body(found, i)
        BY <1>4
      <4>2. ~(i > n)
        BY <2>2
      <4> QED
        BY <2>2, <4>1, <4>2
    <3> QED
      BY <1>5, <2>2, <3>1
  <2>3. CASE i <= n /\ last(i) # {}
    <3>1. found[i] = {<<i, Max(last(i))>>} \cup found[Max(last(i)) + 1]
      <4>1. found[i] = body(found, i)
        BY <1>4
      <4>2. ~(i > n)
        BY <2>3
      <4> QED
        BY <2>3, <4>1, <4>2
    <3>2. Max(last(i)) \in i .. n /\ i \in 1 .. n
      BY <1>1, <2>3
    <3>3. found[Max(last(i)) + 1] \in V
      BY <1>5, <3>2
    <3>4. <<i, Max(last(i))>> \in Spans(t)
      BY <3>2 DEF Spans
    <3> QED
      BY <3>1, <3>3, <3>4
  <2> QED
    BY <2>1, <2>2, <2>3
<1>6. \A i \in 1 .. n + 1 : found[i] \in V
  <2> HIDE DEF V
  <2> QED
    BY <1>5, RecursionInside
<1>7. Finditer(pattern, t) = found[1]
  BY DEF Finditer, found, last
<1>8. found = [i \in 1 .. n + 1 |-> found[i]]
  BY <1>3
<1>9. Finds(found, pattern, t)
  <2>1. found \in [1 .. n + 1 -> V]
    BY <1>6, <1>8
  <2>2. \A i \in 1 .. n + 1 : Lasts(pattern, t, i) = last(i)
    BY DEF Lasts, last
  <2> QED
    BY <1>4, <2>1, <2>2 DEF Finds
<1> QED
  BY <1>7, <1>9

LEMMA FinditerFits ==
  ASSUME NEW t, Len(t) \in Nat, NEW pattern
  PROVE  Finditer(pattern, t) \subseteq Spans(t)
<1>1. PICK found : Finds(found, pattern, t) /\ found[1] = Finditer(pattern, t)
  BY FinditerRecursion
<1> QED
  BY <1>1 DEF Finds

\* What is found is a match, and the longest at its place.
LEMMA FinditerSound ==
  ASSUME NEW t, Len(t) \in Nat, NEW pattern, NEW m \in Finditer(pattern, t)
  PROVE  /\ m \in Spans(t) /\ m = <<m[1], m[2]>>
         /\ Matches(pattern, t, m[1], m[2])
         /\ \A j \in m[1] .. Len(t) : Matches(pattern, t, m[1], j) => j <= m[2]
<1> DEFINE n == Len(t)
           good(l) == /\ Matches(pattern, t, l[1], l[2])
                      /\ \A j \in l[1] .. n : Matches(pattern, t, l[1], j) => j <= l[2]
           V == {M \in SUBSET Spans(t) : \A l \in M : good(l)}
<1>1. PICK found : Finds(found, pattern, t) /\ found[1] = Finditer(pattern, t)
  BY FinditerRecursion
<1>2. ASSUME NEW i \in 1 .. n + 1, \A j \in i + 1 .. n + 1 : found[j] \in V
      PROVE  found[i] \in V
  <2>1. found[i] \in SUBSET Spans(t)
    BY <1>1 DEF Finds
  <2>2. CASE i > n
    <3>1. found[i] = {}
      BY <1>1, <2>2 DEF Finds
    <3> QED
      BY <3>1
  <2>3. CASE i <= n /\ Lasts(pattern, t, i) = {}
    <3>1. found[i] = found[i + 1] /\ i + 1 \in i + 1 .. n + 1
      BY <1>1, <2>3 DEF Finds
    <3> QED
      BY <1>2, <3>1
  <2>4. CASE i <= n /\ Lasts(pattern, t, i) # {}
    <3> DEFINE last == Max(Lasts(pattern, t, i))
    <3>1. found[i] = {<<i, last>>} \cup found[last + 1]
      BY <1>1, <2>4 DEF Finds
    <3>2. /\ last \in Lasts(pattern, t, i) /\ last \in i .. n
          /\ \A j \in Lasts(pattern, t, i) : last >= j
      BY <2>4, LastFits
    <3>3. found[last + 1] \in V
      BY <1>2, <3>2
    <3>4. good(<<i, last>>)
      BY <3>2 DEF Lasts
    <3> HIDE DEF good, last
    <3> QED
      BY <2>1, <3>1, <3>3, <3>4
  <2> QED
    BY <2>2, <2>3, <2>4
<1>3. found[1] \in V
  <2> HIDE DEF V
  <2>1. \A i \in 1 .. n + 1 : found[i] \in V
    BY <1>2, RecursionInside
  <2> QED
    BY <2>1
<1>4. m = <<m[1], m[2]>>
  BY <1>1, <1>3 DEF Spans
<1> QED
  BY <1>1, <1>3, <1>4

\* No match is passed over: every match begins inside one that is found.
LEMMA FinditerComplete ==
  ASSUME NEW t, Len(t) \in Nat, NEW pattern, NEW i \in 1 .. Len(t), NEW j \in i .. Len(t),
         Matches(pattern, t, i, j)
  PROVE  \E m \in Finditer(pattern, t) : m[1] <= i /\ i <= m[2]
<1> DEFINE n == Len(t)
           covers(M) == \E m \in M : m[1] <= i /\ i <= m[2]
<1>1. PICK found : Finds(found, pattern, t) /\ found[1] = Finditer(pattern, t)
  BY FinditerRecursion
<1> DEFINE bad == {a \in 1 .. i : ~covers(found[a])}
<1>2. ASSUME NEW a \in 1 .. i, \A b \in a + 1 .. i : covers(found[b])
      PROVE  covers(found[a])
  <2>1. a \in 1 .. n + 1 /\ ~(a > n) /\ a \in 1 .. n
    OBVIOUS
  <2>2. CASE Lasts(pattern, t, a) = {}
    <3>1. found[a] = found[a + 1]
      BY <1>1, <2>1, <2>2 DEF Finds
    <3>2. a # i
      BY <2>2 DEF Lasts
    <3> QED
      BY <1>2, <3>1, <3>2
  <2>3. CASE Lasts(pattern, t, a) # {}
    <3> DEFINE last == Max(Lasts(pattern, t, a))
    <3>1. found[a] = {<<a, last>>} \cup found[last + 1]
      BY <1>1, <2>1, <2>3 DEF Finds
    <3>2. last \in a .. n
      BY <2>1, <2>3, LastFits
    <3>3. CASE last >= i
      <4> DEFINE m == <<a, last>>
      <4>1. m \in found[a] /\ m[1] = a /\ m[2] = last
        BY <3>1
      <4> HIDE DEF m, last
      <4> QED
        BY <3>3, <4>1
    <3>4. CASE last < i
      <4>1. covers(found[last + 1])
        BY <1>2, <3>2, <3>4
      <4> QED
        BY <3>1, <4>1
    <3> QED
      BY <3>2, <3>3, <3>4
  <2> QED
    BY <2>2, <2>3
<1>3. bad = {}
  <2>1. SUFFICES ASSUME bad # {} PROVE FALSE
    OBVIOUS
  <2>2. bad \subseteq 0 .. n
    OBVIOUS
  <2>3. Max(bad) \in bad /\ \A b \in bad : Max(bad) >= b
    <3> HIDE DEF bad
    <3> QED
      BY <2>1, <2>2, MaxOfSet
  <2>4. \A b \in Max(bad) + 1 .. i : covers(found[b])
    BY <2>3
  <2>5. Max(bad) \in 1 .. i /\ ~covers(found[Max(bad)])
    BY <2>3
  <2> HIDE DEF bad, covers
  <2> QED
    BY <1>2, <2>4, <2>5
<1> QED
  BY <1>1, <1>3

-----------------------------------------------------------------------------
\* A text cut after c characters.
Upto(t, c) == SubSeq(t, 1, c)
From(t, c) == SubSeq(t, c + 1, Len(t))

LEMMA UptoIs ==
  ASSUME NEW S, NEW t \in Seq(S), NEW c \in 0 .. Len(t)
  PROVE  /\ Upto(t, c) \in Seq(S) /\ Len(Upto(t, c)) = c
         /\ \A p \in 1 .. c : Upto(t, c)[p] = t[p]
BY DEF Upto

LEMMA FromIs ==
  ASSUME NEW S, NEW t \in Seq(S), NEW c \in 0 .. Len(t)
  PROVE  /\ From(t, c) \in Seq(S) /\ Len(From(t, c)) = Len(t) - c
         /\ \A p \in 1 .. Len(t) - c : From(t, c)[p] = t[c + p]
BY DEF From

LEMMA CutJoins ==
  ASSUME NEW S, NEW t \in Seq(S), NEW c \in 0 .. Len(t)
  PROVE  Upto(t, c) \o From(t, c) = t
<1> DEFINE s == Upto(t, c) \o From(t, c)
<1>1. s \in Seq(S) /\ Len(s) = Len(t)
  BY UptoIs, FromIs
<1>2. \A p \in 1 .. Len(t) : s[p] = t[p]
  <2> TAKE p \in 1 .. Len(t)
  <2>1. CASE p <= c
    BY <2>1, UptoIs, FromIs
  <2>2. CASE p > c
    <3>1. s[p] = From(t, c)[p - c]
      BY <2>2, UptoIs, FromIs
    <3>2. p - c \in 1 .. Len(t) - c /\ c + (p - c) = p
      BY <2>2
    <3> QED
      BY <3>1, <3>2, FromIs
  <2>3. p <= c \/ p > c
    OBVIOUS
  <2> QED
    BY <2>1, <2>2, <2>3
<1> QED
  <2> HIDE DEF s
  <2>1. s = t
    BY <1>1, <1>2, SeqEqual
  <2> QED
    BY <2>1 DEF s

\* The matches of t beside a cut are those of its two parts.
Splits(pattern, t, c) ==
  /\ \A i \in 1 .. c, j \in c + 1 .. Len(t) : ~Matches(pattern, t, i, j)
  /\ \A i \in 1 .. c, j \in 1 .. c : i <= j =>
       (Matches(pattern, t, i, j) <=> Matches(pattern, Upto(t, c), i, j))
  /\ \A i \in 1 .. Len(t) - c, j \in 1 .. Len(t) - c : i <= j =>
       (Matches(pattern, t, c + i, c + j) <=> Matches(pattern, From(t, c), i, j))

LEMMA FinditerSplits ==
  ASSUME NEW S, NEW t \in Seq(S), NEW c \in 0 .. Len(t), NEW pattern, Splits(pattern, t, c)
  PROVE  Finditer(pattern, t) = Finditer(pattern, Upto(t, c)) \cup
           {<<m[1] + c, m[2] + c>> : m \in Finditer(pattern, From(t, c))}
<1> DEFINE n == Len(t)
           a == Upto(t, c)
           b == From(t, c)
           shift(M) == {<<m[1] + c, m[2] + c>> : m \in M}
<1>1. Len(a) = c /\ Len(b) = n - c /\ n \in Nat /\ c \in Nat
  BY UptoIs, FromIs
<1>2. PICK whole : Finds(whole, pattern, t) /\ whole[1] = Finditer(pattern, t)
  BY FinditerRecursion
<1>3. PICK left : Finds(left, pattern, a) /\ left[1] = Finditer(pattern, a)
  BY <1>1, FinditerRecursion
<1>4. PICK right : Finds(right, pattern, b) /\ right[1] = Finditer(pattern, b)
  BY <1>1, FinditerRecursion
<1> HIDE DEF a, b
<1>50. \A i \in 1 .. n + 1 :
         whole[i] = IF i > n THEN {}
                    ELSE IF Lasts(pattern, t, i) = {} THEN whole[i + 1]
                    ELSE {<<i, Max(Lasts(pattern, t, i))>>}
                         \cup whole[Max(Lasts(pattern, t, i)) + 1]
  BY <1>2 DEF Finds
<1>51. \A i \in 1 .. c + 1 :
         left[i] = IF i > c THEN {}
                   ELSE IF Lasts(pattern, a, i) = {} THEN left[i + 1]
                   ELSE {<<i, Max(Lasts(pattern, a, i))>>}
                        \cup left[Max(Lasts(pattern, a, i)) + 1]
  BY <1>1, <1>3 DEF Finds
<1>52. \A i \in 1 .. n - c + 1 :
         right[i] = IF i > n - c THEN {}
                    ELSE IF Lasts(pattern, b, i) = {} THEN right[i + 1]
                    ELSE {<<i, Max(Lasts(pattern, b, i))>>}
                         \cup right[Max(Lasts(pattern, b, i)) + 1]
  BY <1>1, <1>4 DEF Finds
<1>5. \A i \in 1 .. n - c + 1 : whole[c + i] = shift(right[i])
  <2> DEFINE bad == {i \in 1 .. n - c + 1 : whole[c + i] # shift(right[i])}
  <2>1. ASSUME NEW i \in 1 .. n - c + 1, \A j \in i + 1 .. n - c + 1 : whole[c + j] = shift(right[j])
        PROVE  whole[c + i] = shift(right[i])
    <3>1. CASE i > n - c
      <4>1. right[i] = {} /\ whole[c + i] = {}
        BY <1>1, <1>2, <1>4, <3>1 DEF Finds
      <4> QED
        BY <4>1
    <3>2. CASE i <= n - c
      <4>1. Lasts(pattern, t, c + i) = {c + j : j \in Lasts(pattern, b, i)}
        <5>1. ASSUME NEW j \in c + i .. n
              PROVE  Matches(pattern, t, c + i, j) <=> Matches(pattern, b, i, j - c)
          <6>1. j - c \in 1 .. n - c /\ i \in 1 .. n - c /\ i <= j - c /\ c + (j - c) = j
            BY <3>2
          <6> QED
            BY <6>1 DEF Splits, b
        <5>2. \A j \in Lasts(pattern, t, c + i) : j - c \in Lasts(pattern, b, i) /\ j = c + (j - c)
          BY <1>1, <5>1 DEF Lasts
        <5>3. \A j \in Lasts(pattern, b, i) : c + j \in Lasts(pattern, t, c + i)
          <6> TAKE j \in Lasts(pattern, b, i)
          <6>1. j \in i .. n - c /\ Matches(pattern, b, i, j)
            BY <1>1 DEF Lasts
          <6>2. c + j \in c + i .. n /\ (c + j) - c = j
            BY <6>1
          <6> QED
            BY <5>1, <6>1, <6>2 DEF Lasts
        <5> QED
          BY <5>2, <5>3
      <4>2. CASE Lasts(pattern, b, i) = {}
        <5>1. right[i] = right[i + 1]
          <6>1. i \in 1 .. n - c + 1 /\ ~(i > n - c)
            BY <1>1, <3>2
          <6> HIDE DEF n
          <6> QED
            BY <1>52, <4>2, <6>1
        <5>2. whole[c + i] = whole[c + i + 1]
          <6>1. Lasts(pattern, t, c + i) = {}
            BY <4>1, <4>2
          <6>2. c + i \in 1 .. n + 1 /\ ~(c + i > n)
            BY <1>1, <3>2
          <6> HIDE DEF n
          <6> QED
            BY <1>50, <6>1, <6>2
        <5>3. whole[c + (i + 1)] = shift(right[i + 1])
          <6>1. i + 1 \in i + 1 .. n - c + 1
            BY <1>1, <3>2
          <6> HIDE DEF n, shift
          <6> QED
            BY <2>1, <6>1
        <5>4. c + (i + 1) = c + i + 1
          BY <1>1
        <5> HIDE DEF n, shift
        <5> QED
          BY <5>1, <5>2, <5>3, <5>4
      <4>3. CASE Lasts(pattern, b, i) # {}
        <5> DEFINE last == Max(Lasts(pattern, b, i))
        <5>0. Lasts(pattern, t, c + i) # {} /\ c + i \in 1 .. n
          <6>1. PICK j : j \in Lasts(pattern, b, i)
            BY <4>3
          <6>2. c + j \in Lasts(pattern, t, c + i)
            BY <4>1, <6>1
          <6>3. c + i \in 1 .. n
            BY <1>1, <3>2
          <6> QED
            BY <6>2, <6>3
        <5>1. /\ last \in Lasts(pattern, b, i) /\ last \in i .. n - c
              /\ \A j \in Lasts(pattern, b, i) : last >= j
          <6>1. Len(b) \in Nat /\ i \in 1 .. Len(b)
            BY <1>1, <3>2
          <6> QED
            BY <1>1, <4>3, <6>1, LastFits
        <5>2. Max(Lasts(pattern, t, c + i)) = c + last
          <6>1. Lasts(pattern, t, c + i) # {} /\ c + i \in 1 .. n
            BY <5>0
          <6>2. /\ Max(Lasts(pattern, t, c + i)) \in Lasts(pattern, t, c + i)
                /\ Max(Lasts(pattern, t, c + i)) \in c + i .. n
                /\ \A j \in Lasts(pattern, t, c + i) : Max(Lasts(pattern, t, c + i)) >= j
            BY <1>1, <6>1, LastFits
          <6>3. c + last \in Lasts(pattern, t, c + i)
            BY <4>1, <5>1
          <6>4. PICK j \in Lasts(pattern, b, i) : Max(Lasts(pattern, t, c + i)) = c + j
            BY <4>1, <6>2
          <6>5. j \in Int /\ last \in Int /\ last >= j /\ c + j >= c + last
            BY <1>1, <5>1, <6>2, <6>3, <6>4 DEF Lasts
          <6> HIDE DEF last
          <6> QED
            BY <6>4, <6>5
        <5>3. right[i] = {<<i, last>>} \cup right[last + 1]
          <6>1. i \in 1 .. n - c + 1 /\ ~(i > n - c)
            BY <1>1, <3>2
          <6> HIDE DEF n
          <6> QED
            BY <1>52, <4>3, <6>1
        <5>4. whole[c + i] = {<<c + i, c + last>>} \cup whole[c + last + 1]
          <6>1. Lasts(pattern, t, c + i) # {} /\ c + i \in 1 .. n + 1 /\ ~(c + i > n)
            BY <1>1, <5>0
          <6> HIDE DEF last, n
          <6> QED
            BY <1>50, <5>2, <6>1
        <5>5. whole[c + last + 1] = shift(right[last + 1])
          <6>1. last + 1 \in i + 1 .. n - c + 1 /\ c + (last + 1) = c + last + 1
            BY <5>1
          <6> QED
            BY <2>1, <6>1
        <5>6. shift({<<i, last>>} \cup right[last + 1]) = {<<c + i, c + last>>} \cup shift(right[last + 1])
          <6>1. i + c = c + i /\ last + c = c + last
            BY <5>1
          <6>2. \A m : m \in shift({<<i, last>>} \cup right[last + 1])
                         <=> m = <<i + c, last + c>> \/ m \in shift(right[last + 1])
            <7>1. <<i, last>>[1] = i /\ <<i, last>>[2] = last
              OBVIOUS
            <7> HIDE DEF last
            <7> QED
              BY <7>1
          <6> HIDE DEF last, shift
          <6> QED
            BY <6>1, <6>2
        <5> QED
          BY <5>3, <5>4, <5>5, <5>6
      <4> QED
        BY <4>2, <4>3
    <3> QED
      BY <3>1, <3>2
  <2>2. SUFFICES ASSUME bad # {} PROVE FALSE
    OBVIOUS
  <2>3. bad \subseteq 0 .. n - c + 1 /\ n - c + 1 \in Nat
    BY <1>1
  <2>4. Max(bad) \in bad /\ \A i \in bad : Max(bad) >= i
    <3> HIDE DEF bad
    <3> QED
      BY <2>2, <2>3, MaxOfSet
  <2>5. \A j \in Max(bad) + 1 .. n - c + 1 : whole[c + j] = shift(right[j])
    <3> TAKE j \in Max(bad) + 1 .. n - c + 1
    <3>1. j \notin bad /\ j \in 1 .. n - c + 1
      <4>1. Max(bad) \in Nat
        BY <2>3, <2>4
      <4> HIDE DEF bad
      <4> QED
        BY <2>3, <2>4, <4>1
    <3> HIDE DEF shift, n
    <3> QED
      BY <3>1
  <2>6. Max(bad) \in 1 .. n - c + 1 /\ whole[c + Max(bad)] # shift(right[Max(bad)])
    BY <2>4
  <2> HIDE DEF bad, shift
  <2> QED
    BY <2>1, <2>5, <2>6
<1>6. \A i \in 1 .. c + 1 : whole[i] = left[i] \cup whole[c + 1]
  <2> DEFINE bad == {i \in 1 .. c + 1 : whole[i] # left[i] \cup whole[c + 1]}
  <2>1. ASSUME NEW i \in 1 .. c + 1, \A j \in i + 1 .. c + 1 : whole[j] = left[j] \cup whole[c + 1]
        PROVE  whole[i] = left[i] \cup whole[c + 1]
    <3>1. CASE i = c + 1
      <4>1. left[i] = {}
        BY <1>1, <1>3, <3>1 DEF Finds
      <4> QED
        BY <3>1, <4>1
    <3>2. CASE i <= c
      <4>1. Lasts(pattern, t, i) = Lasts(pattern, a, i)
        <5>1. \A j \in i .. n : Matches(pattern, t, i, j) <=> j <= c /\ Matches(pattern, a, i, j)
          <6> TAKE j \in i .. n
          <6>1. i \in 1 .. c /\ j \in Nat
            BY <1>1, <3>2
          <6>2. CASE j <= c
            BY <6>1, <6>2 DEF Splits, a
          <6>3. CASE j > c
            <7>1. j \in c + 1 .. Len(t)
              BY <6>3
            <7> QED
              BY <6>1, <6>3, <7>1 DEF Splits
          <6> QED
            BY <1>1, <6>1, <6>2, <6>3
        <5>2. i .. c \subseteq i .. n
          BY <1>1
        <5> QED
          BY <1>1, <5>1, <5>2 DEF Lasts
      <4>2. CASE Lasts(pattern, a, i) = {}
        <5>1. left[i] = left[i + 1] /\ whole[i] = whole[i + 1]
          <6>1. i \in 1 .. c + 1 /\ ~(i > c) /\ i \in 1 .. n + 1 /\ ~(i > n)
            BY <1>1, <3>2
          <6> HIDE DEF n
          <6> QED
            BY <1>50, <1>51, <4>1, <4>2, <6>1
        <5> QED
          BY <2>1, <3>2, <5>1
      <4>3. CASE Lasts(pattern, a, i) # {}
        <5> DEFINE last == Max(Lasts(pattern, a, i))
        <5>1. last \in i .. c
          BY <1>1, <3>2, <4>3, LastFits
        <5>2. left[i] = {<<i, last>>} \cup left[last + 1] /\ whole[i] = {<<i, last>>} \cup whole[last + 1]
          <6>1. i \in 1 .. c + 1 /\ ~(i > c) /\ i \in 1 .. n + 1 /\ ~(i > n)
            BY <1>1, <3>2
          <6> HIDE DEF n
          <6> QED
            BY <1>50, <1>51, <4>1, <4>3, <6>1
        <5>4. whole[last + 1] = left[last + 1] \cup whole[c + 1]
          BY <2>1, <5>1
        <5> HIDE DEF last
        <5> QED
          BY <5>2, <5>4
      <4> QED
        BY <4>2, <4>3
    <3> QED
      BY <3>1, <3>2
  <2>2. SUFFICES ASSUME bad # {} PROVE FALSE
    OBVIOUS
  <2>3. bad \subseteq 0 .. c + 1 /\ c + 1 \in Nat
    BY <1>1
  <2>4. Max(bad) \in bad /\ \A i \in bad : Max(bad) >= i
    <3> HIDE DEF bad
    <3> QED
      BY <2>2, <2>3, MaxOfSet
  <2>5. \A j \in Max(bad) + 1 .. c + 1 : whole[j] = left[j] \cup whole[c + 1]
    BY <2>4
  <2>6. Max(bad) \in 1 .. c + 1 /\ whole[Max(bad)] # left[Max(bad)] \cup whole[c + 1]
    BY <2>4
  <2> HIDE DEF bad
  <2> QED
    BY <2>1, <2>5, <2>6
<1>7. whole[1] = left[1] \cup shift(right[1])
  BY <1>1, <1>5, <1>6
<1> QED
  BY <1>2, <1>3, <1>4, <1>7 DEF a, b

Marks == {"mark", "gone"}

\* A place of a text whose matches are marked.
Painted(M, t, p) ==
  IF \E m \in M : p = m[1] THEN "mark"
  ELSE IF \E m \in M : p \in m[1] .. m[2] THEN "gone"
  ELSE t[p]

\* Sub changes nothing but the places of its matches.
LEMMA SubIs ==
  ASSUME NEW S, NEW t \in Seq(S), NEW pattern
  PROVE  /\ Sub(pattern, t) \in Seq(S \cup Marks) /\ Len(Sub(pattern, t)) = Len(t)
         /\ \A p \in 1 .. Len(t) : Sub(pattern, t)[p] = Painted(Finditer(pattern, t), t, p)
<1> DEFINE matches == Finditer(pattern, t)
           s == [p \in 1 .. Len(t) |-> Painted(matches, t, p)]
<1>1. Sub(pattern, t) = s
  BY DEF Sub, Painted
<1>2. \A p \in 1 .. Len(t) : Painted(matches, t, p) \in S \cup Marks
  BY DEF Painted, Marks
<1>3. s \in Seq(S \cup Marks) /\ Len(s) = Len(t)
  <2>1. s \in [1 .. Len(t) -> S \cup Marks]
    BY <1>2
  <2>2. s \in Seq(S \cup Marks)
    BY <2>1
  <2>3. Len(s) = Len(t)
    BY <2>2
  <2> QED
    BY <2>2, <2>3
<1> HIDE DEF matches
<1> QED
  BY <1>1, <1>3 DEF matches

LEMMA SubSplits ==
  ASSUME NEW S, NEW t \in Seq(S), NEW c \in 0 .. Len(t), NEW pattern, Splits(pattern, t, c)
  PROVE  /\ Upto(Sub(pattern, t), c) = Sub(pattern, Upto(t, c))
         /\ From(Sub(pattern, t), c) = Sub(pattern, From(t, c))
<1> DEFINE n == Len(t)
           a == Upto(t, c)
           b == From(t, c)
           R == S \cup Marks
           s == Sub(pattern, t)
           sa == Sub(pattern, a)
           sb == Sub(pattern, b)
           M == Finditer(pattern, t)
           A == Finditer(pattern, a)
           B == Finditer(pattern, b)
<1>1. /\ a \in Seq(S) /\ Len(a) = c /\ \A p \in 1 .. c : a[p] = t[p]
      /\ b \in Seq(S) /\ Len(b) = n - c /\ \A p \in 1 .. n - c : b[p] = t[c + p]
      /\ n \in Nat /\ c \in 0 .. n
  BY UptoIs, FromIs
<1>2. A \subseteq Spans(a) /\ B \subseteq Spans(b)
  <2> HIDE DEF a, b
  <2>1. Len(a) \in Nat /\ Len(b) \in Nat
    BY <1>1
  <2> QED
    BY <2>1, FinditerFits
<1>3. M = A \cup {<<m[1] + c, m[2] + c>> : m \in B}
  BY FinditerSplits
<1>4. s \in Seq(R) /\ Len(s) = n /\ \A p \in 1 .. n : s[p] = Painted(M, t, p)
  BY SubIs
<1>5. sa \in Seq(R) /\ Len(sa) = c /\ \A p \in 1 .. c : sa[p] = Painted(A, a, p)
  <2> HIDE DEF a
  <2>1. a \in Seq(S)
    BY <1>1
  <2>2. sa \in Seq(R) /\ Len(sa) = Len(a) /\ \A p \in 1 .. Len(a) : sa[p] = Painted(A, a, p)
    BY <2>1, SubIs
  <2> QED
    BY <1>1, <2>2
<1>6. sb \in Seq(R) /\ Len(sb) = n - c /\ \A p \in 1 .. n - c : sb[p] = Painted(B, b, p)
  <2> HIDE DEF b
  <2>1. b \in Seq(S)
    BY <1>1
  <2>2. sb \in Seq(R) /\ Len(sb) = Len(b) /\ \A p \in 1 .. Len(b) : sb[p] = Painted(B, b, p)
    BY <2>1, SubIs
  <2> QED
    BY <1>1, <2>2
<1>7. \A m \in A : m[1] \in 1 .. c /\ m[2] \in 1 .. c
  BY <1>1, <1>2 DEF Spans
<1>8. \A m \in B : m[1] \in 1 .. n - c /\ m[2] \in 1 .. n - c
  BY <1>1, <1>2 DEF Spans
<1> HIDE DEF a, b, s, sa, sb, M, A, B, R, n
<1>9. \A l : l \in M <=> l \in A \/ \E m \in B : l = <<m[1] + c, m[2] + c>>
  BY <1>3
<1>10. /\ Upto(s, c) \in Seq(R) /\ Len(Upto(s, c)) = c /\ \A p \in 1 .. c : Upto(s, c)[p] = s[p]
       /\ From(s, c) \in Seq(R) /\ Len(From(s, c)) = n - c
       /\ \A p \in 1 .. n - c : From(s, c)[p] = s[c + p]
  <2>1. s \in Seq(R) /\ c \in 0 .. Len(s) /\ Len(s) = n
    BY <1>1, <1>4
  <2>2. Upto(s, c) \in Seq(R) /\ Len(Upto(s, c)) = c /\ \A p \in 1 .. c : Upto(s, c)[p] = s[p]
    BY <2>1, UptoIs
  <2>3. /\ From(s, c) \in Seq(R) /\ Len(From(s, c)) = Len(s) - c
        /\ \A p \in 1 .. Len(s) - c : From(s, c)[p] = s[c + p]
    BY <2>1, FromIs
  <2> QED
    BY <2>1, <2>2, <2>3
<1>11. ASSUME NEW p \in 1 .. c
       PROVE  Painted(M, t, p) = Painted(A, a, p)
  <2>1. \A l \in M : l \notin A => p # l[1] /\ p \notin l[1] .. l[2]
    <3> TAKE l \in M
    <3> SUFFICES ASSUME l \notin A PROVE p # l[1] /\ p \notin l[1] .. l[2]
      OBVIOUS
    <3>1. PICK m \in B : l = <<m[1] + c, m[2] + c>>
      BY <1>9
    <3>2. l[1] = m[1] + c /\ l[2] = m[2] + c /\ m[1] \in 1 .. n - c
      BY <1>8, <3>1
    <3> QED
      BY <1>1, <3>2
  <2>2. A \subseteq M
    BY <1>9
  <2>3. (\E m \in M : p = m[1]) <=> (\E m \in A : p = m[1])
    BY <2>1, <2>2
  <2>4. (\E m \in M : p \in m[1] .. m[2]) <=> (\E m \in A : p \in m[1] .. m[2])
    BY <2>1, <2>2
  <2>5. a[p] = t[p]
    BY <1>1
  <2> QED
    BY <2>3, <2>4, <2>5 DEF Painted
<1>12. ASSUME NEW p \in 1 .. n - c
       PROVE  Painted(M, t, c + p) = Painted(B, b, p)
  <2>1. \A m \in A : c + p # m[1] /\ c + p \notin m[1] .. m[2]
    BY <1>1, <1>7
  <2>2. \A l \in M : l \notin A => \E m \in B : l = <<m[1] + c, m[2] + c>>
    BY <1>9
  <2>3. \A m \in B : /\ <<m[1] + c, m[2] + c>> \in M
                     /\ (c + p = m[1] + c) <=> (p = m[1])
                     /\ (c + p \in m[1] + c .. m[2] + c) <=> (p \in m[1] .. m[2])
    <3> TAKE m \in B
    <3>1. <<m[1] + c, m[2] + c>> \in M
      BY <1>9
    <3>2. m[1] \in Nat /\ m[2] \in Nat /\ c \in Nat /\ p \in Nat
      BY <1>1, <1>8
    <3> QED
      BY <3>1, <3>2
  <2>4. (\E m \in M : c + p = m[1]) <=> (\E m \in B : p = m[1])
    <3>1. ASSUME NEW l \in M, c + p = l[1]
          PROVE  \E m \in B : p = m[1]
      <4>1. PICK m \in B : l = <<m[1] + c, m[2] + c>>
        BY <2>1, <2>2, <3>1
      <4>2. l[1] = m[1] + c
        BY <4>1
      <4> QED
        BY <2>3, <3>1, <4>2
    <3>2. ASSUME NEW m \in B, p = m[1]
          PROVE  \E l \in M : c + p = l[1]
      <4> DEFINE l == <<m[1] + c, m[2] + c>>
      <4>1. l \in M /\ l[1] = m[1] + c
        BY <2>3
      <4> HIDE DEF l
      <4> QED
        BY <2>3, <3>2, <4>1
    <3> QED
      BY <3>1, <3>2
  <2>5. (\E m \in M : c + p \in m[1] .. m[2]) <=> (\E m \in B : p \in m[1] .. m[2])
    <3>1. ASSUME NEW l \in M, c + p \in l[1] .. l[2]
          PROVE  \E m \in B : p \in m[1] .. m[2]
      <4>1. PICK m \in B : l = <<m[1] + c, m[2] + c>>
        BY <2>1, <2>2, <3>1
      <4>2. l[1] = m[1] + c /\ l[2] = m[2] + c
        BY <4>1
      <4>3. c + p \in m[1] + c .. m[2] + c
        BY <3>1, <4>2
      <4> QED
        BY <2>3, <4>3
    <3>2. ASSUME NEW m \in B, p \in m[1] .. m[2]
          PROVE  \E l \in M : c + p \in l[1] .. l[2]
      <4> DEFINE l == <<m[1] + c, m[2] + c>>
      <4>1. l \in M /\ l[1] = m[1] + c /\ l[2] = m[2] + c
        BY <2>3
      <4>2. c + p \in l[1] .. l[2]
        <5>1. c + p \in m[1] + c .. m[2] + c
          BY <2>3, <3>2
        <5> HIDE DEF l
        <5> QED
          BY <4>1, <5>1
      <4> HIDE DEF l
      <4> QED
        BY <4>1, <4>2
    <3> QED
      BY <3>1, <3>2
  <2>6. b[p] = t[c + p]
    BY <1>1
  <2> QED
    BY <2>4, <2>5, <2>6 DEF Painted
<1>13. Upto(s, c) = sa
  <2>1. \A p \in 1 .. c : Upto(s, c)[p] = sa[p]
    BY <1>1, <1>4, <1>5, <1>10, <1>11
  <2> QED
    BY <1>5, <1>10, <2>1, SeqEqual
<1>14. From(s, c) = sb
  <2>1. \A p \in 1 .. n - c : From(s, c)[p] = sb[p]
    <3> TAKE p \in 1 .. n - c
    <3>1. c + p \in 1 .. n
      BY <1>1
    <3> QED
      BY <1>4, <1>6, <1>10, <1>12, <3>1
  <2> QED
    BY <1>6, <1>10, <2>1, SeqEqual
<1> QED
  BY <1>13, <1>14 DEF s, sa, sb, a, b

\* rest[i]: what is present in t from i on.
Rests(rest, t, S) ==
  /\ rest \in [1 .. Len(t) + 1 -> Seq(S)]
  /\ \A i \in 1 .. Len(t) + 1 :
       rest[i] = IF i > Len(t) THEN <<>>
                 ELSE IF t[i] = "gone" THEN rest[i + 1]
                 ELSE <<t[i]>> \o rest[i + 1]

LEMMA PresentRecursion ==
  ASSUME NEW S, NEW t \in Seq(S \cup {"gone"})
  PROVE  \E rest : Rests(rest, t, S) /\ rest[1] = Present(t)
<1> DEFINE n == Len(t)
           V == Seq(S)
           body(f, i) == IF i > n THEN <<>>
                         ELSE IF t[i] = "gone" THEN f[i + 1]
                         ELSE <<t[i]>> \o f[i + 1]
           rest == CHOOSE f : f = [i \in 1 .. n + 1 |-> body(f, i)]
<1>1. <<>> \in V /\ \A s \in V : \A i \in 1 .. n : t[i] # "gone" => <<t[i]>> \o s \in V
  OBVIOUS
<1> HIDE DEF V
<1>2. PICK f : f \in [1 .. n + 1 -> V] /\ f = [i \in 1 .. n + 1 |-> body(f, i)]
  <2> DEFINE next == [i \in 1 .. n |-> i + 1]
             combine == [i \in 1 .. n |-> [s \in V |->
                           IF t[i] = "gone" THEN s ELSE <<t[i]>> \o s]]
  <2>1. next \in [1 .. n -> Nat] /\ \A i \in 1 .. n : next[i] \in i + 1 .. n + 1
    OBVIOUS
  <2>2. combine \in [1 .. n -> [V -> V]]
    BY <1>1
  <2>3. PICK f : Solves(f, n, V, <<>>, next, combine)
    <3>1. Recursion(n, V, <<>>, next, combine)
      BY <1>1, <2>1, <2>2 DEF Recursion
    <3> HIDE DEF n, next, combine
    <3> QED
      BY <3>1, RecursionDefined
  <2>4. \A i \in 1 .. n + 1 :
          (IF i > n THEN <<>> ELSE combine[i][f[next[i]]]) = body(f, i)
    <3> TAKE i \in 1 .. n + 1
    <3>1. CASE i > n
      BY <3>1
    <3>2. CASE i <= n
      <4>1. i \in 1 .. n /\ next[i] \in 1 .. n + 1
        BY <2>1, <3>2
      <4>2. f[next[i]] \in V
        BY <2>3, <4>1 DEF Solves
      <4>3. combine[i][f[next[i]]] =
              IF t[i] = "gone" THEN f[next[i]] ELSE <<t[i]>> \o f[next[i]]
        BY <4>1, <4>2
      <4> QED
        BY <3>2, <4>1, <4>3
    <3> QED
      BY <3>1, <3>2
  <2>5. f = [i \in 1 .. n + 1 |-> f[i]] /\ \A i \in 1 .. n + 1 : f[i] = body(f, i)
    BY <2>3, <2>4 DEF Solves
  <2>6. f \in [1 .. n + 1 -> V]
    BY <2>3 DEF Solves
  <2> HIDE DEF body
  <2> QED
    BY <2>5, <2>6
<1>3. rest = [i \in 1 .. n + 1 |-> body(rest, i)]
  <2> HIDE DEF body
  <2> QED
    BY <1>2
<1>4. \A i \in 1 .. n + 1 : rest[i] = body(rest, i)
  <2> HIDE DEF body, rest
  <2> QED
    BY <1>3
<1>5. rest = [i \in 1 .. n + 1 |-> rest[i]]
  <2> HIDE DEF body, rest
  <2> QED
    BY <1>3
<1> HIDE DEF rest
<1>6. ASSUME NEW i \in 1 .. n + 1, \A j \in i + 1 .. n + 1 : rest[j] \in V
      PROVE  rest[i] \in V
  <2>1. rest[i] = body(rest, i)
    BY <1>4
  <2>2. CASE i > n
    BY <1>1, <2>1, <2>2
  <2>3. CASE i <= n
    <3>1. rest[i + 1] \in V /\ i \in 1 .. n /\ ~(i > n)
      BY <1>6, <2>3
    <3> QED
      BY <1>1, <2>1, <3>1
  <2> QED
    BY <2>2, <2>3
<1>7. n \in Nat
  OBVIOUS
<1>8. \A i \in 1 .. n + 1 : rest[i] \in V
  <2> HIDE DEF n
  <2> QED
    BY <1>6, <1>7, RecursionInside
<1>9. rest \in [1 .. n + 1 -> V]
  <2> HIDE DEF n
  <2> QED
    BY <1>5, <1>8
<1>10. Rests(rest, t, S)
  BY <1>4, <1>9 DEF Rests, V
<1>11. Present(t) = rest[1]
  BY DEF Present, rest
<1> QED
  BY <1>10, <1>11

LEMMA PresentType ==
  ASSUME NEW S, NEW t \in Seq(S \cup {"gone"})
  PROVE  Present(t) \in Seq(S)
<1>1. PICK rest : Rests(rest, t, S) /\ rest[1] = Present(t)
  BY PresentRecursion
<1> QED
  BY <1>1 DEF Rests

LEMMA JoinsAssociate ==
  \A S : \A x, y, z \in Seq(S) : x \o (y \o z) = (x \o y) \o z
<1> TAKE S
<1> TAKE x, y, z \in Seq(S)
<1> QED
  BY ConcatAssociative

\* What is present of a text is what is present of its parts.
LEMMA PresentJoins ==
  ASSUME NEW S, NEW t \in Seq(S \cup {"gone"}), NEW c \in 0 .. Len(t)
  PROVE  Present(t) = Present(Upto(t, c)) \o Present(From(t, c))
<1> DEFINE n == Len(t)
           a == Upto(t, c)
           b == From(t, c)
<1>1. /\ a \in Seq(S \cup {"gone"}) /\ Len(a) = c /\ \A p \in 1 .. c : a[p] = t[p]
      /\ b \in Seq(S \cup {"gone"}) /\ Len(b) = n - c /\ \A p \in 1 .. n - c : b[p] = t[c + p]
      /\ n \in Nat /\ c \in Nat
  BY UptoIs, FromIs
<1>2. PICK whole : Rests(whole, t, S) /\ whole[1] = Present(t)
  BY PresentRecursion
<1>3. PICK left : Rests(left, a, S) /\ left[1] = Present(a)
  BY <1>1, PresentRecursion
<1>4. PICK right : Rests(right, b, S) /\ right[1] = Present(b)
  BY <1>1, PresentRecursion
<1>5. \A i \in 1 .. n : t[i] \in S \/ t[i] = "gone"
  OBVIOUS
<1> HIDE DEF a, b
<1>50. /\ whole \in [1 .. n + 1 -> Seq(S)]
       /\ \A i \in 1 .. n + 1 :
            whole[i] = IF i > n THEN <<>>
                       ELSE IF t[i] = "gone" THEN whole[i + 1] ELSE <<t[i]>> \o whole[i + 1]
  BY <1>2 DEF Rests
<1>51. /\ left \in [1 .. c + 1 -> Seq(S)]
       /\ \A i \in 1 .. c + 1 :
            left[i] = IF i > c THEN <<>>
                      ELSE IF a[i] = "gone" THEN left[i + 1] ELSE <<a[i]>> \o left[i + 1]
  BY <1>1, <1>3 DEF Rests
<1>52. /\ right \in [1 .. n - c + 1 -> Seq(S)]
       /\ \A i \in 1 .. n - c + 1 :
            right[i] = IF i > n - c THEN <<>>
                       ELSE IF b[i] = "gone" THEN right[i + 1] ELSE <<b[i]>> \o right[i + 1]
  BY <1>1, <1>4 DEF Rests
<1>53. n \in Nat /\ c \in 0 .. n
  BY <1>1
<1> HIDE DEF n
<1>6. \A i \in 1 .. n - c + 1 : whole[c + i] = right[i]
  <2> DEFINE bad == {i \in 1 .. n - c + 1 : whole[c + i] # right[i]}
  <2>1. ASSUME NEW i \in 1 .. n - c + 1, \A j \in i + 1 .. n - c + 1 : whole[c + j] = right[j]
        PROVE  whole[c + i] = right[i]
    <3>1. CASE i > n - c
      <4>1. i = n - c + 1 /\ c + i = n + 1
        BY <1>53, <3>1
      <4>2. right[i] = <<>>
        BY <1>52, <3>1
      <4>3. c + i \in 1 .. n + 1 /\ c + i > n
        BY <1>53, <4>1
      <4> QED
        BY <1>50, <4>2, <4>3
    <3>2. CASE i <= n - c
      <4>1. whole[c + i + 1] = right[i + 1]
        <5>1. i + 1 \in i + 1 .. n - c + 1 /\ c + i + 1 = c + (i + 1)
          BY <1>1, <3>2
        <5> QED
          BY <2>1, <5>1
      <4>2. b[i] = t[c + i] /\ i \in 1 .. n - c + 1 /\ ~(i > n - c)
        BY <1>1, <3>2
      <4>3. c + i \in 1 .. n + 1 /\ ~(c + i > n)
        BY <1>1, <3>2
      <4>4. right[i] = IF b[i] = "gone" THEN right[i + 1] ELSE <<b[i]>> \o right[i + 1]
        BY <1>52, <4>2
      <4>5. whole[c + i] = IF t[c + i] = "gone" THEN whole[c + i + 1]
                           ELSE <<t[c + i]>> \o whole[c + i + 1]
        BY <1>50, <4>3
      <4> QED
        BY <4>1, <4>2, <4>4, <4>5
    <3> QED
      BY <1>1, <3>1, <3>2
  <2>2. SUFFICES ASSUME bad # {} PROVE FALSE
    OBVIOUS
  <2>3. bad \subseteq 0 .. n - c + 1 /\ n - c + 1 \in Nat
    BY <1>1 DEF n
  <2>4. Max(bad) \in bad /\ \A i \in bad : Max(bad) >= i
    <3> HIDE DEF bad
    <3> QED
      BY <2>2, <2>3, MaxOfSet
  <2>5. \A j \in Max(bad) + 1 .. n - c + 1 : whole[c + j] = right[j]
    BY <2>3, <2>4
  <2>6. Max(bad) \in 1 .. n - c + 1 /\ whole[c + Max(bad)] # right[Max(bad)]
    BY <2>4
  <2> HIDE DEF bad
  <2> QED
    BY <2>1, <2>5, <2>6
<1>7. \A i \in 1 .. c + 1 : whole[i] = left[i] \o whole[c + 1]
  <2> DEFINE both(i) == left[i] \o whole[c + 1]
             bad == {i \in 1 .. c + 1 : whole[i] # both(i)}
  <2>1. whole[c + 1] \in Seq(S)
    <3>1. c + 1 \in 1 .. n + 1
      BY <1>53
    <3> QED
      BY <1>50, <3>1
  <2>2. ASSUME NEW i \in 1 .. c + 1, \A j \in i + 1 .. c + 1 : whole[j] = both(j)
        PROVE  whole[i] = both(i)
    <3>1. CASE i = c + 1
      <4>1. left[i] = <<>>
        <5>1. i > c
          BY <1>53, <3>1
        <5> QED
          BY <1>51, <5>1
      <4>2. <<>> \o whole[c + 1] = whole[c + 1]
        BY <2>1, ConcatEmptySeq
      <4> QED
        BY <3>1, <4>1, <4>2
    <3>2. CASE i <= c
      <4>1. whole[i + 1] = left[i + 1] \o whole[c + 1]
        <5>1. i + 1 \in i + 1 .. c + 1
          BY <1>1, <3>2
        <5> QED
          BY <2>2, <5>1
      <4>2. /\ a[i] = t[i] /\ i \in 1 .. c + 1 /\ ~(i > c)
            /\ i \in 1 .. n /\ ~(i > n) /\ i \in 1 .. n + 1
        BY <1>1, <1>53, <3>2
      <4>3. left[i] = IF a[i] = "gone" THEN left[i + 1] ELSE <<a[i]>> \o left[i + 1]
        BY <1>51, <4>2
      <4>4. whole[i] = IF t[i] = "gone" THEN whole[i + 1] ELSE <<t[i]>> \o whole[i + 1]
        BY <1>50, <4>2
      <4>5. left[i + 1] \in Seq(S)
        <5>1. i + 1 \in 1 .. c + 1
          BY <1>53, <3>2
        <5> QED
          BY <1>51, <5>1
      <4>6. CASE t[i] = "gone"
        BY <4>1, <4>2, <4>3, <4>4, <4>6
      <4>7. CASE t[i] # "gone"
        <5>1. t[i] \in S
          BY <1>5, <4>2, <4>7
        <5>2. <<t[i]>> \in Seq(S)
          BY <5>1
        <5>3. <<t[i]>> \o (left[i + 1] \o whole[c + 1]) = (<<t[i]>> \o left[i + 1]) \o whole[c + 1]
          <6> DEFINE x == <<t[i]>>
                     y == left[i + 1]
                     z == whole[c + 1]
          <6>1. x \in Seq(S)
            BY <5>2
          <6>2. y \in Seq(S)
            BY <4>5
          <6>3. z \in Seq(S)
            BY <2>1
          <6> HIDE DEF x, y, z
          <6>4. x \o (y \o z) = (x \o y) \o z
            BY <6>1, <6>2, <6>3, JoinsAssociate
          <6> QED
            BY <6>4 DEF x, y, z
        <5> QED
          BY <4>1, <4>2, <4>3, <4>4, <4>7, <5>3
      <4> QED
        BY <4>6, <4>7
    <3>3. i = c + 1 \/ i <= c
      BY <1>53
    <3> HIDE DEF both
    <3> QED
      BY <3>1, <3>2, <3>3
  <2>3. SUFFICES ASSUME bad # {} PROVE FALSE
    OBVIOUS
  <2> HIDE DEF both
  <2>4. bad \subseteq 0 .. c + 1 /\ c + 1 \in Nat
    BY <1>53
  <2>5. Max(bad) \in bad /\ \A i \in bad : Max(bad) >= i
    <3> HIDE DEF bad
    <3> QED
      BY <2>3, <2>4, MaxOfSet
  <2>6. \A j \in Max(bad) + 1 .. c + 1 : whole[j] = both(j)
    <3> TAKE j \in Max(bad) + 1 .. c + 1
    <3>1. j \in 1 .. c + 1 /\ j \notin bad
      <4>1. Max(bad) \in Nat /\ \A i \in bad : Max(bad) >= i
        BY <2>4, <2>5
      <4> HIDE DEF bad
      <4> QED
        BY <1>53, <4>1
    <3> QED
      BY <3>1
  <2>7. Max(bad) \in 1 .. c + 1 /\ whole[Max(bad)] # both(Max(bad))
    BY <2>5
  <2> HIDE DEF bad
  <2> QED
    BY <2>2, <2>6, <2>7
<1>8. whole[1] = left[1] \o right[1]
  <2>1. whole[1] = left[1] \o whole[c + 1]
    <3>1. 1 \in 1 .. c + 1
      BY <1>53
    <3> QED
      BY <1>7, <3>1, Zenon
  <2>2. whole[c + 1] = right[1]
    BY <1>53, <1>6
  <2> QED
    BY <2>1, <2>2
<1> QED
  BY <1>2, <1>3, <1>4, <1>8 DEF a, b

-----------------------------------------------------------------------------
\* What the patterns ask of a stretch of text moves with it: s from i to j is t
\* from o + i to o + j.
Moved(s, t, o, i, j) == \A p \in i .. j : s[p] = t[o + p]

LEMMA AllMoved ==
  ASSUME NEW s, NEW t, NEW o \in Int, NEW i \in Int, NEW j \in Int, NEW S, Moved(s, t, o, i, j)
  PROVE  All(s, i, j, S) <=> All(t, o + i, o + j, S)
<1>1. \A p \in i .. j : o + p \in o + i .. o + j
  OBVIOUS
<1>2. \A p \in o + i .. o + j : p - o \in i .. j /\ o + (p - o) = p
  OBVIOUS
<1> QED
  BY <1>1, <1>2 DEF All, Moved

LEMMA SizeMoved ==
  ASSUME NEW s, NEW t, NEW o \in Int, NEW i \in Int, NEW j \in Int, NEW S, Moved(s, t, o, i, j)
  PROVE  Size(s, i, j, S) = Size(t, o + i, o + j, S)
<1> DEFINE A == {p \in i .. j : s[p] \in S}
           B == {p \in o + i .. o + j : t[p] \in S}
           f == [p \in A |-> o + p]
<1>1. IsFiniteSet(A)
  BY FS_Interval, FS_Subset
<1>2. f \in Bijection(A, B)
  <2>1. \A p \in A : o + p \in B
    BY DEF Moved
  <2>2. \A p \in B : p - o \in A /\ o + (p - o) = p
    BY DEF Moved
  <2>3. f \in [A -> B] /\ \A p, q \in A : f[p] = f[q] => p = q
    BY <2>1
  <2>4. \A q \in B : \E p \in A : f[p] = q
    BY <2>2
  <2> HIDE DEF A, B, f
  <2> QED
    BY <2>3, <2>4 DEF Bijection, Injection, Surjection, IsInjective
<1>3. Cardinality(A) = Cardinality(B)
  <2>1. ExistsBijection(A, B)
    BY <1>2 DEF ExistsBijection
  <2> HIDE DEF A, B
  <2> QED
    BY <1>1, <2>1, FS_Bijection
<1> QED
  BY <1>3 DEF Size

LEMMA NumberMoved ==
  ASSUME NEW s, NEW t, NEW o \in Int, NEW i \in Int, NEW j \in Int, i <= j, Moved(s, t, o, i, j)
  PROVE  /\ Number(s, i, j) <=> Number(t, o + i, o + j)
         /\ Doubled(s, i, j) <=> Doubled(t, o + i, o + j)
<1>1. s[i] = t[o + i] /\ s[j] = t[o + j]
  BY DEF Moved
<1>2. Number(s, i, j) <=> Number(t, o + i, o + j)
  BY <1>1, AllMoved DEF Number
<1>3. \A p \in i .. j - 1 : /\ o + p \in o + i .. o + j - 1
                            /\ s[p] = t[o + p] /\ s[p + 1] = t[o + p + 1]
  <2> TAKE p \in i .. j - 1
  <2>1. p \in i .. j /\ p + 1 \in i .. j /\ o + (p + 1) = o + p + 1
    OBVIOUS
  <2> QED
    BY <2>1 DEF Moved
<1>4. \A p \in o + i .. o + j - 1 : p - o \in i .. j - 1 /\ o + (p - o) = p
  OBVIOUS
<1>5. Doubled(s, i, j) <=> Doubled(t, o + i, o + j)
  BY <1>3, <1>4 DEF Doubled
<1> QED
  BY <1>2, <1>5

\* DomainName, place by place.
Named(t, i, j) ==
  /\ All(t, i, j, DomainChars)
  /\ \E p \in i .. j : t[p] = "dot"
  /\ \A p \in i .. j :
       (p = i \/ p = j \/ (p > i /\ t[p - 1] = "dot") \/ (p < j /\ t[p + 1] = "dot"))
         => t[p] \in Alnum
  /\ \A p \in i .. j - LabelMax : \E q \in p .. p + LabelMax : t[q] = "dot"

LEMMA DomainNameIsNamed ==
  ASSUME NEW t, NEW i \in Int, NEW j \in Int
  PROVE  DomainName(t, i, j) <=> Named(t, i, j)
<1> DEFINE dots == {p \in i .. j : t[p] = "dot"}
<1>1. LabelMax \in Nat
  BY PatternAssumption
<1>2. dots # {} <=> \E p \in i .. j : t[p] = "dot"
  OBVIOUS
<1>3. ASSUME NEW p \in i .. j
      PROVE  {p - 1, p + 1} \cap (dots \cup {i - 1, j + 1}) # {}
               <=> p = i \/ p = j \/ (p > i /\ t[p - 1] = "dot") \/ (p < j /\ t[p + 1] = "dot")
  <2>1. p - 1 \in dots <=> p > i /\ t[p - 1] = "dot"
    OBVIOUS
  <2>2. p + 1 \in dots <=> p < j /\ t[p + 1] = "dot"
    OBVIOUS
  <2>3. (p - 1 = i - 1 <=> p = i) /\ (p + 1 = j + 1 <=> p = j) /\ p - 1 # j + 1 /\ p + 1 # i - 1
    OBVIOUS
  <2> HIDE DEF dots
  <2> QED
    BY <2>1, <2>2, <2>3
<1>4. ASSUME NEW p \in i .. j - LabelMax
      PROVE  dots \cap p .. p + LabelMax # {} <=> \E q \in p .. p + LabelMax : t[q] = "dot"
  <2>1. \A q \in p .. p + LabelMax : q \in i .. j
    BY <1>1
  <2> QED
    BY <2>1
<1> QED
  BY <1>2, <1>3, <1>4 DEF DomainName, Named

LEMMA DomainNameMoved ==
  ASSUME NEW s, NEW t, NEW o \in Int, NEW i \in Int, NEW j \in Int, Moved(s, t, o, i, j)
  PROVE  DomainName(s, i, j) <=> DomainName(t, o + i, o + j)
<1>1. LabelMax \in Nat
  BY PatternAssumption
<1>2. \A p \in i .. j : o + p \in o + i .. o + j /\ s[p] = t[o + p]
  BY DEF Moved
<1>3. \A p \in o + i .. o + j : p - o \in i .. j /\ o + (p - o) = p /\ t[p] = s[p - o]
  BY DEF Moved
<1>4. All(s, i, j, DomainChars) <=> All(t, o + i, o + j, DomainChars)
  BY AllMoved
<1>5. (\E p \in i .. j : s[p] = "dot") <=> (\E p \in o + i .. o + j : t[p] = "dot")
  BY <1>2, <1>3
<1> DEFINE edge(r, a, b, p) ==
             p = a \/ p = b \/ (p > a /\ r[p - 1] = "dot") \/ (p < b /\ r[p + 1] = "dot")
<1>6. ASSUME NEW p \in i .. j
      PROVE  edge(s, i, j, p) <=> edge(t, o + i, o + j, o + p)
  <2>1. p > i => p - 1 \in i .. j /\ o + (p - 1) = o + p - 1
    OBVIOUS
  <2>2. p < j => p + 1 \in i .. j /\ o + (p + 1) = o + p + 1
    OBVIOUS
  <2>3. (p > i <=> o + p > o + i) /\ (p < j <=> o + p < o + j) /\ (p = i <=> o + p = o + i) /\ (p = j <=> o + p = o + j)
    OBVIOUS
  <2> QED
    BY <1>2, <2>1, <2>2, <2>3
<1>7. (\A p \in i .. j : edge(s, i, j, p) => s[p] \in Alnum)
        <=> (\A p \in o + i .. o + j : edge(t, o + i, o + j, p) => t[p] \in Alnum)
  <2> HIDE DEF edge
  <2> QED
    BY <1>2, <1>3, <1>6
<1> DEFINE dotted(r, a, b) == \E p \in a .. b : r[p] = "dot"
           edged(r, a, b) == \A p \in a .. b : edge(r, a, b, p) => r[p] \in Alnum
           short(r, a, b) == \A p \in a .. b - LabelMax : \E q \in p .. p + LabelMax : r[q] = "dot"
<1>8. short(s, i, j) <=> short(t, o + i, o + j)
  <2>1. ASSUME NEW p \in i .. j - LabelMax
        PROVE  (\E q \in p .. p + LabelMax : s[q] = "dot")
                 <=> (\E q \in o + p .. o + p + LabelMax : t[q] = "dot")
    <3>1. \A q \in p .. p + LabelMax : s[q] = t[o + q] /\ o + q \in o + p .. o + p + LabelMax
      BY <1>1, <1>2
    <3>2. \A q \in o + p .. o + p + LabelMax : t[q] = s[q - o] /\ q - o \in p .. p + LabelMax
      BY <1>1, <1>3
    <3> QED
      BY <3>1, <3>2
  <2>2. \A p \in i .. j - LabelMax : o + p \in o + i .. (o + j) - LabelMax
    BY <1>1
  <2>3. \A p \in o + i .. (o + j) - LabelMax : p - o \in i .. j - LabelMax /\ o + (p - o) = p
    BY <1>1
  <2> QED
    BY <2>1, <2>2, <2>3
<1>9. \A r, a, b : Named(r, a, b) <=> /\ All(r, a, b, DomainChars)
                                     /\ dotted(r, a, b) /\ edged(r, a, b) /\ short(r, a, b)
  BY DEF Named
<1>10. /\ dotted(s, i, j) <=> dotted(t, o + i, o + j)
       /\ edged(s, i, j) <=> edged(t, o + i, o + j)
       /\ short(s, i, j) <=> short(t, o + i, o + j)
  BY <1>5, <1>7, <1>8
<1> HIDE DEF dotted, edged, short
<1>11. Named(s, i, j) <=> Named(t, o + i, o + j)
  BY <1>4, <1>9, <1>10
<1> QED
  BY <1>11, DomainNameIsNamed

\* An address without its neighbours, and one that more text can only lengthen.
Address(t, i, j) ==
  \E at \in i + 1 .. j - 1 :
    /\ t[at] = "at"
    /\ at - i <= LocalMax
    /\ All(t, i, at - 1, LocalChars)
    /\ DomainName(t, at + 1, j)

Begun(t, i, j) == Address(t, i, j) /\ ~Preceded(t, i, LocalChars)

LEMMA EmailIsBegun ==
  ASSUME NEW t, NEW i, NEW j
  PROVE  Email(t, i, j) <=> Begun(t, i, j) /\ ~Followed(t, j, DomainChars)
BY DEF Email, Begun, Address

LEMMA AddressMoved ==
  ASSUME NEW s, NEW t, NEW o \in Int, NEW i \in Int, NEW j \in Int, Moved(s, t, o, i, j)
  PROVE  Address(s, i, j) <=> Address(t, o + i, o + j)
<1>1. ASSUME NEW at \in i + 1 .. j - 1
      PROVE  /\ o + at \in (o + i) + 1 .. (o + j) - 1
             /\ s[at] = t[o + at]
             /\ at - i <= LocalMax <=> (o + at) - (o + i) <= LocalMax
             /\ All(s, i, at - 1, LocalChars) <=> All(t, o + i, (o + at) - 1, LocalChars)
             /\ DomainName(s, at + 1, j) <=> DomainName(t, (o + at) + 1, o + j)
  <2>1. Moved(s, t, o, i, at - 1) /\ Moved(s, t, o, at + 1, j)
    BY DEF Moved
  <2>2. o + (at - 1) = (o + at) - 1 /\ o + (at + 1) = (o + at) + 1 /\ (o + at) - (o + i) = at - i
    OBVIOUS
  <2>3. All(s, i, at - 1, LocalChars) <=> All(t, o + i, o + (at - 1), LocalChars)
    BY <2>1, AllMoved
  <2>4. DomainName(s, at + 1, j) <=> DomainName(t, o + (at + 1), o + j)
    BY <2>1, DomainNameMoved
  <2>5. s[at] = t[o + at] /\ o + at \in (o + i) + 1 .. (o + j) - 1
    BY DEF Moved
  <2> QED
    BY <2>2, <2>3, <2>4, <2>5
<1>2. \A at \in (o + i) + 1 .. (o + j) - 1 : at - o \in i + 1 .. j - 1 /\ o + (at - o) = at
  OBVIOUS
<1>3. ASSUME Address(s, i, j)
      PROVE  Address(t, o + i, o + j)
  BY <1>1, <1>3 DEF Address
<1>4. ASSUME Address(t, o + i, o + j)
      PROVE  Address(s, i, j)
  <2>1. PICK at \in (o + i) + 1 .. (o + j) - 1 :
          /\ t[at] = "at"
          /\ at - (o + i) <= LocalMax
          /\ All(t, o + i, at - 1, LocalChars)
          /\ DomainName(t, at + 1, o + j)
    BY <1>4 DEF Address
  <2>2. at - o \in i + 1 .. j - 1 /\ o + (at - o) = at
    BY <1>2
  <2>3. /\ s[at - o] = "at" /\ (at - o) - i <= LocalMax
        /\ All(s, i, (at - o) - 1, LocalChars) /\ DomainName(s, (at - o) + 1, j)
    BY <1>1, <2>1, <2>2
  <2> QED
    BY <2>2, <2>3 DEF Address
<1> QED
  BY <1>3, <1>4

\* The whole of t, and the two parts of it.
LEMMA PartsMoved ==
  ASSUME NEW S, NEW t \in Seq(S), NEW c \in 0 .. Len(t)
  PROVE  /\ \A i \in 1 .. c, j \in 1 .. c : Moved(Upto(t, c), t, 0, i, j)
         /\ \A i \in 1 .. Len(t) - c, j \in 1 .. Len(t) - c : Moved(From(t, c), t, c, i, j)
<1>1. \A p \in 1 .. c : Upto(t, c)[p] = t[p] /\ 0 + p = p
  BY UptoIs
<1>2. \A p \in 1 .. Len(t) - c : From(t, c)[p] = t[c + p]
  BY FromIs
<1>3. \A i \in 1 .. c, j \in 1 .. c : i .. j \subseteq 1 .. c
  OBVIOUS
<1>4. \A i \in 1 .. Len(t) - c, j \in 1 .. Len(t) - c : i .. j \subseteq 1 .. Len(t) - c
  OBVIOUS
<1> QED
  BY <1>1, <1>2, <1>3, <1>4 DEF Moved

-----------------------------------------------------------------------------
\* A cut that no value crosses, whatever the text is: no word has an "@" after
\* the cut and a character before it; no address goes on across the cut, nor
\* would end at it and go on; the rest stands apart; and a number across the
\* cut is too short for a card and no run of digits and hyphens.
Sealed(t, c) ==
  /\ c >= 1 /\ t[c] \in CandidateChars =>
       \A q \in c + 1 .. Len(t) : All(t, c + 1, q, CandidateChars) => t[q] # "at"
  /\ \A i \in 1 .. c, j \in c + 1 .. Len(t) : ~Begun(t, i, j)
  /\ \A i \in 1 .. c : c < Len(t) /\ Begun(t, i, c) => t[c + 1] \notin DomainChars
  /\ Separable(From(t, c))
  /\ \A i \in 1 .. c, j \in c + 1 .. Len(t) :
       Number(t, i, j) => Size(t, i, j, {"digit"}) < CardMin /\ "space" \in {t[c], t[c + 1]}

LEMMA EmailSplits ==
  ASSUME NEW t \in Seq(Chars), NEW c \in 0 .. Len(t), Sealed(t, c)
  PROVE  Splits("email", t, c)
<1> DEFINE n == Len(t)
           a == Upto(t, c)
           b == From(t, c)
<1>0. n \in Nat /\ c \in Nat
  OBVIOUS
<1>1. /\ Len(a) = c /\ \A p \in 1 .. c : a[p] = t[p]
      /\ Len(b) = n - c /\ \A p \in 1 .. n - c : b[p] = t[c + p]
  BY UptoIs, FromIs
<1>2. \A s, i, j : Matches("email", s, i, j) <=> Begun(s, i, j) /\ ~Followed(s, j, DomainChars)
  BY EmailIsBegun DEF Matches
<1>3. /\ \A i \in 1 .. c, j \in 1 .. c : Moved(a, t, 0, i, j)
      /\ \A i \in 1 .. n - c, j \in 1 .. n - c : Moved(b, t, c, i, j)
  BY PartsMoved
<1> HIDE DEF a, b
<1>4. ASSUME NEW i \in 1 .. c, NEW j \in c + 1 .. n
      PROVE  ~Matches("email", t, i, j)
  BY <1>2 DEF Sealed
<1>5. ASSUME NEW i \in 1 .. c, NEW j \in 1 .. c, i <= j
      PROVE  Matches("email", t, i, j) <=> Matches("email", a, i, j)
  <2>1. Address(a, i, j) <=> Address(t, i, j)
    <3>1. 0 + i = i /\ 0 + j = j
      OBVIOUS
    <3> QED
      BY <1>3, <3>1, AddressMoved
  <2>2. Preceded(a, i, LocalChars) <=> Preceded(t, i, LocalChars)
    BY <1>0, <1>1 DEF Preceded
  <2>3. Begun(a, i, j) <=> Begun(t, i, j)
    BY <2>1, <2>2 DEF Begun
  <2>4. CASE j < c
    <3>1. Followed(a, j, DomainChars) <=> Followed(t, j, DomainChars)
      BY <1>0, <1>1, <2>4 DEF Followed
    <3> QED
      BY <1>2, <2>3, <3>1
  <2>5. CASE j = c
    <3>1. ~Followed(a, j, DomainChars)
      BY <1>0, <1>1, <2>5 DEF Followed
    <3>2. Begun(t, i, j) => ~Followed(t, j, DomainChars)
      BY <2>5 DEF Sealed, Followed
    <3> QED
      BY <1>2, <2>3, <3>1, <3>2
  <2> QED
    BY <1>0, <2>4, <2>5
<1>6. ASSUME NEW i \in 1 .. n - c, NEW j \in 1 .. n - c, i <= j
      PROVE  Matches("email", t, c + i, c + j) <=> Matches("email", b, i, j)
  <2>1. Address(b, i, j) <=> Address(t, c + i, c + j)
    BY <1>0, <1>3, AddressMoved
  <2>2. Followed(b, j, DomainChars) <=> Followed(t, c + j, DomainChars)
    <3>1. j < n - c <=> c + j < n
      BY <1>0
    <3>2. j < n - c => j + 1 \in 1 .. n - c /\ c + (j + 1) = (c + j) + 1
      BY <1>0
    <3> QED
      BY <1>1, <3>1, <3>2 DEF Followed
  <2>3. CASE i > 1
    <3>1. i - 1 \in 1 .. n - c /\ c + (i - 1) = (c + i) - 1 /\ c + i > 1
      BY <1>0, <2>3
    <3>2. Preceded(b, i, LocalChars) <=> Preceded(t, c + i, LocalChars)
      BY <1>1, <2>3, <3>1 DEF Preceded
    <3> QED
      BY <1>2, <2>1, <2>2, <3>2 DEF Begun
  <2>4. CASE i = 1
    <3>1. ~Preceded(b, i, LocalChars)
      BY <2>4 DEF Preceded
    <3>2. ASSUME Address(t, c + i, c + j), Preceded(t, c + i, LocalChars)
          PROVE  FALSE
      <4>1. PICK at \in (c + i) + 1 .. (c + j) - 1 : t[at] = "at" /\ All(t, c + i, at - 1, LocalChars)
        BY <3>2 DEF Address
      <4>2. c >= 1 /\ t[c] \in CandidateChars
        BY <1>0, <2>4, <3>2 DEF Preceded, CandidateChars
      <4>3. at \in c + 1 .. n
        BY <1>0, <2>4
      <4>4. All(t, c + 1, at, CandidateChars)
        <5> SUFFICES ASSUME NEW p \in c + 1 .. at PROVE t[p] \in CandidateChars
          BY DEF All
        <5>1. p = at \/ p \in c + i .. at - 1
          BY <1>0, <2>4, <4>3
        <5> QED
          BY <4>1, <5>1 DEF All, CandidateChars
      <4> QED
        BY <4>1, <4>2, <4>3, <4>4 DEF Sealed
    <3> QED
      BY <1>2, <2>1, <2>2, <3>1, <3>2 DEF Begun
  <2> QED
    BY <2>3, <2>4
<1> QED
  BY <1>4, <1>5, <1>6 DEF Splits, a, b

\* x is t with marks in some places.
Hides(x, t) ==
  /\ Len(x) = Len(t)
  /\ \A p \in 1 .. Len(t) : x[p] = t[p] \/ x[p] \in Marks

\* No two digits are on both sides of a sealed cut.
LEMMA DigitsApart ==
  ASSUME NEW t, Len(t) \in Nat, NEW c \in 1 .. Len(t) - 1, Sealed(t, c)
  PROVE  ~(t[c] = "digit" /\ t[c + 1] = "digit")
<1> SUFFICES ASSUME t[c] = "digit", t[c + 1] = "digit"
             PROVE  FALSE
  OBVIOUS
<1>1. \A p \in c .. c + 1 : p = c \/ p = c + 1
  OBVIOUS
<1>2. Number(t, c, c + 1)
  BY <1>1 DEF Number, All, CardChars
<1>3. c \in 1 .. c /\ c + 1 \in c + 1 .. Len(t)
  OBVIOUS
<1>4. "space" \in {t[c], t[c + 1]}
  BY <1>2, <1>3 DEF Sealed
<1> QED
  BY <1>4

LEMMA EdgesSplit ==
  ASSUME NEW S, NEW x \in Seq(S), NEW c \in 0 .. Len(x),
         ~(c \in 1 .. Len(x) - 1 /\ x[c] = "digit" /\ x[c + 1] = "digit")
  PROVE  /\ \A i \in 1 .. c, j \in 1 .. c : x[j] = "digit" =>
              /\ Preceded(Upto(x, c), i, {"digit"}) <=> Preceded(x, i, {"digit"})
              /\ Followed(Upto(x, c), j, {"digit"}) <=> Followed(x, j, {"digit"})
         /\ \A i \in 1 .. Len(x) - c, j \in 1 .. Len(x) - c : x[c + i] = "digit" =>
              /\ Preceded(From(x, c), i, {"digit"}) <=> Preceded(x, c + i, {"digit"})
              /\ Followed(From(x, c), j, {"digit"}) <=> Followed(x, c + j, {"digit"})
<1> DEFINE n == Len(x)
           a == Upto(x, c)
           b == From(x, c)
<1>0. n \in Nat /\ c \in Nat /\ c <= n
  OBVIOUS
<1>10. Len(a) = c /\ \A p \in 1 .. c : a[p] = x[p]
  BY UptoIs
<1>11. Len(b) = n - c /\ \A p \in 1 .. n - c : b[p] = x[c + p]
  BY FromIs
<1> HIDE DEF a, b
<1>1. /\ Len(a) = c /\ \A p \in 1 .. c : a[p] = x[p]
      /\ Len(b) = n - c /\ \A p \in 1 .. n - c : b[p] = x[c + p]
  BY <1>10, <1>11
<1>2. ASSUME NEW i \in 1 .. c
      PROVE  Preceded(a, i, {"digit"}) <=> Preceded(x, i, {"digit"})
  BY <1>0, <1>1 DEF Preceded
<1>3. ASSUME NEW j \in 1 .. c, x[j] = "digit"
      PROVE  Followed(a, j, {"digit"}) <=> Followed(x, j, {"digit"})
  <2>1. CASE j < c
    BY <1>0, <1>1, <2>1 DEF Followed
  <2>2. CASE j = c
    BY <1>0, <1>1, <1>3, <2>2 DEF Followed
  <2> QED
    BY <1>0, <2>1, <2>2
<1>4. ASSUME NEW i \in 1 .. n - c, x[c + i] = "digit"
      PROVE  Preceded(b, i, {"digit"}) <=> Preceded(x, c + i, {"digit"})
  <2>1. CASE i > 1
    <3>1. i - 1 \in 1 .. n - c /\ c + (i - 1) = (c + i) - 1 /\ c + i > 1
      BY <1>0, <2>1
    <3> QED
      BY <1>1, <2>1, <3>1 DEF Preceded
  <2>2. CASE i = 1
    <3>1. (c + i) - 1 = c /\ (c + i > 1 => c \in 1 .. n - 1) /\ c + i = c + 1
      BY <1>0, <2>2
    <3> QED
      BY <1>4, <2>2, <3>1 DEF Preceded
  <2> QED
    BY <2>1, <2>2
<1>5. ASSUME NEW j \in 1 .. n - c
      PROVE  Followed(b, j, {"digit"}) <=> Followed(x, c + j, {"digit"})
  <2>1. j < n - c <=> c + j < n
    BY <1>0
  <2>2. j < n - c => j + 1 \in 1 .. n - c /\ c + (j + 1) = (c + j) + 1
    BY <1>0
  <2> QED
    BY <1>1, <2>1, <2>2 DEF Followed
<1> QED
  BY <1>2, <1>3, <1>4, <1>5 DEF a, b

LEMMA SubSeqIs ==
  ASSUME NEW S, NEW x \in Seq(S), NEW i \in 1 .. Len(x), NEW j \in i .. Len(x)
  PROVE  /\ SubSeq(x, i, j) \in Seq(S) /\ Len(SubSeq(x, i, j)) = j - i + 1
         /\ \A p \in i .. j : SubSeq(x, i, j)[p - i + 1] = x[p]
<1>1. SubSeq(x, i, j) \in Seq(S) /\ Len(SubSeq(x, i, j)) = j - i + 1
  OBVIOUS
<1>2. \A p \in 1 .. j - i + 1 : SubSeq(x, i, j)[p] = x[i + p - 1]
  OBVIOUS
<1>3. \A p \in i .. j : p - i + 1 \in 1 .. j - i + 1 /\ i + (p - i + 1) - 1 = p
  OBVIOUS
<1> QED
  BY <1>1, <1>2, <1>3

\* An SSN is made of digits and hyphens and has digits at its ends.
LEMMA SsnChars ==
  ASSUME NEW S, NEW x \in Seq(S), NEW i \in 1 .. Len(x), NEW j \in i .. Len(x),
         SubSeq(x, i, j) = SsnMask
  PROVE  All(x, i, j, {"digit", "hyphen"}) /\ x[i] = "digit" /\ x[j] = "digit"
<1>1. SubSeq(x, i, j) = SsnMask
  OBVIOUS
<1>2. \A p \in i .. j : p - i + 1 \in 1 .. j - i + 1
  OBVIOUS
<1>30. Len(SubSeq(x, i, j)) = j - i + 1
  BY SubSeqIs
<1>31. \A p \in i .. j : SubSeq(x, i, j)[p - i + 1] = x[p]
  BY SubSeqIs
<1>3. \A p \in i .. j : x[p] = SsnMask[p - i + 1]
  BY <1>1, <1>31
<1>4. Len(SsnMask) = j - i + 1 /\ SsnMask \in Seq({"digit", "hyphen"})
  BY <1>1, <1>30, PatternAssumption
<1>5. All(x, i, j, {"digit", "hyphen"})
  <2>1. \A p \in 1 .. j - i + 1 : SsnMask[p] \in {"digit", "hyphen"}
    BY <1>4
  <2> QED
    BY <1>2, <1>3, <2>1 DEF All
<1>6. x[i] = SsnMask[1] /\ x[j] = SsnMask[Len(SsnMask)]
  <2>1. i - i + 1 = 1 /\ i \in i .. j /\ j \in i .. j
    OBVIOUS
  <2> QED
    BY <1>3, <1>4, <2>1
<1> QED
  BY <1>5, <1>6, MaskAssumption

LEMMA SubSeqMoved ==
  ASSUME NEW S, NEW s \in Seq(S), NEW t \in Seq(S), NEW o \in Nat,
         NEW i \in 1 .. Len(s), NEW j \in i .. Len(s), o + j <= Len(t), Moved(s, t, o, i, j)
  PROVE  SubSeq(s, i, j) = SubSeq(t, o + i, o + j)
<1> DEFINE p == SubSeq(s, i, j)
           q == SubSeq(t, o + i, o + j)
<1>1. p \in Seq(S) /\ Len(p) = j - i + 1 /\ \A k \in 1 .. j - i + 1 : p[k] = s[i + k - 1]
  OBVIOUS
<1>2. q \in Seq(S) /\ Len(q) = j - i + 1 /\ \A k \in 1 .. j - i + 1 : q[k] = t[(o + i) + k - 1]
  OBVIOUS
<1>3. \A k \in 1 .. j - i + 1 : i + k - 1 \in i .. j /\ o + (i + k - 1) = (o + i) + k - 1
  OBVIOUS
<1>4. \A k \in 1 .. j - i + 1 : p[k] = q[k]
  BY <1>1, <1>2, <1>3 DEF Moved
<1> HIDE DEF p, q
<1>5. p = q
  BY <1>1, <1>2, <1>4, SeqEqual
<1> QED
  BY <1>5 DEF p, q

\* What is left of a number in a marked text is the number.
LEMMA NumberShows ==
  ASSUME NEW t, NEW x, Len(t) \in Nat, Hides(x, t),
         NEW i \in 1 .. Len(t), NEW j \in i .. Len(t), Number(x, i, j)
  PROVE  /\ Number(t, i, j)
         /\ \A p \in i .. j : x[p] = t[p]
         /\ Size(x, i, j, {"digit"}) = Size(t, i, j, {"digit"})
<1>1. \A p \in i .. j : x[p] = t[p]
  <2> TAKE p \in i .. j
  <2>1. x[p] \in CardChars
    BY DEF Number, All
  <2>2. x[p] \notin Marks
    BY <2>1 DEF CardChars, Separators, Marks
  <2> QED
    BY <2>2 DEF Hides
<1>2. Moved(x, t, 0, i, j)
  BY <1>1 DEF Moved
<1>3. 0 + i = i /\ 0 + j = j /\ i <= j /\ i \in Int /\ j \in Int
  OBVIOUS
<1>4. Number(t, i, j)
  BY <1>2, <1>3, NumberMoved
<1>5. Size(x, i, j, {"digit"}) = Size(t, 0 + i, 0 + j, {"digit"})
  BY <1>2, <1>3, SizeMoved
<1> QED
  BY <1>1, <1>3, <1>4, <1>5

\* No two digits of a marked text are on both sides of a sealed cut.
LEMMA DigitsApartInHidden ==
  ASSUME NEW t, NEW x, Len(t) \in Nat, Hides(x, t), NEW c \in 0 .. Len(t), Sealed(t, c)
  PROVE  ~(c \in 1 .. Len(x) - 1 /\ x[c] = "digit" /\ x[c + 1] = "digit")
<1> SUFFICES ASSUME c \in 1 .. Len(x) - 1, x[c] = "digit", x[c + 1] = "digit"
             PROVE  FALSE
  OBVIOUS
<1>1. c \in 1 .. Len(t) - 1
  BY DEF Hides
<1>2. t[c] = "digit" /\ t[c + 1] = "digit"
  BY <1>1 DEF Hides, Marks
<1> QED
  BY <1>1, <1>2, DigitsApart

LEMMA SsnIs ==
  ASSUME NEW S, NEW x \in Seq(S), NEW i \in 1 .. Len(x), NEW j \in i .. Len(x), Ssn(x, i, j)
  PROVE  Number(x, i, j) /\ All(x, i, j, {"digit", "hyphen"}) /\ x[i] = "digit" /\ x[j] = "digit"
<1>1. SubSeq(x, i, j) = SsnMask
  BY DEF Ssn
<1>2. All(x, i, j, {"digit", "hyphen"}) /\ x[i] = "digit" /\ x[j] = "digit"
  BY <1>1, SsnChars
<1>3. All(x, i, j, CardChars)
  BY <1>2 DEF All, CardChars, Separators
<1> QED
  BY <1>2, <1>3 DEF Number

LEMMA SsnSplits ==
  ASSUME NEW S, NEW t \in Seq(S), NEW x \in Seq(S \cup Marks), Hides(x, t),
         NEW c \in 0 .. Len(t), Sealed(t, c)
  PROVE  Splits("ssn", x, c)
<1> DEFINE n == Len(x)
           R == S \cup Marks
           a == Upto(x, c)
           b == From(x, c)
<1>0. n \in Nat /\ c \in 0 .. n /\ Len(t) = n /\ x \in Seq(R)
  BY DEF Hides
<1>1. \A y, i, j : Matches("ssn", y, i, j) <=> Ssn(y, i, j)
  BY DEF Matches
<1>20. a \in Seq(R) /\ Len(a) = c
  BY <1>0, UptoIs
<1>21. b \in Seq(R) /\ Len(b) = n - c
  BY <1>0, FromIs
<1>2. /\ \A i \in 1 .. c, j \in 1 .. c : Moved(a, x, 0, i, j)
      /\ \A i \in 1 .. n - c, j \in 1 .. n - c : Moved(b, x, c, i, j)
  BY <1>0, PartsMoved
<1>3. ~(c \in 1 .. n - 1 /\ x[c] = "digit" /\ x[c + 1] = "digit")
  BY <1>0, DigitsApartInHidden
<1>4. /\ \A i \in 1 .. c, j \in 1 .. c : x[j] = "digit" =>
           /\ Preceded(a, i, {"digit"}) <=> Preceded(x, i, {"digit"})
           /\ Followed(a, j, {"digit"}) <=> Followed(x, j, {"digit"})
      /\ \A i \in 1 .. n - c, j \in 1 .. n - c : x[c + i] = "digit" =>
           /\ Preceded(b, i, {"digit"}) <=> Preceded(x, c + i, {"digit"})
           /\ Followed(b, j, {"digit"}) <=> Followed(x, c + j, {"digit"})
  BY <1>0, <1>3, EdgesSplit
<1> HIDE DEF a, b, R
<1>5. ASSUME NEW i \in 1 .. c, NEW j \in c + 1 .. n
      PROVE  ~Ssn(x, i, j)
  <2> SUFFICES ASSUME Ssn(x, i, j) PROVE FALSE
    OBVIOUS
  <2>1. i \in 1 .. n /\ j \in i .. n /\ c \in i .. j /\ c + 1 \in i .. j
    BY <1>0
  <2>2. Number(x, i, j) /\ All(x, i, j, {"digit", "hyphen"})
    BY <1>0, <2>1, SsnIs
  <2>3. Number(t, i, j) /\ \A p \in i .. j : x[p] = t[p]
    BY <1>0, <2>1, <2>2, NumberShows
  <2>4. "space" \in {t[c], t[c + 1]}
    BY <1>0, <2>3 DEF Sealed
  <2> QED
    BY <2>1, <2>2, <2>3, <2>4 DEF All
<1>6. ASSUME NEW i \in 1 .. c, NEW j \in 1 .. c, i <= j
      PROVE  Ssn(x, i, j) <=> Ssn(a, i, j)
  <2>1. i \in 1 .. Len(a) /\ j \in i .. Len(a) /\ i \in 1 .. n /\ j \in i .. n /\ 0 + i = i /\ 0 + j = j
    BY <1>0, <1>20, <1>6
  <2>4. Moved(a, x, 0, i, j) /\ a \in Seq(R) /\ 0 + j <= Len(x) /\ 0 \in Nat
    BY <1>0, <1>2, <1>20
  <2>2. SubSeq(a, i, j) = SubSeq(x, 0 + i, 0 + j)
    BY <1>0, <2>1, <2>4, SubSeqMoved
  <2>3. ASSUME SubSeq(x, i, j) = SsnMask PROVE x[j] = "digit"
    BY <1>0, <2>1, <2>3, SsnChars
  <2> QED
    BY <1>4, <2>1, <2>2, <2>3 DEF Ssn
<1>7. ASSUME NEW i \in 1 .. n - c, NEW j \in 1 .. n - c, i <= j
      PROVE  Ssn(x, c + i, c + j) <=> Ssn(b, i, j)
  <2>1. i \in 1 .. Len(b) /\ j \in i .. Len(b) /\ c + i \in 1 .. n /\ c + j \in c + i .. n /\ c \in Nat /\ c + j <= Len(x)
    BY <1>0, <1>21, <1>7
  <2>2. SubSeq(b, i, j) = SubSeq(x, c + i, c + j)
    BY <1>0, <1>2, <1>21, <2>1, SubSeqMoved
  <2>3. ASSUME SubSeq(x, c + i, c + j) = SsnMask PROVE x[c + i] = "digit"
    BY <1>0, <2>1, <2>3, SsnChars
  <2> QED
    BY <1>4, <2>2, <2>3 DEF Ssn
<1> QED
  BY <1>1, <1>5, <1>6, <1>7 DEF Splits, a, b

LEMMA CardSplits ==
  ASSUME NEW S, NEW t \in Seq(S), NEW x \in Seq(S \cup Marks), Hides(x, t),
         NEW c \in 0 .. Len(t), Sealed(t, c)
  PROVE  Splits("card", x, c)
<1> DEFINE n == Len(x)
           R == S \cup Marks
           a == Upto(x, c)
           b == From(x, c)
<1>0. n \in Nat /\ c \in 0 .. n /\ c \in Nat /\ Len(t) = n /\ x \in Seq(R)
  BY DEF Hides
<1>1. \A y, i, j : Matches("card", y, i, j) <=>
                     CardNumber(y, i, j) /\ \A k \in j + 1 .. Len(y) : ~CardNumber(y, i, k)
  BY DEF Matches, Card
<1>20. a \in Seq(R) /\ Len(a) = c
  BY <1>0, UptoIs
<1>21. b \in Seq(R) /\ Len(b) = n - c
  BY <1>0, FromIs
<1>2. /\ \A i \in 1 .. c, j \in 1 .. c : Moved(a, x, 0, i, j)
      /\ \A i \in 1 .. n - c, j \in 1 .. n - c : Moved(b, x, c, i, j)
  BY <1>0, PartsMoved
<1>3. ~(c \in 1 .. n - 1 /\ x[c] = "digit" /\ x[c + 1] = "digit")
  BY <1>0, DigitsApartInHidden
<1>4. /\ \A i \in 1 .. c, j \in 1 .. c : x[j] = "digit" =>
           /\ Preceded(a, i, {"digit"}) <=> Preceded(x, i, {"digit"})
           /\ Followed(a, j, {"digit"}) <=> Followed(x, j, {"digit"})
      /\ \A i \in 1 .. n - c, j \in 1 .. n - c : x[c + i] = "digit" =>
           /\ Preceded(b, i, {"digit"}) <=> Preceded(x, c + i, {"digit"})
           /\ Followed(b, j, {"digit"}) <=> Followed(x, c + j, {"digit"})
  BY <1>0, <1>3, EdgesSplit
<1> HIDE DEF a, b, R
<1>5. ASSUME NEW i \in 1 .. c, NEW j \in c + 1 .. n
      PROVE  ~CardNumber(x, i, j)
  <2> SUFFICES ASSUME CardNumber(x, i, j) PROVE FALSE
    OBVIOUS
  <2>1. i \in 1 .. n /\ j \in i .. n
    BY <1>0
  <2>2. Number(x, i, j) /\ Size(x, i, j, {"digit"}) \in CardMin .. CardMax
    BY DEF CardNumber
  <2>3. Number(t, i, j) /\ Size(x, i, j, {"digit"}) = Size(t, i, j, {"digit"})
    BY <1>0, <2>1, <2>2, NumberShows
  <2>4. Size(t, i, j, {"digit"}) < CardMin
    BY <1>0, <2>3 DEF Sealed
  <2>5. CardMin \in Nat
    BY PatternAssumption
  <2> QED
    BY <2>2, <2>3, <2>4, <2>5
<1>6. ASSUME NEW i \in 1 .. c, NEW j \in 1 .. c, i <= j
      PROVE  CardNumber(x, i, j) <=> CardNumber(a, i, j)
  <2>1. 0 \in Int /\ i \in Int /\ j \in Int /\ 0 + i = i /\ 0 + j = j /\ i <= j /\ Moved(a, x, 0, i, j)
    BY <1>2, <1>6
  <2>2. (Number(a, i, j) <=> Number(x, 0 + i, 0 + j)) /\ (Doubled(a, i, j) <=> Doubled(x, 0 + i, 0 + j))
    BY <2>1, NumberMoved
  <2>3. Size(a, i, j, {"digit"}) = Size(x, 0 + i, 0 + j, {"digit"})
    BY <2>1, SizeMoved
  <2>4. Number(x, i, j) => x[j] = "digit"
    BY DEF Number
  <2> QED
    BY <1>4, <2>1, <2>2, <2>3, <2>4 DEF CardNumber
<1>7. ASSUME NEW i \in 1 .. n - c, NEW j \in 1 .. n - c, i <= j
      PROVE  CardNumber(x, c + i, c + j) <=> CardNumber(b, i, j)
  <2>1. c \in Int /\ i \in Int /\ j \in Int /\ i <= j /\ Moved(b, x, c, i, j)
    BY <1>0, <1>2, <1>7
  <2>2. (Number(b, i, j) <=> Number(x, c + i, c + j)) /\ (Doubled(b, i, j) <=> Doubled(x, c + i, c + j))
    BY <2>1, NumberMoved
  <2>3. Size(b, i, j, {"digit"}) = Size(x, c + i, c + j, {"digit"})
    BY <2>1, SizeMoved
  <2>4. Number(x, c + i, c + j) => x[c + i] = "digit"
    BY DEF Number
  <2> QED
    BY <1>4, <2>2, <2>3, <2>4 DEF CardNumber
<1>8. ASSUME NEW i \in 1 .. c, NEW j \in 1 .. c, i <= j
      PROVE  Matches("card", x, i, j) <=> Matches("card", a, i, j)
  <2>1. \A k \in j + 1 .. c : k \in 1 .. c /\ i <= k
    BY <1>0, <1>8
  <2>2. \A k \in j + 1 .. n : k \in j + 1 .. c \/ k \in c + 1 .. n
    BY <1>0, <1>8
  <2>3. \A k \in j + 1 .. c : k \in j + 1 .. n
    BY <1>0, <1>8
  <2>4. (\A k \in j + 1 .. n : ~CardNumber(x, i, k)) <=> (\A k \in j + 1 .. c : ~CardNumber(a, i, k))
    BY <1>5, <1>6, <2>1, <2>2, <2>3
  <2> QED
    BY <1>1, <1>6, <1>8, <1>20, <2>4
<1>9. ASSUME NEW i \in 1 .. n - c, NEW j \in 1 .. n - c, i <= j
      PROVE  Matches("card", x, c + i, c + j) <=> Matches("card", b, i, j)
  <2>1. \A k \in (c + j) + 1 .. n : k - c \in j + 1 .. n - c /\ c + (k - c) = k
    BY <1>0
  <2>2. \A k \in j + 1 .. n - c : c + k \in (c + j) + 1 .. n /\ k \in 1 .. n - c /\ i <= k
    BY <1>0, <1>9
  <2>3. \A k \in j + 1 .. n - c : CardNumber(x, c + i, c + k) <=> CardNumber(b, i, k)
    BY <1>7, <2>2
  <2>4. (\A k \in (c + j) + 1 .. n : ~CardNumber(x, c + i, k)) <=> (\A k \in j + 1 .. n - c : ~CardNumber(b, i, k))
    <3>1. ASSUME \A k \in (c + j) + 1 .. n : ~CardNumber(x, c + i, k), NEW k \in j + 1 .. n - c
          PROVE  ~CardNumber(b, i, k)
      BY <2>2, <2>3, <3>1
    <3>2. ASSUME \A k \in j + 1 .. n - c : ~CardNumber(b, i, k), NEW k \in (c + j) + 1 .. n
          PROVE  ~CardNumber(x, c + i, k)
      <4>1. k - c \in j + 1 .. n - c /\ c + (k - c) = k
        BY <2>1
      <4>2. ~CardNumber(b, i, k - c)
        BY <3>2, <4>1
      <4>3. CardNumber(x, c + i, c + (k - c)) <=> CardNumber(b, i, k - c)
        BY <2>3, <4>1
      <4> QED
        BY <4>1, <4>2, <4>3
    <3> QED
      BY <3>1, <3>2
  <2> QED
    BY <1>1, <1>7, <1>9, <1>21, <2>4
<1>10. \A i \in 1 .. c, j \in c + 1 .. n : ~Matches("card", x, i, j)
  BY <1>1, <1>5
<1> QED
  BY <1>8, <1>9, <1>10 DEF Splits, a, b

LEMMA SubHides ==
  ASSUME NEW S, NEW t \in Seq(S), NEW x \in Seq(S \cup Marks), Hides(x, t), NEW pattern
  PROVE  Sub(pattern, x) \in Seq(S \cup Marks) /\ Hides(Sub(pattern, x), t)
<1> DEFINE s == Sub(pattern, x)
           R == S \cup Marks
           M == Finditer(pattern, x)
<1>1. x \in Seq(R)
  OBVIOUS
<1>2. R \cup Marks = R
  OBVIOUS
<1> HIDE DEF R
<1>3. s \in Seq(R \cup Marks) /\ Len(s) = Len(x) /\ \A p \in 1 .. Len(x) : s[p] = Painted(M, x, p)
  BY <1>1, SubIs
<1> HIDE DEF M, s
<1>4. \A p \in 1 .. Len(x) : s[p] = x[p] \/ s[p] \in Marks
  BY <1>3 DEF Painted, Marks
<1>5. Hides(s, t)
  BY <1>3, <1>4 DEF Hides
<1>6. s \in Seq(R)
  BY <1>2, <1>3
<1> QED
  BY <1>5, <1>6 DEF s, R

LEMMA TextIsHidden ==
  ASSUME NEW S, NEW t \in Seq(S)
  PROVE  t \in Seq(S \cup Marks) /\ Hides(t, t)
<1>1. t \in [1 .. Len(t) -> S \cup Marks]
  OBVIOUS
<1>2. t \in Seq(S \cup Marks)
  BY <1>1
<1> QED
  BY <1>2 DEF Hides

LEMMA MaskedHides ==
  ASSUME NEW S, NEW t \in Seq(S)
  PROVE  Masked(t) \in Seq(S \cup Marks) /\ Hides(Masked(t), t)
<1> DEFINE s1 == Sub("email", t)
           s2 == Sub("ssn", s1)
           s3 == Sub("card", s2)
<1>0. t \in Seq(S \cup Marks) /\ Hides(t, t)
  BY TextIsHidden
<1>1. s1 \in Seq(S \cup Marks) /\ Hides(s1, t)
  BY <1>0, SubHides
<1> HIDE DEF s1
<1>2. s2 \in Seq(S \cup Marks) /\ Hides(s2, t)
  BY <1>1, SubHides
<1> HIDE DEF s2
<1>3. s3 \in Seq(S \cup Marks) /\ Hides(s3, t)
  BY <1>2, SubHides
<1>4. Masked(t) = s3
  BY DEF Masked, s1, s2
<1> QED
  BY <1>3, <1>4

\* Redacting the two sides of a sealed cut is redacting the text.
LEMMA MaskedSplits ==
  ASSUME NEW t \in Seq(Chars), NEW c \in 0 .. Len(t), Sealed(t, c)
  PROVE  /\ Upto(Masked(t), c) = Masked(Upto(t, c))
         /\ From(Masked(t), c) = Masked(From(t, c))
<1> DEFINE R == Chars \cup Marks
           s1 == Sub("email", t)
           s2 == Sub("ssn", s1)
<1>0. t \in Seq(R) /\ Hides(t, t)
  BY TextIsHidden
<1>1. s1 \in Seq(R) /\ Hides(s1, t)
  BY <1>0, SubHides
<1>2. Upto(s1, c) = Sub("email", Upto(t, c)) /\ From(s1, c) = Sub("email", From(t, c))
  BY EmailSplits, SubSplits
<1> HIDE DEF s1
<1>3. c \in 0 .. Len(s1) /\ Splits("ssn", s1, c)
  BY <1>1, SsnSplits DEF Hides
<1>4. Upto(s2, c) = Sub("ssn", Upto(s1, c)) /\ From(s2, c) = Sub("ssn", From(s1, c))
  BY <1>1, <1>3, SubSplits
<1>5. s2 \in Seq(R) /\ Hides(s2, t)
  BY <1>1, SubHides
<1> HIDE DEF s2
<1>6. c \in 0 .. Len(s2) /\ Splits("card", s2, c)
  BY <1>5, CardSplits DEF Hides
<1>7. Upto(Sub("card", s2), c) = Sub("card", Upto(s2, c)) /\ From(Sub("card", s2), c) = Sub("card", From(s2, c))
  BY <1>5, <1>6, SubSplits
<1>8. Masked(t) = Sub("card", s2)
  BY DEF Masked, s1, s2
<1> QED
  BY <1>2, <1>4, <1>7, <1>8 DEF Masked

LEMMA RedactedType ==
  ASSUME NEW t \in Seq(Chars)
  PROVE  Redacted(t) \in Seq(Shown)
<1>1. Masked(t) \in Seq(Chars \cup Marks)
  BY MaskedHides
<1>2. Chars \cup Marks = Shown \cup {"gone"}
  BY DEF Shown, Marks
<1>3. Masked(t) \in Seq(Shown \cup {"gone"})
  BY <1>1, <1>2
<1> QED
  BY <1>3, PresentType DEF Redacted

LEMMA RedactedSplits ==
  ASSUME NEW t \in Seq(Chars), NEW c \in 0 .. Len(t), Sealed(t, c)
  PROVE  Redacted(t) = Redacted(Upto(t, c)) \o Redacted(From(t, c))
<1>1. Masked(t) \in Seq(Chars \cup Marks) /\ Len(Masked(t)) = Len(t)
  BY MaskedHides DEF Hides
<1>2. Chars \cup Marks = Shown \cup {"gone"}
  BY DEF Shown, Marks
<1>3. Masked(t) \in Seq(Shown \cup {"gone"}) /\ c \in 0 .. Len(Masked(t))
  BY <1>1, <1>2
<1>4. Present(Masked(t)) = Present(Upto(Masked(t), c)) \o Present(From(Masked(t), c))
  BY <1>3, PresentJoins
<1> QED
  BY <1>4, MaskedSplits DEF Redacted

-----------------------------------------------------------------------------
\* A trailing run is the longest of its characters that the limit allows.
LEMMA RunStartIs ==
  ASSUME NEW t, NEW end \in Nat, NEW S, NEW limit \in Nat
  PROVE  /\ RunStart(t, end, S, limit) \in 0 .. end
         /\ RunStart(t, end, S, limit) >= end - limit
         /\ All(t, RunStart(t, end, S, limit) + 1, end, S)
         /\ \A s \in 0 .. end : s >= end - limit /\ All(t, s + 1, end, S) =>
              RunStart(t, end, S, limit) <= s
<1> DEFINE low == Max({0, end - limit})
           starts == {s \in low .. end : All(t, s + 1, end, S)}
<1>1. low \in 0 .. end /\ low >= end - limit /\ (low = 0 \/ low = end - limit)
  BY MaxOfTwo
<1>2. end \in starts
  BY <1>1 DEF All
<1>3. starts \subseteq Nat /\ \A s \in starts : s \in low .. end /\ All(t, s + 1, end, S)
  BY <1>1
<1>4. \A s \in 0 .. end : s >= end - limit /\ All(t, s + 1, end, S) => s \in starts
  BY <1>1
<1> HIDE DEF low, starts
<1>5. Min(starts) \in starts /\ \A s \in starts : Min(starts) <= s
  BY <1>2, <1>3, MinOfSet
<1>6. RunStart(t, end, S, limit) = Min(starts)
  BY DEF RunStart, low, starts
<1> DEFINE w == Min(starts)
<1>7. w \in low .. end /\ All(t, w + 1, end, S)
  BY <1>3, <1>5
<1>8. \A s \in 0 .. end : s >= end - limit /\ All(t, s + 1, end, S) => w <= s
  BY <1>4, <1>5
<1>9. RunStart(t, end, S, limit) = w
  BY <1>6
<1> HIDE DEF w
<1>10. w \in 0 .. end /\ w >= end - limit
  BY <1>1, <1>7
<1> QED
  BY <1>7, <1>8, <1>9, <1>10

\* Every place of a text is in a run of S that begins somewhere.
LEMMA RunBegins ==
  ASSUME NEW t, NEW p \in Nat, NEW S
  PROVE  \E w \in 0 .. p : All(t, w + 1, p, S) /\ (w = 0 \/ t[w] \notin S)
<1> DEFINE w == RunStart(t, p, S, p)
<1>1. /\ w \in 0 .. p /\ All(t, w + 1, p, S)
      /\ \A s \in 0 .. p : s >= p - p /\ All(t, s + 1, p, S) => w <= s
  BY RunStartIs
<1> HIDE DEF w
<1>2. ASSUME w # 0, t[w] \in S
      PROVE  FALSE
  <2>1. w - 1 \in 0 .. p /\ w - 1 >= p - p
    BY <1>1, <1>2
  <2>2. All(t, (w - 1) + 1, p, S)
    <3> SUFFICES ASSUME NEW q \in (w - 1) + 1 .. p PROVE t[q] \in S
      BY DEF All
    <3>1. q = w \/ q \in w + 1 .. p
      BY <1>1
    <3> QED
      BY <1>1, <1>2, <3>1 DEF All
  <2>3. w <= w - 1
    BY <1>1, <2>1, <2>2
  <2> QED
    BY <1>1, <2>3
<1> QED
  BY <1>1, <1>2

\* A longer text that begins with t.
Extends(f, t) == Len(t) <= Len(f) /\ \A p \in 1 .. Len(t) : f[p] = t[p]

LEMMA AllExtends ==
  ASSUME NEW t, NEW f, Len(t) \in Nat, Len(f) \in Nat, Extends(f, t),
         NEW i \in Int, NEW j \in Int, i >= 1, j <= Len(t), NEW S
  PROVE  All(t, i, j, S) <=> All(f, i, j, S)
<1>1. \A p \in i .. j : p \in 1 .. Len(t)
  OBVIOUS
<1> QED
  BY <1>1 DEF All, Extends

\* The digits of a stretch are no more than those of a longer one.
LEMMA SizeGrows ==
  ASSUME NEW t, NEW i \in Int, NEW j \in Int, NEW k \in Int, NEW l \in Int, k <= i, j <= l, NEW S
  PROVE  Size(t, i, j, S) \in Nat /\ Size(t, k, l, S) \in Nat /\ Size(t, i, j, S) <= Size(t, k, l, S)
<1> DEFINE A == {p \in i .. j : t[p] \in S}
           B == {p \in k .. l : t[p] \in S}
<1>1. IsFiniteSet(k .. l)
  BY FS_Interval
<1>2. B \subseteq k .. l /\ A \subseteq B
  OBVIOUS
<1> HIDE DEF A, B
<1>3. IsFiniteSet(B)
  BY <1>1, <1>2, FS_Subset
<1>4. IsFiniteSet(A) /\ Cardinality(A) <= Cardinality(B)
  BY <1>2, <1>3, FS_Subset
<1>5. Cardinality(A) \in Nat /\ Cardinality(B) \in Nat
  BY <1>3, <1>4, FS_CardinalityType
<1> QED
  BY <1>4, <1>5 DEF Size, A, B

\* A separator comes before a digit of its own, so a number is less than twice
\* as long as it has digits.
LEMMA NumberLength ==
  ASSUME NEW t, NEW i \in Int, NEW j \in Int, i <= j, Number(t, i, j), ~Doubled(t, i, j)
  PROVE  Size(t, i, j, {"digit"}) \in Nat /\ j - i + 1 <= 2 * Size(t, i, j, {"digit"}) - 1
<1> DEFINE D == {p \in i .. j : t[p] \in {"digit"}}
           N == {p \in i .. j : t[p] # "digit"}
           f == [p \in N |-> p + 1]
<1>1. IsFiniteSet(i .. j) /\ Cardinality(i .. j) = j - i + 1
  BY FS_Interval
<1>2. IsFiniteSet(D) /\ IsFiniteSet(N)
  BY <1>1, FS_Subset
<1>3. f \in Injection(N, D \ {i})
  <2>1. ASSUME NEW p \in N
        PROVE  p + 1 \in D \ {i}
    <3>1. p \in i .. j - 1 /\ p + 1 \in i .. j
      BY <2>1 DEF Number
    <3>2. t[p] \in Separators
      BY <3>1 DEF Number, All, CardChars
    <3>3. t[p + 1] \notin Separators
      BY <3>1, <3>2 DEF Doubled
    <3>4. t[p + 1] = "digit"
      BY <3>1, <3>3 DEF Number, All, CardChars
    <3> QED
      BY <3>1, <3>4
  <2>2. \A p, q \in N : p + 1 = q + 1 => p = q
    OBVIOUS
  <2>3. f \in [N -> D \ {i}] /\ \A p, q \in N : f[p] = f[q] => p = q
    BY <2>1, <2>2
  <2> HIDE DEF D, N, f
  <2> QED
    BY <2>3 DEF Injection, IsInjective
<1>4. i \in D /\ D \cup N = i .. j /\ D \cap N = {}
  BY DEF Number
<1> HIDE DEF D, N, f
<1>5. IsFiniteSet(D \ {i}) /\ Cardinality(D \ {i}) = Cardinality(D) - 1
  BY <1>2, <1>4, FS_RemoveElement
<1>6. Cardinality(N) <= Cardinality(D \ {i})
  BY <1>3, <1>5, FS_Injection
<1>7. Cardinality(i .. j) = Cardinality(D) + Cardinality(N) - Cardinality({})
  BY <1>2, <1>4, FS_Union
<1>8. Cardinality({}) = 0
  BY FS_EmptySet
<1>9. Cardinality(D) \in Nat /\ Cardinality(N) \in Nat
  BY <1>2, FS_CardinalityType
<1>10. j - i + 1 <= 2 * Cardinality(D) - 1
  BY <1>1, <1>5, <1>6, <1>7, <1>8, <1>9
<1> QED
  BY <1>9, <1>10 DEF Size, D

-----------------------------------------------------------------------------
\* Two numbers that meet are one.
LEMMA NumbersMeet ==
  ASSUME NEW t, NEW i \in Int, NEW j \in Int, NEW a \in Int, NEW b \in Int,
         Number(t, i, j), Number(t, a, b), a <= j, i <= b,
         NEW l \in {i, a}, NEW h \in {j, b}, l <= i, l <= a, j <= h, b <= h
  PROVE  Number(t, l, h)
<1>1. ASSUME NEW p \in l .. h
      PROVE  t[p] \in CardChars
  <2>1. p \in i .. j \/ p \in a .. b
    OBVIOUS
  <2> QED
    BY <2>1 DEF Number, All
<1> QED
  BY <1>1 DEF Number, All

\* A number that is part of no other.
WholeNumber(t, i, j) ==
  /\ i \in 1 .. Len(t) /\ j \in i .. Len(t) /\ Number(t, i, j)
  /\ \A a \in 1 .. i, b \in j .. Len(t) : Number(t, a, b) => a = i /\ b = j

LEMMA NumberIsInWhole ==
  ASSUME NEW t, Len(t) \in Nat, NEW i \in 1 .. Len(t), NEW j \in i .. Len(t), Number(t, i, j)
  PROVE  \E I \in 1 .. i, J \in j .. Len(t) : WholeNumber(t, I, J)
<1> DEFINE n == Len(t)
           A == {a \in 1 .. i : Number(t, a, j)}
           I == Min(A)
           B == {b \in j .. n : Number(t, I, b)}
           J == Max(B)
<1>1. I \in A /\ \A a \in A : I <= a
  <2>1. A \subseteq Nat /\ i \in A
    OBVIOUS
  <2> HIDE DEF A
  <2> QED
    BY <2>1, MinOfSet
<1>2. I \in 1 .. i /\ Number(t, I, j) /\ \A a \in 1 .. i : Number(t, a, j) => I <= a
  BY <1>1
<1> HIDE DEF A, I
<1>3. J \in B /\ \A b \in B : J >= b
  <2>1. B \subseteq 0 .. n /\ j \in B /\ n \in Nat
    BY <1>2
  <2> HIDE DEF B
  <2> QED
    BY <2>1, MaxOfSet
<1>4. J \in j .. n /\ Number(t, I, J) /\ \A b \in j .. n : Number(t, I, b) => b <= J
  BY <1>3
<1> HIDE DEF B, J
<1>5. ASSUME NEW a \in 1 .. I, NEW b \in J .. n, Number(t, a, b)
      PROVE  a = I /\ b = J
  <2>1. Number(t, a, j)
    <3>1. All(t, a, j, CardChars)
      BY <1>2, <1>4, <1>5 DEF Number, All
    <3> QED
      BY <1>5, <3>1 DEF Number
  <2>2. a = I
    BY <1>2, <2>1
  <2> QED
    BY <1>2, <1>4, <1>5, <2>2
<1>6. WholeNumber(t, I, J)
  BY <1>2, <1>4, <1>5 DEF WholeNumber
<1> QED
  BY <1>2, <1>4, <1>6

LEMMA WholeContains ==
  ASSUME NEW t, Len(t) \in Nat, NEW I, NEW J, WholeNumber(t, I, J),
         NEW a \in 1 .. Len(t), NEW b \in a .. Len(t), Number(t, a, b), a <= J, I <= b
  PROVE  I <= a /\ b <= J
<1>0. I \in 1 .. Len(t) /\ J \in I .. Len(t) /\ Number(t, I, J)
  BY DEF WholeNumber
<1> DEFINE l == IF I <= a THEN I ELSE a
           h == IF b <= J THEN J ELSE b
<1>1. l \in {I, a} /\ l <= I /\ l <= a /\ h \in {J, b} /\ J <= h /\ b <= h /\ l \in 1 .. I /\ h \in J .. Len(t)
  BY <1>0
<1> HIDE DEF l, h
<1>2. Number(t, l, h)
  BY <1>0, <1>1, NumbersMeet
<1>3. l = I /\ h = J
  BY <1>1, <1>2 DEF WholeNumber
<1> QED
  BY <1>1, <1>3

\* What is beside a whole number.
LEMMA WholeEnds ==
  ASSUME NEW t, Len(t) \in Nat, NEW I, NEW J, WholeNumber(t, I, J)
  PROVE  /\ I > 1 => t[I - 1] # "digit"
         /\ J < Len(t) => t[J + 1] # "digit"
         /\ J + 2 <= Len(t) /\ t[J + 1] \in CardChars => t[J + 2] # "digit"
         /\ \A a \in 1 .. I - 1 : All(t, a, I - 1, CardChars) => t[a] # "digit"
<1>0. I \in 1 .. Len(t) /\ J \in I .. Len(t) /\ Number(t, I, J)
  BY DEF WholeNumber
<1>1. \A a \in 1 .. I, b \in J .. Len(t) : Number(t, a, b) => a = I /\ b = J
  BY DEF WholeNumber
<1>2. ASSUME NEW a \in 1 .. I - 1, All(t, a, I - 1, CardChars), t[a] = "digit"
      PROVE  FALSE
  <2>1. All(t, a, J, CardChars)
    <3> SUFFICES ASSUME NEW p \in a .. J PROVE t[p] \in CardChars
      BY DEF All
    <3>1. p \in a .. I - 1 \/ p \in I .. J
      BY <1>0
    <3> QED
      BY <1>0, <1>2, <3>1 DEF Number, All
  <2>2. Number(t, a, J)
    BY <1>0, <1>2, <2>1 DEF Number
  <2> QED
    BY <1>0, <1>1, <2>2
<1>3. ASSUME I > 1, t[I - 1] = "digit"
      PROVE  FALSE
  <2>1. I - 1 \in 1 .. I - 1 /\ All(t, I - 1, I - 1, CardChars)
    BY <1>0, <1>3 DEF All, CardChars
  <2> QED
    BY <1>2, <1>3, <2>1
<1>4. ASSUME NEW b \in J + 1 .. Len(t), All(t, J + 1, b, CardChars), t[b] = "digit"
      PROVE  FALSE
  <2>1. All(t, I, b, CardChars)
    <3> SUFFICES ASSUME NEW p \in I .. b PROVE t[p] \in CardChars
      BY DEF All
    <3>1. p \in I .. J \/ p \in J + 1 .. b
      BY <1>0
    <3> QED
      BY <1>0, <1>4, <3>1 DEF Number, All
  <2>2. Number(t, I, b)
    BY <1>0, <1>4, <2>1 DEF Number
  <2> QED
    BY <1>0, <1>1, <1>4, <2>2
<1>5. ASSUME J < Len(t), t[J + 1] = "digit"
      PROVE  FALSE
  <2>1. J + 1 \in J + 1 .. Len(t) /\ All(t, J + 1, J + 1, CardChars)
    BY <1>0, <1>5 DEF All, CardChars
  <2> QED
    BY <1>4, <1>5, <2>1
<1>6. ASSUME J + 2 <= Len(t), t[J + 1] \in CardChars, t[J + 2] = "digit"
      PROVE  FALSE
  <2>1. J + 2 \in J + 1 .. Len(t) /\ \A p \in J + 1 .. J + 2 : p = J + 1 \/ p = J + 2
    BY <1>0, <1>6
  <2>2. All(t, J + 1, J + 2, CardChars)
    BY <1>6, <2>1 DEF All, CardChars
  <2> QED
    BY <1>4, <1>6, <2>1, <2>2
<1> QED
  BY <1>2, <1>3, <1>5, <1>6

-----------------------------------------------------------------------------
LEMMA OneAtInWord ==
  ASSUME NEW f, Len(f) \in Nat, Separable(f), NEW i \in Int, NEW j \in Int, i >= 1, j <= Len(f),
         All(f, i, j, CandidateChars), NEW a \in i .. j, NEW b \in i .. j, f[a] = "at", f[b] = "at"
  PROVE  a = b
<1>1. ASSUME NEW k \in i .. j, NEW l \in i .. j, k <= l, f[k] = "at", f[l] = "at"
      PROVE  k = l
  <2>1. k \in 1 .. Len(f) /\ l \in 1 .. Len(f)
    OBVIOUS
  <2>2. All(f, k, l, CandidateChars)
    BY DEF All
  <2> QED
    BY <1>1, <2>1, <2>2 DEF Separable
<1> QED
  BY <1>1

\* The local part that begins a word is no longer than an address allows.
LEMMA WordBeginFits ==
  ASSUME NEW f, Len(f) \in Nat, Separable(f), NEW w \in Nat, w = 0 \/ f[w] \notin CandidateChars,
         NEW tail \in w .. Len(f), All(f, w + 1, tail, LocalChars)
  PROVE  tail - w <= LocalMax
<1>0. LocalMax \in Nat
  BY PatternAssumption
<1>1. CASE w = tail
  BY <1>0, <1>1
<1>2. CASE w < tail
  <2>1. w + 1 \in 1 .. Len(f) /\ tail \in 1 .. Len(f) /\ w + 1 <= tail
    BY <1>2
  <2>2. ~InDomain(f, w + 1, tail)
    <3> SUFFICES ASSUME NEW at \in 2 .. w, f[at] = "at", All(f, at + 1, tail, DomainChars)
                 PROVE  FALSE
      BY DEF InDomain
    <3>1. w # 0 /\ (w = at \/ w \in at + 1 .. tail)
      OBVIOUS
    <3> QED
      BY <3>1 DEF All, CandidateChars, LocalChars
  <2>3. tail - (w + 1) < LocalMax
    BY <2>1, <2>2 DEF Separable
  <2> QED
    BY <1>0, <2>3
<1> QED
  BY <1>1, <1>2

\* The trailing word of a text that goes on separably is held back from its
\* begin: unless its "@" is first in it or what follows that is no domain.
LEMMA EmailCandidateIs ==
  ASSUME NEW t, NEW f, Len(t) \in Nat, Len(f) \in Nat, Extends(f, t), Separable(f),
         NEW w \in 0 .. Len(t), All(t, w + 1, Len(t), CandidateChars), w = 0 \/ t[w] \notin CandidateChars
  PROVE  /\ EmailCandidate(t) \subseteq {w} /\ (w = Len(t) => EmailCandidate(t) = {})
         /\ w < Len(t) /\ (\A p \in w + 1 .. Len(t) : t[p] # "at") => EmailCandidate(t) = {w}
         /\ \A a \in w + 2 .. Len(t) :
              t[a] = "at" /\ All(t, a + 1, Len(t), DomainChars) => EmailCandidate(t) = {w}
<1> DEFINE end == Len(t)
           run == RunStart(t, end, CandidateChars, EmailSpan)
           ats == {p \in run + 1 .. end : t[p] = "at"}
           tail == IF ats = {} THEN end ELSE Max(ats) - 1
           local == RunStart(t, tail, LocalChars, LocalMax)
           start == Max({run, local})
<1>0. EmailSpan \in Nat /\ LocalMax \in Nat /\ end \in Nat /\ w \in 0 .. end /\ end <= Len(f)
  BY PatternAssumption DEF Extends
<1>1. All(f, w + 1, end, CandidateChars)
  BY <1>0, AllExtends
<1>2. w = 0 \/ f[w] \notin CandidateChars
  BY <1>0 DEF Extends
<1>3. run = w
  <2>1. w >= end - EmailSpan
    <3>1. CASE w = end
      BY <1>0, <3>1
    <3>2. CASE w < end
      <4>1. w + 1 \in 1 .. Len(f) /\ end \in 1 .. Len(f) /\ w + 1 <= end
        BY <1>0, <3>2
      <4>2. end - (w + 1) < EmailSpan
        BY <1>1, <4>1 DEF Separable
      <4> QED
        BY <1>0, <4>2
    <3> QED
      BY <1>0, <3>1, <3>2
  <2>2. /\ run \in 0 .. end /\ All(t, run + 1, end, CandidateChars)
        /\ \A s \in 0 .. end : s >= end - EmailSpan /\ All(t, s + 1, end, CandidateChars) => run <= s
    BY <1>0, RunStartIs
  <2> HIDE DEF run
  <2>3. run <= w
    BY <1>0, <2>1, <2>2
  <2>4. ASSUME run < w
        PROVE  FALSE
    <3>1. w \in run + 1 .. end /\ w # 0
      BY <1>0, <2>2, <2>4
    <3> QED
      BY <2>2, <3>1 DEF All
  <2> QED
    BY <1>0, <2>2, <2>3, <2>4
<1> HIDE DEF run
<1>4. ats = {p \in w + 1 .. end : t[p] = "at"}
  BY <1>3
<1> HIDE DEF ats
<1>5. \A a, b \in ats : a = b
  <2> TAKE a, b \in ats
  <2>1. a \in w + 1 .. end /\ b \in w + 1 .. end /\ f[a] = "at" /\ f[b] = "at"
    BY <1>0, <1>4 DEF Extends
  <2> QED
    BY <1>0, <1>1, <2>1, OneAtInWord
<1>6. ats # {} => Max(ats) \in ats
  <2>1. ats \subseteq 0 .. end
    BY <1>0, <1>4
  <2> QED
    BY <1>0, <2>1, MaxOfSet
<1>7. tail \in w .. end
  BY <1>0, <1>4, <1>6
<1>8. All(t, w + 1, tail, LocalChars)
  <2> SUFFICES ASSUME NEW p \in w + 1 .. tail PROVE t[p] \in LocalChars
    BY DEF All
  <2>1. t[p] \in CandidateChars /\ p \in w + 1 .. end
    BY <1>0, <1>7 DEF All
  <2>2. t[p] # "at"
    <3> SUFFICES ASSUME t[p] = "at" PROVE FALSE
      OBVIOUS
    <3>1. p \in ats
      BY <1>4, <2>1
    <3>2. p = Max(ats) /\ tail = Max(ats) - 1
      BY <1>5, <1>6, <3>1
    <3> QED
      BY <1>0, <1>7, <3>2
  <2> QED
    BY <2>1, <2>2 DEF CandidateChars
<1> HIDE DEF tail
<1>9. start = w
  <2>1. All(f, w + 1, tail, LocalChars)
    BY <1>0, <1>7, <1>8, AllExtends
  <2>2. tail - w <= LocalMax
    BY <1>0, <1>2, <1>7, <2>1, WordBeginFits
  <2>3. local \in 0 .. tail /\ \A s \in 0 .. tail : s >= tail - LocalMax /\ All(t, s + 1, tail, LocalChars) => local <= s
    BY <1>0, <1>7, RunStartIs
  <2> HIDE DEF local
  <2>4. local <= w
    BY <1>0, <1>7, <1>8, <2>2, <2>3
  <2>5. Max({w, local}) = w
    BY <1>0, <1>7, <2>3, <2>4, MaxOfTwo
  <2> QED
    BY <1>3, <2>5
<1>10. EmailCandidate(t) = IF w < tail /\ All(t, tail + 2, end, DomainChars) THEN {w} ELSE {}
  <2>1. EmailCandidate(t) = IF start < tail /\ All(t, tail + 2, end, DomainChars) THEN {start} ELSE {}
    BY DEF EmailCandidate, start, local, tail, ats, run
  <2> QED
    BY <1>9, <2>1
<1>11. w = end => ~(w < tail)
  BY <1>0, <1>7
<1>12. ASSUME w < end, \A p \in w + 1 .. end : t[p] # "at"
       PROVE  EmailCandidate(t) = {w}
  <2>1. ats = {}
    BY <1>4, <1>12
  <2>2. tail = end
    BY <2>1 DEF tail
  <2>3. All(t, tail + 2, end, DomainChars)
    BY <1>0, <2>2 DEF All
  <2> QED
    BY <1>10, <1>12, <2>2, <2>3
<1>13. ASSUME NEW a \in w + 2 .. end, t[a] = "at", All(t, a + 1, end, DomainChars)
       PROVE  EmailCandidate(t) = {w}
  <2>1. a \in ats
    BY <1>0, <1>4, <1>13
  <2>2. tail = a - 1
    BY <1>5, <1>6, <2>1 DEF tail
  <2>3. tail + 2 = a + 1 /\ w < tail
    BY <1>0, <2>2
  <2> QED
    BY <1>10, <1>13, <2>3
<1> QED
  BY <1>10, <1>11, <1>12, <1>13

LEMMA SsnCandidateIs ==
  ASSUME NEW S, NEW t \in Seq(S), NEW e \in SsnCandidate(t)
  PROVE  /\ e \in 0 .. Len(t) - 1
         /\ All(t, e + 1, Len(t), {"digit", "hyphen"})
         /\ t[e + 1] = "digit"
         /\ \A p \in e + 1 .. Len(t) - 1 : "digit" \in {t[p], t[p + 1]}
<1> DEFINE n == Len(t)
           l == Len(SsnMask)
           least == Min({l, n})
<1>0. n \in Nat /\ l \in Nat /\ SsnMask \in Seq({"digit", "hyphen"})
  BY PatternAssumption
<1>1. PICK m \in 1 .. least : e = n - m /\ SubSeq(t, n - m + 1, n) = SubSeq(SsnMask, 1, m)
  BY DEF SsnCandidate
<1>2. least \in {l, n} /\ least <= l /\ least <= n
  <2>1. {l, n} \subseteq Nat /\ {l, n} # {}
    BY <1>0
  <2> HIDE DEF l, n
  <2> QED
    BY <2>1, MinOfSet
<1> HIDE DEF least
<1>3. m \in Nat /\ m >= 1 /\ m <= l /\ m <= n /\ e + 1 = n - m + 1 /\ e \in 0 .. n - 1
  BY <1>0, <1>1, <1>2
<1>4. e + 1 \in 1 .. n /\ n \in e + 1 .. n /\ 1 \in 1 .. l /\ m \in 1 .. l
  BY <1>0, <1>3
<1>5. \A p \in e + 1 .. n : SubSeq(t, e + 1, n)[p - (e + 1) + 1] = t[p]
  BY <1>4, SubSeqIs
<1>6. \A p \in 1 .. m : SubSeq(SsnMask, 1, m)[p - 1 + 1] = SsnMask[p]
  BY <1>0, <1>4, SubSeqIs
<1>7. SubSeq(t, e + 1, n) = SubSeq(SsnMask, 1, m)
  BY <1>1, <1>3
<1>8. \A p \in e + 1 .. n : p - e \in 1 .. m /\ p - (e + 1) + 1 = (p - e) - 1 + 1
  BY <1>0, <1>3
<1>9. \A p \in e + 1 .. n : t[p] = SsnMask[p - e]
  <2> TAKE p \in e + 1 .. n
  <2>1. SubSeq(SsnMask, 1, m)[(p - e) - 1 + 1] = SsnMask[p - e]
    BY <1>6, <1>8
  <2> QED
    BY <1>5, <1>7, <1>8, <2>1
<1>10. \A p \in 1 .. l : SsnMask[p] \in {"digit", "hyphen"}
  BY <1>0
<1>11. All(t, e + 1, n, {"digit", "hyphen"})
  BY <1>3, <1>8, <1>9, <1>10 DEF All
<1>12. t[e + 1] = "digit"
  <2>1. e + 1 \in e + 1 .. n /\ (e + 1) - e = 1
    BY <1>0, <1>3
  <2> QED
    BY <1>9, <2>1, MaskAssumption
<1>13. ASSUME NEW p \in e + 1 .. n - 1
       PROVE  "digit" \in {t[p], t[p + 1]}
  <2>1. p \in e + 1 .. n /\ p + 1 \in e + 1 .. n /\ (p + 1) - e = (p - e) + 1 /\ p - e \in 1 .. l - 1
    BY <1>0, <1>3
  <2>2. t[p] = SsnMask[p - e] /\ t[p + 1] = SsnMask[(p - e) + 1]
    BY <1>9, <2>1
  <2>3. "digit" \in {SsnMask[p - e], SsnMask[(p - e) + 1]}
    BY <2>1, MaskAssumption
  <2> QED
    BY <2>2, <2>3
<1> QED
  BY <1>3, <1>11, <1>12, <1>13

LEMMA CardCandidateIs ==
  ASSUME NEW t, Len(t) \in Nat, NEW e \in CardCandidate(t)
  PROVE  /\ e \in 0 .. Len(t) - 1
         /\ All(t, e + 1, Len(t), CardChars)
         /\ t[e + 1] = "digit"
         /\ ~Doubled(t, e + 1, Len(t))
<1> DEFINE end == Len(t)
           run == RunStart(t, end, CardChars, CardSpan)
           digits == {p \in run + 1 .. end : t[p] = "digit"}
<1>1. CardSpan \in Nat
  BY PatternAssumption DEF CardSpan
<1>2. run \in 0 .. end /\ All(t, run + 1, end, CardChars)
  BY <1>1, RunStartIs
<1>3. Cardinality(digits) \in 1 .. CardMax /\ ~Doubled(t, Min(digits), end) /\ e = Min(digits) - 1
  BY DEF CardCandidate
<1>4. digits # {}
  <2>1. Cardinality(digits) # 0
    BY <1>3
  <2> QED
    BY <2>1, FS_EmptySet, Zenon
<1>5. Min(digits) \in digits
  <2>1. digits \subseteq Nat
    BY <1>2
  <2> QED
    BY <1>4, <2>1, MinOfSet
<1> DEFINE d == Min(digits)
<1>6. d \in run + 1 .. end /\ t[d] = "digit" /\ e = d - 1 /\ ~Doubled(t, d, end)
  BY <1>3, <1>5
<1> HIDE DEF d, run
<1>7. e + 1 = d /\ e \in 0 .. end - 1
  BY <1>2, <1>6
<1>8. All(t, d, end, CardChars)
  BY <1>2, <1>6 DEF All
<1> QED
  BY <1>6, <1>7, <1>8

\* A number that the text breaks off in is held back from its begin.
LEMMA CardCandidateFound ==
  ASSUME NEW t, NEW f, Len(t) \in Nat, Len(f) \in Nat, Extends(f, t), Separable(f),
         NEW I, NEW J, WholeNumber(f, I, J), I <= Len(t),
         \/ J >= Len(t)
         \/ J + 1 = Len(t) /\ t[J + 1] \in Separators /\ Size(f, I, J, {"digit"}) < CardMax
  PROVE  CardCandidate(t) = {I - 1}
<1> DEFINE end == Len(t)
           run == RunStart(t, end, CardChars, CardSpan)
           digits == {p \in run + 1 .. end : t[p] = "digit"}
           size == Size(f, I, J, {"digit"})
<1>0. /\ end \in Nat /\ end <= Len(f) /\ CardMax \in Nat /\ CardMax >= 1 /\ CardSpan = 2 * CardMax - 1 /\ CardSpan \in Nat
      /\ I \in 1 .. end /\ J \in I .. Len(f) /\ I \in Int /\ J \in Int /\ I <= J /\ end <= J + 1
  BY PatternAssumption DEF Extends, WholeNumber, CardSpan
<1>1. Number(f, I, J) /\ size <= CardMax /\ ~Doubled(f, I, J)
  <2>1. Number(f, I, J) /\ I \in 1 .. Len(f) /\ J \in 1 .. Len(f) /\ I <= J
    BY <1>0 DEF WholeNumber
  <2> QED
    BY <2>1 DEF Separable
<1>2. size \in Nat /\ J - I + 1 <= 2 * size - 1
  BY <1>0, <1>1, NumberLength
<1>3. J >= end \/ (J + 1 = end /\ t[J + 1] \in Separators /\ size < CardMax)
  OBVIOUS
<1>4. \A p \in 1 .. end : t[p] = f[p]
  BY DEF Extends
<1>40. t[I] = "digit" /\ (J < end => t[J] = "digit")
  BY <1>0, <1>1, <1>4 DEF Number
<1>5. All(t, I, end, CardChars)
  <2> SUFFICES ASSUME NEW p \in I .. end PROVE t[p] \in CardChars
    BY DEF All
  <2>1. CASE p \in I .. J
    BY <1>0, <1>1, <1>4, <2>1 DEF Number, All
  <2>2. CASE p = J + 1
    BY <1>0, <1>3, <2>2 DEF CardChars
  <2> QED
    BY <1>0, <2>1, <2>2
<1>6. ~Doubled(t, I, end)
  <2> SUFFICES ASSUME NEW p \in I .. end - 1, {t[p], t[p + 1]} \subseteq Separators PROVE FALSE
    BY DEF Doubled
  <2>1. p \in 1 .. end /\ p + 1 \in 1 .. end
    BY <1>0
  <2>2. CASE p \in I .. J - 1
    <3>1. {f[p], f[p + 1]} \subseteq Separators
      BY <1>4, <2>1
    <3> QED
      BY <1>1, <2>2, <3>1 DEF Doubled
  <2>3. CASE p = J
    BY <1>0, <1>40, <2>3 DEF Separators
  <2> QED
    BY <1>0, <2>2, <2>3
<1>7. I - 1 >= end - CardSpan
  <2>1. CASE J >= end
    BY <1>0, <1>1, <1>2, <2>1
  <2>2. CASE J + 1 = end /\ size < CardMax
    BY <1>0, <1>2, <2>2
  <2> QED
    BY <1>3, <2>1, <2>2
<1>8. /\ run \in 0 .. end /\ All(t, run + 1, end, CardChars)
      /\ \A s \in 0 .. end : s >= end - CardSpan /\ All(t, s + 1, end, CardChars) => run <= s
  BY <1>0, RunStartIs
<1> HIDE DEF run, size
<1>9. run <= I - 1
  <2>1. I - 1 \in 0 .. end /\ (I - 1) + 1 = I
    BY <1>0
  <2> QED
    BY <1>5, <1>7, <1>8, <2>1
<1>10. I \in digits
  BY <1>0, <1>8, <1>9, <1>40
<1>11. ASSUME NEW d \in digits
       PROVE  I <= d
  <2> SUFFICES ASSUME d < I PROVE FALSE
    BY <1>0, <1>8
  <2>1. d \in 1 .. I - 1 /\ f[d] = "digit"
    BY <1>0, <1>4, <1>8
  <2>2. All(f, d, I - 1, CardChars)
    <3> SUFFICES ASSUME NEW p \in d .. I - 1 PROVE f[p] \in CardChars
      BY DEF All
    <3>1. p \in run + 1 .. end /\ p \in 1 .. end
      BY <1>0, <1>8
    <3> QED
      BY <1>4, <1>8, <3>1 DEF All
  <2> QED
    BY <2>1, <2>2, WholeEnds
<1>12. digits \subseteq {p \in I .. J : f[p] \in {"digit"}}
  <2> SUFFICES ASSUME NEW d \in digits PROVE d \in I .. J /\ f[d] = "digit"
    OBVIOUS
  <2>1. d \in I .. end /\ d \in 1 .. end /\ t[d] = "digit"
    BY <1>0, <1>8, <1>11
  <2>2. d # J + 1
    BY <1>0, <1>3, <2>1 DEF Separators
  <2> QED
    BY <1>0, <1>4, <2>1, <2>2
<1>13. Min(digits) = I
  <2>1. digits \subseteq Nat
    BY <1>8
  <2>2. Min(digits) \in digits /\ \A d \in digits : Min(digits) <= d
    BY <1>10, <2>1, MinOfSet
  <2>3. I <= Min(digits) /\ Min(digits) <= I /\ Min(digits) \in Nat
    BY <1>10, <1>11, <2>1, <2>2
  <2> QED
    BY <1>0, <2>3
<1>14. Cardinality(digits) \in 1 .. CardMax
  <2> DEFINE whole == {p \in I .. J : f[p] \in {"digit"}}
  <2>1. IsFiniteSet(whole)
    <3>1. IsFiniteSet(I .. J)
      BY <1>0, FS_Interval
    <3> QED
      BY <3>1, FS_Subset
  <2>2. Cardinality(whole) = size
    BY DEF Size, size
  <2>3. digits \subseteq whole /\ digits # {}
    BY <1>10, <1>12
  <2> HIDE DEF whole, digits
  <2>4. IsFiniteSet(digits) /\ Cardinality(digits) <= Cardinality(whole)
    BY <2>1, <2>3, FS_Subset
  <2>5. Cardinality(digits) # 0 /\ Cardinality(digits) \in Nat
    BY <2>3, <2>4, FS_EmptySet, FS_CardinalityType
  <2> QED
    BY <1>0, <1>1, <1>2, <2>2, <2>4, <2>5
<1> QED
  BY <1>6, <1>13, <1>14 DEF CardCandidate, run, digits

-----------------------------------------------------------------------------
\* Two runs of S that meet or touch are one.
LEMMA RunsMeet ==
  ASSUME NEW t, NEW i \in Int, NEW j \in Int, NEW a \in Int, NEW b \in Int, NEW S,
         All(t, i, j, S), All(t, a, b, S), a <= j + 1, i <= b + 1,
         NEW l \in {i, a}, NEW h \in {j, b}
  PROVE  All(t, l, h, S)
<1> SUFFICES ASSUME NEW p \in l .. h PROVE t[p] \in S
  BY DEF All
<1>1. p \in i .. j \/ p \in a .. b
  OBVIOUS
<1> QED
  BY <1>1 DEF All

\* An address is a stretch of a word around an "@".
LEMMA AddressIs ==
  ASSUME NEW t, NEW i \in Int, NEW j \in Int, Address(t, i, j)
  PROVE  /\ All(t, i, j, CandidateChars)
         /\ \E at \in i + 1 .. j - 1 :
              /\ t[at] = "at" /\ at - i <= LocalMax
              /\ All(t, i, at - 1, LocalChars)
              /\ All(t, at + 1, j, DomainChars) /\ DomainName(t, at + 1, j)
<1>1. PICK at \in i + 1 .. j - 1 :
        /\ t[at] = "at" /\ at - i <= LocalMax
        /\ All(t, i, at - 1, LocalChars) /\ DomainName(t, at + 1, j)
  BY DEF Address
<1>2. All(t, at + 1, j, DomainChars)
  BY <1>1 DEF DomainName
<1>3. All(t, i, j, CandidateChars)
  <2> SUFFICES ASSUME NEW p \in i .. j PROVE t[p] \in CandidateChars
    BY DEF All
  <2>1. p \in i .. at - 1 \/ p = at \/ p \in at + 1 .. j
    OBVIOUS
  <2> QED
    BY <1>1, <1>2, <2>1 DEF All, CandidateChars, LocalChars
<1> QED
  BY <1>1, <1>2, <1>3

\* Two addresses that meet are one.
LEMMA EmailsMeet ==
  ASSUME NEW t, NEW f, Len(t) \in Nat, Len(f) \in Nat, Extends(f, t), Separable(f),
         NEW i \in 1 .. Len(t), NEW j \in i .. Len(t), NEW a \in 1 .. Len(t), NEW b \in a .. Len(t),
         Email(t, i, j), Email(t, a, b), a <= j, i <= b
  PROVE  i = a /\ j = b
<1>0. Len(t) <= Len(f)
  BY DEF Extends
<1>1. /\ Address(t, i, j) /\ ~Preceded(t, i, LocalChars) /\ ~Followed(t, j, DomainChars)
      /\ Address(t, a, b) /\ ~Preceded(t, a, LocalChars) /\ ~Followed(t, b, DomainChars)
  BY EmailIsBegun DEF Begun
<1>2. PICK p \in i + 1 .. j - 1 :
        t[p] = "at" /\ All(t, i, p - 1, LocalChars) /\ All(t, p + 1, j, DomainChars)
  BY <1>1, AddressIs
<1>3. PICK q \in a + 1 .. b - 1 :
        t[q] = "at" /\ All(t, a, q - 1, LocalChars) /\ All(t, q + 1, b, DomainChars)
  BY <1>1, AddressIs
<1>4. All(t, i, j, CandidateChars) /\ All(t, a, b, CandidateChars)
  BY <1>1, AddressIs
<1>5. p = q
  <2> DEFINE l == IF i <= a THEN i ELSE a
             h == IF b <= j THEN j ELSE b
  <2>1. /\ l \in {i, a} /\ h \in {j, b} /\ a <= j + 1 /\ i <= b + 1 /\ l \in 1 .. Len(t) /\ h \in 1 .. Len(t)
        /\ p \in l .. h /\ q \in l .. h
    OBVIOUS
  <2> HIDE DEF l, h
  <2>2. All(t, l, h, CandidateChars)
    BY <1>4, <2>1, RunsMeet
  <2>3. All(f, l, h, CandidateChars) /\ l >= 1 /\ h <= Len(f) /\ l \in Int /\ h \in Int
    BY <1>0, <2>1, <2>2, AllExtends
  <2>4. f[p] = "at" /\ f[q] = "at"
    <3>1. p \in 1 .. Len(t) /\ q \in 1 .. Len(t)
      OBVIOUS
    <3> QED
      BY <1>2, <1>3, <3>1 DEF Extends
  <2> QED
    BY <2>1, <2>3, <2>4, OneAtInWord
<1>6. ~(i < a)
  <2> SUFFICES ASSUME i < a PROVE FALSE
    OBVIOUS
  <2>1. a > 1 /\ a - 1 \in i .. p - 1
    BY <1>2, <1>3, <1>5
  <2> QED
    BY <1>1, <1>2, <2>1 DEF Preceded, All
<1>7. ~(a < i)
  <2> SUFFICES ASSUME a < i PROVE FALSE
    OBVIOUS
  <2>1. i > 1 /\ i - 1 \in a .. q - 1
    BY <1>2, <1>3, <1>5
  <2> QED
    BY <1>1, <1>3, <2>1 DEF Preceded, All
<1>8. ~(j < b)
  <2> SUFFICES ASSUME j < b PROVE FALSE
    OBVIOUS
  <2>1. j < Len(t) /\ j + 1 \in q + 1 .. b
    BY <1>2, <1>3, <1>5
  <2> QED
    BY <1>1, <1>3, <2>1 DEF Followed, All
<1>9. ~(b < j)
  <2> SUFFICES ASSUME b < j PROVE FALSE
    OBVIOUS
  <2>1. b < Len(t) /\ b + 1 \in p + 1 .. j
    BY <1>2, <1>3, <1>5
  <2> QED
    BY <1>1, <1>2, <2>1 DEF Followed, All
<1> QED
  BY <1>6, <1>7, <1>8, <1>9

\* So every address of a text that goes on separably is found.
LEMMA EmailFound ==
  ASSUME NEW t, NEW f, Len(t) \in Nat, Len(f) \in Nat, Extends(f, t), Separable(f),
         NEW i \in 1 .. Len(t), NEW j \in i .. Len(t), Email(t, i, j)
  PROVE  \E m \in Finditer("email", t) : m[1] = i /\ m[2] = j
<1>1. \A k, l : Matches("email", t, k, l) <=> Email(t, k, l)
  BY DEF Matches
<1>2. PICK m \in Finditer("email", t) : m[1] <= i /\ i <= m[2]
  BY <1>1, FinditerComplete
<1>3. m \in Spans(t) /\ Matches("email", t, m[1], m[2])
  BY FinditerSound
<1> DEFINE a == m[1]
           b == m[2]
<1>4. a \in 1 .. Len(t) /\ b \in a .. Len(t)
  BY <1>3 DEF Spans
<1>5. Email(t, a, b) /\ a <= i /\ i <= b
  BY <1>1, <1>2, <1>3
<1> HIDE DEF a, b
<1>6. a <= j
  BY <1>4, <1>5
<1>7. i = a /\ j = b
  BY <1>4, <1>5, <1>6, EmailsMeet
<1> QED
  BY <1>7 DEF a, b

\* Where feed() cuts: at or after the first candidate, in no complete match,
\* and no further than the matches that hold the candidate ask for.
LEMMA SafeCutIs ==
  ASSUME NEW t, Len(t) \in Nat
  PROVE  /\ UnsafeSuffix(t) \in 0 .. Len(t) /\ SafeCut(t) \in UnsafeSuffix(t) .. Len(t)
         /\ \/ UnsafeSuffix(t) = Len(t)
            \/ UnsafeSuffix(t) \in EmailCandidate(t) \cup SsnCandidate(t) \cup CardCandidate(t)
         /\ \A e \in EmailCandidate(t) \cup SsnCandidate(t) \cup CardCandidate(t) : UnsafeSuffix(t) <= e
         /\ \A pattern \in Patterns : \A m \in Finditer(pattern, t) : ~(m[1] <= SafeCut(t) /\ SafeCut(t) < m[2])
         /\ \A c \in UnsafeSuffix(t) .. SafeCut(t) - 1 :
              \E pattern \in Patterns : \E m \in Finditer(pattern, t) : m[1] <= c /\ c < m[2]
<1> DEFINE n == Len(t)
           candidates == {n} \cup EmailCandidate(t) \cup SsnCandidate(t) \cup CardCandidate(t)
           u == UnsafeSuffix(t)
           complete == UNION {Finditer(pattern, t) : pattern \in Patterns}
           inside(c) == \E m \in complete : m[1] <= c /\ c < m[2]
           cuts == {n} \cup {c \in u .. n : ~inside(c)}
           k == SafeCut(t)
<1>1. EmailSpan \in Nat /\ n \in Nat
  BY PatternAssumption
<1>2. candidates \subseteq 0 .. n
  BY <1>1, EmailCandidateFits, SsnCandidateFits, CardCandidateFits DEF Holding
<1>3. u \in candidates /\ \A e \in candidates : u <= e
  <2>1. candidates \subseteq Nat /\ candidates # {}
    BY <1>1, <1>2
  <2>2. u = Min(candidates)
    BY DEF UnsafeSuffix
  <2> HIDE DEF candidates, u
  <2> QED
    BY <2>1, <2>2, MinOfSet
<1>4. u \in 0 .. n
  BY <1>2, <1>3
<1>5. \A m \in complete : m[1] \in Int /\ m[2] \in Int /\ m[2] <= n
  <2> SUFFICES ASSUME NEW pattern \in Patterns, NEW m \in Finditer(pattern, t)
               PROVE  m[1] \in Int /\ m[2] \in Int /\ m[2] <= n
    OBVIOUS
  <2>1. m \in Spans(t)
    BY FinditerFits
  <2> QED
    BY <2>1 DEF Spans
<1> HIDE DEF complete
<1>6. k = Min(cuts)
  <2>1. \A c \in u .. n : ~inside(c) <=> \A m \in complete : ~(m[1] - 1 < c /\ c < m[2])
    <3> TAKE c \in u .. n
    <3>1. c \in Int
      BY <1>4
    <3>2. \A m \in complete : m[1] - 1 < c <=> m[1] <= c
      BY <1>5, <3>1
    <3> QED
      BY <3>2
  <2>2. cuts = {n} \cup {c \in u .. n : \A m \in complete : ~(m[1] - 1 < c /\ c < m[2])}
    BY <2>1
  <2> HIDE DEF cuts, inside
  <2> QED
    BY <2>2 DEF SafeCut, ExtendCut, complete
<1>7. ~inside(n)
  BY <1>5
<1> HIDE DEF inside, u
<1>8. k \in cuts /\ \A c \in cuts : k <= c
  <2>1. cuts \subseteq Nat /\ cuts # {}
    BY <1>1, <1>4
  <2> HIDE DEF cuts
  <2> QED
    BY <1>6, <2>1, MinOfSet
<1> HIDE DEF k
<1>9. k \in u .. n /\ ~inside(k)
  BY <1>4, <1>7, <1>8
<1>10. \A c \in u .. k - 1 : inside(c)
  <2> SUFFICES ASSUME NEW c \in u .. k - 1, ~inside(c) PROVE FALSE
    OBVIOUS
  <2>1. c \in cuts
    BY <1>4, <1>9
  <2> QED
    BY <1>4, <1>8, <1>9, <2>1
<1>11. \A pattern \in Patterns : \A m \in Finditer(pattern, t) : ~(m[1] <= k /\ k < m[2])
  BY <1>9 DEF inside, complete
<1>12. \A c \in u .. k - 1 : \E pattern \in Patterns : \E m \in Finditer(pattern, t) : m[1] <= c /\ c < m[2]
  BY <1>10 DEF inside, complete
<1> QED
  BY <1>3, <1>4, <1>9, <1>11, <1>12 DEF u, k

-----------------------------------------------------------------------------
\* The text t goes on to a text f whose values stand apart.
GoesOn(t, f) == t \in Seq(Chars) /\ f \in Seq(Chars) /\ Extends(f, t) /\ Separable(f)

\* What feed() would not cut is one of these.
Found(t, a, b) ==
  /\ a \in 1 .. Len(t) /\ b \in a .. Len(t)
  /\ \/ Email(t, a, b)
     \/ Number(t, a, b) /\ All(t, a, b, {"digit", "hyphen"})
     \/ Number(t, a, b) /\ Size(t, a, b, {"digit"}) >= CardMin

LEMMA FoundIs ==
  ASSUME NEW S, NEW t \in Seq(S), NEW pattern \in Patterns, NEW m \in Finditer(pattern, t)
  PROVE  Found(t, m[1], m[2])
<1> DEFINE a == m[1]
           b == m[2]
<1>1. m \in Spans(t) /\ Matches(pattern, t, m[1], m[2])
  BY FinditerSound
<1>2. a \in 1 .. Len(t) /\ b \in a .. Len(t) /\ Matches(pattern, t, a, b)
  BY <1>1 DEF Spans
<1> SUFFICES Found(t, a, b)
  OBVIOUS
<1> HIDE DEF a, b
<1>3. CASE Email(t, a, b)
  BY <1>2, <1>3 DEF Found
<1>4. CASE Ssn(t, a, b)
  <2>1. Number(t, a, b) /\ All(t, a, b, {"digit", "hyphen"})
    BY <1>2, <1>4, SsnIs
  <2> QED
    BY <1>2, <2>1 DEF Found
<1>5. CASE Card(t, a, b)
  <2>1. Number(t, a, b) /\ Size(t, a, b, {"digit"}) >= CardMin
    BY <1>5, PatternAssumption DEF Card, CardNumber
  <2> QED
    BY <1>2, <2>1 DEF Found
<1> QED
  BY <1>2, <1>3, <1>4, <1>5 DEF Matches

LEMMA NumberExtends ==
  ASSUME NEW t, NEW f, Len(t) \in Nat, Len(f) \in Nat, Extends(f, t),
         NEW i \in 1 .. Len(t), NEW j \in i .. Len(t)
  PROVE  /\ Number(t, i, j) <=> Number(f, i, j)
         /\ Doubled(t, i, j) <=> Doubled(f, i, j)
         /\ Size(t, i, j, {"digit"}) = Size(f, i, j, {"digit"})
<1>1. \A p \in i .. j : p \in 1 .. Len(t) /\ 0 + p = p
  OBVIOUS
<1>2. Moved(t, f, 0, i, j)
  BY <1>1 DEF Moved, Extends
<1>3. 0 \in Int /\ i \in Int /\ j \in Int /\ i <= j /\ 0 + i = i /\ 0 + j = j
  OBVIOUS
<1>4. (Number(t, i, j) <=> Number(f, 0 + i, 0 + j)) /\ (Doubled(t, i, j) <=> Doubled(f, 0 + i, 0 + j))
  BY <1>2, <1>3, NumberMoved
<1>5. Size(t, i, j, {"digit"}) = Size(f, 0 + i, 0 + j, {"digit"})
  BY <1>2, <1>3, SizeMoved
<1> QED
  BY <1>3, <1>4, <1>5

\* A number that shares a word with an "@" is too short for a card.
LEMMA NumberByAt ==
  ASSUME NEW f, Len(f) \in Nat, Separable(f), NEW i \in 1 .. Len(f), NEW j \in i .. Len(f), Number(f, i, j),
         NEW a \in 1 .. j, NEW b \in i .. Len(f), All(f, a, b, CandidateChars),
         NEW p \in a .. b, f[p] = "at"
  PROVE  Size(f, i, j, {"digit"}) < CardMin
<1>1. Size(f, i, j, {"digit"}) \in Nat /\ CardMin \in Nat
  BY SizeGrows, PatternAssumption
<1>2. SUFFICES ASSUME Size(f, i, j, {"digit"}) >= CardMin PROVE FALSE
  BY <1>1
<1>3. i \in 1 .. Len(f) /\ j \in 1 .. Len(f) /\ i <= j
  OBVIOUS
<1>4. All(f, a, b, LocalChars)
  BY <1>2, <1>3 DEF Separable
<1> QED
  BY <1>4 DEF All, LocalChars, DomainChars, Alnum

\* No complete match holds the begin of a word with an "@".
LEMMA WordNotInside ==
  ASSUME NEW t, NEW f, GoesOn(t, f), NEW w \in 0 .. Len(t), w = 0 \/ f[w] \notin CandidateChars,
         NEW q \in w + 1 .. Len(f), All(f, w + 1, q, CandidateChars), f[q] = "at",
         NEW pattern \in Patterns, NEW m \in Finditer(pattern, t), m[1] <= w, w < m[2]
  PROVE  FALSE
<1> DEFINE a == m[1]
           b == m[2]
<1>0. t \in Seq(Chars) /\ Len(t) \in Nat /\ Len(f) \in Nat /\ Extends(f, t) /\ Separable(f) /\ Len(t) <= Len(f)
  BY DEF GoesOn, Extends
<1>1. Found(t, a, b)
  BY <1>0, FoundIs
<1>2. a <= w /\ w < b
  OBVIOUS
<1> HIDE DEF a, b
<1>3. a \in 1 .. Len(t) /\ b \in a .. Len(t)
  BY <1>1 DEF Found
<1>4. w \in a .. b /\ w \in 1 .. Len(t) /\ t[w] = f[w] /\ f[w] \notin CandidateChars
  BY <1>0, <1>2, <1>3 DEF Extends
<1>5. CASE Email(t, a, b)
  <2>1. Address(t, a, b)
    BY <1>5, EmailIsBegun DEF Begun
  <2>2. All(t, a, b, CandidateChars)
    BY <1>3, <2>1, AddressIs
  <2> QED
    BY <1>4, <2>2 DEF All
<1>6. CASE All(t, a, b, {"digit", "hyphen"})
  BY <1>4, <1>6 DEF All, CandidateChars, LocalChars, DomainChars, Alnum
<1>7. CASE Number(t, a, b) /\ Size(t, a, b, {"digit"}) >= CardMin
  <2>1. Number(f, a, b) /\ Size(f, a, b, {"digit"}) >= CardMin
    BY <1>0, <1>3, <1>7, NumberExtends
  <2>2. a \in 1 .. Len(f) /\ b \in a .. Len(f) /\ w + 1 \in 1 .. b /\ q \in a .. Len(f) /\ q \in w + 1 .. q
    BY <1>0, <1>2, <1>3
  <2>3. Size(f, a, b, {"digit"}) < CardMin
    BY <1>0, <2>1, <2>2, NumberByAt
  <2>4. Size(f, a, b, {"digit"}) \in Nat /\ CardMin \in Nat
    BY <2>2, SizeGrows, PatternAssumption
  <2> QED
    BY <2>1, <2>3, <2>4
<1> QED
  BY <1>1, <1>5, <1>6, <1>7 DEF Found

LEMMA WordNotCut ==
  ASSUME NEW t, NEW f, GoesOn(t, f), NEW w \in 0 .. Len(t), w = 0 \/ f[w] \notin CandidateChars,
         NEW q \in w + 1 .. Len(f), All(f, w + 1, q, CandidateChars), f[q] = "at",
         UnsafeSuffix(t) <= w
  PROVE  SafeCut(t) <= w
<1>0. Len(t) \in Nat
  BY DEF GoesOn
<1>1. UnsafeSuffix(t) \in 0 .. Len(t) /\ SafeCut(t) \in UnsafeSuffix(t) .. Len(t)
  BY <1>0, SafeCutIs
<1>2. SUFFICES ASSUME w < SafeCut(t) PROVE FALSE
  BY <1>1
<1>3. w \in UnsafeSuffix(t) .. SafeCut(t) - 1
  BY <1>1, <1>2
<1>4. PICK pattern \in Patterns : \E m \in Finditer(pattern, t) : m[1] <= w /\ w < m[2]
  BY <1>0, <1>3, SafeCutIs
<1>5. PICK m \in Finditer(pattern, t) : m[1] <= w /\ w < m[2]
  BY <1>4
<1> QED
  BY <1>5, WordNotInside

\* The begin of a word that the text breaks off in, when its "@" is still to
\* come or is followed by a domain, is a candidate.
LEMMA WordIsCandidate ==
  ASSUME NEW t, NEW f, GoesOn(t, f), NEW w \in 0 .. Len(t), w < Len(t), w = 0 \/ f[w] \notin CandidateChars,
         All(f, w + 1, Len(t), CandidateChars),
         \/ \A p \in w + 1 .. Len(t) : f[p] # "at"
         \/ \E a \in w + 2 .. Len(t) : f[a] = "at" /\ All(f, a + 1, Len(t), DomainChars)
  PROVE  UnsafeSuffix(t) <= w
<1>0. Len(t) \in Nat /\ Len(f) \in Nat /\ Extends(f, t) /\ Separable(f)
  BY DEF GoesOn
<1>1. \A p \in 1 .. Len(t) : t[p] = f[p]
  BY <1>0 DEF Extends
<1>2. All(t, w + 1, Len(t), CandidateChars)
  BY <1>0, AllExtends
<1>3. w = 0 \/ t[w] \notin CandidateChars
  BY <1>1
<1>4. EmailCandidate(t) = {w}
  <2>1. CASE \A p \in w + 1 .. Len(t) : f[p] # "at"
    <3>1. \A p \in w + 1 .. Len(t) : t[p] # "at"
      BY <1>1, <2>1
    <3> QED
      BY <1>0, <1>2, <1>3, <3>1, EmailCandidateIs
  <2>2. CASE \E a \in w + 2 .. Len(t) : f[a] = "at" /\ All(f, a + 1, Len(t), DomainChars)
    <3>1. PICK a \in w + 2 .. Len(t) : f[a] = "at" /\ All(f, a + 1, Len(t), DomainChars)
      BY <2>2
    <3>2. t[a] = "at"
      BY <1>1, <3>1
    <3>3. All(t, a + 1, Len(t), DomainChars)
      BY <1>0, <3>1, AllExtends
    <3> QED
      BY <1>0, <1>2, <1>3, <3>2, <3>3, EmailCandidateIs
  <2> QED
    BY <2>1, <2>2
<1> QED
  BY <1>0, <1>4, SafeCutIs

\* No word has an "@" after the cut and a character before it.
LEMMA AtNotAcross ==
  ASSUME NEW t, NEW f, GoesOn(t, f), SafeCut(t) >= 1, f[SafeCut(t)] \in CandidateChars,
         NEW q \in SafeCut(t) + 1 .. Len(f), All(f, SafeCut(t) + 1, q, CandidateChars), f[q] = "at"
  PROVE  FALSE
<1> DEFINE L == Len(t)
           u == UnsafeSuffix(t)
           k == SafeCut(t)
<1>0. t \in Seq(Chars) /\ L \in Nat /\ Len(f) \in Nat /\ L <= Len(f) /\ \A p \in 1 .. L : t[p] = f[p]
  BY DEF GoesOn, Extends
<1>1. u \in 0 .. L /\ k \in u .. L
  BY <1>0, SafeCutIs
<1>2. u = L \/ u \in EmailCandidate(t) \cup SsnCandidate(t) \cup CardCandidate(t)
  BY <1>0, SafeCutIs
<1>3. k >= 1 /\ f[k] \in CandidateChars /\ q \in k + 1 .. Len(f) /\ All(f, k + 1, q, CandidateChars)
  OBVIOUS
<1> HIDE DEF u, k
<1>40. k \in Nat
  BY <1>0, <1>1
<1>4. PICK w \in 0 .. k : All(f, w + 1, k, CandidateChars) /\ (w = 0 \/ f[w] \notin CandidateChars)
  BY <1>40, RunBegins
<1>5. w < k
  BY <1>1, <1>3, <1>4
<1>6. All(f, w + 1, q, CandidateChars)
  BY <1>0, <1>1, <1>3, <1>4, <1>5, RunsMeet
<1>7. w \in 0 .. L /\ q \in w + 1 .. Len(f) /\ q \in Int /\ w < L
  BY <1>0, <1>1, <1>3, <1>5
<1>8. w < u
  <2>1. SUFFICES ASSUME u <= w PROVE FALSE
    BY <1>1, <1>7
  <2>2. k <= w
    BY <1>4, <1>6, <1>7, <2>1, WordNotCut DEF u, k
  <2> QED
    BY <1>1, <1>5, <1>7, <2>2
<1>9. CASE q <= L
  <2>1. u < L /\ q \in u + 1 .. L /\ t[q] = "at" /\ u \in w + 1 .. q /\ u # 0
    BY <1>0, <1>1, <1>3, <1>7, <1>8, <1>9
  <2>2. u \notin SsnCandidate(t)
    <3> SUFFICES ASSUME u \in SsnCandidate(t) PROVE FALSE
      OBVIOUS
    <3>1. All(t, u + 1, L, {"digit", "hyphen"})
      BY <1>0, SsnCandidateIs
    <3> QED
      BY <2>1, <3>1 DEF All
  <2>3. u \notin CardCandidate(t)
    <3> SUFFICES ASSUME u \in CardCandidate(t) PROVE FALSE
      OBVIOUS
    <3>1. All(t, u + 1, L, CardChars)
      BY <1>0, CardCandidateIs
    <3> QED
      BY <2>1, <3>1 DEF All, CardChars, Separators
  <2>4. u \in EmailCandidate(t)
    BY <1>2, <2>1, <2>2, <2>3
  <2>5. PICK v \in 0 .. L : All(t, v + 1, L, CandidateChars) /\ (v = 0 \/ t[v] \notin CandidateChars)
    BY <1>0, RunBegins
  <2>6. EmailCandidate(t) \subseteq {v}
    BY <1>0, <2>5, EmailCandidateIs DEF GoesOn
  <2>7. u = v /\ f[u] \notin CandidateChars
    BY <1>0, <1>1, <2>1, <2>4, <2>5, <2>6
  <2> QED
    BY <1>6, <2>1, <2>7 DEF All
<1>10. CASE q > L
  <2>1. All(f, w + 1, L, CandidateChars)
    BY <1>0, <1>6, <1>7, <1>10 DEF All
  <2>2. \A p \in w + 1 .. L : f[p] # "at"
    <3> SUFFICES ASSUME NEW p \in w + 1 .. L, f[p] = "at" PROVE FALSE
      OBVIOUS
    <3>1. p \in w + 1 .. q /\ q \in w + 1 .. q /\ w + 1 >= 1 /\ q <= Len(f) /\ w + 1 \in Int
      BY <1>0, <1>7, <1>10
    <3>2. p = q
      BY <1>0, <1>6, <1>7, <3>1, OneAtInWord DEF GoesOn
    <3> QED
      BY <1>0, <1>7, <1>10, <3>2
  <2>3. u <= w
    BY <1>4, <1>7, <2>1, <2>2, WordIsCandidate DEF u
  <2> QED
    BY <1>1, <1>7, <1>8, <2>3
<1> QED
  BY <1>0, <1>7, <1>9, <1>10

\* A domain across the cut breaks off at a space, before which the digits of a
\* candidate begin.
LEMMA DomainCut ==
  ASSUME NEW t, NEW f, GoesOn(t, f), NEW at \in 2 .. SafeCut(t), SafeCut(t) < Len(f),
         f[at] = "at", f[at - 1] \in LocalChars, All(f, at + 1, SafeCut(t) + 1, DomainChars)
  PROVE  \E r \in SafeCut(t) + 2 .. Len(t) :
           /\ f[r] = "space" /\ All(f, at + 1, r - 1, DomainChars)
           /\ UnsafeSuffix(t) \in at .. SafeCut(t)
           /\ All(f, UnsafeSuffix(t) + 1, r - 1, {"digit", "hyphen"})
           /\ f[UnsafeSuffix(t) + 1] = "digit" /\ f[r - 1] = "digit"
           /\ ~Doubled(f, UnsafeSuffix(t) + 1, r - 1)
<1> DEFINE L == Len(t)
           u == UnsafeSuffix(t)
           k == SafeCut(t)
<1>0. t \in Seq(Chars) /\ L \in Nat /\ Len(f) \in Nat /\ L <= Len(f) /\ \A p \in 1 .. L : t[p] = f[p]
  BY DEF GoesOn, Extends
<1>1. u \in 0 .. L /\ k \in u .. L
  BY <1>0, SafeCutIs
<1>2. u = L \/ u \in EmailCandidate(t) \cup SsnCandidate(t) \cup CardCandidate(t)
  BY <1>0, SafeCutIs
<1>3. at \in 2 .. k /\ k < Len(f) /\ All(f, at + 1, k + 1, DomainChars) /\ at \in Int
  OBVIOUS
<1> HIDE DEF u, k
<1>40. at \in Nat
  BY <1>3
<1>4. PICK w \in 0 .. at : All(f, w + 1, at, CandidateChars) /\ (w = 0 \/ f[w] \notin CandidateChars)
  BY <1>40, RunBegins
<1>5. w <= at - 2
  BY <1>3, <1>4 DEF CandidateChars
<1>6. w \in 0 .. L /\ at \in w + 1 .. Len(f) /\ w < L /\ at \in w + 2 .. L
  BY <1>0, <1>1, <1>3, <1>4, <1>5
<1>7. w < u
  <2>1. SUFFICES ASSUME u <= w PROVE FALSE
    BY <1>1, <1>6
  <2>2. k <= w
    BY <1>4, <1>6, <2>1, WordNotCut DEF u, k
  <2> QED
    BY <1>1, <1>3, <1>5, <1>6, <2>2
<1>8. \A h \in Int : at <= h /\ All(f, at + 1, h, DomainChars) => All(f, w + 1, h, CandidateChars)
  <2> SUFFICES ASSUME NEW h \in Int, at <= h, All(f, at + 1, h, DomainChars), NEW p \in w + 1 .. h
               PROVE  f[p] \in CandidateChars
    BY DEF All
  <2>1. p \in w + 1 .. at \/ p \in at + 1 .. h
    BY <1>3, <1>6
  <2> QED
    BY <1>4, <2>1 DEF All, CandidateChars, LocalChars
<1>9. ~All(f, at + 1, L, DomainChars)
  <2> SUFFICES ASSUME All(f, at + 1, L, DomainChars) PROVE FALSE
    OBVIOUS
  <2>1. All(f, w + 1, L, CandidateChars)
    BY <1>0, <1>6, <1>8
  <2>2. u <= w
    BY <1>4, <1>6, <2>1, WordIsCandidate DEF u
  <2> QED
    BY <1>1, <1>6, <1>7, <2>2
<1> DEFINE R == {p \in at + 1 .. L : f[p] \notin DomainChars}
           r == Min(R)
<1>10. r \in R /\ \A p \in R : r <= p
  <2>1. R \subseteq Nat /\ R # {}
    BY <1>3, <1>9 DEF All
  <2> HIDE DEF R
  <2> QED
    BY <2>1, MinOfSet
<1>11. r \in at + 1 .. L /\ f[r] \notin DomainChars /\ \A p \in at + 1 .. L : f[p] \notin DomainChars => r <= p
  BY <1>10
<1> HIDE DEF R, r
<1>12. All(f, at + 1, r - 1, DomainChars)
  BY <1>3, <1>11 DEF All
<1>13. r >= k + 2 /\ r \in Int /\ k < L
  <2>1. SUFFICES ASSUME r < k + 2 PROVE FALSE
    BY <1>1, <1>11
  <2>2. r \in at + 1 .. k + 1
    BY <1>1, <1>11, <2>1
  <2> QED
    BY <1>3, <1>11, <2>2 DEF All
<1>14. r \in k + 2 .. L /\ r \in u + 1 .. L /\ u < L /\ u # 0 /\ u \in w + 1 .. k + 1
  BY <1>0, <1>1, <1>6, <1>7, <1>11, <1>13
<1>15. u \notin SsnCandidate(t)
  <2> SUFFICES ASSUME u \in SsnCandidate(t) PROVE FALSE
    OBVIOUS
  <2>1. All(t, u + 1, L, {"digit", "hyphen"})
    BY <1>0, SsnCandidateIs
  <2>2. t[r] \in {"digit", "hyphen"}
    BY <1>14, <2>1 DEF All
  <2>3. t[r] = f[r]
    BY <1>0, <1>1, <1>14
  <2> QED
    BY <1>11, <2>2, <2>3 DEF DomainChars, Alnum
<1>16. u \notin EmailCandidate(t)
  <2> SUFFICES ASSUME u \in EmailCandidate(t) PROVE FALSE
    OBVIOUS
  <2>1. PICK v \in 0 .. L : All(t, v + 1, L, CandidateChars) /\ (v = 0 \/ t[v] \notin CandidateChars)
    BY <1>0, RunBegins
  <2>2. EmailCandidate(t) \subseteq {v}
    BY <1>0, <2>1, EmailCandidateIs DEF GoesOn
  <2>3. u = v /\ f[u] \notin CandidateChars
    BY <1>0, <1>1, <1>14, <2>1, <2>2
  <2>4. All(f, w + 1, k + 1, CandidateChars)
    BY <1>1, <1>3, <1>8
  <2> QED
    BY <1>14, <2>3, <2>4 DEF All
<1>17. /\ All(t, u + 1, L, CardChars) /\ t[u + 1] = "digit" /\ ~Doubled(t, u + 1, L)
  BY <1>0, <1>2, <1>14, <1>15, <1>16, CardCandidateIs
<1>18. \A p \in u + 1 .. L : f[p] \in CardChars /\ f[p] = t[p]
  BY <1>0, <1>1, <1>17 DEF All
<1>19. f[r] = "space"
  <2>1. f[r] \in CardChars
    BY <1>14, <1>18
  <2> QED
    BY <1>11, <2>1 DEF CardChars, Separators, DomainChars, Alnum
<1>20. at <= u
  <2>1. SUFFICES ASSUME u < at PROVE FALSE
    BY <1>1, <1>3
  <2>2. at \in u + 1 .. L
    BY <1>1, <1>3, <2>1
  <2> QED
    BY <1>18, <2>2 DEF CardChars, Separators
<1>21. All(f, u + 1, r - 1, {"digit", "hyphen"})
  <2> SUFFICES ASSUME NEW p \in u + 1 .. r - 1 PROVE f[p] \in {"digit", "hyphen"}
    BY DEF All
  <2>1. p \in u + 1 .. L /\ p \in at + 1 .. r - 1
    BY <1>1, <1>3, <1>14, <1>20
  <2>2. f[p] \in CardChars /\ f[p] \in DomainChars
    BY <1>12, <1>18, <2>1 DEF All
  <2> QED
    BY <2>2 DEF CardChars, Separators, DomainChars, LocalChars, Alnum
<1>22. r - 1 \in u + 1 .. r - 1 /\ r - 1 \in u + 1 .. L - 1 /\ u + 1 \in u + 1 .. L /\ r - 1 + 1 = r
  BY <1>1, <1>13, <1>14
<1>23. f[r - 1] = "digit"
  <2>1. f[r - 1] \in {"digit", "hyphen"}
    BY <1>21, <1>22 DEF All
  <2>2. ~({t[r - 1], t[r]} \subseteq Separators)
    BY <1>17, <1>22 DEF Doubled
  <2>3. r - 1 \in u + 1 .. L /\ t[r] = f[r] /\ t[r - 1] = f[r - 1]
    BY <1>18, <1>14, <1>22
  <2> QED
    BY <1>19, <2>1, <2>2, <2>3 DEF Separators
<1>24. ~Doubled(f, u + 1, r - 1)
  <2> SUFFICES ASSUME NEW p \in u + 1 .. r - 1 - 1, {f[p], f[p + 1]} \subseteq Separators PROVE FALSE
    BY DEF Doubled
  <2>1. p \in u + 1 .. L - 1 /\ p \in u + 1 .. L /\ p + 1 \in u + 1 .. L
    BY <1>1, <1>22
  <2> QED
    BY <1>17, <1>18, <2>1 DEF Doubled
<1>25. f[u + 1] = "digit" /\ u \in at .. k
  BY <1>1, <1>3, <1>17, <1>18, <1>20, <1>22
<1> QED
  BY <1>12, <1>14, <1>19, <1>21, <1>23, <1>24, <1>25 DEF u, k

\* No address goes on across the cut, nor would one that ends at it go on.
LEMMA AddressNotAcross ==
  ASSUME NEW t, NEW f, GoesOn(t, f), SafeCut(t) < Len(f),
         NEW i \in 1 .. SafeCut(t), NEW j \in SafeCut(t) .. Len(f), Begun(f, i, j),
         j > SafeCut(t) \/ f[SafeCut(t) + 1] \in DomainChars
  PROVE  FALSE
<1> DEFINE L == Len(t)
           u == UnsafeSuffix(t)
           k == SafeCut(t)
<1>0. L \in Nat /\ Len(f) \in Nat /\ L <= Len(f) /\ \A p \in 1 .. L : t[p] = f[p]
  BY DEF GoesOn, Extends
<1>00. LabelMax \in Nat
  BY PatternAssumption
<1>1. u \in 0 .. L /\ k \in u .. L
  BY <1>0, SafeCutIs
<1>2. k < Len(f) /\ i \in 1 .. k /\ j \in k .. Len(f) /\ (j > k \/ f[k + 1] \in DomainChars)
  OBVIOUS
<1>3. Address(f, i, j) /\ ~Preceded(f, i, LocalChars) /\ i \in Int /\ j \in Int
  BY <1>1 DEF Begun
<1>4. All(f, i, j, CandidateChars)
  BY <1>3, AddressIs
<1>5. PICK at \in i + 1 .. j - 1 :
        /\ f[at] = "at" /\ at - i <= LocalMax
        /\ All(f, i, at - 1, LocalChars) /\ All(f, at + 1, j, DomainChars) /\ DomainName(f, at + 1, j)
  BY <1>3, AddressIs
<1> HIDE DEF u, k
<1>6. at \in Int /\ at >= i + 1 /\ at <= j - 1
  BY <1>3
<1>7. at <= k
  <2>1. SUFFICES ASSUME k < at PROVE FALSE
    BY <1>1, <1>6
  <2>2. k >= 1 /\ k \in i .. j /\ at \in k + 1 .. Len(f)
    BY <1>0, <1>1, <1>2, <1>6, <2>1
  <2>3. f[k] \in CandidateChars
    BY <1>4, <2>2 DEF All
  <2>4. All(f, k + 1, at, CandidateChars)
    BY <1>1, <1>4, <1>6, <2>2 DEF All
  <2> QED
    BY <1>5, <2>2, <2>3, <2>4, AtNotAcross DEF k
<1>8. at \in 2 .. k
  BY <1>1, <1>2, <1>6, <1>7
<1>9. f[at - 1] \in LocalChars
  <2>1. at - 1 \in i .. at - 1
    BY <1>2, <1>6
  <2> QED
    BY <1>5, <2>1 DEF All
<1>10. All(f, at + 1, k + 1, DomainChars)
  <2> SUFFICES ASSUME NEW p \in at + 1 .. k + 1 PROVE f[p] \in DomainChars
    BY DEF All
  <2>1. p \in at + 1 .. j \/ (p = k + 1 /\ ~(j > k))
    BY <1>1, <1>2, <1>6
  <2> QED
    BY <1>2, <1>5, <2>1 DEF All
<1>11. PICK r \in k + 2 .. L :
         /\ f[r] = "space" /\ All(f, at + 1, r - 1, DomainChars)
         /\ u \in at .. k
         /\ All(f, u + 1, r - 1, {"digit", "hyphen"})
         /\ f[u + 1] = "digit" /\ f[r - 1] = "digit"
         /\ ~Doubled(f, u + 1, r - 1)
  BY <1>2, <1>5, <1>8, <1>9, <1>10, DomainCut DEF u, k
<1>12. r \in Int /\ k \in Int /\ u \in Int /\ r >= k + 2 /\ r <= L /\ at <= u /\ u <= k
  BY <1>0, <1>1, <1>11
<1>13. j <= r - 1
  <2>1. SUFFICES ASSUME r <= j PROVE FALSE
    BY <1>3, <1>12
  <2>2. r \in at + 1 .. j
    BY <1>6, <1>7, <1>12, <2>1
  <2> QED
    BY <1>5, <1>11, <2>2 DEF All, DomainChars, Alnum
<1>14. Named(f, at + 1, r - 1)
  <2>0. Named(f, at + 1, j)
    BY <1>3, <1>5, <1>6, DomainNameIsNamed
  <2>1. \E p \in at + 1 .. r - 1 : f[p] = "dot"
    <3>1. PICK p \in at + 1 .. j : f[p] = "dot"
      BY <2>0 DEF Named
    <3>2. p \in at + 1 .. r - 1
      BY <1>3, <1>6, <1>12, <1>13
    <3> QED
      BY <3>1, <3>2
  <2>2. \A q \in at + 1 .. r - 1 : f[q] = "dot" => q <= u
    <3> SUFFICES ASSUME NEW q \in at + 1 .. r - 1, f[q] = "dot", u < q PROVE FALSE
      BY <1>12
    <3>1. q \in u + 1 .. r - 1
      BY <1>12
    <3> QED
      BY <1>11, <3>1 DEF All
  <2> DEFINE edge(h, p) == p = at + 1 \/ p = h \/ (p > at + 1 /\ f[p - 1] = "dot") \/ (p < h /\ f[p + 1] = "dot")
  <2>3. \A p \in at + 1 .. j : edge(j, p) => f[p] \in Alnum
    BY <2>0 DEF Named
  <2>4. j \in at + 1 .. j /\ edge(j, j) /\ f[j] # "dot"
    <3>1. j \in at + 1 .. j
      BY <1>3, <1>6
    <3> QED
      BY <2>3, <3>1 DEF Alnum
  <2>5. ASSUME NEW p \in at + 1 .. r - 1, edge(r - 1, p)
        PROVE  f[p] \in Alnum
    <3>1. CASE p = r - 1
      BY <1>11, <3>1 DEF Alnum
    <3>2. CASE p = at + 1
      BY <1>6, <2>3, <3>2
    <3>3. CASE p > at + 1 /\ f[p - 1] = "dot"
      <4>1. p - 1 \in at + 1 .. r - 1
        BY <1>6, <1>12, <3>3
      <4>2. p - 1 <= u
        BY <2>2, <3>3, <4>1
      <4>3. p - 1 # j
        BY <2>4, <3>3
      <4>4. p \in at + 1 .. j /\ edge(j, p)
        BY <1>2, <1>3, <1>12, <3>3, <4>1, <4>2, <4>3
      <4> QED
        BY <2>3, <4>4
    <3>4. CASE p < r - 1 /\ f[p + 1] = "dot"
      <4>1. p + 1 \in at + 1 .. r - 1
        BY <1>6, <1>12, <3>4
      <4>2. p + 1 <= u
        BY <2>2, <3>4, <4>1
      <4>3. p \in at + 1 .. j /\ edge(j, p)
        BY <1>1, <1>2, <1>3, <1>12, <3>4, <4>2
      <4> QED
        BY <2>3, <4>3
    <3> QED
      BY <2>5, <3>1, <3>2, <3>3, <3>4
  <2>6. ASSUME NEW p \in at + 1 .. r - 1 - LabelMax
        PROVE  \E q \in p .. p + LabelMax : f[q] = "dot"
    <3> SUFFICES ASSUME \A q \in p .. p + LabelMax : f[q] # "dot" PROVE FALSE
      OBVIOUS
    <3> DEFINE h == p + LabelMax
    <3>1. p \in 1 .. Len(f) /\ h \in 1 .. Len(f) /\ p <= h /\ p >= at + 1 /\ h <= r - 1
      BY <1>0, <1>00, <1>8, <1>12
    <3>2. All(f, p, h, DomainChars)
      BY <1>11, <1>6, <1>12, <3>1 DEF All
    <3>3. All(f, p, h, DomainChars \ {"dot"})
      BY <3>2 DEF All
    <3>4. InDomain(f, p, h)
      <4>1. All(f, at + 1, h, DomainChars)
        BY <1>11, <1>6, <1>12, <3>1 DEF All
      <4>2. at \in 2 .. p - 1
        BY <1>8, <3>1
      <4> QED
        BY <1>5, <1>9, <4>1, <4>2 DEF InDomain
    <3>5. h - p < LabelMax
      <4> HIDE DEF h
      <4> QED
        BY <3>1, <3>3, <3>4 DEF GoesOn, Separable
    <3> QED
      BY <1>00, <3>5
  <2> QED
    BY <1>11, <2>1, <2>5, <2>6 DEF Named
<1>15. Email(t, i, r - 1)
  <2>1. DomainName(f, at + 1, r - 1) /\ at \in i + 1 .. r - 1 - 1
    BY <1>3, <1>6, <1>12, <1>13, <1>14, DomainNameIsNamed
  <2>2. Address(f, i, r - 1)
    BY <1>5, <2>1 DEF Address
  <2>3. \A p \in i .. r - 1 : p \in 1 .. L /\ 0 + p = p
    BY <1>2, <1>12
  <2>4. Moved(t, f, 0, i, r - 1)
    BY <1>0, <2>3 DEF Moved
  <2>5. Address(t, i, r - 1) <=> Address(f, 0 + i, 0 + (r - 1))
    BY <1>3, <1>12, <2>4, AddressMoved
  <2>6. Address(t, i, r - 1)
    BY <1>3, <1>12, <2>2, <2>5
  <2>7. ~Preceded(t, i, LocalChars)
    <3>1. i > 1 => i - 1 \in 1 .. L
      BY <1>0, <1>1, <1>2
    <3> QED
      BY <1>0, <1>3, <3>1 DEF Preceded
  <2>8. ~Followed(t, r - 1, DomainChars)
    <3>1. t[r] = "space" /\ r - 1 + 1 = r
      BY <1>0, <1>1, <1>11, <1>12
    <3> QED
      BY <3>1 DEF Followed, DomainChars, Alnum
  <2> QED
    BY <2>6, <2>7, <2>8 DEF Email, Address
<1>16. i \in 1 .. L /\ r - 1 \in i .. L
  BY <1>0, <1>1, <1>2, <1>12
<1>17. PICK m \in Finditer("email", t) : m[1] = i /\ m[2] = r - 1
  BY <1>0, <1>15, <1>16, EmailFound DEF GoesOn
<1>18. m[1] <= k /\ k < m[2]
  BY <1>1, <1>2, <1>12, <1>17
<1>19. "email" \in Patterns
  BY DEF Patterns
<1> QED
  BY <1>0, <1>18, <1>19, SafeCutIs DEF k

\* What is held back stands apart like the whole text.
LEMMA RestStandsApart ==
  ASSUME NEW t, NEW f, GoesOn(t, f)
  PROVE  Separable(From(f, SafeCut(t)))
<1> DEFINE L == Len(t)
           u == UnsafeSuffix(t)
           k == SafeCut(t)
           n == Len(f)
           g == From(f, k)
<1>0. L \in Nat /\ n \in Nat /\ L <= n /\ f \in Seq(Chars) /\ Separable(f)
  BY DEF GoesOn, Extends
<1>00. LocalMax \in Nat /\ CardMin \in Nat /\ 2 * CardMin - 3 <= LocalMax
  BY PatternAssumption, NumberAssumption
<1>1. u \in 0 .. L /\ k \in u .. L
  BY <1>0, SafeCutIs
<1>2. k \in Nat /\ k \in 0 .. n /\ u \in Nat
  BY <1>0, <1>1
<1> SUFFICES Separable(g)
  OBVIOUS
<1> HIDE DEF u, k
<1>3. Len(g) = n - k
  BY <1>0, <1>2, FromIs
<1>30. \A p \in 1 .. n - k : g[p] = f[k + p]
  BY <1>0, <1>2, FromIs
<1>4. \A i \in 1 .. n - k, j \in 1 .. n - k : Moved(g, f, k, i, j)
  BY <1>0, <1>2, PartsMoved
<1> HIDE DEF g
<1>5. \A i \in 1 .. n - k, j \in 1 .. n - k : \A S : All(g, i, j, S) <=> All(f, k + i, k + j, S)
  <2> TAKE i \in 1 .. n - k, j \in 1 .. n - k
  <2> TAKE S
  <2>1. Moved(g, f, k, i, j) /\ k \in Int /\ i \in Int /\ j \in Int
    BY <1>2, <1>4
  <2> QED
    BY <2>1, AllMoved
<1> SUFFICES ASSUME NEW i \in 1 .. n - k, NEW j \in 1 .. n - k, i <= j
             PROVE  /\ All(g, i, j, CandidateChars) =>
                         j - i < EmailSpan /\ ({g[i], g[j]} = {"at"} => i = j)
                    /\ All(g, i, j, DomainChars \ {"dot"}) /\ InDomain(g, i, j) => j - i < LabelMax
                    /\ All(g, i, j, LocalChars) => j - i < LocalMax \/ InDomain(g, i, j)
                    /\ Number(g, i, j) => Size(g, i, j, {"digit"}) <= CardMax /\ ~Doubled(g, i, j)
                    /\ Number(g, i, j) /\ Size(g, i, j, {"digit"}) >= CardMin =>
                          \A a \in 1 .. j, b \in i .. n - k :
                              All(g, a, b, CandidateChars) => All(g, a, b, LocalChars)
  BY <1>3 DEF Separable
<1> DEFINE I == k + i
           J == k + j
<1>6. I \in 1 .. n /\ J \in 1 .. n /\ I <= J /\ J - I = j - i /\ (I = J <=> i = j) /\ I >= k + 1 /\ g[i] = f[I] /\ g[j] = f[J]
  BY <1>0, <1>2, <1>30
<1>7. \A S : All(g, i, j, S) <=> All(f, I, J, S)
  BY <1>5
<1>8. (Number(g, i, j) <=> Number(f, I, J)) /\ (Doubled(g, i, j) <=> Doubled(f, I, J))
  <2>1. Moved(g, f, k, i, j) /\ k \in Int /\ i \in Int /\ j \in Int
    BY <1>2, <1>4
  <2> QED
    BY <2>1, NumberMoved
<1>9. Size(g, i, j, {"digit"}) = Size(f, I, J, {"digit"})
  <2>1. Moved(g, f, k, i, j) /\ k \in Int /\ i \in Int /\ j \in Int
    BY <1>2, <1>4
  <2> QED
    BY <2>1, SizeMoved
<1> HIDE DEF I, J
<1>10. /\ All(f, I, J, CandidateChars) => J - I < EmailSpan /\ ({f[I], f[J]} = {"at"} => I = J)
       /\ All(f, I, J, DomainChars \ {"dot"}) /\ InDomain(f, I, J) => J - I < LabelMax
       /\ All(f, I, J, LocalChars) => J - I < LocalMax \/ InDomain(f, I, J)
       /\ Number(f, I, J) => Size(f, I, J, {"digit"}) <= CardMax /\ ~Doubled(f, I, J)
  BY <1>0, <1>6 DEF Separable
<1>11. Number(f, I, J) /\ Size(f, I, J, {"digit"}) >= CardMin =>
         \A a \in 1 .. J, b \in I .. n : All(f, a, b, CandidateChars) => All(f, a, b, LocalChars)
  BY <1>0, <1>6 DEF Separable
<1>12. All(g, i, j, CandidateChars) => j - i < EmailSpan /\ ({g[i], g[j]} = {"at"} => i = j)
  BY <1>6, <1>7, <1>10
<1>13. All(g, i, j, DomainChars \ {"dot"}) /\ InDomain(g, i, j) => j - i < LabelMax
  <2> SUFFICES ASSUME InDomain(g, i, j) PROVE InDomain(f, I, J)
    BY <1>6, <1>7, <1>10
  <2>1. PICK at \in 2 .. i - 1 : g[at] = "at" /\ g[at - 1] \in LocalChars /\ All(g, at + 1, j, DomainChars)
    BY DEF InDomain
  <2>2. at \in 1 .. n - k /\ at - 1 \in 1 .. n - k /\ at + 1 \in 1 .. n - k /\ k + (at - 1) = (k + at) - 1 /\ k + (at + 1) = (k + at) + 1
    BY <1>0, <1>2
  <2>3. f[k + at] = "at" /\ f[(k + at) - 1] \in LocalChars
    BY <1>30, <2>1, <2>2
  <2>4. All(f, (k + at) + 1, J, DomainChars)
    BY <1>5, <2>1, <2>2 DEF J
  <2>5. k + at \in 2 .. I - 1
    BY <1>2 DEF I
  <2> QED
    BY <2>3, <2>4, <2>5 DEF InDomain
<1>14. All(g, i, j, LocalChars) => j - i < LocalMax \/ InDomain(g, i, j)
  <2> SUFFICES ASSUME InDomain(f, I, J) PROVE J - I < LocalMax \/ InDomain(g, i, j)
    BY <1>6, <1>7, <1>10
  <2>1. PICK at \in 2 .. I - 1 : f[at] = "at" /\ f[at - 1] \in LocalChars /\ All(f, at + 1, J, DomainChars)
    BY DEF InDomain
  <2>2. CASE at > k + 1
    <3> DEFINE h == at - k
    <3>1. h \in 2 .. i - 1 /\ k + h = at /\ k + (h - 1) = at - 1 /\ k + (h + 1) = at + 1
      BY <1>2, <2>2 DEF I
    <3>2. h \in 1 .. n - k /\ h - 1 \in 1 .. n - k /\ h + 1 \in 1 .. n - k
      BY <1>0, <1>2, <3>1
    <3> HIDE DEF h
    <3>3. g[h] = "at" /\ g[h - 1] \in LocalChars
      BY <1>30, <2>1, <3>1, <3>2
    <3>4. All(g, h + 1, j, DomainChars)
      BY <1>5, <2>1, <3>1, <3>2 DEF J
    <3> QED
      BY <3>1, <3>3, <3>4 DEF InDomain
  <2>3. CASE at = k + 1
    <3>1. k >= 1 /\ f[k] \in CandidateChars /\ at \in k + 1 .. n
      <4>1. at - 1 = k
        BY <1>2, <2>3
      <4> QED
        BY <1>0, <1>2, <1>6, <2>1, <4>1 DEF CandidateChars
    <3>2. All(f, k + 1, at, CandidateChars)
      BY <1>2, <2>1, <2>3 DEF All, CandidateChars
    <3> QED
      BY <2>1, <3>1, <3>2, AtNotAcross DEF k
  <2>4. CASE at <= k
    <3>1. at \in 2 .. k /\ k < n
      BY <1>2, <1>6, <2>4
    <3>2. All(f, at + 1, k + 1, DomainChars)
      BY <1>2, <1>6, <2>1 DEF All
    <3>3. PICK r \in k + 2 .. L :
            /\ f[r] = "space" /\ All(f, at + 1, r - 1, DomainChars)
            /\ u \in at .. k
            /\ All(f, u + 1, r - 1, {"digit", "hyphen"})
            /\ f[u + 1] = "digit" /\ f[r - 1] = "digit"
            /\ ~Doubled(f, u + 1, r - 1)
      BY <2>1, <3>1, <3>2, DomainCut DEF u, k
    <3>4. r \in Int /\ r >= k + 2 /\ r <= L /\ at <= u /\ u <= k /\ at \in Int
      BY <1>0, <1>2, <3>3
    <3>5. J <= r - 1
      <4>1. SUFFICES ASSUME r <= J PROVE FALSE
        BY <1>6, <3>4
      <4>2. r \in at + 1 .. J
        BY <1>2, <1>6, <3>4, <4>1
      <4> QED
        BY <2>1, <3>3, <4>2 DEF All, DomainChars, Alnum
    <3> DEFINE v == u + 1
               s == r - 1
    <3>6. v \in 1 .. n /\ s \in v .. n /\ at \in 1 .. s /\ v \in Int /\ s \in Int /\ v <= s /\ at \in at .. s
      BY <1>0, <1>2, <3>4
    <3>7. Number(f, v, s)
      <4>1. All(f, v, s, CardChars)
        BY <3>3 DEF All, CardChars, Separators
      <4> QED
        BY <3>3, <4>1 DEF Number
    <3>8. All(f, at, s, CandidateChars)
      <4> SUFFICES ASSUME NEW p \in at .. s PROVE f[p] \in CandidateChars
        BY DEF All
      <4>1. p = at \/ p \in at + 1 .. r - 1
        BY <3>4
      <4> QED
        BY <2>1, <3>3, <4>1 DEF All, CandidateChars, LocalChars
    <3>9. ~Doubled(f, v, s)
      BY <3>3
    <3> HIDE DEF v, s
    <3>10. Size(f, v, s, {"digit"}) < CardMin
      BY <1>0, <2>1, <3>6, <3>7, <3>8, NumberByAt
    <3>11. Size(f, v, s, {"digit"}) \in Nat /\ s - v + 1 <= 2 * Size(f, v, s, {"digit"}) - 1
      BY <3>6, <3>7, <3>9, NumberLength
    <3>12. s - v + 1 <= LocalMax
      BY <1>00, <3>6, <3>10, <3>11
    <3>13. J - I <= s - v
      BY <1>2, <1>6, <3>4, <3>5 DEF v, s
    <3> QED
      BY <1>00, <1>6, <3>6, <3>12, <3>13
  <2> QED
    BY <1>2, <2>2, <2>3, <2>4
<1>15. Number(g, i, j) => Size(g, i, j, {"digit"}) <= CardMax /\ ~Doubled(g, i, j)
  BY <1>8, <1>9, <1>10
<1>16. ASSUME Number(g, i, j), Size(g, i, j, {"digit"}) >= CardMin,
              NEW a \in 1 .. j, NEW b \in i .. n - k, All(g, a, b, CandidateChars)
       PROVE  All(g, a, b, LocalChars)
  <2>1. a \in 1 .. n - k /\ b \in 1 .. n - k /\ k + a \in 1 .. J /\ k + b \in I .. n
    BY <1>0, <1>2 DEF I, J
  <2>2. All(f, k + a, k + b, CandidateChars) => All(f, k + a, k + b, LocalChars)
    BY <1>8, <1>9, <1>11, <1>16, <2>1
  <2> QED
    BY <1>5, <1>16, <2>1, <2>2
<1> QED
  BY <1>12, <1>13, <1>14, <1>15, <1>16

LEMMA EmailCandidateBegins ==
  ASSUME NEW t, NEW f, GoesOn(t, f), NEW e \in EmailCandidate(t)
  PROVE  e \in 0 .. Len(t) /\ (e = 0 \/ t[e] \notin CandidateChars)
<1>0. Len(t) \in Nat /\ Len(f) \in Nat /\ Extends(f, t) /\ Separable(f)
  BY DEF GoesOn
<1>1. PICK v \in 0 .. Len(t) : All(t, v + 1, Len(t), CandidateChars) /\ (v = 0 \/ t[v] \notin CandidateChars)
  BY <1>0, RunBegins
<1>2. EmailCandidate(t) \subseteq {v}
  BY <1>0, <1>1, EmailCandidateIs
<1> QED
  BY <1>1, <1>2

\* A whole number that reaches into what feed() cut, long enough for a card, is
\* not all there.
LEMMA LongNumberIsOpen ==
  ASSUME NEW t, NEW f, GoesOn(t, f), NEW I, NEW J, WholeNumber(f, I, J),
         I <= SafeCut(t), SafeCut(t) < J, Size(f, I, J, {"digit"}) >= CardMin
  PROVE  Len(t) < J
<1> DEFINE L == Len(t)
<1>0. L \in Nat /\ Len(f) \in Nat /\ L <= Len(f) /\ Extends(f, t) /\ Separable(f) /\ \A p \in 1 .. L : t[p] = f[p]
  BY DEF GoesOn, Extends
<1>1. I \in 1 .. Len(f) /\ J \in I .. Len(f) /\ Number(f, I, J)
  BY DEF WholeNumber
<1>2. SUFFICES ASSUME J <= L PROVE FALSE
  BY <1>0, <1>1
<1>3. I \in 1 .. L /\ J \in I .. L /\ I <= J /\ I \in 1 .. Len(f) /\ J \in 1 .. Len(f)
  BY <1>0, <1>1, <1>2
<1>4. Size(f, I, J, {"digit"}) <= CardMax /\ ~Doubled(f, I, J)
  BY <1>0, <1>1, <1>3 DEF Separable
<1>5. Size(f, I, J, {"digit"}) \in Nat /\ CardMin \in Nat /\ CardMax \in Nat
  BY <1>3, SizeGrows, PatternAssumption
<1>6. Number(t, I, J) /\ ~Doubled(t, I, J) /\ Size(t, I, J, {"digit"}) \in CardMin .. CardMax
  BY <1>0, <1>1, <1>3, <1>4, <1>5, NumberExtends
<1>7. ~Preceded(t, I, {"digit"})
  <2>1. I > 1 => t[I - 1] = f[I - 1] /\ f[I - 1] # "digit"
    BY <1>0, <1>3, WholeEnds
  <2> QED
    BY <2>1 DEF Preceded
<1>8. ~Followed(t, J, {"digit"})
  <2>1. J < L => t[J + 1] = f[J + 1] /\ f[J + 1] # "digit"
    BY <1>0, <1>3, WholeEnds
  <2> QED
    BY <2>1 DEF Followed
<1>9. CardNumber(t, I, J)
  BY <1>6, <1>7, <1>8 DEF CardNumber
<1>10. ASSUME NEW a \in 1 .. L, NEW b \in a .. L, CardNumber(t, a, b), a <= J, I <= b
       PROVE  I <= a /\ b <= J
  <2>1. Number(f, a, b) /\ a \in 1 .. Len(f) /\ b \in a .. Len(f)
    BY <1>0, <1>10, NumberExtends DEF CardNumber
  <2> QED
    BY <1>0, <1>10, <2>1, WholeContains
<1>11. \A h \in J + 1 .. L : ~CardNumber(t, I, h)
  <2> SUFFICES ASSUME NEW h \in J + 1 .. L, CardNumber(t, I, h) PROVE FALSE
    OBVIOUS
  <2>1. h \in I .. L /\ I <= J /\ I <= h /\ ~(h <= J)
    BY <1>3
  <2> QED
    BY <1>3, <1>10, <2>1
<1>12. Matches("card", t, I, J) /\ "card" \in Patterns
  BY <1>9, <1>11 DEF Matches, Card, Patterns
<1>13. PICK m \in Finditer("card", t) : m[1] <= I /\ I <= m[2]
  BY <1>0, <1>3, <1>12, FinditerComplete
<1> DEFINE a == m[1]
           b == m[2]
<1>14. a \in 1 .. L /\ b \in a .. L /\ Matches("card", t, a, b)
  BY <1>0, FinditerSound DEF Spans
<1>15. ~(a <= SafeCut(t) /\ SafeCut(t) < b)
  BY <1>0, <1>12, SafeCutIs
<1>150. a <= I /\ I <= b
  BY <1>13
<1> HIDE DEF a, b
<1>16. CardNumber(t, a, b) /\ \A h \in b + 1 .. L : ~CardNumber(t, a, h)
  BY <1>14 DEF Matches, Card
<1>17. a = I /\ b <= J
  BY <1>3, <1>10, <1>14, <1>150, <1>16
<1>18. ~(b < J)
  <2> SUFFICES ASSUME b < J PROVE FALSE
    OBVIOUS
  <2>1. J \in b + 1 .. L
    BY <1>3, <1>14
  <2> QED
    BY <1>9, <1>16, <1>17, <2>1
<1>19. b = J
  BY <1>3, <1>14, <1>17, <1>18
<1> QED
  BY <1>15, <1>17, <1>19

\* A number across the cut is too short for a card, and is cut at a space.
LEMMA NumberAcross ==
  ASSUME NEW t, NEW f, GoesOn(t, f), NEW i \in 1 .. SafeCut(t), NEW j \in SafeCut(t) + 1 .. Len(f),
         Number(f, i, j)
  PROVE  Size(f, i, j, {"digit"}) < CardMin /\ "space" \in {f[SafeCut(t)], f[SafeCut(t) + 1]}
<1> DEFINE L == Len(t)
           u == UnsafeSuffix(t)
           k == SafeCut(t)
<1>0. /\ t \in Seq(Chars) /\ L \in Nat /\ Len(f) \in Nat /\ L <= Len(f)
      /\ Extends(f, t) /\ Separable(f) /\ \A p \in 1 .. L : t[p] = f[p]
  BY DEF GoesOn, Extends
<1>00. CardMin \in Nat /\ CardMax \in Nat /\ CardMin <= CardMax
  BY PatternAssumption
<1>1. u \in 0 .. L /\ k \in u .. L
  BY <1>0, SafeCutIs
<1>2. u = L \/ u \in EmailCandidate(t) \cup SsnCandidate(t) \cup CardCandidate(t)
  BY <1>0, SafeCutIs
<1>3. \A e \in EmailCandidate(t) \cup SsnCandidate(t) \cup CardCandidate(t) : u <= e
  BY <1>0, SafeCutIs
<1>4. \A pattern \in Patterns : \A m \in Finditer(pattern, t) : ~(m[1] <= k /\ k < m[2])
  BY <1>0, SafeCutIs
<1>5. \A c \in u .. k - 1 : \E pattern \in Patterns : \E m \in Finditer(pattern, t) : m[1] <= c /\ c < m[2]
  BY <1>0, SafeCutIs
<1>6. i \in 1 .. k /\ j \in k + 1 .. Len(f)
  OBVIOUS
<1>7. PICK I \in 1 .. i, J \in j .. Len(f) : WholeNumber(f, I, J)
  <2>1. i \in 1 .. Len(f) /\ j \in i .. Len(f)
    BY <1>0, <1>1, <1>6
  <2> QED
    BY <1>0, <2>1, NumberIsInWhole
<1> DEFINE D == Size(f, I, J, {"digit"})
<1>8. /\ I \in Int /\ J \in Int /\ k \in Int /\ u \in Int /\ I >= 1 /\ I <= k /\ k < J /\ J <= Len(f) /\ I <= L
      /\ u <= k /\ k <= L /\ I <= i /\ j <= J /\ i \in Int /\ j \in Int
  BY <1>0, <1>1, <1>6, <1>7
<1>9. Size(f, i, j, {"digit"}) \in Nat /\ D \in Nat /\ Size(f, i, j, {"digit"}) <= D
  BY <1>8, SizeGrows
<1>10. Number(f, I, J)
  BY <1>7 DEF WholeNumber
<1>11. \A p \in I .. J : f[p] \in CardChars
  BY <1>10 DEF Number, All
<1>12. D >= CardMin => L < J
  BY <1>7, <1>8, LongNumberIsOpen DEF k
<1> HIDE DEF u, k
\* A complete match at c is an address, digits and hyphens, or long.
<1>13. ASSUME NEW c \in u .. k - 1
       PROVE  \E a \in 1 .. L, b \in 1 .. L :
                /\ a <= c /\ c < b /\ ~(a <= k /\ k < b)
                /\ Email(t, a, b) \/ All(t, a, b, {"digit", "hyphen"}) \/ D >= CardMin \/ ~(a <= J /\ I <= b)
                /\ Email(t, a, b) \/ (a <= J /\ I <= b => I <= a /\ b <= J)
  <2>1. PICK pattern \in Patterns : \E m \in Finditer(pattern, t) : m[1] <= c /\ c < m[2]
    BY <1>5
  <2>2. PICK m \in Finditer(pattern, t) : m[1] <= c /\ c < m[2]
    BY <2>1
  <2> DEFINE a == m[1]
             b == m[2]
  <2>3. Found(t, a, b) /\ a <= c /\ c < b /\ ~(a <= k /\ k < b)
    BY <1>0, <1>4, <2>2, FoundIs
  <2> HIDE DEF a, b
  <2>4. a \in 1 .. L /\ b \in a .. L /\ a \in 1 .. Len(f) /\ b \in a .. Len(f) /\ a \in Int /\ b \in Int /\ b \in 1 .. L
    BY <1>0, <2>3 DEF Found
  <2>5. ASSUME Number(t, a, b), a <= J, I <= b
        PROVE  I <= a /\ b <= J /\ (Size(t, a, b, {"digit"}) >= CardMin => D >= CardMin)
    <3>1. Number(f, a, b) /\ Size(t, a, b, {"digit"}) = Size(f, a, b, {"digit"})
      BY <1>0, <2>4, <2>5, NumberExtends
    <3>2. I <= a /\ b <= J
      BY <1>0, <1>7, <2>4, <2>5, <3>1, WholeContains
    <3>3. Size(f, a, b, {"digit"}) \in Nat /\ Size(f, a, b, {"digit"}) <= D
      BY <1>8, <2>4, <3>2, SizeGrows
    <3> QED
      BY <1>00, <1>9, <3>1, <3>2, <3>3
  <2>6. Email(t, a, b) \/ All(t, a, b, {"digit", "hyphen"}) \/ D >= CardMin \/ ~(a <= J /\ I <= b)
    BY <2>3, <2>5 DEF Found
  <2>7. Email(t, a, b) \/ (a <= J /\ I <= b => I <= a /\ b <= J)
    BY <2>3, <2>5 DEF Found
  <2> QED
    BY <2>3, <2>4, <2>6, <2>7
<1> HIDE DEF D
<1>14. CASE u <= I - 1
  <2>1. I - 1 \in u .. k - 1
    BY <1>8, <1>14
  <2>2. PICK a \in 1 .. L, b \in 1 .. L :
          /\ a <= I - 1 /\ I - 1 < b /\ ~(a <= k /\ k < b)
          /\ Email(t, a, b) \/ (a <= J /\ I <= b => I <= a /\ b <= J)
    BY <1>13, <2>1
  <2>3. Email(t, a, b) /\ a \in Int /\ b \in Int /\ I <= b /\ b <= k /\ b \in a .. L /\ a < I
    BY <1>0, <1>8, <2>2
  <2>4. Address(t, a, b) /\ ~Followed(t, b, DomainChars)
    BY <2>3 DEF Email, Address
  <2>5. PICK at \in a + 1 .. b - 1 : t[at] = "at" /\ All(t, at + 1, b, DomainChars)
    BY <2>3, <2>4, AddressIs
  <2>6. All(t, a, b, CandidateChars)
    BY <2>3, <2>4, AddressIs
  <2>7. at \in Int /\ a + 1 <= at /\ at <= b - 1 /\ at \in 1 .. L
    BY <2>3
  <2>8. All(f, a, b, CandidateChars) /\ All(f, at + 1, b, DomainChars) /\ f[at] = "at"
    BY <1>0, <2>3, <2>5, <2>6, <2>7, AllExtends
  <2>9. D < CardMin
    <3>1. I \in 1 .. Len(f) /\ J \in I .. Len(f) /\ a \in 1 .. J /\ b \in I .. Len(f) /\ at \in a .. b
      BY <1>0, <1>8, <2>3, <2>7
    <3> QED
      BY <1>0, <1>10, <2>8, <3>1, NumberByAt DEF D
  <2>10. \A p \in b + 1 .. b + 1 : p <= J /\ p <= L => f[p] = "space"
    <3> SUFFICES ASSUME b + 1 <= J, b + 1 <= L PROVE f[b + 1] = "space"
      BY <2>3
    <3>1. b + 1 \in I .. J /\ b < L /\ b + 1 \in 1 .. L
      BY <1>8, <2>3
    <3>2. t[b + 1] \notin DomainChars
      BY <2>4, <3>1 DEF Followed
    <3>3. f[b + 1] \in CardChars /\ f[b + 1] = t[b + 1]
      BY <1>0, <1>11, <3>1
    <3> QED
      BY <3>2, <3>3 DEF CardChars, Separators, DomainChars, Alnum
  <2>11. b = k
    <3> SUFFICES ASSUME b < k PROVE FALSE
      BY <1>8, <2>3
    <3>1. f[b + 1] = "space" /\ b + 1 \in 1 .. L
      BY <1>0, <1>8, <2>3, <2>10
    <3>2. b \in u .. k - 1
      BY <1>8, <1>14, <2>3
    <3>3. PICK c \in 1 .. L, d \in 1 .. L :
            /\ c <= b /\ b < d
            /\ Email(t, c, d) \/ All(t, c, d, {"digit", "hyphen"}) \/ D >= CardMin \/ ~(c <= J /\ I <= d)
      BY <1>13, <3>2
    <3>4. c <= J /\ I <= d /\ c \in Int /\ d \in Int /\ d \in c .. L /\ c <= b /\ b < d
      BY <1>8, <2>3, <3>3
    <3>5. CASE Email(t, c, d)
      <4>1. a <= d /\ c <= b
        BY <2>3, <3>4
      <4>2. b = d
        BY <1>0, <2>3, <3>4, <3>5, <4>1, EmailsMeet
      <4> QED
        BY <2>3, <3>4, <4>2
    <3>6. CASE All(t, c, d, {"digit", "hyphen"})
      <4>1. b + 1 \in c .. d
        BY <2>3, <3>4
      <4>2. t[b + 1] \in {"digit", "hyphen"}
        BY <3>6, <4>1 DEF All
      <4> QED
        BY <1>0, <3>1, <4>2
    <3> QED
      BY <1>00, <1>9, <2>9, <3>3, <3>4, <3>5, <3>6
  <2>12. k # L
    <3> SUFFICES ASSUME k = L PROVE FALSE
      OBVIOUS
    <3>0. a \in Nat
      BY <2>3
    <3>1. PICK w \in 0 .. a : All(f, w + 1, a, CandidateChars) /\ (w = 0 \/ f[w] \notin CandidateChars)
      BY <3>0, RunBegins
    <3>2. w # a
      <4>1. a \in a .. b
        BY <2>3
      <4> QED
        BY <2>3, <2>8, <3>1, <4>1 DEF All
    <3>3. w \in 0 .. L /\ w < L /\ w \in Int /\ w < a /\ at \in w + 2 .. L /\ at \in w + 1 .. Len(f)
      BY <1>0, <2>3, <2>7, <3>1, <3>2
    <3>4. All(f, w + 1, b, CandidateChars)
      BY <2>3, <2>8, <3>1, <3>3, RunsMeet
    <3>5. All(f, w + 1, L, CandidateChars) /\ All(f, at + 1, L, DomainChars)
      BY <2>8, <2>11, <3>4
    <3>6. All(f, w + 1, at, CandidateChars)
      BY <1>0, <2>3, <2>7, <3>4 DEF All
    <3>7. u <= w
      BY <2>8, <3>1, <3>3, <3>5, WordIsCandidate DEF u
    <3>8. k <= w
      BY <2>8, <3>1, <3>3, <3>6, <3>7, WordNotCut DEF u, k
    <3> QED
      BY <1>8, <3>3, <3>8
  <2>13. f[k + 1] = "space"
    BY <1>8, <2>10, <2>11, <2>12
  <2> QED
    BY <1>00, <1>9, <2>9, <2>13 DEF k
<1>15. CASE I <= u
  <2>1. CardCandidate(t) # {I - 1}
    <3> SUFFICES ASSUME CardCandidate(t) = {I - 1} PROVE FALSE
      OBVIOUS
    <3>1. I - 1 \in CardCandidate(t)
      OBVIOUS
    <3>2. u <= I - 1
      BY <1>3, <3>1
    <3> QED
      BY <1>8, <1>15, <3>2
  <2>2. ~(J >= L \/ (J + 1 = L /\ t[J + 1] \in Separators /\ D < CardMax))
    BY <1>0, <1>7, <1>8, <2>1, CardCandidateFound DEF D
  <2>3. D < CardMin
    BY <1>00, <1>8, <1>9, <1>12, <2>2
  <2>4. J < L /\ ~(J + 1 = L /\ t[J + 1] \in Separators)
    BY <1>00, <1>8, <1>9, <2>2, <2>3
  <2>5. u < L /\ J + 1 \in u + 1 .. L /\ J + 1 \in 1 .. L /\ u \in I .. J /\ u # 0
    BY <1>0, <1>8, <1>15, <2>4
  <2>6. /\ t[J + 1] # "digit"
        /\ J + 2 <= L /\ t[J + 1] \in CardChars => t[J + 2] # "digit"
    <3>1. /\ J < Len(f) => f[J + 1] # "digit"
          /\ J + 2 <= Len(f) /\ f[J + 1] \in CardChars => f[J + 2] # "digit"
      BY <1>0, <1>7, WholeEnds
    <3>2. f[J + 1] = t[J + 1] /\ (J + 2 <= L => f[J + 2] = t[J + 2])
      BY <1>0, <1>8, <2>5
    <3> QED
      BY <1>0, <1>8, <2>4, <3>1, <3>2
  <2>7. u \notin SsnCandidate(t)
    <3> SUFFICES ASSUME u \in SsnCandidate(t) PROVE FALSE
      OBVIOUS
    <3>1. All(t, u + 1, L, {"digit", "hyphen"}) /\ \A p \in u + 1 .. L - 1 : "digit" \in {t[p], t[p + 1]}
      BY <1>0, SsnCandidateIs
    <3>2. t[J + 1] = "hyphen"
      BY <2>5, <2>6, <3>1 DEF All
    <3>3. J + 2 <= L /\ J + 1 \in u + 1 .. L - 1 /\ (J + 1) + 1 = J + 2
      BY <1>8, <2>4, <2>5, <3>2 DEF Separators
    <3> QED
      BY <2>6, <3>1, <3>2, <3>3 DEF CardChars, Separators
  <2>8. u \notin CardCandidate(t)
    <3> SUFFICES ASSUME u \in CardCandidate(t) PROVE FALSE
      OBVIOUS
    <3>1. All(t, u + 1, L, CardChars) /\ ~Doubled(t, u + 1, L)
      BY <1>0, CardCandidateIs
    <3>2. t[J + 1] \in Separators /\ t[J + 1] \in CardChars
      BY <2>5, <2>6, <3>1 DEF All, CardChars
    <3>3. J + 2 <= L /\ J + 1 \in u + 1 .. L - 1 /\ (J + 1) + 1 = J + 2 /\ J + 2 \in u + 1 .. L
      BY <1>8, <2>4, <2>5, <3>2
    <3>4. t[J + 2] \in Separators
      BY <2>6, <3>1, <3>2, <3>3 DEF All, CardChars
    <3> QED
      BY <3>1, <3>2, <3>3, <3>4 DEF Doubled
  <2>9. u \in EmailCandidate(t)
    BY <1>2, <2>5, <2>7, <2>8
  <2>10. t[u] \notin CandidateChars
    BY <2>5, <2>9, EmailCandidateBegins
  <2>11. f[u] = "space" /\ t[u] = "space"
    <3>1. f[u] \in CardChars /\ f[u] = t[u]
      BY <1>0, <1>1, <1>11, <2>5
    <3> QED
      BY <2>10, <3>1 DEF CardChars, Separators, CandidateChars, LocalChars, DomainChars, Alnum
  <2>12. k = u
    <3> SUFFICES ASSUME u < k PROVE FALSE
      BY <1>8
    <3>1. u \in u .. k - 1
      BY <1>8
    <3>2. PICK c \in 1 .. L, d \in 1 .. L :
            /\ c <= u /\ u < d
            /\ Email(t, c, d) \/ All(t, c, d, {"digit", "hyphen"}) \/ D >= CardMin \/ ~(c <= J /\ I <= d)
      BY <1>13, <3>1
    <3>3. c <= J /\ I <= d /\ c \in Int /\ d \in Int /\ u \in c .. d
      BY <1>8, <1>15, <3>2
    <3>4. CASE Email(t, c, d)
      <4>1. Address(t, c, d)
        BY <3>4 DEF Email, Address
      <4>2. All(t, c, d, CandidateChars)
        BY <3>3, <4>1, AddressIs
      <4> QED
        BY <2>10, <3>3, <4>2 DEF All
    <3>5. CASE All(t, c, d, {"digit", "hyphen"})
      BY <2>11, <3>3, <3>5 DEF All
    <3> QED
      BY <1>00, <1>9, <2>3, <3>2, <3>3, <3>4, <3>5
  <2> QED
    BY <1>00, <1>9, <2>3, <2>11, <2>12 DEF k
<1>16. u <= I - 1 \/ I <= u
  BY <1>8
<1> QED
  BY <1>14, <1>15, <1>16

\* Whatever follows the buffered text t, if the values of the whole text f stand
\* apart, no value crosses the cut of _unsafe_suffix_start() and
\* _extend_cut_over_complete_pii() (redactor.py:251-269, 73-94, 294-300).
THEOREM SafeCutSeals ==
  ASSUME NEW t, NEW f, GoesOn(t, f)
  PROVE  Sealed(f, SafeCut(t))
<1> DEFINE k == SafeCut(t)
           n == Len(f)
<1>0. Len(t) \in Nat /\ n \in Nat /\ Len(t) <= n
  BY DEF GoesOn, Extends
<1>1. k \in 0 .. Len(t)
  BY <1>0, SafeCutIs
<1>2. ASSUME k >= 1, f[k] \in CandidateChars, NEW q \in k + 1 .. n, All(f, k + 1, q, CandidateChars), f[q] = "at"
      PROVE  FALSE
  BY <1>2, AtNotAcross
<1>3. ASSUME NEW i \in 1 .. k, NEW j \in k .. n, k < n, Begun(f, i, j), j > k \/ f[k + 1] \in DomainChars
      PROVE  FALSE
  BY <1>3, AddressNotAcross
<1>4. ASSUME NEW i \in 1 .. k, NEW j \in k + 1 .. n, Number(f, i, j)
      PROVE  Size(f, i, j, {"digit"}) < CardMin /\ "space" \in {f[k], f[k + 1]}
  BY <1>4, NumberAcross
<1>5. Separable(From(f, k))
  BY RestStandsApart
<1> HIDE DEF k
<1>6. \A i \in 1 .. k, j \in k + 1 .. n : ~Begun(f, i, j)
  <2> SUFFICES ASSUME NEW i \in 1 .. k, NEW j \in k + 1 .. n, Begun(f, i, j) PROVE FALSE
    OBVIOUS
  <2>1. j \in k .. n /\ k < n /\ j > k
    BY <1>0, <1>1
  <2> QED
    BY <1>3, <2>1
<1>7. \A i \in 1 .. k : k < n /\ Begun(f, i, k) => f[k + 1] \notin DomainChars
  <2> SUFFICES ASSUME NEW i \in 1 .. k, k < n, Begun(f, i, k), f[k + 1] \in DomainChars PROVE FALSE
    OBVIOUS
  <2>1. k \in k .. n
    BY <1>0, <1>1
  <2> QED
    BY <1>3, <2>1
<1>8. k >= 1 /\ f[k] \in CandidateChars =>
        \A q \in k + 1 .. n : All(f, k + 1, q, CandidateChars) => f[q] # "at"
  BY <1>2
<1>9. Sealed(f, k)
  BY <1>4, <1>5, <1>6, <1>7, <1>8 DEF Sealed
<1> QED
  BY <1>9 DEF k

-----------------------------------------------------------------------------
LEMMA FromTwice ==
  ASSUME NEW S, NEW t \in Seq(S), NEW c \in 0 .. Len(t), NEW k \in 0 .. Len(t) - c
  PROVE  From(From(t, c), k) = From(t, c + k)
<1> DEFINE n == Len(t)
           g == From(t, c)
           x == From(g, k)
           y == From(t, c + k)
<1>0. n \in Nat /\ c \in Nat /\ k \in Nat /\ c + k <= n /\ c + k \in 0 .. n
  OBVIOUS
<1>1. g \in Seq(S) /\ Len(g) = n - c
  BY FromIs
<1>10. \A p \in 1 .. n - c : g[p] = t[c + p]
  BY FromIs
<1> HIDE DEF g
<1>2. k \in 0 .. Len(g)
  BY <1>0, <1>1
<1>3. x \in Seq(S) /\ Len(x) = Len(g) - k
  BY <1>1, <1>2, FromIs
<1>30. \A p \in 1 .. Len(g) - k : x[p] = g[k + p]
  BY <1>1, <1>2, FromIs
<1>4. y \in Seq(S) /\ Len(y) = n - (c + k)
  BY <1>0, FromIs
<1>40. \A p \in 1 .. n - (c + k) : y[p] = t[(c + k) + p]
  BY <1>0, FromIs
<1> HIDE DEF x, y
<1>5. Len(x) = Len(y)
  BY <1>0, <1>1, <1>3, <1>4
<1>6. \A p \in 1 .. Len(y) : x[p] = y[p]
  <2> TAKE p \in 1 .. Len(y)
  <2>1. p \in 1 .. Len(g) - k /\ p \in 1 .. n - (c + k) /\ k + p \in 1 .. n - c /\ c + (k + p) = (c + k) + p
    BY <1>0, <1>1, <1>4
  <2> QED
    BY <1>10, <1>30, <1>40, <2>1
<1>7. x = y
  BY <1>3, <1>4, <1>5, <1>6, SeqEqual
<1> QED
  BY <1>7 DEF x, y, g

LEMMA UptoTwice ==
  ASSUME NEW S, NEW t \in Seq(S), NEW c \in 0 .. Len(t), NEW k \in 0 .. Len(t) - c
  PROVE  /\ Upto(Upto(t, c + k), c) = Upto(t, c)
         /\ From(Upto(t, c + k), c) = Upto(From(t, c), k)
<1> DEFINE n == Len(t)
           d == c + k
           a == Upto(t, d)
           g == From(t, c)
           x == From(a, c)
           y == Upto(g, k)
           v == Upto(a, c)
           w == Upto(t, c)
<1>0. n \in Nat /\ c \in Nat /\ k \in Nat /\ d \in 0 .. n /\ d - c = k /\ c <= d /\ d \in Nat
  OBVIOUS
<1>1. a \in Seq(S) /\ Len(a) = d
  BY <1>0, UptoIs
<1>10. \A p \in 1 .. d : a[p] = t[p]
  BY <1>0, UptoIs
<1>2. g \in Seq(S) /\ Len(g) = n - c
  BY <1>0, FromIs
<1>20. \A p \in 1 .. n - c : g[p] = t[c + p]
  BY <1>0, FromIs
<1>7. w \in Seq(S) /\ Len(w) = c
  BY UptoIs
<1>70. \A p \in 1 .. c : w[p] = t[p]
  BY UptoIs
<1> HIDE DEF a, g, d, w
<1>3. c \in 0 .. Len(a) /\ k \in 0 .. Len(g)
  BY <1>0, <1>1, <1>2
<1>4. x \in Seq(S) /\ Len(x) = Len(a) - c
  BY <1>1, <1>3, FromIs
<1>40. \A p \in 1 .. Len(a) - c : x[p] = a[c + p]
  BY <1>1, <1>3, FromIs
<1>5. y \in Seq(S) /\ Len(y) = k
  BY <1>2, <1>3, UptoIs
<1>50. \A p \in 1 .. k : y[p] = g[p]
  BY <1>2, <1>3, UptoIs
<1>6. v \in Seq(S) /\ Len(v) = c
  BY <1>1, <1>3, UptoIs
<1>60. \A p \in 1 .. c : v[p] = a[p]
  BY <1>1, <1>3, UptoIs
<1> HIDE DEF x, y, v
<1>8. x = y
  <2>1. \A p \in 1 .. k : x[p] = y[p]
    <3> TAKE p \in 1 .. k
    <3>1. p \in 1 .. Len(a) - c /\ c + p \in 1 .. d /\ p \in 1 .. n - c
      BY <1>0, <1>1
    <3> QED
      BY <1>10, <1>20, <1>40, <1>50, <3>1
  <2> QED
    BY <1>0, <1>1, <1>4, <1>5, <2>1, SeqEqual
<1>9. v = w
  <2>1. \A p \in 1 .. c : v[p] = w[p]
    BY <1>0, <1>10, <1>60, <1>70
  <2> QED
    BY <1>6, <1>7, <2>1, SeqEqual
<1> QED
  BY <1>8, <1>9 DEF x, y, v, w, a, g, d

\* A cut that seals what is left of a sealed cut seals the text.
LEMMA SealsJoin ==
  ASSUME NEW f \in Seq(Chars), NEW c \in 0 .. Len(f), NEW k \in 0 .. Len(f) - c,
         Separable(f), Sealed(f, c), Sealed(From(f, c), k)
  PROVE  Sealed(f, c + k)
<1> DEFINE n == Len(f)
           g == From(f, c)
           d == c + k
           m == n - c
<1>0. n \in Nat /\ c \in Nat /\ k \in Nat /\ d = c + k /\ d <= n /\ d \in Nat /\ m \in Nat /\ k <= m /\ c + m = n
  OBVIOUS
<1>1. Len(g) = m
  BY FromIs
<1>2. \A p \in 1 .. m : g[p] = f[c + p]
  BY FromIs
<1>3. \A i \in 1 .. m, j \in 1 .. m : Moved(g, f, c, i, j)
  BY PartsMoved
<1>4. From(g, k) = From(f, d)
  BY FromTwice
<1>5. Sealed(g, k)
  OBVIOUS
<1>6. d = 0 + c => k = 0
  BY <1>0
<1> SUFFICES Sealed(f, d)
  OBVIOUS
<1> HIDE DEF g, d, m
<1>7. CASE k = 0
  <2>1. d = c
    BY <1>0, <1>7
  <2> QED
    BY <2>1
<1>8. CASE k >= 1
  <2>1. /\ g[k] \in CandidateChars => \A q \in k + 1 .. m : All(g, k + 1, q, CandidateChars) => g[q] # "at"
        /\ \A i \in 1 .. k, j \in k + 1 .. m : ~Begun(g, i, j)
        /\ \A i \in 1 .. k : k < m /\ Begun(g, i, k) => g[k + 1] \notin DomainChars
        /\ Separable(From(g, k))
        /\ \A i \in 1 .. k, j \in k + 1 .. m :
             Number(g, i, j) => Size(g, i, j, {"digit"}) < CardMin /\ "space" \in {g[k], g[k + 1]}
    BY <1>1, <1>5, <1>8 DEF Sealed
  <2>2. /\ \A i \in 1 .. c, j \in c + 1 .. n : ~Begun(f, i, j)
        /\ \A i \in 1 .. c, j \in c + 1 .. n :
             Number(f, i, j) => Size(f, i, j, {"digit"}) < CardMin /\ "space" \in {f[c], f[c + 1]}
    BY DEF Sealed
  <2>3. g[k] = f[d] /\ (k < m => g[k + 1] = f[d + 1]) /\ k \in 1 .. m
    <3>1. k \in 1 .. m /\ (k < m => k + 1 \in 1 .. m /\ c + (k + 1) = d + 1)
      BY <1>0, <1>8
    <3> QED
      BY <1>0, <1>2, <3>1
  <2>4. ASSUME NEW i \in c + 1 .. d, NEW j \in d .. n, i <= j, Begun(f, i, j)
        PROVE  i - c \in 1 .. k /\ j - c \in k .. m /\ Begun(g, i - c, j - c)
    <3> DEFINE a == i - c
               b == j - c
    <3>1. a \in 1 .. k /\ b \in k .. m /\ a \in 1 .. m /\ b \in 1 .. m /\ c + a = i /\ c + b = j /\ a \in Int /\ b \in Int
      BY <1>0, <1>8, <2>4
    <3> HIDE DEF a, b
    <3>2. Address(g, a, b) <=> Address(f, c + a, c + b)
      BY <1>0, <1>3, <3>1, AddressMoved
    <3>3. ~Preceded(g, a, LocalChars)
      <4>1. CASE a = 1
        BY <4>1 DEF Preceded
      <4>2. CASE a > 1
        <5>1. a - 1 \in 1 .. m /\ c + (a - 1) = i - 1 /\ i > 1
          BY <1>0, <3>1, <4>2
        <5> QED
          BY <1>2, <2>4, <5>1 DEF Begun, Preceded
      <4> QED
        BY <3>1, <4>1, <4>2
    <3>4. Begun(g, a, b)
      BY <2>4, <3>1, <3>2, <3>3 DEF Begun
    <3> QED
      BY <3>1, <3>4 DEF a, b
  <2>5. ASSUME f[d] \in CandidateChars, NEW q \in d + 1 .. n, All(f, d + 1, q, CandidateChars)
        PROVE  f[q] # "at"
    <3> DEFINE r == q - c
    <3>1. r \in k + 1 .. m /\ r \in 1 .. m /\ c + r = q /\ k + 1 \in 1 .. m /\ c + (k + 1) = d + 1
      BY <1>0, <1>8
    <3> HIDE DEF r
    <3>2. Moved(g, f, c, k + 1, r) /\ c \in Int /\ k + 1 \in Int /\ r \in Int
      BY <1>0, <1>3, <3>1
    <3>3. All(g, k + 1, r, CandidateChars) <=> All(f, c + (k + 1), c + r, CandidateChars)
      BY <3>2, AllMoved
    <3>4. All(g, k + 1, r, CandidateChars)
      BY <2>5, <3>1, <3>3
    <3>5. g[r] = f[q]
      BY <1>2, <3>1
    <3> QED
      BY <2>1, <2>3, <2>5, <3>1, <3>4, <3>5
  <2>6. ASSUME NEW i \in 1 .. d, NEW j \in d + 1 .. n, Begun(f, i, j)
        PROVE  FALSE
    <3>1. CASE i <= c
      <4>1. i \in 1 .. c /\ j \in c + 1 .. n
        BY <1>0, <3>1
      <4> QED
        BY <2>2, <2>6, <4>1
    <3>2. CASE i > c
      <4>1. i \in c + 1 .. d /\ j \in d .. n /\ i <= j
        BY <1>0, <3>2
      <4>2. i - c \in 1 .. k /\ Begun(g, i - c, j - c)
        BY <2>4, <2>6, <4>1
      <4>3. j - c \in k + 1 .. m
        BY <1>0
      <4> QED
        BY <2>1, <4>2, <4>3
    <3> QED
      BY <1>0, <3>1, <3>2
  <2>7. ASSUME NEW i \in 1 .. d, d < n, Begun(f, i, d)
        PROVE  f[d + 1] \notin DomainChars
    <3>1. CASE i <= c
      <4>1. i \in 1 .. c /\ d \in c + 1 .. n
        BY <1>0, <1>8, <3>1
      <4> QED
        BY <2>2, <2>7, <4>1
    <3>2. CASE i > c
      <4>1. i \in c + 1 .. d /\ d \in d .. n /\ i <= d /\ d - c = k /\ k < m
        BY <1>0, <2>7, <3>2
      <4>2. i - c \in 1 .. k /\ Begun(g, i - c, k)
        BY <2>4, <2>7, <4>1
      <4> QED
        BY <2>1, <2>3, <4>1, <4>2
    <3> QED
      BY <1>0, <3>1, <3>2
  <2>8. ASSUME NEW i \in c + 1 .. d, NEW j \in d + 1 .. n, Number(f, i, j)
        PROVE  Size(f, i, j, {"digit"}) < CardMin /\ "space" \in {f[d], f[d + 1]}
    <3> DEFINE a == i - c
               b == j - c
    <3>1. a \in 1 .. k /\ b \in k + 1 .. m /\ a \in 1 .. m /\ b \in 1 .. m /\ c + a = i /\ c + b = j /\ a \in Int /\ b \in Int /\ a <= b /\ k < m
      BY <1>0, <1>8
    <3> HIDE DEF a, b
    <3>2. Moved(g, f, c, a, b) /\ c \in Int
      BY <1>0, <1>3, <3>1
    <3>3. Number(g, a, b) <=> Number(f, c + a, c + b)
      BY <3>1, <3>2, NumberMoved
    <3>4. Size(g, a, b, {"digit"}) = Size(f, c + a, c + b, {"digit"})
      BY <3>1, <3>2, SizeMoved
    <3> QED
      BY <2>1, <2>3, <2>8, <3>1, <3>3, <3>4
  <2>9. ASSUME NEW i \in 1 .. c, NEW j \in d + 1 .. n, Number(f, i, j)
        PROVE  Size(f, i, j, {"digit"}) < CardMin /\ "space" \in {f[d], f[d + 1]}
    <3>1. j \in c + 1 .. n /\ i \in 1 .. n /\ j \in 1 .. n /\ i <= j /\ c >= 1
      BY <1>0
    <3>2. Size(f, i, j, {"digit"}) < CardMin /\ "space" \in {f[c], f[c + 1]}
      BY <2>2, <2>9, <3>1
    <3>3. ~Doubled(f, i, j)
      BY <2>9, <3>1 DEF Separable
    <3>4. CASE \E p \in c + 1 .. d : f[p] = "digit"
      <4>1. PICK p \in c + 1 .. d : f[p] = "digit"
        BY <3>4
      <4>2. Number(f, p, j)
        <5>1. \A q \in p .. j : q \in i .. j
          BY <1>0
        <5> QED
          BY <2>9, <4>1, <5>1 DEF Number, All
      <4> QED
        BY <2>8, <3>2, <4>1, <4>2
    <3>5. CASE \A p \in c + 1 .. d : f[p] # "digit"
      <4>1. \A p \in c + 1 .. d : f[p] \in Separators
        <5> TAKE p \in c + 1 .. d
        <5>1. p \in i .. j
          BY <1>0
        <5> QED
          BY <2>9, <3>5, <5>1 DEF Number, All, CardChars
      <4>2. d = c + 1
        <5> SUFFICES ASSUME d # c + 1 PROVE FALSE
          OBVIOUS
        <5>1. c + 1 \in i .. j - 1 /\ c + 1 \in c + 1 .. d /\ (c + 1) + 1 \in c + 1 .. d
          BY <1>0, <1>8
        <5> QED
          BY <3>3, <4>1, <5>1 DEF Doubled
      <4>3. f[c + 1] \in Separators
        BY <1>0, <4>1, <4>2
      <4>4. f[c] \notin Separators
        <5>1. c \in i .. j - 1
          BY <1>0
        <5> QED
          BY <3>3, <4>3, <5>1 DEF Doubled
      <4>5. f[d] = "space"
        BY <3>2, <4>2, <4>4 DEF Separators
      <4> QED
        BY <3>2, <4>5
    <3> QED
      BY <3>4, <3>5
  <2>10. \A i \in 1 .. d, j \in d + 1 .. n :
           Number(f, i, j) => Size(f, i, j, {"digit"}) < CardMin /\ "space" \in {f[d], f[d + 1]}
    <3> TAKE i \in 1 .. d, j \in d + 1 .. n
    <3>1. i \in 1 .. c \/ i \in c + 1 .. d
      BY <1>0
    <3> QED
      BY <2>8, <2>9, <3>1
  <2>11. Separable(From(f, d))
    BY <1>4, <2>1
  <2> QED
    BY <2>5, <2>6, <2>7, <2>10, <2>11 DEF Sealed
<1> QED
  BY <1>0, <1>7, <1>8

\* What is shown up to the next of two sealed cuts is what was shown up to the
\* first and the redaction of what is between them.
LEMMA RedactedGoesOn ==
  ASSUME NEW f \in Seq(Chars), NEW c \in 0 .. Len(f), NEW k \in 0 .. Len(f) - c,
         Sealed(f, c), Sealed(From(f, c), k), Sealed(f, c + k)
  PROVE  Redacted(Upto(f, c + k)) = Redacted(Upto(f, c)) \o Redacted(Upto(From(f, c), k))
<1> DEFINE T == Shown \cup {"gone"}
           d == c + k
           M == Masked(f)
           X == Upto(M, d)
           g == From(f, c)
<1>0. d \in 0 .. Len(f)
  OBVIOUS
<1>1. Chars \cup Marks = T
  BY DEF Shown, Marks
<1>2. M \in Seq(T) /\ Len(M) = Len(f)
  BY <1>1, MaskedHides DEF Hides
<1>3. Upto(M, c) = Masked(Upto(f, c)) /\ From(M, c) = Masked(g)
  BY MaskedSplits
<1>4. X = Masked(Upto(f, d))
  BY <1>0, MaskedSplits
<1>5. g \in Seq(Chars) /\ k \in 0 .. Len(g)
  BY FromIs
<1>6. Sealed(g, k)
  OBVIOUS
<1> HIDE DEF g
<1>7. Upto(Masked(g), k) = Masked(Upto(g, k))
  BY <1>5, <1>6, MaskedSplits
<1> HIDE DEF M, T
<1>8. c \in 0 .. Len(M) /\ k \in 0 .. Len(M) - c /\ d \in 0 .. Len(M)
  BY <1>0, <1>2
<1>9. Upto(X, c) = Upto(M, c) /\ From(X, c) = Upto(From(M, c), k)
  BY <1>2, <1>8, UptoTwice
<1>10. X \in Seq(T) /\ Len(X) = d
  BY <1>2, <1>8, UptoIs
<1> HIDE DEF X
<1>11. Present(X) = Present(Upto(X, c)) \o Present(From(X, c))
  <2>1. X \in Seq(Shown \cup {"gone"}) /\ c \in 0 .. Len(X)
    BY <1>0, <1>10 DEF T
  <2> QED
    BY <2>1, PresentJoins
<1> QED
  BY <1>3, <1>4, <1>7, <1>9, <1>11 DEF Redacted, g

LEMMA NothingRedacted == Redacted(<<>>) = <<>>
<1>1. <<>> \in Seq(Chars) /\ Len(<<>>) = 0
  OBVIOUS
<1> DEFINE e == <<>>
<1>2. e \in Seq(Chars) /\ Len(e) = 0
  BY <1>1
<1> HIDE DEF e
<1>3. Masked(e) \in Seq(Chars \cup Marks) /\ Len(Masked(e)) = 0
  BY <1>2, MaskedHides DEF Hides
<1>4. Chars \cup Marks = Shown \cup {"gone"}
  BY DEF Shown, Marks
<1> DEFINE x == Masked(e)
<1>5. x \in Seq(Shown \cup {"gone"}) /\ Len(x) = 0
  BY <1>3, <1>4
<1> HIDE DEF x
<1>6. PICK rest : Rests(rest, x, Shown) /\ rest[1] = Present(x)
  BY <1>5, PresentRecursion
<1>7. rest[1] = <<>>
  <2>1. 1 \in 1 .. Len(x) + 1 /\ 1 > Len(x)
    BY <1>5
  <2> QED
    BY <1>6, <2>1 DEF Rests
<1>8. Redacted(e) = <<>>
  BY <1>6, <1>7 DEF Redacted, x
<1> QED
  BY <1>8 DEF e

LEMMA StartIsSealed ==
  ASSUME NEW f \in Seq(Chars), Separable(f)
  PROVE  Sealed(f, 0)
<1>1. From(f, 0) = f
  <2>1. 0 \in 0 .. Len(f) /\ Len(f) - 0 = Len(f) /\ \A p \in 1 .. Len(f) : 0 + p = p
    OBVIOUS
  <2>2. From(f, 0) \in Seq(Chars) /\ Len(From(f, 0)) = Len(f) - 0
    BY <2>1, FromIs
  <2>3. \A p \in 1 .. Len(f) - 0 : From(f, 0)[p] = f[0 + p]
    BY <2>1, FromIs
  <2> DEFINE x == From(f, 0)
  <2>4. x \in Seq(Chars) /\ Len(x) = Len(f) /\ \A p \in 1 .. Len(f) : x[p] = f[p]
    BY <2>1, <2>2, <2>3
  <2> HIDE DEF x
  <2>5. x = f
    BY <2>4, SeqEqual
  <2> QED
    BY <2>5 DEF x
<1> QED
  BY <1>1 DEF Sealed
=============================================================================
