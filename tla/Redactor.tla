------------------------------ MODULE Redactor ------------------------------
(***************************************************************************)
(* The text operators of Task 3's StreamingRedactor (redactor.py): the     *)
(* three patterns, their substitution, and the classifiers that decide how *)
(* much of the buffered text may be released.                              *)
(*                                                                         *)
(* A text is a sequence of character classes: the patterns and classifiers *)
(* ask nothing else of a character.  Positions are 1-based; a cut is the   *)
(* number of characters released, as in text[:cut].  The limits of the     *)
(* code are constants, so that short texts reach them.                     *)
(***************************************************************************)
EXTENDS Integers, Sequences, FiniteSets, FiniteSetsExt

CONSTANTS
    LocalMax,   \* MAX_EMAIL_LOCAL_CHARS, and {1,64} in EMAIL_RE
    LabelMax,   \* the longest domain label, 63
    EmailSpan,  \* MAX_EMAIL_SPAN_CHARS = MAX_PENDING_CHARS
    SsnMask,    \* _SSN_MASK, a sequence of "digit" and "hyphen"
    CardMin,    \* the fewest digits of a card, 13
    CardMax     \* the most digits of a card, 19

ASSUME PatternAssumption ==
    /\ {LocalMax, LabelMax, EmailSpan, CardMin, CardMax} \subseteq Nat \ {0}
    /\ CardMin <= CardMax
    /\ SsnMask \in Seq({"digit", "hyphen"})

\* The mask is groups of digits with one hyphen between two of them.
ASSUME MaskAssumption ==
    /\ SsnMask # <<>>
    /\ SsnMask[1] = "digit"
    /\ SsnMask[Len(SsnMask)] = "digit"
    /\ \A p \in 1 .. Len(SsnMask) - 1 : "digit" \in {SsnMask[p], SsnMask[p + 1]}

CardSpan == 2 * CardMax - 1

\* Of the supported values an address is the longest: 11 and 37 against 320.
ASSUME SpanAssumption == {Len(SsnMask), CardSpan} \subseteq 0 .. EmailSpan

\* A number too short for a card, 12 digits and 11 separators, is no longer than
\* a local part, 64.
ASSUME NumberAssumption == 2 * CardMin - 3 <= LocalMax

Alnum == {"digit", "letter"}
DomainChars == Alnum \cup {"dot", "hyphen"}
LocalChars == DomainChars \cup {"plus"}
CandidateChars == LocalChars \cup {"at"}
Separators == {"space", "hyphen"}
CardChars == {"digit"} \cup Separators

\* "lone" is half of a surrogate pair, which JSON can carry and UTF-8 cannot.
Chars == CandidateChars \cup {"space", "other", "lone"}

\* "mark" is "[REDACTED]": its brackets are in none of the classes above.
Shown == Chars \cup {"mark"}

Size(t, i, j, S) == Cardinality({p \in i .. j : t[p] \in S})
All(t, i, j, S) == \A p \in i .. j : t[p] \in S
Preceded(t, i, S) == i > 1 /\ t[i - 1] \in S
Followed(t, j, S) == j < Len(t) /\ t[j + 1] \in S
Doubled(t, i, j) == \E p \in i .. j - 1 : {t[p], t[p + 1]} \subseteq Separators

(***************************************************************************)
(* The patterns: where one matches in t, from i to j.                      *)
(***************************************************************************)
\* label(.label)+, each label of at most LabelMax characters with
\* alphanumeric ends.
DomainName(t, i, j) ==
    LET dots == {p \in i .. j : t[p] = "dot"}
    IN  /\ All(t, i, j, DomainChars)
        /\ dots # {}
        /\ \A p \in i .. j :
               {p - 1, p + 1} \cap (dots \cup {i - 1, j + 1}) # {} => t[p] \in Alnum
        /\ \A p \in i .. j - LabelMax : dots \cap p .. p + LabelMax # {}

Email(t, i, j) ==
    /\ \E at \in i + 1 .. j - 1 :
          /\ t[at] = "at"
          /\ at - i <= LocalMax
          /\ All(t, i, at - 1, LocalChars)
          /\ DomainName(t, at + 1, j)
    /\ ~Preceded(t, i, LocalChars)
    /\ ~Followed(t, j, DomainChars)

Ssn(t, i, j) ==
    /\ SubSeq(t, i, j) = SsnMask
    /\ ~Preceded(t, i, {"digit"})
    /\ ~Followed(t, j, {"digit"})

Number(t, i, j) ==
    /\ All(t, i, j, CardChars)
    /\ t[i] = "digit"
    /\ t[j] = "digit"

CardNumber(t, i, j) ==
    /\ Number(t, i, j)
    /\ ~Doubled(t, i, j)
    /\ Size(t, i, j, {"digit"}) \in CardMin .. CardMax
    /\ ~Preceded(t, i, {"digit"})
    /\ ~Followed(t, j, {"digit"})

\* The repetition is greedy: the longest card that begins at i.
Card(t, i, j) ==
    CardNumber(t, i, j) /\ \A k \in j + 1 .. Len(t) : ~CardNumber(t, i, k)

Patterns == {"email", "ssn", "card"}

Matches(pattern, t, i, j) ==
    \/ pattern = "email" /\ Email(t, i, j)
    \/ pattern = "ssn" /\ Ssn(t, i, j)
    \/ pattern = "card" /\ Card(t, i, j)

\* The leftmost matches that do not overlap, as <<first, last>> pairs.
Finditer(pattern, t) ==
    LET found[i \in 1 .. Len(t) + 1] ==
            IF i > Len(t) THEN {}
            ELSE LET last == {j \in i .. Len(t) : Matches(pattern, t, i, j)}
                 IN  IF last = {} THEN found[i + 1]
                     ELSE {<<i, Max(last)>>} \cup found[Max(last) + 1]
    IN  found[1]

\* Every match becomes one mark, at the place of its first character; nothing
\* is left of the others ("gone"), which no pattern can match either.
Sub(pattern, t) ==
    LET matches == Finditer(pattern, t)
    IN  [p \in 1 .. Len(t) |->
            IF \E m \in matches : p = m[1] THEN "mark"
            ELSE IF \E m \in matches : p \in m[1] .. m[2] THEN "gone"
            ELSE t[p]]

\* _redact_complete, before what is gone is taken out.
Masked(t) == Sub("card", Sub("ssn", Sub("email", t)))

Present(t) ==
    LET rest[i \in 1 .. Len(t) + 1] ==
            IF i > Len(t) THEN <<>>
            ELSE IF t[i] = "gone" THEN rest[i + 1]
            ELSE <<t[i]>> \o rest[i + 1]
    IN  rest[1]

\* _redact_complete
Redacted(t) == Present(Masked(t))

(***************************************************************************)
(* The classifiers: the cuts before trailing text that may still become a  *)
(* value, as a set that is empty where the code returns None.              *)
(***************************************************************************)
\* The start of the trailing run of S before position end, of at most limit
\* characters.
RunStart(t, end, S, limit) ==
    Min({s \in Max({0, end - limit}) .. end : All(t, s + 1, end, S)})

\* Mutant: a trailing word is held back only until its "@" arrives.
EmailCandidateUntilAt(t) ==
    LET start == RunStart(t, Len(t), LocalChars, LocalMax)
    IN  IF start < Len(t) /\ ~Preceded(t, start + 1, {"at"}) THEN {start} ELSE {}

\* Mutant: the run of a trailing address has no limit.
EmailCandidateUnbounded(t) ==
    LET end == Len(t)
        ats == {p \in 1 .. end : All(t, p, end, CandidateChars) /\ t[p] = "at"}
        tail == IF ats = {} THEN end ELSE Max(ats) - 1
        start == RunStart(t, tail, LocalChars, LocalMax)
    IN  IF start < tail /\ All(t, tail + 2, end, DomainChars) THEN {start} ELSE {}

EmailCandidate(t) ==
    LET end == Len(t)
        run == RunStart(t, end, CandidateChars, EmailSpan)
        ats == {p \in run + 1 .. end : t[p] = "at"}
        tail == IF ats = {} THEN end ELSE Max(ats) - 1
        start == Max({run, RunStart(t, tail, LocalChars, LocalMax)})
    IN  IF start < tail /\ All(t, tail + 2, end, DomainChars) THEN {start} ELSE {}

SsnCandidate(t) ==
    {Len(t) - n : n \in {m \in 1 .. Min({Len(SsnMask), Len(t)}) :
        SubSeq(t, Len(t) - m + 1, Len(t)) = SubSeq(SsnMask, 1, m)}}

CardCandidate(t) ==
    LET end == Len(t)
        run == RunStart(t, end, CardChars, CardSpan)
        digits == {p \in run + 1 .. end : t[p] = "digit"}
    IN  IF /\ Cardinality(digits) \in 1 .. CardMax
           /\ ~Doubled(t, Min(digits), end)
        THEN {Min(digits) - 1}
        ELSE {}

UnsafeSuffix(t) ==
    Min({Len(t)} \cup EmailCandidate(t) \cup SsnCandidate(t) \cup CardCandidate(t))

\* Mutant: the regression TASK3_WALKTHROUGH.md tells of, where the candidate of
\* one classifier splits a complete match of another.
KeepCut(t, cut) == cut

\* _extend_cut_over_complete_pii: its loop ends at the first cut that no
\* complete match contains.
ExtendCut(t, cut) ==
    LET complete == UNION {Finditer(pattern, t) : pattern \in Patterns}
    IN  Min({Len(t)} \cup
            {c \in cut .. Len(t) : \A m \in complete : ~(m[1] - 1 < c /\ c < m[2])})

\* What feed() releases of the buffered text t, before the memory bound.
SafeCut(t) == ExtendCut(t, UnsafeSuffix(t))

\* Mutant: the bound is one character too small.
BoundedCutEarly(t) == Max({SafeCut(t), Len(t) - EmailSpan + 1})

\* MAX_PENDING_CHARS: what exceeds it is released unresolved.
BoundedCut(t) == Max({SafeCut(t), Len(t) - EmailSpan})

(***************************************************************************)
(* Texts whose values stand apart, which no definition above asks for.     *)
(***************************************************************************)
\* A run of characters in the domain of an address: after an "@" that follows
\* a local part.
InDomain(t, i, j) ==
    \E at \in 2 .. i - 1 :
        /\ t[at] = "at"
        /\ t[at - 1] \in LocalChars
        /\ All(t, at + 1, j, DomainChars)

\* Texts whose values stand apart.  A word fits an address: it has at most
\* EmailSpan characters and one "@", its labels after the "@" have at most
\* LabelMax characters and its runs before it at most LocalMax.  A number fits
\* a card: at most CardMax digits and no two separators in a row.  A number as
\* long as a card shares no word with an "@".
Separable(t) ==
    \A i, j \in 1 .. Len(t) : i <= j =>
        /\ All(t, i, j, CandidateChars) =>
              j - i < EmailSpan /\ ({t[i], t[j]} = {"at"} => i = j)
        /\ All(t, i, j, DomainChars \ {"dot"}) /\ InDomain(t, i, j) => j - i < LabelMax
        /\ All(t, i, j, LocalChars) => j - i < LocalMax \/ InDomain(t, i, j)
        /\ Number(t, i, j) => Size(t, i, j, {"digit"}) <= CardMax /\ ~Doubled(t, i, j)
        /\ Number(t, i, j) /\ Size(t, i, j, {"digit"}) >= CardMin =>
              \A k \in 1 .. j, l \in i .. Len(t) :
                  All(t, k, l, CandidateChars) => All(t, k, l, LocalChars)
=============================================================================
