------------------------- MODULE GuardedStreamProofs -------------------------
(* Proofs about GuardedStream for every limit and every way to cut the text:  *)
(* the memory bound of feed() never forces an unresolved candidate out, what  *)
(* is held back is the end of what was received, and the client sees what     *)
(* redacting the whole text at once would show.                               *)
EXTENDS GuardedStream, RedactorProofs

-----------------------------------------------------------------------------
\* Nothing is lost or invented between two releases: what is held back is the
\* end of what was received.
WithheldIsEnd ==
  /\ Len(pending) <= Len(received)
  /\ pending = SubSeq(received, Len(received) - Len(pending) + 1, Len(received))

IInv == TypeOK /\ WithheldIsEnd

\* How much of what was received is released.
Released == Len(received) - Len(pending)

LEMMA WithheldIs ==
  ASSUME IInv
  PROVE  /\ Released \in 0 .. Len(received) /\ Len(received) - Released = Len(pending)
         /\ pending = From(received, Released)
         /\ \A i \in 1 .. Len(pending) : pending[i] = received[Released + i]
<1>1. pending \in Seq(Chars) /\ received \in Seq(Chars)
  BY DEF IInv, TypeOK
<1>2. Released \in 0 .. Len(received) /\ Len(received) - Released = Len(pending)
  BY <1>1 DEF IInv, WithheldIsEnd, Released
<1>3. pending = From(received, Released)
  BY DEF IInv, WithheldIsEnd, Released, From
<1> QED
  BY <1>1, <1>2, <1>3, FromIs

\* The text feed() works on is the end of what is received then.
LEMMA TextIsEnd ==
  ASSUME IInv, NEW chunk \in Seq(Chars)
  PROVE  \A i \in 1 .. Len(pending \o chunk) :
           (pending \o chunk)[i] = (received \o chunk)[Released + i]
<1> DEFINE text == pending \o chunk
           all == received \o chunk
<1>1. pending \in Seq(Chars) /\ received \in Seq(Chars)
  BY DEF IInv, TypeOK
<1>2. text \in Seq(Chars) /\ Len(text) = Len(pending) + Len(chunk)
  BY <1>1
<1>3. Released \in Nat /\ Released + Len(pending) = Len(received)
  BY <1>1, WithheldIs
<1> SUFFICES ASSUME NEW i \in 1 .. Len(text) PROVE text[i] = all[Released + i]
  OBVIOUS
<1>4. CASE i <= Len(pending)
  <2>1. text[i] = pending[i]
    BY <1>1, <1>2, <1>4
  <2>2. Released + i \in 1 .. Len(received)
    BY <1>1, <1>3, <1>4
  <2>3. all[Released + i] = received[Released + i]
    BY <1>1, <2>2
  <2> QED
    BY <1>1, <1>4, <2>1, <2>3, WithheldIs
<1>6. i \in Nat /\ i >= 1 /\ Len(pending) \in Nat /\ Len(received) \in Nat /\ Len(chunk) \in Nat
  BY <1>1, <1>2
<1>7. i <= Len(pending) \/ i > Len(pending)
  BY <1>6
<1>5. CASE i > Len(pending)
  <2>1. text[i] = chunk[i - Len(pending)]
    BY <1>1, <1>2, <1>5
  <2>2. (Released + i) - Len(received) = i - Len(pending) /\ Released + i \in Nat
    BY <1>1, <1>3
  <2>3. i - Len(pending) \in 1 .. Len(chunk)
    BY <1>1, <1>2, <1>5
  <2> DEFINE q == Released + i
  <2>4. q \in Len(received) + 1 .. Len(received) + Len(chunk)
    BY <1>3, <1>6, <2>2, <2>3
  <2> HIDE DEF q
  <2>5. all[q] = chunk[q - Len(received)]
    BY <1>1, <2>4
  <2> QED
    BY <2>1, <2>2, <2>5 DEF q
<1> QED
  BY <1>4, <1>5, <1>7

LEMMA FeedKeepsEnd ==
  ASSUME IInv, NEW chunk \in Chunks, Feed(chunk)
  PROVE  /\ pending' \in Seq(Chars) /\ received' \in Seq(Chars)
         /\ Len(pending') <= EmailSpan
         /\ WithheldIsEnd'
<1> DEFINE text == pending \o chunk
           cut == BoundedCut(text)
<1>1. pending \in Seq(Chars) /\ received \in Seq(Chars) /\ chunk \in Seq(Chars)
  BY ChunksAssumption DEF IInv, TypeOK
<1>2. text \in Seq(Chars) /\ Len(text) = Len(pending) + Len(chunk)
  BY <1>1
<1>3. cut \in Holding(text)
  <2>1. Len(text) \in Nat
    BY <1>2
  <2> HIDE DEF text
  <2> QED
    BY <2>1, BoundedCutIsSafeCut, SafeCutFits
<1>4. pending' = SubSeq(text, cut + 1, Len(text)) /\ received' = received \o chunk
  BY DEF Feed
<1> HIDE DEF text, cut
<1>5. cut \in 0 .. Len(text) /\ cut >= Len(text) - EmailSpan
  BY <1>3 DEF Holding
<1>6. pending' \in Seq(Chars) /\ received' \in Seq(Chars)
  BY <1>1, <1>2, <1>4, <1>5
<1>7. Len(pending') = Len(text) - cut /\ Len(received') = Len(received) + Len(chunk)
  <2>1. \A i \in cut + 1 .. Len(text) : text[i] \in Chars
    BY <1>2, <1>5
  <2>2. Len(text) \in Nat /\ cut \in Int
    BY <1>2, <1>5
  <2>3. Len(SubSeq(text, cut + 1, Len(text))) =
          IF cut + 1 <= Len(text) THEN Len(text) - (cut + 1) + 1 ELSE 0
    BY <2>1, <2>2, SubSeqProperties
  <2> QED
    BY <1>1, <1>4, <1>5, <2>2, <2>3
<1>8. EmailSpan \in Nat
  BY PatternAssumption
<1>9. Len(pending') <= EmailSpan
  BY <1>5, <1>7, <1>8, <1>2
<1>10. WithheldIsEnd'
  <2>1. Len(pending') <= Len(received')
    BY <1>1, <1>2, <1>5, <1>7 DEF IInv, WithheldIsEnd
  <2> DEFINE gap == Len(received) - Len(pending)
             wide == Len(received') - Len(pending')
  <2>2. gap \in Nat /\ wide = gap + cut
    BY <1>1, <1>2, <1>5, <1>7 DEF IInv, WithheldIsEnd
  <2>4. \A i \in 1 .. Len(text) : text[i] = received'[gap + i]
    <3>1. \A i \in 1 .. Len(pending \o chunk) :
            (pending \o chunk)[i] = (received \o chunk)[Released + i]
      BY <1>1, TextIsEnd
    <3> QED
      BY <1>4, <3>1 DEF text, Released
  <2>5. \A i \in 1 .. Len(pending') : pending'[i] = text[cut + i]
    BY <1>2, <1>4, <1>5, <1>7
  <2>6. \A i \in 1 .. Len(pending') : pending'[i] = received'[wide + i]
    BY <1>2, <1>5, <1>7, <2>2, <2>4, <2>5
  <2> DEFINE end == SubSeq(received', wide + 1, Len(received'))
  <2>7. end \in Seq(Chars) /\ Len(end) = Len(pending')
    BY <1>6, <2>1
  <2>8. \A i \in 1 .. Len(end) : end[i] = received'[wide + i]
    BY <1>6, <2>1, <2>7
  <2>9. pending' = end
    <3> HIDE DEF end, wide
    <3> QED
      BY <1>6, <2>6, <2>7, <2>8, SeqEqual
  <2> QED
    BY <2>1, <2>9 DEF WithheldIsEnd
<1> QED
  BY <1>6, <1>9, <1>10

LEMMA EmitType ==
  ASSUME NEW text \in Seq(Chars), NEW next \in Suspended, Emit(Redacted(text), next)
  PROVE  outbox' \in Seq(Shown) /\ phase' \in Suspended \cup Ends
<1>1. Redacted(text) \in Seq(Shown)
  BY RedactedType
<1>2. CASE Encodable(Redacted(text))
  <2>1. outbox' = Redacted(text) /\ phase' = next
    BY <1>2 DEF Emit
  <2> QED
    BY <1>1, <2>1
<1>3. CASE ~Encodable(Redacted(text))
  <2>1. outbox' = <<>> /\ phase' = "raised"
    BY <1>3 DEF Emit
  <2> QED
    BY <2>1 DEF Ends
<1> QED
  BY <1>2, <1>3

LEMMA FeedKeepsTypes ==
  ASSUME IInv, NEW chunk \in Chunks, Feed(chunk)
  PROVE  IInv'
<1> DEFINE text == pending \o chunk
           cut == BoundedCut(text)
           safe == SubSeq(text, 1, cut)
<1>1. text \in Seq(Chars) /\ Len(text) \in Nat
  BY ChunksAssumption DEF IInv, TypeOK
<1>2. cut \in 0 .. Len(text)
  <2> HIDE DEF text
  <2> QED
    BY <1>1, BoundedCutIsSafeCut, SafeCutFits DEF Holding
<1>3. safe \in Seq(Chars)
  <2> HIDE DEF text, cut
  <2> QED
    BY <1>1, <1>2
<1>4. Emit(Redacted(safe), "reading") /\ UNCHANGED <<upstream, sent>>
  BY DEF Feed
<1> HIDE DEF safe
<1>5. outbox' \in Seq(Shown) /\ phase' \in Suspended \cup Ends
  BY <1>3, <1>4, EmitType DEF Suspended
<1> QED
  BY <1>4, <1>5, FeedKeepsEnd DEF IInv, TypeOK

LEMMA FinishKeepsTypes ==
  ASSUME IInv, Finish
  PROVE  IInv'
<1>1. pending \in Seq(Chars) /\ received \in Seq(Chars)
  BY DEF IInv, TypeOK
<1>2. /\ Emit(Redacted(pending), "finishing")
      /\ pending' = <<>> /\ received' = received /\ sent' = sent /\ upstream' = "closed"
  BY DEF Finish
<1>3. outbox' \in Seq(Shown) /\ phase' \in Suspended \cup Ends
  BY <1>1, <1>2, EmitType DEF Suspended
<1>4. TypeOK'
  BY <1>1, <1>2, <1>3, PatternAssumption DEF IInv, TypeOK, Connections
<1>5. WithheldIsEnd'
  <2>1. Len(pending') = 0 /\ Len(received') \in Nat
    BY <1>1, <1>2
  <2>2. SubSeq(received', Len(received') - 0 + 1, Len(received')) = <<>>
    BY <2>1, SubSeqEmpty
  <2> QED
    BY <1>2, <2>1, <2>2 DEF WithheldIsEnd
<1> QED
  BY <1>4, <1>5 DEF IInv

LEMMA StepKeepsIInv ==
  ASSUME IInv, [Next]_vars
  PROVE  IInv'
<1> USE DEF IInv, TypeOK, WithheldIsEnd, Connections, Suspended, Ends, Reading, Fail
<1>1. CASE \E chunk \in Chunks : Feed(chunk)
  BY <1>1, FeedKeepsTypes
<1>2. CASE Finish
  BY <1>2, FinishKeepsTypes
<1>3. CASE RejectBody
  BY <1>3 DEF RejectBody
<1>4. CASE Accept
  BY <1>4 DEF Accept
<1>5. CASE Connect
  BY <1>5 DEF Connect
<1>6. CASE Resume
  BY <1>6 DEF Resume
<1>7. CASE Complete
  BY <1>7 DEF Complete
<1>8. CASE BadEvent
  BY <1>8 DEF BadEvent
<1>9. CASE Unavailable
  BY <1>9 DEF Unavailable
<1>10. CASE Raise
  BY <1>10 DEF Raise
<1>11. CASE Leave
  BY <1>11 DEF Leave
<1>12. CASE Collect
  BY <1>12 DEF Collect
<1>13. CASE UNCHANGED vars
  BY <1>13 DEF vars
<1> QED
  BY <1>1, <1>2, <1>3, <1>4, <1>5, <1>6, <1>7, <1>8, <1>9, <1>10, <1>11, <1>12, <1>13
     DEF Next, Progress, Disturbance

THEOREM InvariantHolds == Spec => []IInv
<1>1. Init => IInv
  <2> SUFFICES ASSUME Init PROVE IInv
    OBVIOUS
  <2>1. Len(pending) = 0 /\ Len(received) = 0 /\ EmailSpan \in Nat
    BY PatternAssumption DEF Init
  <2>2. SubSeq(received, 1, 0) = <<>>
    BY SubSeqEmpty
  <2> QED
    BY <2>1, <2>2 DEF Init, IInv, TypeOK, WithheldIsEnd, Connections, Suspended, Ends
<1> QED
  BY <1>1, StepKeepsIInv, PTL DEF Spec

\* Every reachable state is well typed; StreamingRedactor never keeps more than
\* MAX_PENDING_CHARS (redactor.py:305-308), whatever the provider sends.
THEOREM TypeCorrect == Spec => []TypeOK
<1>1. IInv => TypeOK
  BY DEF IInv
<1> QED
  BY <1>1, InvariantHolds, PTL

\* What feed() holds back is the end of what it was fed: between two releases no
\* character is lost, repeated or moved (redactor.py:294-308).
THEOREM WithheldIsEndHolds == Spec => []WithheldIsEnd
<1>1. IInv => WithheldIsEnd
  BY DEF IInv
<1> QED
  BY <1>1, InvariantHolds, PTL

\* The memory bound of feed() never releases text a classifier holds back,
\* whatever limits the patterns have, as long as an address is the longest of
\* the supported values: the "overflow" of redactor.py:305 cuts nothing.
THEOREM OverflowNeverCutsHolds == Spec => []OverflowNeverCuts
<1>1. IInv => OverflowNeverCuts
  <2> SUFFICES ASSUME IInv, NEW chunk \in Chunks
               PROVE  Len(pending \o chunk) - SafeCut(pending \o chunk) <= EmailSpan
    BY DEF OverflowNeverCuts
  <2> DEFINE text == pending \o chunk
  <2>1. Len(text) \in Nat /\ EmailSpan \in Nat
    BY ChunksAssumption, PatternAssumption DEF IInv, TypeOK
  <2> HIDE DEF text
  <2>2. SafeCut(text) \in 0 .. Len(text) /\ SafeCut(text) >= Len(text) - EmailSpan
    BY <2>1, SafeCutFits DEF Holding
  <2>3. Len(text) - SafeCut(text) <= EmailSpan
    BY <2>1, <2>2
  <2> QED
    BY <2>3 DEF text
<1> QED
  BY <1>1, InvariantHolds, PTL

-----------------------------------------------------------------------------
\* The texts the stream may turn out to have had, where nothing of what is
\* received can be told from what is still to come.
Futures == {whole \in Seq(Chars) : Extends(whole, received) /\ Separable(whole)}

\* While text may follow, what is released ends where no value of any text the
\* stream may have is cut, and shows what that text would show up to there.
ReleasedIsDecided ==
  phase \in {"new", "reading", "error"} =>
    \A whole \in Futures :
      /\ Sealed(whole, Released)
      /\ sent \o outbox = Redacted(Upto(whole, Released))

\* Once no text can follow, everything is released.
FlushedIsWhole ==
  phase \in {"finishing", "done"} =>
    /\ pending = <<>>
    /\ Separable(received) => sent \o outbox = Redacted(received)

ShownIsDecided == ReleasedIsDecided /\ FlushedIsWhole

\* A text that goes on after received goes on, without what is released, after
\* the text feed() works on.
LEMMA RestGoesOn ==
  ASSUME IInv, NEW chunk \in Seq(Chars), NEW whole \in Seq(Chars),
         Extends(whole, received \o chunk)
  PROVE  /\ Released \in 0 .. Len(whole)
         /\ Extends(whole, received)
         /\ Extends(From(whole, Released), pending \o chunk)
<1> DEFINE text == pending \o chunk
           all == received \o chunk
           rest == From(whole, Released)
<1>1. pending \in Seq(Chars) /\ received \in Seq(Chars)
  BY DEF IInv, TypeOK
<1>2. /\ Len(text) = Len(pending) + Len(chunk) /\ Len(all) = Len(received) + Len(chunk)
      /\ {Len(pending), Len(received), Len(chunk), Len(whole)} \subseteq Nat
  BY <1>1
<1>3. Released \in 0 .. Len(received) /\ Released + Len(pending) = Len(received)
  BY <1>2, WithheldIs
<1>4. \A i \in 1 .. Len(text) : text[i] = all[Released + i]
  BY TextIsEnd
<1>5. \A i \in 1 .. Len(received) : all[i] = received[i]
  BY <1>1
<1>6. Len(all) <= Len(whole) /\ \A p \in 1 .. Len(all) : whole[p] = all[p]
  BY DEF Extends
<1> HIDE DEF text, all
<1>7. Released \in 0 .. Len(whole)
  BY <1>2, <1>3, <1>6
<1>8. Extends(whole, received)
  BY <1>2, <1>5, <1>6 DEF Extends
<1>9. Len(rest) = Len(whole) - Released /\ \A p \in 1 .. Len(whole) - Released : rest[p] = whole[Released + p]
  BY <1>7, FromIs
<1> HIDE DEF rest
<1>10. Len(text) <= Len(rest)
  BY <1>2, <1>3, <1>6, <1>9
<1>11. \A p \in 1 .. Len(text) : rest[p] = text[p]
  <2> TAKE p \in 1 .. Len(text)
  <2>1. p \in 1 .. Len(whole) - Released /\ Released + p \in 1 .. Len(all)
    BY <1>2, <1>3, <1>6
  <2> QED
    BY <1>4, <1>6, <1>9, <2>1
<1>12. Extends(rest, text)
  BY <1>10, <1>11 DEF Extends
<1> QED
  BY <1>7, <1>8, <1>12 DEF text, rest

LEMMA ExtendsUpto ==
  ASSUME NEW t \in Seq(Chars), NEW f \in Seq(Chars), Extends(f, t), NEW k \in 0 .. Len(t)
  PROVE  Upto(f, k) = Upto(t, k)
<1>1. Len(t) <= Len(f) /\ k \in 0 .. Len(f) /\ Len(t) \in Nat
  BY DEF Extends
<1>2. \A p \in 1 .. k : f[p] = t[p]
  BY <1>1 DEF Extends
<1> DEFINE x == Upto(f, k)
           y == Upto(t, k)
<1>3. x \in Seq(Chars) /\ Len(x) = k /\ \A p \in 1 .. k : x[p] = f[p]
  BY <1>1, UptoIs
<1>4. y \in Seq(Chars) /\ Len(y) = k /\ \A p \in 1 .. k : y[p] = t[p]
  BY UptoIs
<1> HIDE DEF x, y
<1>5. x = y
  <2>1. \A p \in 1 .. Len(x) : x[p] = y[p]
    BY <1>2, <1>3, <1>4
  <2> QED
    BY <1>3, <1>4, <2>1, SeqEqual
<1> QED
  BY <1>5 DEF x, y

LEMMA FeedKeepsShown ==
  ASSUME IInv, ReleasedIsDecided, NEW chunk \in Chunks, Feed(chunk), phase' = "reading"
  PROVE  ReleasedIsDecided'
<1> DEFINE text == pending \o chunk
           cut == BoundedCut(text)
<1>1. chunk \in Seq(Chars) /\ pending \in Seq(Chars) /\ received \in Seq(Chars)
  BY ChunksAssumption DEF IInv, TypeOK
<1>2. text \in Seq(Chars) /\ Len(text) = Len(pending) + Len(chunk) /\ Len(text) \in Nat
  BY <1>1
<1>3. sent \in Seq(Shown)
  BY DEF IInv, TypeOK
<1>4. phase = "reading" /\ outbox = <<>> /\ sent' = sent
  BY DEF Feed, Reading
<1>5. received' = received \o chunk /\ pending' = SubSeq(text, cut + 1, Len(text))
  BY DEF Feed
<1>6. Emit(Redacted(SubSeq(text, 1, cut)), "reading")
  BY DEF Feed
<1>7. outbox' = Redacted(Upto(text, cut))
  BY <1>6 DEF Emit, Upto
<1> HIDE DEF text
<1>8. cut = SafeCut(text) /\ cut \in 0 .. Len(text)
  BY <1>2, BoundedCutIsSafeCut, SafeCutFits DEF Holding
<1> HIDE DEF cut
<1>9. Released' = Released + cut
  <2>1. pending' = From(text, cut)
    BY <1>5 DEF From
  <2>2. Len(pending') = Len(text) - cut
    BY <1>2, <1>8, <2>1, FromIs
  <2>3. Len(received') = Len(received) + Len(chunk)
    BY <1>1, <1>5
  <2> QED
    BY <1>1, <1>2, <1>8, <2>2, <2>3 DEF Released
<1> SUFFICES ASSUME NEW whole \in Seq(Chars), Extends(whole, received'), Separable(whole)
             PROVE  /\ Sealed(whole, Released + cut)
                    /\ sent' \o outbox' = Redacted(Upto(whole, Released + cut))
  BY <1>9 DEF ReleasedIsDecided, Futures
<1> DEFINE rest == From(whole, Released)
<1>10. Extends(whole, received \o chunk)
  BY <1>5
<1>11. Released \in 0 .. Len(whole) /\ Extends(whole, received) /\ Extends(rest, text)
  BY <1>1, <1>10, RestGoesOn DEF text
<1>12. Sealed(whole, Released) /\ sent \o outbox = Redacted(Upto(whole, Released))
  BY <1>4, <1>11 DEF ReleasedIsDecided, Futures
<1>13. rest \in Seq(Chars) /\ Len(rest) = Len(whole) - Released
  BY <1>11, FromIs
<1>14. Separable(rest)
  BY <1>12 DEF Sealed
<1> HIDE DEF rest
<1>15. Sealed(rest, cut)
  BY <1>2, <1>8, <1>11, <1>13, <1>14, SafeCutSeals DEF GoesOn
<1>16. cut \in 0 .. Len(whole) - Released
  BY <1>2, <1>8, <1>11, <1>13 DEF Extends
<1>17. Sealed(From(whole, Released), cut)
  BY <1>15 DEF rest
<1>18. Sealed(whole, Released + cut)
  BY <1>11, <1>12, <1>16, <1>17, SealsJoin
<1>19. Redacted(Upto(whole, Released + cut)) =
         Redacted(Upto(whole, Released)) \o Redacted(Upto(rest, cut))
  BY <1>11, <1>12, <1>16, <1>17, <1>18, RedactedGoesOn DEF rest
<1>20. Upto(rest, cut) = Upto(text, cut)
  BY <1>2, <1>8, <1>11, <1>13, ExtendsUpto
<1>21. sent \o outbox = sent'
  BY <1>3, <1>4
<1> QED
  BY <1>7, <1>12, <1>18, <1>19, <1>20, <1>21

LEMMA FinishKeepsShown ==
  ASSUME IInv, ReleasedIsDecided, Finish, phase' = "finishing"
  PROVE  FlushedIsWhole'
<1>1. /\ phase = "reading" /\ outbox = <<>> /\ sent' = sent
      /\ pending' = <<>> /\ received' = received
      /\ Emit(Redacted(pending), "finishing")
  BY DEF Finish, Reading
<1>2. received \in Seq(Chars) /\ sent \in Seq(Shown)
  BY DEF IInv, TypeOK
<1>3. outbox' = Redacted(pending)
  BY <1>1 DEF Emit
<1> SUFFICES ASSUME Separable(received)
             PROVE  sent' \o outbox' = Redacted(received)
  BY <1>1 DEF FlushedIsWhole
<1>4. Extends(received, received)
  BY <1>2 DEF Extends
<1>5. Sealed(received, Released) /\ sent \o outbox = Redacted(Upto(received, Released))
  BY <1>1, <1>2, <1>4 DEF ReleasedIsDecided, Futures
<1>6. Released \in 0 .. Len(received) /\ pending = From(received, Released)
  BY WithheldIs
<1>7. Redacted(received) = Redacted(Upto(received, Released)) \o Redacted(pending)
  BY <1>2, <1>5, <1>6, RedactedSplits
<1>8. sent \o outbox = sent'
  BY <1>1, <1>2
<1> QED
  BY <1>3, <1>5, <1>7, <1>8

LEMMA ResumeKeepsShown ==
  ASSUME IInv, ShownIsDecided, Resume
  PROVE  ShownIsDecided'
<1>1. /\ outbox' = <<>> /\ sent' = sent \o outbox
      /\ UNCHANGED <<phase, received, pending>>
  BY DEF Resume
<1>2. sent \in Seq(Shown) /\ outbox \in Seq(Shown)
  BY DEF IInv, TypeOK
<1>3. sent' \o outbox' = sent \o outbox
  BY <1>1, <1>2
<1>4. ReleasedIsDecided'
  BY <1>1, <1>3 DEF ShownIsDecided, ReleasedIsDecided, Futures, Released
<1>5. FlushedIsWhole'
  BY <1>1, <1>3 DEF ShownIsDecided, FlushedIsWhole
<1> QED
  BY <1>4, <1>5 DEF ShownIsDecided

LEMMA FeedOrFinishKeepsShown ==
  ASSUME IInv, ShownIsDecided, Finish \/ \E chunk \in Chunks : Feed(chunk)
  PROVE  ShownIsDecided'
<1>1. CASE \E chunk \in Chunks : Feed(chunk)
  <2>1. PICK chunk \in Chunks : Feed(chunk)
    BY <1>1
  <2>2. phase' \in {"reading", "raised"}
    BY <2>1 DEF Feed, Emit
  <2>3. CASE phase' = "reading"
    BY <2>1, <2>3, FeedKeepsShown DEF ShownIsDecided, FlushedIsWhole
  <2>4. CASE phase' = "raised"
    BY <2>4 DEF ShownIsDecided, FlushedIsWhole, ReleasedIsDecided
  <2> QED
    BY <2>2, <2>3, <2>4
<1>2. CASE Finish
  <2>1. phase = "reading" /\ phase' \in {"finishing", "raised"}
    BY <1>2 DEF Finish, Emit, Reading
  <2>2. CASE phase' = "finishing"
    BY <1>2, <2>2, FinishKeepsShown DEF ShownIsDecided, ReleasedIsDecided
  <2>3. CASE phase' = "raised"
    BY <2>3 DEF ShownIsDecided, FlushedIsWhole, ReleasedIsDecided
  <2> QED
    BY <2>1, <2>2, <2>3
<1> QED
  BY <1>1, <1>2

\* A step that moves no text at most lets the stream fail, or end once its text
\* is flushed.
LEMMA QuietKeepsShown ==
  ASSUME ShownIsDecided, UNCHANGED <<received, pending, outbox, sent>>,
         \/ phase' \in {phase, "rejected", "raised", "left"}
         \/ phase \in {"new", "reading"} /\ phase' \in {"reading", "error"}
         \/ phase = "finishing" /\ phase' = "done"
  PROVE  ShownIsDecided'
<1>1. /\ received' = received /\ pending' = pending
      /\ outbox' = outbox /\ sent' = sent
  OBVIOUS
<1>2. ReleasedIsDecided'
  BY <1>1 DEF ShownIsDecided, ReleasedIsDecided, Futures, Released
<1>3. FlushedIsWhole'
  BY <1>1 DEF ShownIsDecided, FlushedIsWhole
<1> QED
  BY <1>2, <1>3 DEF ShownIsDecided

LEMMA StepKeepsShown ==
  ASSUME IInv, ShownIsDecided, [Next]_vars
  PROVE  ShownIsDecided'
<1> USE DEF Reading, Fail
<1>1. CASE Finish \/ \E chunk \in Chunks : Feed(chunk)
  BY <1>1, FeedOrFinishKeepsShown
<1>2. CASE Resume
  BY <1>2, ResumeKeepsShown
<1>3. CASE RejectBody
  BY <1>3, QuietKeepsShown DEF RejectBody
<1>4. CASE Accept
  BY <1>4, QuietKeepsShown DEF Accept
<1>5. CASE Connect
  BY <1>5, QuietKeepsShown DEF Connect
<1>6. CASE Complete
  BY <1>6, QuietKeepsShown DEF Complete
<1>7. CASE BadEvent
  BY <1>7, QuietKeepsShown DEF BadEvent
<1>8. CASE Unavailable
  BY <1>8, QuietKeepsShown DEF Unavailable
<1>9. CASE Raise
  BY <1>9, QuietKeepsShown DEF Raise
<1>10. CASE Leave
  BY <1>10, QuietKeepsShown DEF Leave
<1>11. CASE Collect
  BY <1>11, QuietKeepsShown DEF Collect
<1>12. CASE UNCHANGED vars
  BY <1>12, QuietKeepsShown DEF vars
<1> QED
  BY <1>1, <1>2, <1>3, <1>4, <1>5, <1>6, <1>7, <1>8, <1>9, <1>10, <1>11, <1>12
     DEF Next, Progress, Disturbance

LEMMA StartIsDecided ==
  ASSUME Init
  PROVE  ShownIsDecided
<1>1. received = <<>> /\ pending = <<>> /\ outbox = <<>> /\ sent = <<>> /\ phase = "new"
  BY DEF Init
<1>2. Released = 0 /\ sent \o outbox = <<>>
  BY <1>1 DEF Released
<1>3. ASSUME NEW whole \in Seq(Chars), Separable(whole)
      PROVE  Sealed(whole, 0) /\ Redacted(Upto(whole, 0)) = <<>>
  <2>1. Upto(whole, 0) = <<>>
    BY DEF Upto
  <2> QED
    BY <1>3, <2>1, StartIsSealed, NothingRedacted
<1>4. ReleasedIsDecided
  BY <1>2, <1>3 DEF ReleasedIsDecided, Futures
<1>5. FlushedIsWhole
  BY <1>1 DEF FlushedIsWhole
<1> QED
  BY <1>4, <1>5 DEF ShownIsDecided

\* What a stream has released is decided: it ends where no value of any text
\* the stream may turn out to have had is cut, and shows what that text would
\* show up to there (feed(), redactor.py:294-310).
THEOREM ShownIsDecidedHolds == Spec => []ShownIsDecided
<1>1. Init => ShownIsDecided
  BY StartIsDecided
<1>2. IInv /\ ShownIsDecided /\ [Next]_vars => ShownIsDecided'
  BY StepKeepsShown
<1> QED
  BY <1>1, <1>2, InvariantHolds, PTL DEF Spec

\* However the provider cuts a text whose values stand apart, the client of a
\* stream sees what redacting the whole text at once would show
\* (feed() and flush(), redactor.py:288-317), for every limit of the patterns.
THEOREM StreamedAsWholeHolds == Spec => []StreamedAsWhole
<1>1. IInv /\ ShownIsDecided => StreamedAsWhole
  <2> SUFFICES ASSUME IInv, ShownIsDecided, Separable(received),
                      phase \in {"reading", "finishing", "done"}
               PROVE  sent \o outbox \o Redacted(pending) = Redacted(received)
    BY DEF StreamedAsWhole, Visible
  <2>1. received \in Seq(Chars) /\ sent \in Seq(Shown) /\ outbox \in Seq(Shown)
    BY DEF IInv, TypeOK
  <2>2. CASE phase = "reading"
    <3>1. Extends(received, received)
      BY <2>1 DEF Extends
    <3>2. Sealed(received, Released) /\ sent \o outbox = Redacted(Upto(received, Released))
      BY <2>1, <2>2, <3>1 DEF ShownIsDecided, ReleasedIsDecided, Futures
    <3>3. Released \in 0 .. Len(received) /\ pending = From(received, Released)
      BY WithheldIs
    <3>4. Redacted(received) = Redacted(Upto(received, Released)) \o Redacted(pending)
      BY <2>1, <3>2, <3>3, RedactedSplits
    <3> QED
      BY <3>2, <3>4
  <2>3. CASE phase \in {"finishing", "done"}
    <3>1. pending = <<>> /\ sent \o outbox = Redacted(received)
      BY <2>3 DEF ShownIsDecided, FlushedIsWhole
    <3>2. sent \o outbox \o <<>> = sent \o outbox
      BY <2>1
    <3> QED
      BY <3>1, <3>2, NothingRedacted
  <2> QED
    BY <2>2, <2>3
<1> QED
  BY <1>1, InvariantHolds, ShownIsDecidedHolds, PTL

\* A sequence is a prefix of what continues it.
LEMMA PrefixOfJoined ==
  ASSUME NEW S, NEW s \in Seq(S), NEW t \in Seq(S)
  PROVE  IsPrefix(s, s \o t)
BY DEF IsPrefix

\* What a client has or is being sent before a stream ends, or when it fails, is
\* what it would have been shown of the text with anything that could have come
\* next: dropping what is held back leaves no value undecided
\* (stream.py:32-39, redactor.py:294-310).
THEOREM NothingUndecidedIsShownHolds == Spec => []NothingUndecidedIsShown
<1>1. IInv /\ ShownIsDecided => NothingUndecidedIsShown
  <2> SUFFICES ASSUME IInv, ShownIsDecided, phase \in {"reading", "error"},
                      NEW more \in Chunks, Separable(received \o more)
               PROVE  IsPrefix(sent \o outbox, Redacted(received \o more))
    BY DEF NothingUndecidedIsShown
  <2> DEFINE whole == received \o more
  <2>1. /\ received \in Seq(Chars) /\ more \in Seq(Chars)
        /\ sent \o outbox \in Seq(Shown)
    BY ChunksAssumption DEF IInv, TypeOK
  <2>2. whole \in Seq(Chars) /\ Extends(whole, received)
    BY <2>1 DEF Extends
  <2>3. Released \in 0 .. Len(whole)
    BY <2>1, WithheldIs
  <2>4. Sealed(whole, Released) /\ sent \o outbox = Redacted(Upto(whole, Released))
    BY <2>2 DEF ShownIsDecided, ReleasedIsDecided, Futures
  <2>5. Redacted(whole) = (sent \o outbox) \o Redacted(From(whole, Released))
    BY <2>2, <2>3, <2>4, RedactedSplits
  <2>6. Redacted(From(whole, Released)) \in Seq(Shown)
    BY <2>2, <2>3, FromIs, RedactedType
  <2> QED
    BY <2>1, <2>5, <2>6, PrefixOfJoined
<1> QED
  BY <1>1, InvariantHolds, ShownIsDecidedHolds, PTL
=============================================================================
