---------------------------- MODULE GuardedStream ----------------------------
(***************************************************************************)
(* Task 3's guarded_sse_stream(): one streamed completion on its way from  *)
(* the provider through the redactor to the client.                        *)
(*                                                                         *)
(* The provider cuts its text as it likes, and may end, fail or raise at   *)
(* any read; the client may leave at any time.  feed() and the yield of    *)
(* its result are two steps: the generator is suspended at the yield, and  *)
(* stream_text(), with its connection, at the yield below it.              *)
(***************************************************************************)
EXTENDS Redactor, SequencesExt

CONSTANTS
    Chunks,     \* the texts one event of the provider can carry
    MaxText     \* bound: the provider sends no more characters than this

ASSUME ChunksAssumption ==
    /\ Chunks \subseteq Seq(Chars) \ {<<>>}
    /\ MaxText \in Nat

VARIABLES
    upstream,   \* the connection of stream_text(): see Connections
    phase,      \* where the handler of the request is
    received,   \* every character decoded so far, which nobody stores
    pending,    \* StreamingRedactor._pending
    outbox,     \* the text of the event being yielded, <<>> when there is none
    sent        \* the text the client has been sent

vars == <<upstream, phase, received, pending, outbox, sent>>

Suspended == {"reading", "finishing"}
Ends == {"rejected", "done", "error", "raised", "left"}

\* None asked for; taken from the client's pool or waited for; with a
\* response whose body is read; given back.
Connections == {"none", "waiting", "open", "closed"}

Init ==
    /\ upstream = "none"
    /\ phase = "new"
    /\ received = <<>>
    /\ pending = <<>>
    /\ outbox = <<>>
    /\ sent = <<>>

(***************************************************************************)
(* chat_completions                                                        *)
(***************************************************************************)
\* No JSON, or no object: 400, and no provider is asked.
RejectBody ==
    /\ phase = "new"
    /\ phase' = "rejected"
    /\ UNCHANGED <<upstream, received, pending, outbox, sent>>

\* The response starts with 200 before the provider is connected.
Accept ==
    /\ phase = "new"
    /\ phase' = "reading"
    /\ upstream' = "waiting"
    /\ UNCHANGED <<received, pending, outbox, sent>>

(***************************************************************************)
(* guarded_sse_stream                                                      *)
(***************************************************************************)
Reading == phase = "reading" /\ outbox = <<>>

\* A response with a good status: its body can be read.
Connect ==
    /\ Reading
    /\ upstream = "waiting"
    /\ upstream' = "open"
    /\ UNCHANGED <<phase, received, pending, outbox, sent>>

\* encode_openai_delta encodes to UTF-8, which fails on a lone surrogate.
Encodable(t) == "lone" \notin ToSet(t)

\* Yield text unless it is empty, and go on in phase next; an encoding error
\* is no ProviderStreamError and ends the generator.
Emit(text, next) ==
    IF Encodable(text)
    THEN outbox' = text /\ phase' = next
    ELSE outbox' = <<>> /\ phase' = "raised"

\* Mutant: what is held back is redacted too, as if no more text could come.
FeedRedactsPending(chunk) ==
    /\ Reading
    /\ upstream = "open"
    /\ Len(received) + Len(chunk) <= MaxText
    /\ LET text == pending \o chunk
           cut == BoundedCut(text)
       IN  /\ received' = received \o chunk
           /\ pending' = Redacted(SubSeq(text, cut + 1, Len(text)))
           /\ Emit(Redacted(SubSeq(text, 1, cut)), "reading")
    /\ UNCHANGED <<upstream, sent>>

\* One data event with text: feed() it.
Feed(chunk) ==
    /\ Reading
    /\ upstream = "open"
    /\ Len(received) + Len(chunk) <= MaxText
    /\ LET text == pending \o chunk
           cut == BoundedCut(text)
       IN  /\ received' = received \o chunk
           /\ pending' = SubSeq(text, cut + 1, Len(text))
           /\ Emit(Redacted(SubSeq(text, 1, cut)), "reading")
    /\ UNCHANGED <<upstream, sent>>

\* The yielded event reaches the client and the generator resumes.
Resume ==
    /\ phase \in Suspended
    /\ outbox # <<>>
    /\ outbox' = <<>>
    /\ sent' = sent \o outbox
    /\ UNCHANGED <<upstream, phase, received, pending>>

\* Mutant: the response is not closed when stream_text() returns.
FinishKeepsResponse ==
    /\ Reading
    /\ upstream = "open"
    /\ pending' = <<>>
    /\ Emit(Redacted(pending), "finishing")
    /\ UNCHANGED <<upstream, received, sent>>

\* The sentinel, or the end of the body without one: stream_text() returns
\* and closes its response, then flush().
Finish ==
    /\ Reading
    /\ upstream = "open"
    /\ upstream' = "closed"
    /\ pending' = <<>>
    /\ Emit(Redacted(pending), "finishing")
    /\ UNCHANGED <<received, sent>>

\* Mutant: [DONE] is sent only to a client that was sent text.
CompleteAfterText ==
    /\ phase = "finishing"
    /\ outbox = <<>>
    /\ sent # <<>>
    /\ phase' = "done"
    /\ UNCHANGED <<upstream, received, pending, outbox, sent>>

\* [DONE]
Complete ==
    /\ phase = "finishing"
    /\ outbox = <<>>
    /\ phase' = "done"
    /\ UNCHANGED <<upstream, received, pending, outbox, sent>>

\* Mutant: the pending text is flushed before the error event.
FailFlushes ==
    /\ phase' = "error"
    /\ upstream' = "closed"
    /\ pending' = <<>>
    /\ outbox' = Redacted(pending)
    /\ UNCHANGED <<received, sent>>

\* ProviderStreamError: the exception closes the response on its way, an error
\* event is sent, and the pending text is dropped.
Fail ==
    /\ phase' = "error"
    /\ upstream' = "closed"
    /\ UNCHANGED <<received, pending, outbox, sent>>

\* A data line that is no event of a completion: SSEDecodeError.
BadEvent ==
    /\ Reading
    /\ upstream = "open"
    /\ Fail

\* No connection in time, a bad status, a lost connection or a read timeout:
\* httpx2.HTTPError.
Unavailable ==
    /\ Reading
    /\ Fail

\* An exception that stream_text() does not translate, such as the one
\* json.loads raises for deep nesting.
Raise ==
    /\ Reading
    /\ phase' = "raised"
    /\ upstream' = "closed"
    /\ UNCHANGED <<received, pending, outbox, sent>>

\* The client disconnects.  A read is cancelled and closes its response; a
\* generator suspended at a yield is dropped as it stands.
Leave ==
    /\ phase \in Suspended
    /\ phase' = "left"
    /\ upstream' = IF outbox = <<>> THEN "closed" ELSE upstream
    /\ UNCHANGED <<received, pending, outbox, sent>>

\* The event loop closes a suspended generator nobody refers to any more, and
\* with it the response it was reading.
Collect ==
    /\ phase \in {"left", "raised"}
    /\ upstream = "open"
    /\ upstream' = "closed"
    /\ UNCHANGED <<phase, received, pending, outbox, sent>>

Progress ==
    \/ RejectBody
    \/ Accept
    \/ Connect
    \/ \E chunk \in Chunks : Feed(chunk)
    \/ Resume
    \/ Finish
    \/ Complete
    \/ BadEvent
    \/ Unavailable

Disturbance == Raise \/ Leave

Next == Progress \/ Disturbance \/ Collect

Spec == Init /\ [][Next]_vars

\* The event loop resumes the handler, and the client reads what it is sent.
\* No wait for the provider is for ever: a connection or a read that brings
\* nothing ends with the client's timeout of 30 s, which is Unavailable.  Text is
\* finite (MaxText), and no provider sends lines without text for ever.
FairSpec ==
    /\ Spec
    /\ WF_vars(Accept \/ RejectBody)
    /\ WF_vars(Resume \/ Complete)
    /\ WF_vars(Unavailable \/ Finish)
    /\ WF_vars(Collect)

(***************************************************************************)
(* Properties                                                              *)
(***************************************************************************)
TypeOK ==
    /\ upstream \in Connections
    /\ phase \in {"new"} \cup Suspended \cup Ends
    /\ {received, pending} \subseteq Seq(Chars)
    /\ {outbox, sent} \subseteq Seq(Shown)
    /\ Len(pending) <= EmailSpan

\* What the client has, is being sent and would get if the stream ended here.
Visible == sent \o outbox \o Redacted(pending)

\* However the provider cuts a text whose values stand apart, the client sees
\* what redacting the whole text at once would show: feed() and flush()
\* neither release a part of a value nor redact more than a value.
StreamedAsWhole ==
    phase \in {"reading", "finishing", "done"} /\ Separable(received) =>
        Visible = Redacted(received)

\* What a stream shows before it ends, or when it fails, is no more than it
\* would show of the text with anything that could have come next: a failure,
\* which drops what is held back, leaves no value undecided at the client.
NothingUndecidedIsShown ==
    phase \in {"reading", "error"} =>
        \A more \in Chunks : Separable(received \o more) =>
            IsPrefix(sent \o outbox, Redacted(received \o more))

\* The memory bound of feed() never releases text the classifiers hold back,
\* whatever arrives next.
OverflowNeverCuts ==
    phase = "reading" =>
        \A chunk \in Chunks :
            Len(pending \o chunk) - SafeCut(pending \o chunk) <= EmailSpan

\* Every accepted stream ends: with [DONE], with an error event, with an
\* exception, or because the client left.
EveryStreamEnds == phase = "reading" ~> phase \in Ends

\* Whatever ends a stream, and wherever its two generators stand then, the
\* provider's connection goes back to the client's pool (provider.py:44-71).
ConnectionsAreReleased == upstream \in {"waiting", "open"} ~> upstream = "closed"

\* The claim of the tests, for every text.
SplitsDoNotMatter ==
    phase \in {"reading", "finishing", "done"} => Visible = Redacted(received)
=============================================================================
