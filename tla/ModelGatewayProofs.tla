------------------------- MODULE ModelGatewayProofs -------------------------
(* The gateway takes the limiter's steps and no others on the ledger, so the  *)
(* limiter's theorems hold of it, and with them what the gateway itself       *)
(* promises its clients and demands of its providers.                         *)
EXTENDS ModelGateway, TokenLedgerProofs

\* The theorems of SlidingWindow, about the gateway's ledger.
Window == INSTANCE SlidingWindowProofs

(***************************************************************************)
(* The inductive invariant                                                 *)
(***************************************************************************)
Types ==
  /\ stage \in [Calls -> Stages]
  /\ key \in [Calls -> Tenants \cup {NoKey}]
  /\ body \in [Calls -> Payloads \cup {Garbage}]
  /\ calls \in [Calls -> SUBSET Providers]
  /\ answers \in [Calls -> [Providers -> Statuses \cup {0}]]
  /\ expired \in [Calls -> SUBSET Providers]
  /\ admission \in [Calls -> Admission \cup {NoResponse}]
  /\ response \in [Calls -> Response \cup {NoResponse}]

\* Where a handler is tells what it has asked the limiter and whom it has sent
\* its request to.
Control(h) ==
  /\ (stage[h] = "done") <=> (response[h] # NoResponse)
  /\ stage[h] \in {"idle", "body"} => verdict[h] = "none"
  /\ stage[h] = "body" => key[h] \in Tenants
  /\ stage[h] \in {"idle", "body", "reserve"} => calls[h] = {}
  /\ stage[h] = "primary" => calls[h] = {"primary"}
  /\ stage[h] = "secondary" => calls[h] = Providers
  /\ calls[h] # {} => verdict[h] = "allowed"
  /\ verdict[h] \in {"allowed", "denied"} => admission[h] \in Admission

\* A handler has a row exactly when its verdict allows one.
Charges(h) ==
  /\ verdict[h] = "allowed" => RowOf(h, request[h]) \in granted
  /\ verdict[h] \in {"none", "pending", "denied"} => ~Charged(h)

\* What has been answered without a provider, by verdict.
Refusals(h) ==
  response[h] # NoResponse =>
    /\ response[h].status \in {400, 401} => verdict[h] = "none"
    /\ response[h].status = 429 => verdict[h] = "denied"
    /\ response[h].status = 503 => verdict[h] = "error"

\* The named properties, handler by handler.
Policy(h) ==
  "secondary" \in calls[h] => answers[h]["primary"] = 429 \/ "primary" \in expired[h]

Truth(h) ==
  LET answer == response[h] IN
  answer # NoResponse =>
    /\ answer.provider # "none" =>
         /\ answers[h][answer.provider] = answer.status /\ Successful(answer.status)
         /\ answer.provider = "primary" => "secondary" \notin calls[h]
    /\ answer.code \in {"fallback_provider_unavailable", "fallback_provider_failed"}
         => "secondary" \in calls[h]
    /\ answer.code \in {"primary_provider_unavailable", "primary_provider_rejected"}
         => calls[h] = {"primary"}

Handler(h) == Control(h) /\ Charges(h) /\ Refusals(h) /\ Policy(h) /\ Truth(h)

IInv == Window!IInv /\ Types /\ \A h \in Calls : Handler(h)

(***************************************************************************)
(* The ledger                                                              *)
(***************************************************************************)
(* The gateway's constants meet the assumptions of SlidingWindow.             *)
LEMMA WindowAssumptions ==
  /\ Window!IsFiniteSet(Calls)
  /\ NoCall \notin Window!Request
  /\ Times \subseteq Nat
<1>1. Window!IsFiniteSet(Calls)
  BY CallsAssumption DEF Window!IsFiniteSet, IsFiniteSet
<1>2. NoCall \notin Window!Request
  BY NamesAssumption DEF Window!Request, Request
<1> QED
  BY <1>1, <1>2, TimesAssumption

(* All three copies of the sum are one.                                       *)
LEMMA SameSum == \A R : Window!Tokens(R) = Tokens(R) /\ Ledger!Tokens(R) = Tokens(R)
  BY DEF Window!Tokens, Window!Units, Window!Cardinality, Tokens, Units, Cardinality,
         Ledger!Tokens, Ledger!Units, Ledger!Cardinality

(* The operations of the gateway's ledger are those the theorems speak about. *)
LEMMA SameSteps ==
  /\ \A c, t, n, now : Ledger!Submit(c, t, n, now) => Window!Submit(c, t, n, now)
  /\ \A c, told : Ledger!Grant(c, told) => Window!Grant(c, told)
  /\ \A c, told : Ledger!Refuse(c, told) => Window!Refuse(c, told)
  /\ \A S : Ledger!Abort(S) => Window!Abort(S)
<1> USE SameSum
    DEF Ledger!Surviving, Ledger!Active, Ledger!Usage, Ledger!OverLimit, Ledger!RowOf,
        Ledger!Observe, Ledger!ObserveGrant, Window!Surviving, Window!Active, Window!Usage,
        Window!OverLimit, Window!RowOf, Window!Observe, Window!ObserveGrant
<1>1. \A c, t, n, now : Ledger!Submit(c, t, n, now) => Window!Submit(c, t, n, now)
  BY DEF Ledger!Submit, Window!Submit
<1>2. \A c, told : Ledger!Grant(c, told) => Window!Grant(c, told)
  BY DEF Ledger!Grant, Window!Grant
<1>3. \A c, told : Ledger!Refuse(c, told) => Window!Refuse(c, told)
  BY DEF Ledger!Refuse, Window!Refuse
<1>4. \A S : Ledger!Abort(S) => Window!Abort(S)
  BY DEF Ledger!Abort, Window!Abort
<1> QED
  BY <1>1, <1>2, <1>3, <1>4

(* Steps of the gateway that leave the ledger alone.                          *)
Elsewhere(h) ==
  \/ \E t \in Tenants \cup {NoKey}, b \in Payloads \cup {Garbage} : Authenticate(h, t, b)
  \/ RejectBody(h) \/ RequestRaises(h)
  \/ LimiterUnavailable(h) \/ RateLimited(h) \/ Route(h)
  \/ \E p \in Providers : Deadline(h, p) \/ Success(h, p)
  \/ \E p \in Providers, status \in Statuses : Answer(h, p, status)
  \/ PrimaryBusy(h) \/ PrimaryTimeout(h) \/ PrimaryRejected(h)
  \/ SecondaryTimeout(h) \/ SecondaryFailed(h)
  \/ Disturbance(h)

(* Next, by what it does to the ledger.                                       *)
LEMMA NextCases ==
  ASSUME Next
  PROVE  \/ \E h \in Calls : Elsewhere(h)
         \/ \E h \in Calls, now \in Times : Reserve(h, now)
         \/ \E h \in Calls : Transact(h)
         \/ Crash
  BY DEF Next, Admit, Serve, Elsewhere

(* Every step of the gateway is a step of SlidingWindow or leaves the ledger  *)
(* alone.                                                                     *)
LEMMA LedgerNext == IInv /\ [Next]_vars => [Window!Next]_(Window!vars)
<1> SUFFICES ASSUME IInv, [Next]_vars PROVE [Window!Next]_(Window!vars)
  OBVIOUS
<1>1. ASSUME NEW h \in Calls, Elsewhere(h)
      PROVE  UNCHANGED Window!vars
  BY <1>1
  DEF Elsewhere, Disturbance, Authenticate, RejectBody, RequestRaises, LimiterUnavailable,
      RateLimited, Route, Deadline, Success, Answer, PrimaryBusy, PrimaryTimeout,
      PrimaryRejected, PrimaryTransportError, SecondaryTransportError, SecondaryTimeout,
      SecondaryFailed, ProviderRaises, Fallback, ledger, Window!vars
<1>2. ASSUME NEW h \in Calls, NEW now \in Times, Reserve(h, now)
      PROVE  Window!Next
  <2>1. key[h] \in Tenants
    BY <1>2 DEF IInv, Handler, Control, Reserve
  <2>2. TotalTokens(body[h]) \in 1..MaxTokens
    BY <1>2, PayloadsAssumption DEF IInv, Types, Reserve
  <2>3. Window!Submit(h, key[h], TotalTokens(body[h]), now)
    BY <1>2, SameSteps DEF Reserve
  <2> QED
    BY <2>1, <2>2, <2>3 DEF Window!Next
<1>3. ASSUME NEW h \in Calls, Transact(h)
      PROVE  Window!Next
  <2>1. CASE \E told \in {"allowed", "error"} : Ledger!Grant(h, told)
    BY <2>1, SameSteps DEF Window!Next
  <2>2. CASE \E told \in {"denied", "error"} : Ledger!Refuse(h, told)
    BY <2>2, SameSteps DEF Window!Next
  <2>3. CASE Ledger!Abort({h})
    <3>1. {h} \in SUBSET Calls /\ Window!Abort({h})
      BY <2>3, SameSteps
    <3> QED
      BY <3>1 DEF Window!Next
  <2> QED
    BY <1>3, <2>1, <2>2, <2>3 DEF Transact
<1>4. CASE Crash
  <2> DEFINE S == {h \in {g \in Calls : stage[g] \notin {"idle", "done", "lost"}} :
                     verdict[h] = "pending"}
  <2>1. S \in SUBSET Calls /\ Window!Abort(S)
    BY <1>4, SameSteps DEF Crash
  <2> QED
    BY <2>1 DEF Window!Next
<1>5. CASE UNCHANGED vars
  BY <1>5 DEF vars, ledger, Window!vars
<1> QED
  BY <1>1, <1>2, <1>3, <1>4, <1>5, NextCases

(***************************************************************************)
(* The handlers                                                            *)
(***************************************************************************)
\* Only h's own state changes.
OnlyOf(h) ==
  \A g \in Calls : g # h =>
    /\ stage'[g] = stage[g] /\ key'[g] = key[g] /\ calls'[g] = calls[g]
    /\ answers'[g] = answers[g] /\ expired'[g] = expired[g]
    /\ admission'[g] = admission[g] /\ response'[g] = response[g]

\* In the ledger, too: at most a row of h's own is added to what was granted.
LedgerOf(h) ==
  /\ granted \subseteq granted'
  /\ \A r \in granted' : r \in granted \/ r.id = h
  /\ \A g \in Calls : g # h => request'[g] = request[g] /\ verdict'[g] = verdict[g]

(* It is enough to look at the handler that moves.                            *)
LEMMA OwnStep ==
  ASSUME IInv, NEW h \in Calls, OnlyOf(h), LedgerOf(h), Handler(h)'
  PROVE  \A g \in Calls : Handler(g)'
<1> SUFFICES ASSUME NEW g \in Calls, g # h PROVE Handler(g)'
  OBVIOUS
<1>1. Handler(g)
  BY DEF IInv
<1>2. Control(g)' /\ Refusals(g)' /\ Policy(g)' /\ Truth(g)'
  BY <1>1 DEF Handler, Control, Refusals, Policy, Truth, OnlyOf, LedgerOf
<1>3. Charges(g)'
  BY <1>1 DEF Handler, Charges, Charged, LedgerOf
<1> QED
  BY <1>2, <1>3 DEF Handler

(* Off the ledger nothing of it has to be shown.                              *)
LEMMA LedgerRests == ASSUME UNCHANGED ledger, NEW h PROVE LedgerOf(h)
  BY DEF ledger, LedgerOf

\* The handler ends with this answer.
Ends(h, answer) ==
  /\ stage[h] # "done"
  /\ response' = [response EXCEPT ![h] = answer]
  /\ stage' = [stage EXCEPT ![h] = "done"]
  /\ UNCHANGED <<ledger, admission, calls, answers, expired>>

\* What the answer says is so, where the handler stands.
Honest(h, answer) ==
  /\ answer.status \in {400, 401} => verdict[h] = "none"
  /\ answer.status = 429 => verdict[h] = "denied"
  /\ answer.status = 503 => verdict[h] = "error"
  /\ answer.provider # "none" =>
       /\ answer.provider = stage[h]
       /\ answers[h][answer.provider] = answer.status /\ Successful(answer.status)
  /\ answer.code \in {"fallback_provider_unavailable", "fallback_provider_failed"}
       => stage[h] = "secondary"
  /\ answer.code \in {"primary_provider_unavailable", "primary_provider_rejected"}
       => stage[h] = "primary"

(* A typed and honest answer keeps the invariant.                             *)
LEMMA RespondStep ==
  ASSUME IInv, NEW h \in Calls, NEW answer \in Response, Ends(h, answer), Honest(h, answer),
         key' \in [Calls -> Tenants \cup {NoKey}],
         body' \in [Calls -> Payloads \cup {Garbage}],
         \A g \in Calls : g # h => key'[g] = key[g]
  PROVE  Types' /\ \A g \in Calls : Handler(g)'
<1>1. answer # NoResponse
  BY NamesAssumption
<1>2. Types /\ Handler(h)
  BY DEF IInv
<1>3. Types'
  BY <1>2 DEF Types, Stages, Ends
<1>4. OnlyOf(h) /\ UNCHANGED ledger
  BY <1>2 DEF OnlyOf, Types, Ends
<1>5. response'[h] = answer /\ stage'[h] = "done"
  BY <1>2 DEF Types, Ends
<1>6. Handler(h)'
  <2>1. Control(h)' /\ Charges(h)'
    BY <1>1, <1>2, <1>5 DEF Handler, Control, Charges, Charged, Ends, ledger
  <2>2. Refusals(h)'
    BY <1>5 DEF Refusals, Honest, Ends, ledger
  <2>3. Policy(h)'
    BY <1>2 DEF Handler, Policy, Ends
  <2>4. Truth(h)'
    BY <1>2, <1>5 DEF Handler, Truth, Control, Honest, Ends, Providers
  <2> QED
    BY <2>1, <2>2, <2>3, <2>4 DEF Handler
<1> QED
  BY <1>3, <1>4, <1>6, OwnStep, LedgerRests

(* The headers are numbers or absent.                                         *)
LEMMA RetryAfterHeaderType ==
  ASSUME NEW ms \in Nat \cup {Never}
  PROVE  RetryAfterHeader(ms) \in Optional
<1>1. CASE ms = Never
  BY <1>1 DEF RetryAfterHeader, Optional
<1>2. CASE ms # Never
  <2> DEFINE seconds == (ms + MsPerSecond - 1) \div MsPerSecond
  <2>1. seconds \in Int
    BY <1>2, MsPerSecondAssumption
  <2> HIDE DEF seconds
  <2>2. (IF seconds < 1 THEN 1 ELSE seconds) \in Nat
    BY <2>1
  <2> QED
    BY <1>2, <2>2 DEF RetryAfterHeader, Optional, seconds
<1> QED
  BY <1>1, <1>2

(* So are those of every answer with a verdict behind it.                     *)
LEMMA HeaderTypes ==
  ASSUME IInv, NEW h \in Calls
  PROVE  /\ NoHeaders \in [remaining : Optional, retry_after : Optional]
         /\ verdict[h] \in {"allowed", "denied"} =>
              /\ RateHeaders(h) \in [remaining : Optional, retry_after : Optional]
              /\ [RateHeaders(h) EXCEPT !.retry_after = RetryAfterHeader(admission[h].retry)]
                   \in [remaining : Optional, retry_after : Optional]
<1>1. NoHeaders \in [remaining : Optional, retry_after : Optional]
  BY DEF NoHeaders, Optional
<1>2. ASSUME verdict[h] \in {"allowed", "denied"}
      PROVE  admission[h].remaining \in Nat /\ admission[h].retry \in Nat \cup {Never}
  BY <1>2 DEF IInv, Handler, Control, Admission
<1> QED
  BY <1>1, <1>2, RetryAfterHeaderType DEF RateHeaders, Optional

\* A gateway error.
Error(status, code, headers) ==
  [status |-> status, code |-> code, provider |-> "none", headers |-> headers]

(* The answers that need no provider.                                         *)
LEMMA RefusalStep ==
  ASSUME IInv, NEW h \in Calls,
         RejectBody(h) \/ RequestRaises(h) \/ LimiterUnavailable(h) \/ RateLimited(h)
  PROVE  Types' /\ \A g \in Calls : Handler(g)'
<1>1. Types /\ Control(h)
  BY DEF IInv, Handler
<1>2. ASSUME NEW answer \in Response, Ends(h, answer), Honest(h, answer),
             key' = key, body' = body
      PROVE  Types' /\ \A g \in Calls : Handler(g)'
  BY <1>1, <1>2, RespondStep DEF Types
<1>3. CASE RejectBody(h)
  <2>1. PICK answer \in Response : answer = Error(400, "invalid_request", NoHeaders)
    <3>1. Error(400, "invalid_request", NoHeaders) \in Response
      BY DEF NoHeaders, Optional, Error, Response, Codes
    <3> QED
      BY <3>1, Zenon
  <2>2. Ends(h, answer) /\ key' = key /\ body' = body
    BY <1>3, <2>1 DEF RejectBody, Respond, Enter, Ends, Error
  <2>3. Honest(h, answer)
    BY <1>1, <1>3, <2>1 DEF RejectBody, Control, Honest, Error
  <2> QED
    BY <1>2, <2>2, <2>3
<1>4. CASE RequestRaises(h)
  <2>1. PICK answer \in Response : answer = Error(500, "unhandled", NoHeaders)
    <3>1. Error(500, "unhandled", NoHeaders) \in Response
      BY DEF NoHeaders, Optional, Error, Response, Codes
    <3> QED
      BY <3>1, Zenon
  <2>2. Ends(h, answer) /\ key' = key /\ body' = body
    BY <1>4, <2>1 DEF RequestRaises, Unhandled, Respond, Enter, Ends, Error
  <2>3. Honest(h, answer)
    BY <2>1 DEF Honest, Error
  <2> QED
    BY <1>2, <2>2, <2>3
<1>5. CASE LimiterUnavailable(h)
  <2>1. PICK answer \in Response : answer = Error(503, "rate_limiter_unavailable", NoHeaders)
    <3>1. Error(503, "rate_limiter_unavailable", NoHeaders) \in Response
      BY DEF NoHeaders, Optional, Error, Response, Codes
    <3> QED
      BY <3>1, Zenon
  <2>2. Ends(h, answer) /\ key' = key /\ body' = body
    BY <1>5, <2>1 DEF LimiterUnavailable, Respond, Enter, Ends, Error
  <2>3. Honest(h, answer)
    BY <1>5, <2>1 DEF LimiterUnavailable, Honest, Error
  <2> QED
    BY <1>2, <2>2, <2>3
<1>6. CASE RateLimited(h)
  <2> DEFINE headers ==
        [RateHeaders(h) EXCEPT !.retry_after = RetryAfterHeader(admission[h].retry)]
  <2>1. headers \in [remaining : Optional, retry_after : Optional]
    BY <1>6, HeaderTypes DEF RateLimited, RateHeaders
  <2> HIDE DEF headers
  <2>2. PICK answer \in Response : answer = Error(429, "tenant_rate_limit_exceeded", headers)
    <3>1. Error(429, "tenant_rate_limit_exceeded", headers) \in Response
      BY <2>1 DEF Error, Response, Codes
    <3> QED
      BY <3>1, Zenon
  <2>3. Ends(h, answer) /\ key' = key /\ body' = body
    BY <1>6, <2>2 DEF RateLimited, Respond, Enter, Ends, Error, headers
  <2>4. Honest(h, answer)
    BY <1>6, <2>2 DEF RateLimited, Honest, Error
  <2> QED
    BY <1>2, <2>3, <2>4
<1> QED
  BY <1>3, <1>4, <1>5, <1>6

(* The gateway errors of router.py, and what generate() does not normalize.   *)
LEMMA RoutingErrorStep ==
  ASSUME IInv, NEW h \in Calls,
         \/ PrimaryRejected(h) \/ PrimaryTransportError(h)
         \/ SecondaryTransportError(h) \/ SecondaryTimeout(h) \/ SecondaryFailed(h)
         \/ ProviderRaises(h)
  PROVE  Types' /\ \A g \in Calls : Handler(g)'
<1>1. Types /\ Control(h)
  BY DEF IInv, Handler
<1>2. ASSUME NEW answer \in Response, Ends(h, answer), Honest(h, answer),
             key' = key, body' = body
      PROVE  Types' /\ \A g \in Calls : Handler(g)'
  BY <1>1, <1>2, RespondStep DEF Types
<1>3. RateHeaders(h) \in [remaining : Optional, retry_after : Optional]
      \/ stage[h] \notin Providers
  BY <1>1, HeaderTypes DEF Control, Providers
<1>4. CASE PrimaryRejected(h)
  <2>1. PICK answer \in Response : answer = Error(502, "primary_provider_rejected", RateHeaders(h))
    <3>1. Error(502, "primary_provider_rejected", RateHeaders(h)) \in Response
      BY <1>3, <1>4 DEF PrimaryRejected, Answered, Awaiting, Providers, Error, Response, Codes
    <3> QED
      BY <3>1, Zenon
  <2>2. Ends(h, answer) /\ key' = key /\ body' = body
    BY <1>4, <2>1 DEF PrimaryRejected, Answered, Awaiting, Respond, Enter, Ends, Error
  <2>3. Honest(h, answer)
    BY <1>4, <2>1 DEF PrimaryRejected, Answered, Awaiting, Honest, Error
  <2> QED
    BY <1>2, <2>2, <2>3
<1>5. CASE PrimaryTransportError(h)
  <2>1. PICK answer \in Response : answer = Error(502, "primary_provider_unavailable", RateHeaders(h))
    <3>1. Error(502, "primary_provider_unavailable", RateHeaders(h)) \in Response
      BY <1>3, <1>5 DEF PrimaryTransportError, Awaiting, Providers, Error, Response, Codes
    <3> QED
      BY <3>1, Zenon
  <2>2. Ends(h, answer) /\ key' = key /\ body' = body
    BY <1>5, <2>1 DEF PrimaryTransportError, Awaiting, Respond, Enter, Ends, Error
  <2>3. Honest(h, answer)
    BY <1>5, <2>1 DEF PrimaryTransportError, Awaiting, Honest, Error
  <2> QED
    BY <1>2, <2>2, <2>3
<1>6. CASE SecondaryTransportError(h)
  <2>1. PICK answer \in Response : answer = Error(502, "fallback_provider_unavailable", RateHeaders(h))
    <3>1. Error(502, "fallback_provider_unavailable", RateHeaders(h)) \in Response
      BY <1>3, <1>6 DEF SecondaryTransportError, Awaiting, Providers, Error, Response, Codes
    <3> QED
      BY <3>1, Zenon
  <2>2. Ends(h, answer) /\ key' = key /\ body' = body
    BY <1>6, <2>1 DEF SecondaryTransportError, Awaiting, Respond, Enter, Ends, Error
  <2>3. Honest(h, answer)
    BY <1>6, <2>1 DEF SecondaryTransportError, Awaiting, Honest, Error
  <2> QED
    BY <1>2, <2>2, <2>3
<1>7. CASE SecondaryTimeout(h)
  <2>1. PICK answer \in Response : answer = Error(502, "fallback_provider_unavailable", RateHeaders(h))
    <3>1. Error(502, "fallback_provider_unavailable", RateHeaders(h)) \in Response
      BY <1>3, <1>7 DEF SecondaryTimeout, Providers, Error, Response, Codes
    <3> QED
      BY <3>1, Zenon
  <2>2. Ends(h, answer) /\ key' = key /\ body' = body
    BY <1>7, <2>1 DEF SecondaryTimeout, Respond, Enter, Ends, Error
  <2>3. Honest(h, answer)
    BY <1>7, <2>1 DEF SecondaryTimeout, Honest, Error
  <2> QED
    BY <1>2, <2>2, <2>3
<1>8. CASE SecondaryFailed(h)
  <2>1. PICK answer \in Response : answer = Error(502, "fallback_provider_failed", RateHeaders(h))
    <3>1. Error(502, "fallback_provider_failed", RateHeaders(h)) \in Response
      BY <1>3, <1>8 DEF SecondaryFailed, Answered, Awaiting, Providers, Error, Response, Codes
    <3> QED
      BY <3>1, Zenon
  <2>2. Ends(h, answer) /\ key' = key /\ body' = body
    BY <1>8, <2>1 DEF SecondaryFailed, Answered, Awaiting, Respond, Enter, Ends, Error
  <2>3. Honest(h, answer)
    BY <1>8, <2>1 DEF SecondaryFailed, Answered, Awaiting, Honest, Error
  <2> QED
    BY <1>2, <2>2, <2>3
<1>9. CASE ProviderRaises(h)
  <2>1. PICK answer \in Response : answer = Error(500, "unhandled", NoHeaders)
    <3>1. Error(500, "unhandled", NoHeaders) \in Response
      BY DEF NoHeaders, Optional, Error, Response, Codes
    <3> QED
      BY <3>1, Zenon
  <2>2. Ends(h, answer) /\ key' = key /\ body' = body
    BY <1>9, <2>1 DEF ProviderRaises, Awaiting, Providers, Unhandled, Respond, Enter, Ends, Error
  <2>3. Honest(h, answer)
    BY <2>1 DEF Honest, Error
  <2> QED
    BY <1>2, <2>2, <2>3
<1> QED
  BY <1>4, <1>5, <1>6, <1>7, <1>8, <1>9

(* A usable key lets a handler read on; without one it answers 401.           *)
LEMMA AuthenticateStep ==
  ASSUME IInv, NEW h \in Calls, NEW t \in Tenants \cup {NoKey},
         NEW b \in Payloads \cup {Garbage}, Authenticate(h, t, b)
  PROVE  Types' /\ \A g \in Calls : Handler(g)'
<1>1. Types /\ Handler(h)
  BY DEF IInv
<1>2. /\ key' \in [Calls -> Tenants \cup {NoKey}]
      /\ body' \in [Calls -> Payloads \cup {Garbage}]
      /\ key'[h] = t /\ \A g \in Calls : g # h => key'[g] = key[g]
  BY <1>1 DEF Types, Authenticate
<1>3. CASE t = NoKey
  <2>1. PICK answer \in Response : answer = Error(401, "invalid_api_key", NoHeaders)
    <3>1. Error(401, "invalid_api_key", NoHeaders) \in Response
      BY DEF NoHeaders, Optional, Error, Response, Codes
    <3> QED
      BY <3>1, Zenon
  <2>2. Ends(h, answer)
    BY <1>3, <2>1 DEF Authenticate, Respond, Enter, Ends, Error
  <2>3. Honest(h, answer)
    BY <1>1, <2>1 DEF Authenticate, Handler, Control, Honest, Error
  <2> QED
    BY <1>2, <2>2, <2>3, RespondStep
<1>4. CASE t # NoKey
  <2>1. stage' = [stage EXCEPT ![h] = "body"] /\ UNCHANGED response
    BY <1>4 DEF Authenticate, Enter
  <2>2. Types' /\ OnlyOf(h)
    BY <1>1, <1>2, <2>1 DEF Types, OnlyOf, Authenticate, Stages
  <2>3. Handler(h)'
    BY <1>1, <1>2, <1>4, <2>1
    DEF Authenticate, Types, Handler, Control, Charges, Charged, Refusals, Policy, Truth, ledger
  <2> QED
    BY <2>2, <2>3, OwnStep, LedgerRests DEF Authenticate
<1> QED
  BY <1>3, <1>4

(* A relayed answer is the awaited provider's.                                *)
LEMMA SuccessStep ==
  ASSUME IInv, NEW h \in Calls, NEW p \in Providers, Success(h, p)
  PROVE  Types' /\ \A g \in Calls : Handler(g)'
<1>1. Types /\ Control(h)
  BY DEF IInv, Handler
<1>2. /\ stage[h] = p /\ verdict[h] = "allowed"
      /\ Successful(answers[h][p]) /\ answers[h][p] \in 100..599
  BY <1>1 DEF Success, Answered, Awaiting, Successful, Control, Providers
<1>3. RateHeaders(h) \in [remaining : Optional, retry_after : Optional]
  BY <1>2, HeaderTypes
<1>4. PICK answer \in Response :
        answer = [status |-> answers[h][p], code |-> "none", provider |-> p,
                  headers |-> RateHeaders(h)]
  BY <1>2, <1>3 DEF Response, Codes
<1>5. Ends(h, answer)
  BY <1>2, <1>4 DEF Success, Relay, Enter, Ends, Providers
<1>6. Honest(h, answer)
  BY <1>2, <1>4 DEF Honest, Successful, Providers
<1> QED
  BY <1>1, <1>5, <1>6, RespondStep DEF Types, Success

(* The request goes to the primary once, and to the secondary after that only *)
(* for the two reasons there are.                                             *)
LEMMA SendStep ==
  ASSUME IInv, NEW h \in Calls, Route(h) \/ PrimaryBusy(h) \/ PrimaryTimeout(h)
  PROVE  Types' /\ \A g \in Calls : Handler(g)'
<1>1. Types /\ Handler(h)
  BY DEF IInv
<1>2. PICK p \in Providers :
        /\ calls' = [calls EXCEPT ![h] = @ \cup {p}]
        /\ stage' = [stage EXCEPT ![h] = p]
        /\ UNCHANGED <<ledger, admission, key, body, answers, expired, response>>
        /\ p = "primary" => stage[h] = "reserve" /\ verdict[h] = "allowed"
        /\ p = "secondary" =>
             stage[h] = "primary" /\ (answers[h]["primary"] = 429 \/ "primary" \in expired[h])
  BY DEF Route, PrimaryBusy, PrimaryTimeout, Answered, Awaiting, Fallback, Send, Enter, Providers
<1>3. Types'
  BY <1>1, <1>2 DEF Types, Stages, Providers
<1>4. OnlyOf(h)
  BY <1>1, <1>2 DEF Types, OnlyOf
<1>5. stage'[h] = p /\ calls'[h] = calls[h] \cup {p}
  BY <1>1, <1>2 DEF Types
<1>6. response[h] = NoResponse /\ response'[h] = NoResponse
  BY <1>1, <1>2 DEF Handler, Control, Providers
<1>7. Control(h)' /\ Charges(h)' /\ Refusals(h)' /\ Policy(h)' /\ Truth(h)'
  <2>1. Control(h)'
    BY <1>1, <1>2, <1>5, <1>6 DEF Handler, Control, Providers, ledger
  <2>2. Charges(h)'
    BY <1>1, <1>2 DEF Handler, Charges, Charged, ledger
  <2>3. Refusals(h)' /\ Truth(h)'
    BY <1>6 DEF Refusals, Truth
  <2>4. Policy(h)'
    BY <1>1, <1>2, <1>5 DEF Handler, Control, Policy, Providers
  <2> QED
    BY <2>1, <2>2, <2>3, <2>4
<1> QED
  BY <1>2, <1>3, <1>4, <1>7, OwnStep, LedgerRests DEF Handler

(* A deadline or an answer, late or not, makes nothing untrue.                *)
LEMMA ProviderStep ==
  ASSUME IInv, NEW h \in Calls, NEW p \in Providers,
         Deadline(h, p) \/ \E status \in Statuses : Answer(h, p, status)
  PROVE  Types' /\ \A g \in Calls : Handler(g)'
<1>1. Types /\ Handler(h)
  BY DEF IInv
<1>2. UNCHANGED <<ledger, admission, stage, key, body, calls, response>>
  BY DEF Deadline, Answer
<1>3. /\ Types' /\ OnlyOf(h)
      /\ expired[h] \subseteq expired'[h]
      /\ \A q \in Providers : answers[h][q] # 0 => answers'[h][q] = answers[h][q]
  <2>1. CASE Deadline(h, p)
    BY <1>1, <2>1 DEF Types, OnlyOf, Deadline
  <2>2. ASSUME NEW status \in Statuses, Answer(h, p, status)
        PROVE  /\ Types' /\ OnlyOf(h)
               /\ expired[h] \subseteq expired'[h]
               /\ \A q \in Providers : answers[h][q] # 0 => answers'[h][q] = answers[h][q]
    BY <1>1, <2>2 DEF Types, OnlyOf, Answer
  <2> QED
    BY <2>1, <2>2
<1>4. Control(h)' /\ Charges(h)' /\ Refusals(h)'
  BY <1>1, <1>2 DEF Handler, Control, Charges, Charged, Refusals, ledger
<1>5. Policy(h)'
  BY <1>1, <1>2, <1>3 DEF Handler, Policy, Providers
<1>6. Truth(h)'
  <2>1. response[h] # NoResponse => response[h] \in Response
    BY <1>1 DEF Types
  <2>2. response[h] # NoResponse /\ response[h].provider # "none" =>
          response[h].provider \in Providers /\ answers[h][response[h].provider] # 0
    BY <1>1, <2>1 DEF Handler, Truth, Successful, Response
  <2> QED
    BY <1>1, <1>2, <1>3, <2>1, <2>2 DEF Handler, Truth
<1> QED
  BY <1>2, <1>3, <1>4, <1>5, <1>6, OwnStep, LedgerRests DEF Handler

(* What the three ends of reserve() do to the ledger.                         *)
LEMMA LedgerEffects ==
  ASSUME IInv, NEW h \in Calls
  PROVE  /\ verdict[h] = "pending" =>
              /\ request[h] \in Request
              /\ Usage(rows, request[h].tenant, request[h].now) \in Nat
         /\ \A told : Ledger!Grant(h, told) =>
              /\ verdict[h] = "pending" /\ verdict' = [verdict EXCEPT ![h] = told]
              /\ ~OverLimit(Usage(rows, request[h].tenant, request[h].now), request[h].tokens)
              /\ granted' = granted \cup {RowOf(h, request[h])} /\ request' = request
         /\ \A told : Ledger!Refuse(h, told) =>
              /\ verdict[h] = "pending" /\ verdict' = [verdict EXCEPT ![h] = told]
              /\ granted' = granted /\ request' = request
         /\ Ledger!Abort({h}) =>
              /\ verdict' = [c \in Calls |-> IF c = h THEN "error" ELSE verdict[c]]
              /\ granted' = granted /\ request' = request
<1>1. ASSUME verdict[h] = "pending"
      PROVE  /\ request[h] \in Request
             /\ Usage(rows, request[h].tenant, request[h].now) \in Nat
  <2>1. request[h] \in Request
    BY <1>1 DEF IInv, Window!IInv, Window!TypeOK, Window!Request, Request
  <2>2. Active(rows, request[h].tenant, request[h].now) \in SUBSET granted
    BY DEF IInv, Window!IInv, Window!OnlyExpiredAreGone, Active
  <2>3. IsFiniteSet(granted)
    BY DEF IInv, Window!IInv, Window!IsFiniteSet, IsFiniteSet
  <2>4. IsFiniteSet(Active(rows, request[h].tenant, request[h].now))
    BY <2>2, <2>3, FS_Subset
  <2> QED
    BY <2>1, <2>4, TokensType DEF Usage
<1>2. ASSUME NEW told, Ledger!Grant(h, told)
      PROVE  /\ verdict[h] = "pending" /\ verdict' = [verdict EXCEPT ![h] = told]
             /\ ~OverLimit(Usage(rows, request[h].tenant, request[h].now), request[h].tokens)
             /\ granted' = granted \cup {RowOf(h, request[h])} /\ request' = request
  BY <1>2, SameSum
  DEF Ledger!Grant, Ledger!OverLimit, Ledger!Usage, Ledger!Active, Ledger!RowOf,
      OverLimit, Usage, Active, RowOf
<1>3. ASSUME NEW told, Ledger!Refuse(h, told)
      PROVE  /\ verdict[h] = "pending" /\ verdict' = [verdict EXCEPT ![h] = told]
             /\ granted' = granted /\ request' = request
  BY <1>3 DEF Ledger!Refuse
<1>4. ASSUME Ledger!Abort({h})
      PROVE  /\ verdict' = [c \in Calls |-> IF c = h THEN "error" ELSE verdict[c]]
             /\ granted' = granted /\ request' = request
  BY <1>4 DEF Ledger!Abort
<1> QED
  BY <1>1, <1>2, <1>3, <1>4

(* A request enters the limiter with nothing charged and nothing sent.        *)
LEMMA ReserveStep ==
  ASSUME IInv, NEW h \in Calls, NEW now \in Times, Reserve(h, now)
  PROVE  Types' /\ \A g \in Calls : Handler(g)'
<1>1. Types /\ Handler(h) /\ verdict \in [Calls -> Window!Verdicts]
  BY DEF IInv, Window!IInv, Window!TypeOK
<1>2. /\ stage[h] = "body" /\ stage' = [stage EXCEPT ![h] = "reserve"]
      /\ verdict[h] = "none" /\ verdict' = [verdict EXCEPT ![h] = "pending"]
      /\ \A g \in Calls : g # h => request'[g] = request[g]
      /\ UNCHANGED <<granted, admission, key, body, calls, answers, expired, response>>
  BY DEF Reserve, Enter, Ledger!Submit, IInv, Window!IInv, Window!TypeOK
<1>3. Types' /\ OnlyOf(h)
  BY <1>1, <1>2 DEF Types, Stages, OnlyOf
<1>4. LedgerOf(h) /\ verdict'[h] = "pending" /\ stage'[h] = "reserve"
  BY <1>1, <1>2 DEF LedgerOf, Types
<1>5. Handler(h)'
  BY <1>1, <1>2, <1>4 DEF Handler, Control, Charges, Charged, Refusals, Policy, Truth
<1> QED
  BY <1>3, <1>4, <1>5, OwnStep

(* The verdict, the charge and the admission arrive together.                 *)
LEMMA TransactStep ==
  ASSUME IInv, NEW h \in Calls, Transact(h)
  PROVE  Types' /\ \A g \in Calls : Handler(g)'
<1> DEFINE q    == request[h]
           sum  == Usage(rows, q.tenant, q.now)
           left == LimitTokens - sum
<1>1. Types /\ Handler(h) /\ stage[h] = "reserve"
      /\ UNCHANGED <<stage, key, body, calls, answers, expired, response>>
  BY DEF IInv, Transact
<1>2. response[h] = NoResponse /\ calls[h] = {}
  BY <1>1 DEF Handler, Control
<1>3. ASSUME /\ admission' \in [Calls -> Admission \cup {NoResponse}]
             /\ \A g \in Calls : g # h => admission'[g] = admission[g]
             /\ LedgerOf(h) /\ Control(h)' /\ Charges(h)'
      PROVE  Types' /\ \A g \in Calls : Handler(g)'
  <2>1. Types' /\ OnlyOf(h)
    BY <1>1, <1>3 DEF Types, OnlyOf
  <2>2. Refusals(h)' /\ Policy(h)' /\ Truth(h)'
    BY <1>1, <1>2 DEF Refusals, Policy, Truth
  <2> QED
    BY <1>3, <2>1, <2>2, OwnStep DEF Handler
<1>4. ASSUME NEW told \in {"allowed", "error"}, Ledger!Grant(h, told),
             admission' = [admission EXCEPT ![h] =
               [remaining |-> left - q.tokens, retry |-> Never]]
      PROVE  Types' /\ \A g \in Calls : Handler(g)'
  <2>1. /\ verdict[h] = "pending" /\ verdict' = [verdict EXCEPT ![h] = told]
        /\ ~OverLimit(sum, q.tokens)
        /\ granted' = granted \cup {RowOf(h, q)} /\ request' = request
        /\ q \in Request /\ sum \in Nat
    BY <1>4, LedgerEffects
  <2>2. left - q.tokens \in Nat
    BY <2>1, LimitsAssumption DEF OverLimit, Request
  <2> HIDE DEF left, sum, q
  <2>3. [remaining |-> left - q.tokens, retry |-> Never] \in Admission
    BY <2>2 DEF Admission
  <2>4. /\ admission' \in [Calls -> Admission \cup {NoResponse}] /\ admission'[h] \in Admission
        /\ \A g \in Calls : g # h => admission'[g] = admission[g]
    BY <1>1, <1>4, <2>3 DEF Types
  <2>5. verdict'[h] = told /\ \A g \in Calls : g # h => verdict'[g] = verdict[g]
    BY <2>1 DEF IInv, Window!IInv, Window!TypeOK
  <2>6. LedgerOf(h)
    BY <2>1, <2>5 DEF LedgerOf, RowOf
  <2>7. Control(h)'
    BY <1>1, <1>2, <2>4, <2>5 DEF Handler, Control
  <2>8. Charges(h)'
    BY <2>1, <2>5 DEF Charges, q
  <2> QED
    BY <1>3, <2>4, <2>6, <2>7, <2>8
<1>5. ASSUME NEW told \in {"denied", "error"}, Ledger!Refuse(h, told),
             admission' = [admission EXCEPT ![h] =
               [remaining |-> IF left < 0 THEN 0 ELSE left,
                retry |-> RetryAfter(rows, q.tenant, q.now, sum, q.tokens)]]
      PROVE  Types' /\ \A g \in Calls : Handler(g)'
  <2>1. /\ verdict[h] = "pending" /\ verdict' = [verdict EXCEPT ![h] = told]
        /\ granted' = granted /\ request' = request
        /\ q \in Request /\ sum \in Nat
    BY <1>5, LedgerEffects
  <2>2. (IF left < 0 THEN 0 ELSE left) \in Nat
    BY <2>1, LimitsAssumption
  <2>3. RetryAfter(rows, q.tenant, q.now, sum, q.tokens) \in Nat \cup {Never}
    <3>1. rows \in SUBSET Row /\ q.now \in Nat
      BY <2>1 DEF IInv, Window!IInv, Window!TypeOK, Window!Row, Row, Request
    <3> QED
      BY <3>1, RetryAfterType
  <2> HIDE DEF left, sum, q
  <2>4. [remaining |-> IF left < 0 THEN 0 ELSE left,
         retry |-> RetryAfter(rows, q.tenant, q.now, sum, q.tokens)] \in Admission
    BY <2>2, <2>3 DEF Admission
  <2>5. /\ admission' \in [Calls -> Admission \cup {NoResponse}] /\ admission'[h] \in Admission
        /\ \A g \in Calls : g # h => admission'[g] = admission[g]
    BY <1>1, <1>5, <2>4 DEF Types
  <2>6. verdict'[h] = told /\ \A g \in Calls : g # h => verdict'[g] = verdict[g]
    BY <2>1 DEF IInv, Window!IInv, Window!TypeOK
  <2>7. LedgerOf(h)
    BY <2>1, <2>6 DEF LedgerOf
  <2>8. Control(h)'
    BY <1>1, <1>2, <2>5, <2>6 DEF Handler, Control
  <2>9. Charges(h)'
    BY <1>1, <2>1, <2>6 DEF Handler, Charges, Charged
  <2> QED
    BY <1>3, <2>5, <2>7, <2>8, <2>9
<1>6. ASSUME verdict[h] = "pending", Ledger!Abort({h}), UNCHANGED admission
      PROVE  Types' /\ \A g \in Calls : Handler(g)'
  <2>1. /\ verdict' = [c \in Calls |-> IF c = h THEN "error" ELSE verdict[c]]
        /\ granted' = granted /\ request' = request
    BY <1>6, LedgerEffects
  <2>2. LedgerOf(h)
    BY <2>1 DEF LedgerOf
  <2>3. Control(h)'
    BY <1>1, <1>2, <1>6, <2>1 DEF Handler, Control
  <2>4. Charges(h)'
    BY <2>1 DEF Charges
  <2> QED
    BY <1>1, <1>3, <1>6, <2>2, <2>3, <2>4 DEF Types
<1> QED
  BY <1>4, <1>5, <1>6 DEF Transact

(* The dead handlers answer nobody; their charges and calls stay what they    *)
(* were.                                                                      *)
LEMMA CrashStep ==
  ASSUME IInv, Crash
  PROVE  Types' /\ \A g \in Calls : Handler(g)'
<1>1. UNCHANGED <<request, granted, admission, key, body, calls, answers, expired, response>>
  BY DEF Crash, Ledger!Abort
<1>2. Types'
  BY <1>1 DEF IInv, Types, Crash, Stages
<1>3. ASSUME NEW h \in Calls
      PROVE  Handler(h)'
  <2>1. Handler(h) /\ Types
    BY DEF IInv
  <2>2. \/ stage'[h] = stage[h] /\ verdict'[h] = verdict[h]
        \/ /\ stage[h] \notin {"idle", "done", "lost"} /\ stage'[h] = "lost"
           /\ verdict'[h] = verdict[h] \/ (verdict[h] = "pending" /\ verdict'[h] = "error")
    BY DEF Crash, Ledger!Abort
  <2>3. Control(h)'
    BY <1>1, <2>1, <2>2 DEF Handler, Control
  <2>4. Charges(h)'
    BY <1>1, <2>1, <2>2 DEF Handler, Charges, Charged
  <2>5. Refusals(h)'
    BY <1>1, <2>1, <2>2 DEF Handler, Control, Refusals
  <2>6. Policy(h)' /\ Truth(h)'
    BY <1>1, <2>1 DEF Handler, Policy, Truth
  <2> QED
    BY <2>3, <2>4, <2>5, <2>6 DEF Handler
<1> QED
  BY <1>2, <1>3

(***************************************************************************)
(* The invariant                                                           *)
(***************************************************************************)
(* The empty ledger, and nobody served.                                       *)
LEMMA InitIInv == Init => IInv
<1> SUFFICES ASSUME Init PROVE IInv
  OBVIOUS
<1>1. Window!Init
  BY DEF Init, Ledger!Init, Window!Init
<1>2. Window!IInv
  BY <1>1, WindowAssumptions, LimitsAssumption, Window!InitIInv
<1>3. Types
  BY DEF Init, Types, Stages, Providers
<1>4. \A h \in Calls : Handler(h)
  BY DEF Init, Ledger!Init, Handler, Control, Charges, Charged, Refusals, Policy, Truth
<1> QED
  BY <1>2, <1>3, <1>4 DEF IInv

(* Every step keeps it: the ledger's part by the limiter's proof.             *)
LEMMA IInvStep == IInv /\ [Next]_vars => IInv'
<1> SUFFICES ASSUME IInv, [Next]_vars PROVE IInv'
  OBVIOUS
<1>1. Window!IInv'
  BY LedgerNext, WindowAssumptions, LimitsAssumption, Window!IInvStep DEF IInv
<1>2. CASE UNCHANGED vars
  <2>1. Types' /\ \A h \in Calls : Handler(h)'
    BY <1>2 DEF vars, ledger, IInv, Types, Handler, Control, Charges, Charged, Refusals,
                Policy, Truth
  <2> QED
    BY <1>1, <2>1 DEF IInv
<1>3. CASE Next
  <2>1. ASSUME NEW h \in Calls, Elsewhere(h)
        PROVE  Types' /\ \A g \in Calls : Handler(g)'
    BY <2>1, AuthenticateStep, RefusalStep, RoutingErrorStep, SuccessStep, SendStep, ProviderStep
    DEF Elsewhere, Disturbance
  <2>2. Types' /\ \A g \in Calls : Handler(g)'
    BY <1>3, <2>1, NextCases, ReserveStep, TransactStep, CrashStep
  <2> QED
    BY <1>1, <2>2 DEF IInv
<1> QED
  BY <1>2, <1>3

(* Every reachable state of the gateway satisfies the inductive invariant.    *)
THEOREM InvariantHolds == Spec => []IInv
  BY InitIInv, IInvStep, PTL DEF Spec

(***************************************************************************)
(* The theorems                                                            *)
(***************************************************************************)
(* The ledger's types, in the gateway's own words.                            *)
LEMMA LedgerTypes == Window!IInv => Ledger!TypeOK
  BY DEF Window!IInv, Window!TypeOK, Window!Row, Window!Request, Window!Verdicts,
         Ledger!TypeOK, Ledger!Row, Ledger!Request, Ledger!Verdicts

(* Every reachable state of the gateway is well typed, the numbers in its     *)
(* answers included: a client is never told a negative remainder, and it has  *)
(* an answer exactly when its handler is done.                                *)
THEOREM TypeCorrect == Spec => []TypeOK
<1>1. ASSUME IInv
      PROVE  TypeOK
  <2>1. \A h \in Calls : (stage[h] = "done") = (response[h] # NoResponse)
    BY <1>1 DEF IInv, Handler, Control
  <2> QED
    BY <1>1, <2>1, LedgerTypes DEF IInv, Types, TypeOK
<1> QED
  BY <1>1, InvariantHolds, PTL

(* Whatever fails, falls back or is lost, a tenant's requests that reach a    *)
(* provider are requests the limiter granted, so its rolling window bounds    *)
(* what the providers are made to work.                                       *)
THEOREM ProviderWorkWithinLimitHolds == Spec => []ProviderWorkWithinLimit
<1>1. ASSUME IInv, NEW t \in Tenants, NEW end \in Times
      PROVE  LET work == {RowOf(h, request[h]) : h \in {g \in Calls : calls[g] # {}}} IN
             Tokens({r \in work : r.tenant = t /\ r.at > end - (WindowMs - lag) /\ r.at <= end})
               <= LimitTokens
  <2> DEFINE work == {RowOf(h, request[h]) : h \in {g \in Calls : calls[g] # {}}}
             seen == {r \in work : r.tenant = t /\ r.at > end - (WindowMs - lag) /\ r.at <= end}
             all  == {r \in granted : r.tenant = t /\ r.at > end - (WindowMs - lag) /\ r.at <= end}
  <2>1. work \subseteq granted
    BY <1>1 DEF IInv, Handler, Control, Charges
  <2>2. seen \in SUBSET all
    BY <2>1
  <2>3. IsFiniteSet(granted) /\ all \in SUBSET granted
    BY <1>1 DEF IInv, Window!IInv, Window!IsFiniteSet, IsFiniteSet
  <2>4. IsFiniteSet(all) /\ Tokens(all) \in Nat
    BY <2>3, FS_Subset, TokensType
  <2>5. Tokens(all) <= LimitTokens
    BY <1>1, SameSum DEF IInv, Window!IInv, Window!RollingWindowLessLag, Window!Within
  <2>6. IsFiniteSet(seen) /\ Tokens(seen) <= Tokens(all)
    BY <2>2, <2>4, TokensMono
  <2>7. Tokens(seen) \in Nat
    BY <2>6, TokensType
  <2> HIDE DEF seen, all
  <2>8. Tokens(seen) <= LimitTokens
    BY <2>4, <2>5, <2>6, <2>7, LimitsAssumption
  <2> QED
    BY <2>8 DEF seen
<1>2. IInv => ProviderWorkWithinLimit
  BY <1>1 DEF ProviderWorkWithinLimit
<1> QED
  BY <1>2, InvariantHolds, PTL

(* Who is refused is not charged and reaches no provider; who reaches one     *)
(* stays charged until the reservation leaves the window.                     *)
THEOREM AnswerMatchesLedgerHolds == Spec => []AnswerMatchesLedger
<1>1. ASSUME IInv, NEW h \in Calls
      PROVE  /\ calls[h] # {} =>
                  \E r \in granted : r.id = h /\ (r \in rows \/ r.at <= newest - WindowMs)
             /\ response[h] # NoResponse =>
                  /\ response[h].status \in {400, 401, 429} => ~Charged(h)
                  /\ response[h].status \in {400, 401, 429, 503} => calls[h] = {}
  <2>1. Handler(h)
    BY <1>1 DEF IInv
  <2>2. ASSUME calls[h] # {}
        PROVE  \E r \in granted : r.id = h /\ (r \in rows \/ r.at <= newest - WindowMs)
    <3>1. RowOf(h, request[h]) \in granted /\ RowOf(h, request[h]).id = h
      BY <2>1, <2>2 DEF Handler, Control, Charges, RowOf
    <3>2. \A r \in granted : r \in rows \/ r.at <= newest - WindowMs
      BY <1>1 DEF IInv, Window!IInv, Window!OnlyExpiredAreGone
    <3> QED
      BY <3>1, <3>2
  <2> QED
    BY <2>1, <2>2 DEF Handler, Control, Charges, Refusals
<1>2. IInv => AnswerMatchesLedger
  BY <1>1 DEF AnswerMatchesLedger
<1> QED
  BY <1>2, InvariantHolds, PTL

(* The secondary is tried for a 429 or a missed deadline of the primary and   *)
(* for nothing else, in whatever order answers and deadlines arrive.          *)
THEOREM FallbackOnlyByPolicyHolds == Spec => []FallbackOnlyByPolicy
<1>1. IInv => FallbackOnlyByPolicy
  BY DEF IInv, Handler, Policy, FallbackOnlyByPolicy
<1> QED
  BY <1>1, InvariantHolds, PTL

(* A client is told the truth about the providers, and it stays the truth     *)
(* when answers arrive after their call was abandoned.                        *)
THEOREM AnswerMatchesProvidersHolds == Spec => []AnswerMatchesProviders
<1>1. IInv => AnswerMatchesProviders
  BY DEF IInv, Handler, Truth, AnswerMatchesProviders
<1> QED
  BY <1>1, InvariantHolds, PTL

(* The gateway uses the limiter as SlidingWindow allows: whatever the         *)
(* handlers, providers and crashes do, the ledger sees a behaviour of it.     *)
THEOREM GatewayUsesLimiter == Spec => Window!Spec
<1>1. Init => Window!Init
  BY DEF Init, Ledger!Init, Window!Init
<1> QED
  BY <1>1, LedgerNext, InvariantHolds, PTL DEF Spec, Window!Spec

(***************************************************************************)
(* Retry-After                                                             *)
(***************************************************************************)
(* Rounding up gives the first multiple of a second that is late enough.      *)
LEMMA CeilingOfSeconds ==
  ASSUME NEW ms \in Nat \ {0}
  PROVE  LET seconds == RetryAfterHeader(ms) IN
         /\ seconds \in Nat \ {0}
         /\ seconds * MsPerSecond \in Nat /\ seconds * MsPerSecond >= ms
         /\ (seconds - 1) * MsPerSecond \in Nat /\ (seconds - 1) * MsPerSecond < ms
<1> DEFINE a == ms + MsPerSecond - 1
           s == a \div MsPerSecond
<1>1. a \in Nat /\ MsPerSecond \in Nat \ {0} /\ a >= MsPerSecond /\ a >= ms
  BY MsPerSecondAssumption
<1> HIDE DEF a
<1>2. s \in Nat /\ s * MsPerSecond <= a /\ a < s * MsPerSecond + MsPerSecond
  BY <1>1
<1> HIDE DEF s
<1>3. s >= 1
  <2>1. s = 0 => a < MsPerSecond
    BY <1>1, <1>2
  <2> QED
    BY <1>1, <1>2, <2>1
<1>4. (s - 1) * MsPerSecond = s * MsPerSecond - MsPerSecond
  BY <1>1, <1>2
<1>5. s * MsPerSecond \in Nat /\ (s - 1) * MsPerSecond \in Nat
  BY <1>1, <1>2, <1>3
<1>6. s * MsPerSecond >= ms /\ (s - 1) * MsPerSecond < ms
  BY <1>1, <1>2, <1>4, <1>5 DEF a
<1>7. RetryAfterHeader(ms) = s
  BY <1>2, <1>3 DEF RetryAfterHeader, Never, s, a
<1> QED
  BY <1>2, <1>3, <1>5, <1>6, <1>7

(* Only a transaction turns a pending verdict into a refusal.                 *)
LEMMA DeniedByTransact ==
  ASSUME IInv, [Next]_vars, NEW h \in Calls, verdict[h] = "pending", verdict'[h] = "denied"
  PROVE  /\ OverLimit(Usage(rows, request[h].tenant, request[h].now), request[h].tokens)
         /\ rows' = Surviving(rows, request[h].now)
         /\ admission'[h].retry =
              RetryAfter(rows, request[h].tenant, request[h].now,
                         Usage(rows, request[h].tenant, request[h].now), request[h].tokens)
<1>1. verdict \in [Calls -> Window!Verdicts] /\ admission \in [Calls -> Admission \cup {NoResponse}]
  BY DEF IInv, Types, Window!IInv, Window!TypeOK
<1>2. ASSUME NEW g \in Calls, Elsewhere(g) PROVE FALSE
  BY <1>2
  DEF Elsewhere, Disturbance, Authenticate, RejectBody, RequestRaises, LimiterUnavailable,
      RateLimited, Route, Deadline, Success, Answer, PrimaryBusy, PrimaryTimeout,
      PrimaryRejected, PrimaryTransportError, SecondaryTransportError, SecondaryTimeout,
      SecondaryFailed, ProviderRaises, Fallback, ledger
<1>3. ASSUME NEW g \in Calls, NEW now \in Times, Reserve(g, now) PROVE FALSE
  BY <1>1, <1>3 DEF Reserve, Ledger!Submit
<1>4. ~Crash /\ ~UNCHANGED vars
  BY DEF Crash, Ledger!Abort, vars, ledger
<1>5. PICK g \in Calls : Transact(g)
  BY <1>2, <1>3, <1>4, NextCases
<1>6. ~Ledger!Abort({g})
  BY DEF Ledger!Abort
<1>7. ASSUME NEW told \in {"allowed", "error"}, Ledger!Grant(g, told) PROVE FALSE
  BY <1>1, <1>7 DEF Ledger!Grant
<1>8. PICK told \in {"denied", "error"} :
        /\ Ledger!Refuse(g, told)
        /\ LET q    == request[g]
               sum  == Usage(rows, q.tenant, q.now)
               left == LimitTokens - sum
           IN  admission' = [admission EXCEPT ![g] =
                 [remaining |-> IF left < 0 THEN 0 ELSE left,
                  retry |-> RetryAfter(rows, q.tenant, q.now, sum, q.tokens)]]
  BY <1>5, <1>6, <1>7 DEF Transact
<1>9. g = h
  BY <1>1, <1>8 DEF Ledger!Refuse
<1> QED
  BY <1>1, <1>8, <1>9, SameSum
  DEF Ledger!Refuse, Ledger!OverLimit, Ledger!Usage, Ledger!Active, Ledger!Surviving,
      OverLimit, Usage, Active, Surviving

(* The Retry-After a refused client is told, in whole seconds, is the first   *)
(* at which its request would fit, and is missing exactly when none will do.  *)
THEOREM RetryAfterHeaderExactHolds == Spec => RetryAfterHeaderExact
<1>1. ASSUME IInv, [Next]_vars, NEW h \in Calls, verdict[h] = "pending", verdict'[h] = "denied"
      PROVE  LET q    == request[h]
                 wait == RetryAfterHeader(admission'[h].retry)
                 fits(seconds) ==
                   ~OverLimit(Usage(rows', q.tenant, q.now + seconds * MsPerSecond), q.tokens)
             IN  /\ (wait = Absent) = (q.tokens > LimitTokens)
                 /\ wait # Absent => wait >= 1 /\ fits(wait) /\ (wait = 1 \/ ~fits(wait - 1))
  <2> DEFINE q    == request[h]
             ms   == RetryAfter(rows, q.tenant, q.now, Usage(rows, q.tenant, q.now), q.tokens)
             wait == RetryAfterHeader(ms)
             fits(seconds) ==
               ~OverLimit(Usage(rows', q.tenant, q.now + seconds * MsPerSecond), q.tokens)
  <2>1. q.now \in Nat /\ q.tokens \in 1..MaxTokens
    BY <1>1, LedgerEffects DEF Request
  <2>2. rows \in SUBSET Row /\ IsFiniteSet(rows)
    <3>1. rows \in SUBSET granted /\ IsFiniteSet(granted)
      BY <1>1 DEF IInv, Window!IInv, Window!OnlyExpiredAreGone, Window!IsFiniteSet, IsFiniteSet
    <3> QED
      BY <1>1, <3>1, FS_Subset DEF IInv, Window!IInv, Window!TypeOK, Window!Row, Row
  <2>3. /\ OverLimit(Usage(rows, q.tenant, q.now), q.tokens)
        /\ rows' = Surviving(rows, q.now)
        /\ admission'[h].retry = ms
    BY <1>1, DeniedByTransact
  <2>4. ms \in Nat \cup {Never}
    BY <2>1, <2>2, RetryAfterType
  <2>5. /\ (ms = Never) <=> (q.tokens > LimitTokens)
        /\ \A later \in Nat : later >= q.now =>
             (~OverLimit(Usage(rows, q.tenant, later), q.tokens)
                <=> (ms # Never /\ later >= q.now + ms))
    BY <2>1, <2>2, <2>3, RetryAfterFits
  <2>6. \A later \in Nat : later >= q.now =>
          Active(rows', q.tenant, later) = Active(rows, q.tenant, later)
    BY <2>1, <2>2, <2>3, LimitsAssumption DEF Active, Surviving, Row
  <2>7. \A later \in Nat : later >= q.now =>
          Usage(rows', q.tenant, later) = Usage(rows, q.tenant, later)
    BY <2>6 DEF Usage
  <2>8. CASE ms = Never
    BY <2>3, <2>5, <2>8 DEF RetryAfterHeader
  <2>9. CASE ms # Never
    <3>1. ms \in Nat \ {0}
      BY <2>1, <2>3, <2>4, <2>5, <2>9
    <3>2. /\ wait \in Nat \ {0}
          /\ wait * MsPerSecond \in Nat /\ wait * MsPerSecond >= ms
          /\ (wait - 1) * MsPerSecond \in Nat /\ (wait - 1) * MsPerSecond < ms
      BY <3>1, CeilingOfSeconds
    <3> HIDE DEF ms, wait
    <3>3. \A d \in Nat :
            ~OverLimit(Usage(rows', q.tenant, q.now + d), q.tokens) <=> d >= ms
      <4> TAKE d \in Nat
      <4>1. q.now + d \in Nat /\ q.now + d >= q.now /\ (q.now + d >= q.now + ms <=> d >= ms)
        BY <2>1, <3>1
      <4> QED
        BY <2>5, <2>7, <2>9, <4>1
    <3>4. fits(wait) /\ ~fits(wait - 1)
      BY <3>1, <3>2, <3>3
    <3>5. wait # Absent /\ ~(q.tokens > LimitTokens)
      BY <2>5, <2>9, <3>2 DEF Absent
    <3> QED
      BY <2>3, <3>2, <3>4, <3>5 DEF wait
  <2> QED
    BY <2>8, <2>9
<1>2. IInv /\ [Next]_vars =>
        [\A h \in Calls :
           verdict[h] = "pending" /\ verdict'[h] = "denied" =>
             LET q    == request[h]
                 wait == RetryAfterHeader(admission'[h].retry)
                 fits(seconds) ==
                   ~OverLimit(Usage(rows', q.tenant, q.now + seconds * MsPerSecond), q.tokens)
             IN  /\ (wait = Absent) = (q.tokens > LimitTokens)
                 /\ wait # Absent => wait >= 1 /\ fits(wait) /\ (wait = 1 \/ ~fits(wait - 1))]_vars
  BY <1>1
<1> QED
  BY <1>2, InvariantHolds, PTL DEF Spec, RetryAfterHeaderExact
=============================================================================
