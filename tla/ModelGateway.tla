---------------------------- MODULE ModelGateway ----------------------------
(* The Task 4 gateway: the completions handler (task4_model_router/app.py),   *)
(* the primary/fallback router (router.py) and the two model providers, over  *)
(* the limiter as SlidingWindow specifies it.  Handlers of one event loop     *)
(* interleave at their awaits; each action runs from one await to the next.   *)
EXTENDS TokenBudget, TokenLedger

CONSTANTS
  Times,        \* the clock values reserve() may sample
  NoCall,
  NoKey,        \* an Authorization header no tenant key can be taken from
  Payloads,     \* the JSON objects clients send
  Garbage,      \* a body that no JSON object is read from
  NoResponse,
  Statuses,     \* the HTTP statuses providers answer with
  MsPerSecond   \* 1000; a parameter so that rounding shows at small values

ASSUME MsPerSecondAssumption == MsPerSecond \in Nat \ {0}
ASSUME StatusesAssumption == Statuses \subseteq 100..599
ASSUME TimesAssumption == Times \subseteq Nat
ASSUME PayloadsAssumption ==
  \A b \in Payloads :
    ~Unbudgetable(b) /\ ~EncoderRaises(b) => TotalTokens(b) \in 1..MaxTokens

Providers == {"primary", "secondary"}
Stages == {"idle", "body", "reserve", "primary", "secondary", "done", "lost"}
Optional == Nat \cup {Absent}

\* The codes of _gateway_error; "unhandled" and "none" are answers without one.
Codes ==
  {"invalid_api_key", "invalid_request", "rate_limiter_unavailable",
   "tenant_rate_limit_exceeded", "primary_provider_unavailable",
   "primary_provider_rejected", "fallback_provider_unavailable",
   "fallback_provider_failed", "unhandled", "none"}

\* What the handler takes from an Admission, and what it can answer.
Admission == [remaining : Nat, retry : Nat \cup {Never}]
Response ==
  [status : 100..599, code : Codes, provider : Providers \cup {"none"},
   headers : [remaining : Optional, retry_after : Optional]]

ASSUME NamesAssumption ==
  /\ NoKey \notin Tenants /\ Garbage \notin Payloads /\ NoCall \notin Request
  /\ NoResponse \notin Admission /\ NoResponse \notin Response

VARIABLES
  rows, request, verdict, granted, newest, lag,  \* the ledger, as in SlidingWindow
  admission,  \* what reserve() returned to each handler: remaining, retry_after
  stage,      \* the await each handler is at
  key,        \* the tenant of each handler's Bearer key
  body,       \* the body of each request
  calls,      \* history: the providers each handler has sent its request to
  answers,    \* the status each provider has answered a handler's call with, or 0
  expired,    \* the calls of each handler whose asyncio.timeout has fired
  response    \* what each client has been sent

ledger == <<rows, request, verdict, granted, newest, lag>>
vars == <<ledger, admission, stage, key, body, calls, answers, expired, response>>

Ledger == INSTANCE SlidingWindow

Successful(status) == status \in 200..299

Init ==
  /\ Ledger!Init
  /\ admission = [h \in Calls |-> NoResponse]
  /\ stage = [h \in Calls |-> "idle"]
  /\ key = [h \in Calls |-> NoKey]
  /\ body = [h \in Calls |-> Garbage]
  /\ calls = [h \in Calls |-> {}]
  /\ answers = [h \in Calls |-> [p \in Providers |-> 0]]
  /\ expired = [h \in Calls |-> {}]
  /\ response = [h \in Calls |-> NoResponse]

Enter(h, s) == stage' = [stage EXCEPT ![h] = s]

\* _gateway_error, and the one response that is no gateway error's.
NoHeaders == [remaining |-> Absent, retry_after |-> Absent]
RateHeaders(h) == [remaining |-> admission[h].remaining, retry_after |-> Absent]
\* Mutant: the handler goes on after building the response.
RespondWithoutReturn(h, status, code, headers) ==
  /\ response' = [response EXCEPT ![h] =
       [status |-> status, code |-> code, provider |-> "none", headers |-> headers]]
  /\ UNCHANGED stage

Respond(h, status, code, headers) ==
  /\ response' = [response EXCEPT ![h] =
       [status |-> status, code |-> code, provider |-> "none", headers |-> headers]]
  /\ Enter(h, "done")

\* extract_tenant_api_key: without a usable Bearer key nothing is read further.
Authenticate(h, t, b) ==
  /\ stage[h] = "idle"
  /\ key' = [key EXCEPT ![h] = t]
  /\ body' = [body EXCEPT ![h] = b]
  /\ IF t = NoKey
     THEN Respond(h, 401, "invalid_api_key", NoHeaders)
     ELSE Enter(h, "body") /\ UNCHANGED response
  /\ UNCHANGED <<ledger, admission, calls, answers, expired>>

\* The body has arrived; it is no JSON object or cannot be budgeted.
RejectBody(h) ==
  /\ stage[h] = "body"
  /\ body[h] # Garbage => Unbudgetable(body[h])
  /\ Respond(h, 400, "invalid_request", NoHeaders)
  /\ UNCHANGED <<ledger, admission, key, body, calls, answers, expired>>

\* An exception no clause of the handler catches: Starlette's plain 500.
Unhandled(h, headers) == Respond(h, 500, "unhandled", headers)

\* From json.loads (a body nested too deeply, a number of too many digits: no
\* JSONDecodeError) or from the encoder.
RequestRaises(h) ==
  /\ stage[h] = "body"
  /\ body[h] # Garbage => EncoderRaises(body[h])
  /\ Unhandled(h, NoHeaders)
  /\ UNCHANGED <<ledger, admission, key, body, calls, answers, expired>>

\* budget() and the part of reserve() before its first await.
Reserve(h, now) ==
  /\ stage[h] = "body"
  /\ body[h] # Garbage
  /\ ~Unbudgetable(body[h])
  /\ ~EncoderRaises(body[h])
  /\ Ledger!Submit(h, key[h], TotalTokens(body[h]), now)
  /\ Enter(h, "reserve")
  /\ UNCHANGED <<admission, key, body, calls, answers, expired, response>>

\* The transaction of reserve() takes effect while the handler awaits it.
Transact(h) ==
  LET q    == request[h]
      sum  == Usage(rows, q.tenant, q.now)
      left == LimitTokens - sum
  IN
  /\ stage[h] = "reserve"
  /\ \/ /\ \E told \in {"allowed", "error"} : Ledger!Grant(h, told)
        /\ admission' = [admission EXCEPT ![h] =
             [remaining |-> left - q.tokens, retry |-> Never]]
     \/ /\ \E told \in {"denied", "error"} : Ledger!Refuse(h, told)
        /\ admission' = [admission EXCEPT ![h] =
             [remaining |-> IF left < 0 THEN 0 ELSE left,
              retry |-> RetryAfter(rows, q.tenant, q.now, sum, q.tokens)]]
     \/ verdict[h] = "pending" /\ Ledger!Abort({h}) /\ UNCHANGED admission
  /\ UNCHANGED <<stage, key, body, calls, answers, expired, response>>

\* generate(): the request goes out to provider p.
Send(h, p) ==
  /\ calls' = [calls EXCEPT ![h] = @ \cup {p}]
  /\ Enter(h, p)

\* Mutant: the gateway serves unmetered while the limiter is down.
LimiterFailsOpen(h) ==
  /\ stage[h] = "reserve"
  /\ verdict[h] = "error"
  /\ Send(h, "primary")
  /\ UNCHANGED <<ledger, admission, key, body, answers, expired, response>>

\* except Exception around reserve(): the limiter failed, the request stops here.
LimiterUnavailable(h) ==
  /\ stage[h] = "reserve"
  /\ verdict[h] = "error"
  /\ Respond(h, 503, "rate_limiter_unavailable", NoHeaders)
  /\ UNCHANGED <<ledger, admission, key, body, calls, answers, expired>>

\* Mutant: whole seconds are rounded down.
RetryAfterHeaderFloor(ms) ==
  IF ms = Never THEN Absent
  ELSE IF ms \div MsPerSecond < 1 THEN 1 ELSE ms \div MsPerSecond

\* max(1, ceil(retry_after_seconds)); no header when waiting is useless.
RetryAfterHeader(ms) ==
  IF ms = Never THEN Absent
  ELSE LET seconds == (ms + MsPerSecond - 1) \div MsPerSecond
       IN  IF seconds < 1 THEN 1 ELSE seconds

RateLimited(h) ==
  /\ stage[h] = "reserve"
  /\ verdict[h] = "denied"
  /\ Respond(h, 429, "tenant_rate_limit_exceeded",
       [RateHeaders(h) EXCEPT !.retry_after = RetryAfterHeader(admission[h].retry)])
  /\ UNCHANGED <<ledger, admission, key, body, calls, answers, expired>>

\* route(): an admitted request goes to the primary.
Route(h) ==
  /\ stage[h] = "reserve"
  /\ verdict[h] = "allowed"
  /\ Send(h, "primary")
  /\ UNCHANGED <<ledger, admission, key, body, answers, expired, response>>

\* A provider answers a call it has received, whether or not the gateway still
\* waits for it.
Answer(h, p, status) ==
  /\ p \in calls[h]
  /\ answers[h][p] = 0
  /\ answers' = [answers EXCEPT ![h][p] = status]
  /\ UNCHANGED <<ledger, admission, stage, key, body, calls, expired, response>>

\* Mutant: only the primary has a deadline.
DeadlineOfPrimary(h, p) ==
  /\ p = "primary"
  /\ stage[h] = p
  /\ expired' = [expired EXCEPT ![h] = @ \cup {p}]
  /\ UNCHANGED <<ledger, admission, stage, key, body, calls, answers, response>>

\* asyncio.timeout fires: the call is cancelled, and an answer that is there but
\* has not been taken is dropped with it.
Deadline(h, p) ==
  /\ stage[h] = p
  /\ expired' = [expired EXCEPT ![h] = @ \cup {p}]
  /\ UNCHANGED <<ledger, admission, stage, key, body, calls, answers, response>>

\* The handler resumes with something else than TimeoutError.
Awaiting(h, p) == stage[h] = p /\ p \notin expired[h]
Answered(h, p) == Awaiting(h, p) /\ answers[h][p] # 0

Relay(h, p) ==
  /\ response' = [response EXCEPT ![h] =
       [status |-> answers[h][p], code |-> "none", provider |-> p,
        headers |-> RateHeaders(h)]]
  /\ Enter(h, "done")

\* Mutant: a late success of the primary wins over the fallback.
SuccessOfEither(h, p) ==
  /\ stage[h] \in Providers
  /\ Successful(answers[h][p])
  /\ Relay(h, p)
  /\ UNCHANGED <<ledger, admission, key, body, calls, answers, expired>>

\* The awaited answer is a success: it is the client's.
Success(h, p) ==
  /\ Answered(h, p)
  /\ Successful(answers[h][p])
  /\ Relay(h, p)
  /\ UNCHANGED <<ledger, admission, key, body, calls, answers, expired>>

\* _fallback(): the single attempt at the secondary.
Fallback(h) ==
  /\ Send(h, "secondary")
  /\ UNCHANGED <<ledger, admission, key, body, answers, expired, response>>

PrimaryBusy(h) ==
  /\ Answered(h, "primary")
  /\ answers[h]["primary"] = 429
  /\ Fallback(h)

PrimaryTimeout(h) ==
  /\ stage[h] = "primary"
  /\ "primary" \in expired[h]
  /\ Fallback(h)

\* Mutant: a failed request gets its reservation back.
PrimaryRejectedRefunds(h) ==
  /\ Answered(h, "primary")
  /\ ~Successful(answers[h]["primary"])
  /\ answers[h]["primary"] # 429
  /\ Respond(h, 502, "primary_provider_rejected", RateHeaders(h))
  /\ rows' = {r \in rows : r.id # h}
  /\ UNCHANGED <<request, verdict, granted, newest, lag>>
  /\ UNCHANGED <<admission, key, body, calls, answers, expired>>

PrimaryRejected(h) ==
  /\ Answered(h, "primary")
  /\ ~Successful(answers[h]["primary"])
  /\ answers[h]["primary"] # 429
  /\ Respond(h, 502, "primary_provider_rejected", RateHeaders(h))
  /\ UNCHANGED <<ledger, admission, key, body, calls, answers, expired>>

\* Mutant: any failure of the primary falls back.
PrimaryTransportErrorFallsBack(h) ==
  /\ Awaiting(h, "primary")
  /\ Fallback(h)

\* httpx2.HTTPError from the primary; the request may have reached it.
PrimaryTransportError(h) ==
  /\ Awaiting(h, "primary")
  /\ Respond(h, 502, "primary_provider_unavailable", RateHeaders(h))
  /\ UNCHANGED <<ledger, admission, key, body, calls, answers, expired>>

SecondaryTransportError(h) ==
  /\ Awaiting(h, "secondary")
  /\ Respond(h, 502, "fallback_provider_unavailable", RateHeaders(h))
  /\ UNCHANGED <<ledger, admission, key, body, calls, answers, expired>>

SecondaryTimeout(h) ==
  /\ stage[h] = "secondary"
  /\ "secondary" \in expired[h]
  /\ Respond(h, 502, "fallback_provider_unavailable", RateHeaders(h))
  /\ UNCHANGED <<ledger, admission, key, body, calls, answers, expired>>

SecondaryFailed(h) ==
  /\ Answered(h, "secondary")
  /\ ~Successful(answers[h]["secondary"])
  /\ Respond(h, 502, "fallback_provider_failed", RateHeaders(h))
  /\ UNCHANGED <<ledger, admission, key, body, calls, answers, expired>>

\* generate() normalizes httpx2.HTTPError only; anything else leaves the handler.
ProviderRaises(h) ==
  /\ \E p \in Providers : Awaiting(h, p)
  /\ Unhandled(h, NoHeaders)
  /\ UNCHANGED <<ledger, admission, key, body, calls, answers, expired>>

\* The process dies with all its handlers; what it sent and committed remains.
Crash ==
  LET running == {h \in Calls : stage[h] \notin {"idle", "done", "lost"}} IN
  /\ running # {}
  /\ stage' = [h \in Calls |-> IF h \in running THEN "lost" ELSE stage[h]]
  /\ Ledger!Abort({h \in running : verdict[h] = "pending"})
  /\ UNCHANGED <<admission, key, body, calls, answers, expired, response>>

\* From the body on, until reserve() is entered.
Admit(h) == RejectBody(h) \/ RequestRaises(h) \/ (\E now \in Times : Reserve(h, now))

\* From then on, until the client is answered: the event loop, the limiter and
\* the deadlines.
Serve(h) ==
  \/ Transact(h) \/ LimiterUnavailable(h) \/ RateLimited(h) \/ Route(h)
  \/ (\E p \in Providers : Deadline(h, p) \/ Success(h, p))
  \/ PrimaryBusy(h) \/ PrimaryTimeout(h) \/ PrimaryRejected(h)
  \/ SecondaryTimeout(h) \/ SecondaryFailed(h)

\* What goes wrong on the way to a provider.
Disturbance(h) ==
  PrimaryTransportError(h) \/ SecondaryTransportError(h) \/ ProviderRaises(h)

Next ==
  \/ \E h \in Calls, t \in Tenants \cup {NoKey}, b \in Payloads \cup {Garbage} :
       Authenticate(h, t, b)
  \/ \E h \in Calls : Admit(h) \/ Serve(h) \/ Disturbance(h)
  \/ \E h \in Calls, p \in Providers, status \in Statuses : Answer(h, p, status)
  \/ Crash

Spec == Init /\ [][Next]_vars

TypeOK ==
  /\ Ledger!TypeOK
  /\ stage \in [Calls -> Stages]
  /\ key \in [Calls -> Tenants \cup {NoKey}]
  /\ body \in [Calls -> Payloads \cup {Garbage}]
  /\ calls \in [Calls -> SUBSET Providers]
  /\ answers \in [Calls -> [Providers -> Statuses \cup {0}]]
  /\ expired \in [Calls -> SUBSET Providers]
  /\ admission \in [Calls -> Admission \cup {NoResponse}]
  /\ response \in [Calls -> Response \cup {NoResponse}]
  /\ \A h \in Calls : (stage[h] = "done") = (response[h] # NoResponse)

Charged(h) == \E r \in granted : r.id = h

(* What providers are made to work is what the limiter admitted: over an      *)
(* interval shorter than the window by the worst lag, the requests of one     *)
(* tenant that reached any provider never add up to more than the limit, no   *)
(* matter which calls failed, fell back or were lost (app.py:118-173).        *)
ProviderWorkWithinLimit ==
  LET work == {RowOf(h, request[h]) : h \in {g \in Calls : calls[g] # {}}} IN
  \A t \in Tenants, end \in Times :
    Tokens({r \in work : r.tenant = t /\ r.at > end - (WindowMs - lag) /\ r.at <= end})
      <= LimitTokens

(* A client's answer and the ledger agree: refused and invalid requests are   *)
(* neither charged nor sent anywhere, a failing limiter sends nothing, and    *)
(* whatever happened at the providers the reservation is kept until it        *)
(* expires (app.py:73-169; docs/TASK4_WALKTHROUGH.md:118-132).                *)
AnswerMatchesLedger ==
  \A h \in Calls :
    LET answer == response[h] IN
    /\ calls[h] # {} =>
         \E r \in granted : r.id = h /\ (r \in rows \/ r.at <= newest - WindowMs)
    /\ answer # NoResponse =>
         /\ answer.status \in {400, 401, 429} => ~Charged(h)
         /\ answer.status \in {400, 401, 429, 503} => calls[h] = {}

(* The secondary is tried only after the primary answered 429 or missed its   *)
(* deadline (router.py:64-67, 96-133).                                        *)
FallbackOnlyByPolicy ==
  \A h \in Calls :
    "secondary" \in calls[h] =>
      answers[h]["primary"] = 429 \/ "primary" \in expired[h]

(* What the client is told of the providers is true, late answers of an       *)
(* abandoned call included: a relayed response is the answer of the provider  *)
(* it names, the primary's only if no fallback was started, and an error code *)
(* names the provider that was asked last (router.py:96-168, app.py:181-199). *)
AnswerMatchesProviders ==
  \A h \in Calls :
    LET answer == response[h] IN
    answer # NoResponse =>
      /\ answer.provider # "none" =>
           /\ answers[h][answer.provider] = answer.status /\ Successful(answer.status)
           /\ answer.provider = "primary" => "secondary" \notin calls[h]
      /\ answer.code \in {"fallback_provider_unavailable", "fallback_provider_failed"}
           => "secondary" \in calls[h]
      /\ answer.code \in {"primary_provider_unavailable", "primary_provider_rejected"}
           => calls[h] = {"primary"}

(* The Retry-After of a 429, in whole seconds, is the first multiple of a     *)
(* second at which the same request would fit if nobody else reserved, and is *)
(* missing exactly when the request alone exceeds the limit (app.py:147-163). *)
RetryAfterHeaderExact ==
  [][\A h \in Calls :
       verdict[h] = "pending" /\ verdict'[h] = "denied" =>
         LET q    == request[h]
             wait == RetryAfterHeader(admission'[h].retry)
             fits(seconds) ==
               ~OverLimit(Usage(rows', q.tenant, q.now + seconds * MsPerSecond), q.tokens)
         IN  /\ (wait = Absent) = (q.tokens > LimitTokens)
             /\ wait # Absent => wait >= 1 /\ fits(wait) /\ (wait = 1 \/ ~fits(wait - 1))]_vars

(* A request that has entered the limiter is answered, or lost with its       *)
(* process, even if every provider stays silent (router.py:96-133, 139-155).  *)
(* TimedGateway has the fairness it takes.                                    *)
EveryRequestAnswered ==
  \A h \in Calls : (stage[h] = "reserve") ~> (stage[h] \in {"done", "lost"})

(* Every failure to budget a JSON object reaches the client in the standard   *)
(* form the documentation promises, "standardized caller-safe gateway errors" *)
(* (docs/TASK4_WALKTHROUGH.md:17), whatever text the request carries.         *)
BudgetErrorsAreStandard ==
  \A h \in Calls :
    response[h] # NoResponse /\ body[h] # Garbage /\ ~Charged(h) =>
      response[h].code # "unhandled"
=============================================================================
