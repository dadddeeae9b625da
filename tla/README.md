# Verification of the AI security gateway

TLA+ models of the gateways in `src/`, the TLC configurations that check them on
small instances, and TLAPS proofs of what matters most for every value of the
constants. Paths below are relative to the repository's package directory
(`task4_model_router/limiter.py` is `src/src/task4_model_router/limiter.py`);
`docs/` and `tests/` are beside it. `PROJECT.json` holds the same information in
tabular form: components, runs, mutants, the lines each definition stands for,
findings, hazards and theorems.

    cd tla
    tlc -workers 2 -config MCLimiterSafety.cfg MCLimiter     # one run
    tlapm LimiterProofs.tla                                  # one proof module

## 1. The system

Four independent programs, each an asyncio application of its own; nothing is
shared between them.

### Task 4: rate-limited model router (`task4_model_router`)

| Component | State it keeps | Operations |
|---|---|---|
| `limiter.py` `SQLiteSlidingWindowLimiter` | table `token_events` (tenant, instant, tokens) in a SQLite file that tasks and processes share | `initialize`, `reserve`, `usage` |
| `token_budget.py` `RequestTokenBudgeter` | none | `budget`: validate the completion limits, count input tokens, add a default reserve |
| `auth.py` | none | take the tenant's key from the Bearer header |
| `app.py` `completions` | the locals of one request across its awaits | authenticate, budget, reserve, route, respond |
| `router.py` `ModelRouter` | none across requests; the deadline of the attempt under way | primary, one fallback |
| `provider.py` `HTTPModelProvider` | HTTP client pool, shared by both providers | `generate` |
| `mock_provider.py` | none | the synthetic primary and secondary: status and delay by "scenario" |

*Interaction.* The handler awaits the body, then the limiter, then the primary,
then perhaps the secondary. `reserve()` samples the clock, opens the database,
waits for the write lock (`BEGIN IMMEDIATE`, busy timeout 5 s) and runs DELETE,
SELECT, perhaps a second SELECT for Retry-After, perhaps INSERT, and COMMIT; each
statement is an await on the connection's worker thread. A provider call runs
under `asyncio.timeout`.

*What is hard.* Overlapping `reserve()` calls between any two statements; a call
cancelled while its COMMIT runs in the thread; a crash between INSERT and COMMIT,
or between COMMIT and the answer; a clock value older than those of calls that have
already committed; the boundaries of window and limit; an answer racing its
deadline; exceptions no clause of the handler expects.

*What makes it correct.* A tenant is never granted more than the limit per window;
a reservation is never lost before it expires; a caller is told what the table was
told; Retry-After is exact; no provider works without a reservation; the
secondary is used only after a 429 or a timeout of the primary; the answer
relayed is the answer of the provider that is named; every request is answered, in
a time that only its own fault accounts for; `usage()` agrees with what was granted.

### Task 3: streaming guardrail (`task3_stream_guardrail`)

| Component | State it keeps | Operations |
|---|---|---|
| `redactor.py` `StreamingRedactor` | `_pending`, the text held back | `feed`, `flush` |
| `stream.py` `guarded_sse_stream` | the generator's position | read, yield, finish, fail |
| `provider.py` `stream_text` | the upstream response and its connection | connect, the next text, end, failure, close |
| `sse.py` | none | decode and encode events |
| `app.py` | none | validate the request, start the stream |

*Interaction.* The generator asks the provider for text, feeds it to the redactor,
and yields what is safe. It is suspended at every read and every yield.

*What is hard.* The provider cuts its text anywhere: what has been released cannot
be taken back, and what the patterns look behind for may be gone. Three
classifiers, each with limits of its own, decide how much suffix is held back, and
an overflow rule caps it. The provider may end, fail or raise and the client may
leave at every suspension; a generator that is dropped at a yield leaves its
connection to the event loop.

*What makes it correct.* However the text is cut, the client sees what redacting
the whole text would show; a failing stream releases nothing unresolved; the memory
bound never forces an unresolved value out; every stream ends, and gives its
connection back.

### Task 2: authorization gateway (`task2_mcp_gateway`)

| Component | State it keeps | Operations |
|---|---|---|
| `proxy.py` `Gateway.handle` | the locals of one request across one await | parse, authenticate, authorize, forward, relay |
| `jsonrpc.py` | none | `parse_request`, `called_tool_name` |
| `auth.py` | the configured tokens and roles | `authenticate`, `requires_admin` |
| `mock_downstream.py` | `state.methods`, what it executed | `rpc` |

*What is hard.* The order of the checks; a body that names a tool twice; a
timeout, a broken connection or a late execution after the gateway gave up; text
that JSON can spell and the HTTP client, the refusal that echoes it, or
`hmac.compare_digest` cannot take.

*What makes it correct.* Whatever the downstream executes was asked by an
authenticated caller, and an `admin_` tool by an admin; a refusal was not executed
and nothing is executed twice; every request is answered.

### Task 1: MCP server (`task1_mcp_server`)

Stateless: each call validates its arguments and answers from a constant table. A
refund receipt is a hash of its input and is not stored. There is no state, no
interleaving and no failure to model.

## 2. Modules

| Module | Models | Uses |
|---|---|---|
| `TokenLedger` | the vocabulary of the limiter: rows, sums, window, admission test, Retry-After | |
| `SlidingWindow` | what the limiter promises: each call takes effect in one step or not at all | `TokenLedger` |
| `Limiter` | `reserve()`, one action per SQL statement; implements `SlidingWindow` | `TokenLedger`, INSTANCE `SlidingWindow` |
| `TokenBudget` | `budget()` | |
| `ModelGateway` | the completions handler, the router and the providers over the one-step limiter | `TokenBudget`, `TokenLedger`, INSTANCE `SlidingWindow` |
| `TimedGateway` | the same with deadlines and delays as lengths of time, in front of the synthetic providers | `ModelGateway` |
| `Redactor` | the patterns, the substitution, the classifiers, the cut | |
| `GuardedStream` | one streamed completion | `Redactor` |
| `McpGateway` | `Gateway.handle()`, its clients and the downstream | |
| `MC*` | constants of the instances TLC checks | |
| `TokenLedgerProofs`, `SlidingWindowProofs`, `LimiterProofs` | theorems about the limiter | |
| `ModelGatewayProofs`, `TimedGatewayProofs` | theorems about the router, without and with lengths of time | |
| `RedactorProofs`, `GuardedStreamProofs` | theorems about texts, and about streams of them | |
| `McpGatewayProofs` | theorems about the authorization gateway | |

Operators whose comment starts with "Mutant:" are not part of a specification:
each is a plausible mistake in the definition that follows it, and the
`PROJECT.json` entry names the property that finds it.

### Limiter

`pc[c]` names the statement call `c` is about to execute. `Call` is `reserve()` up
to the connection and samples `now_ms`; `Begin` takes the lock and, with it,
`view`, the table as the transaction sees it; `Delete`, `Select`, `Retry`,
`Insert` work on `view`; `Commit` installs it. `Fail` is an exception or a
cancellation at any statement of the `try` block, followed by `Rollback`;
`CommitUnheard` is the cancellation that arrives while COMMIT runs: the worker
thread completes it, the `ROLLBACK` behind it finds no transaction, and the caller
sees an exception for a row that is charged. `BeginFails` is the busy timeout, a
file that cannot be opened or a cancelled wait, all outside the `try`.
`BeginUnheard` is the wait that is cancelled although the worker thread then gets
the lock: no statement follows, and closing the connection gives it back. `Crash`
takes every call down and keeps what was committed; `Initialize` keeps the rows.
`Tick` moves the wall clock on; where `Settable` holds, `SetBack` sets it back.

Abstractions: the AUTOINCREMENT id is the call that inserted the row (a call
inserts at most one; the id only orders rows of one instant, which expire
together). A sum of tokens is the number of pairs (row, k) with k up to the row's
tokens, which needs no recursion and can be proved about. The journal mode and
`synchronous` decide only what a power loss does, which is not modelled. `Crash`
stops all processes at once; one that dies alone looks to the others like `Fail`
and `Rollback`. `granted`, `newest` and `lag` are histories that no guard reads.

### ModelGateway

Each action runs from one await of the handler to the next. `Transact` is the
limiter's transaction taking effect while the handler awaits it, with the action
of `SlidingWindow` (legitimate because `Limiter` implements it). `Answer` is a
provider answering, whether or not anybody still waits; `Deadline` is
`asyncio.timeout` firing, which may come when the answer is already there. An
exception that `generate()` does not normalise leaves the handler
(`ProviderRaises`), and so do the encoder's own and what `json.loads` raises beside
the two exceptions that are caught, for a body nested too deeply or a number of too
many digits (`RequestRaises`).

`TimedGateway` adds `since`, the ticks each await has taken, and `held`, the calls
that have to wait for a connection. Its steps are those of `ModelGateway`; a deadline
fires exactly when its time is up (`Punctual`), and the providers answer as
`mock_provider.py` does: by the request's scenario, and after its sleep. `Tick` passes
time only while every handler waits for something that is not due, so a step of the
event loop takes none. All requests share one HTTP client and its pool
(`app.py:233`), so any call, of any scenario, may be held when it goes out
(`Connect`); it may then be answered at any time after its sleep, before or after its
deadline, or never. What the other requests must do for that to happen is left out.
The run leaves out `secondary_500`, to which the primary answers as to `primary_ok`.

The completion reserve goes up to 50,000 and the input counts at least one token,
so a request for the largest reserve can never be admitted under the limit of
50,000; it is denied without a Retry-After.

### Redactor and GuardedStream

A text is a sequence of character classes: letter, digit, each separator and
punctuation the patterns name, `other`, and `lone` for a surrogate that cannot be
encoded; the patterns and classifiers ask nothing else of a character. `[REDACTED]`
has no character next to its ends that a later pattern accepts or looks for, so one class,
`mark`, stands for it in what is shown. The limits are constants, so that short
texts reach them. `Finditer` gives the leftmost matches that do not overlap. `Sub`
replaces them in place, a mark for the first character and `gone` for the others,
so that positions stay comparable; `Present` takes out what is gone after the third
pattern (no pattern matches a mark, and each looks at most one character beyond its
match, at the mark on one side and at what is gone on the other). `SafeCut` and
`BoundedCut` are the two steps of `feed()`: the earliest candidate extended over
complete matches, then the memory bound.

`Separable` says when the values of a text stand apart, which no code asks: a word
fits an address (one `@`, no longer than `EmailSpan`, its labels and local part
within their limits), a number fits a card (at most `CardMax` digits, no two
separators in a row), and a number as long as a card shares no word with an `@`.
Each clause is needed: without it, and with limits that let the case occur in texts of
at most 8 characters, TLC finds a split that violates one of the two invariants.

In `GuardedStream`, `Connect` is a response with a good status, `Feed` a data event
up to its yield and `Resume` the generator going on; `Finish` is `[DONE]` and also a
body that ends without it; `BadEvent` (a line that is no event) and `Unavailable`
(no connection, a bad status, a lost connection, a read timeout) are the two ways
to a `ProviderStreamError`, whose handling is `Fail`; `Raise` is what
`stream_text()` does not translate. `upstream` is the provider's connection: every
way out of `stream_text()` closes it, except a client that leaves, or an encoding
that raises, while both generators are suspended at a yield; then `Collect`, the
event loop's hook for dropped generators, does. `received` is a history.

A body that ends without `[DONE]` is taken for a complete answer: the held suffix is
flushed and `[DONE]` is sent. The comment at `stream.py:33-35` says of an upstream
that "disappears" that the suffix is not flushed; that is so for every
disappearance the HTTP client reports as an error, and not for a close it takes
for the end of the body.

### McpGateway

`handle()` decides everything between the arrival of the body and its one await,
so each of its early returns is one action. A body is a record of what the checks
ask of it: its form (junk, a text `json.loads` gives up on with an exception that is
not caught, something else than an object, an object), whether id, version, method and
params are acceptable, the `name` members in their order, and whether the parsed
payload can be encoded. An id can be half a surrogate pair, `lone`: a refusal that
echoes it (`Refuse`) cannot be encoded and ends in the server's plain 500.
`Payload` is what the gateway sends: the payload as parsed, in which the last of
several equal members counts. `Execute` and `Lose` are the downstream and the
connection; they go on after `Unavailable`.

## 3. Runs

States and times are from two workers.

| Run | Config | Asks | States |
|---|---|---|---|
| `sliding_window` | `MCSlidingWindow` | stored limit, lost reservations, `usage()`, rolling window less lag; 4 calls, 2 tenants, clocks in any order | 818,000 |
| `limiter_safety` | `MCLimiterSafety` | eight invariants of `reserve()` and `usage()`; 3 calls of one tenant, failures and crashes at every statement | 957,000 |
| `limiter_refines` | `MCLimiterRefines` | does it implement `SlidingWindow`, and does every call settle and give the lock back; 2 calls of 2 tenants, a clock that is set back | 164,400 |
| `rolling_window_claim` | `MCRollingWindow` | the documented limit over the full window: violated | |
| `model_gateway` | `MCModelGateway` | provider work, ledger, policy, answers, Retry-After header; 2 requests, 8 payloads | 383,700 |
| `timed_gateway` | `MCTimedGateway` | is every request answered, in time, and with the outcome of its scenario; 2 requests, 4 scenarios, any 2 calls held | 223,700 |
| `budget_errors_claim` | `MCBudgetErrors` | standard errors for every text: violated | |
| `guarded_numbers` | `MCGuardedNumbers` | SSNs and cards in every text of up to 7 characters, cut in every way the chunks allow | 198,800 |
| `guarded_words` | `MCGuardedWords` | addresses, the memory bound, every stream ends and gives its connection back; texts of up to 6 characters | 249,700 |
| `splits_claim` | `MCSplitsClaim` | no split changes the result, for every text: violated | |
| `mcp_gateway` | `MCMcpGateway` | authorization, executions, answers, liveness; 2 requests, 4 headers, 16 bodies | 42,700 |
| `mcp_auth_claim` | `MCMcpAuthClaim` | every unknown caller is refused as such: violated | |

### Bounds, and why they are enough

- **Limiter.** Limit 3, window 2, requests of 0 (rejected), 1, 2 and 4 tokens,
  instants 0 to 3 (`MaxClock`). Two requests fit together, two exclude each
  other, one never fits; a row is inside, at the cutoff of, and outside a window.
  Two calls show every race for the lock; the third is the late one with the stale
  clock. `SlidingWindow` is checked with a fourth call and a second tenant, and the
  statement-level module inherits that through the refinement. The wall clock is set
  back in `limiter_refines`, and `SlidingWindow` is checked with clocks in any order;
  `limiter_safety` has one that only moves on (`Settable = FALSE`), which keeps three
  calls small. Proofs remove the bounds for all but liveness, for both clocks.
- **ModelGateway.** Two requests of one tenant are enough for one to be admitted,
  the other denied, and for a late answer of one to meet the other's steps. The
  payloads cover each branch of `budget()`. A second is 2 ms (`MsPerSecond`), so
  that rounding up matters inside a window of 3. Proofs remove the bounds.
- **TimedGateway.** Busy timeout 1, primary 1, secondary 2 and the slow answer 2
  ticks: the slow one is past the primary's deadline and the secondary's is longer, as
  3.0 and 3.2 s and the defaults are. The bounds on waiting are sums of these
  constants and no other comparison is made. One request of each scenario beside one
  of any other, under a limit that admits some pairs and refuses others. `MaxHeld` is
  2: both calls of one request, or one of each, may have to wait for a connection.
  Proofs remove the bounds for all but liveness.
- **Redactor.** The SSN is digit-hyphen-digit and a card has 3 to 4 digits, which
  keeps the order of the code's limits (an SSN has fewer digits than a card, and
  contains what a card may contain). Seven characters hold an SSN or card with a
  neighbour on both sides. In the words run local parts have at most 1
  character, labels 2 and addresses 6; texts of 6 hold an address with a local part
  that is too long, and the chunk after them passes the memory bound. A longer value
  is cut by more characters but meets no further comparison. The three invariants
  about texts are proved for all limits.
- **McpGateway.** Handlers share only the downstream's record, so two requests
  show every order of two executions.

`CHECK_DEADLOCK FALSE` stands in configurations whose behaviours really end: every
call, request or stream is settled and no clock ticks. `MCLimiterSafety` and
`MCLimiterRefines` keep the check; a crashed or restarted process goes on there.
Symmetry over calls, requests and tenants is used only where no liveness property
is checked.

### Fairness

- `Limiter`: `WF(Progress(c))` for each call. The connection's thread executes what
  it is given, and the busy timeout bounds the wait for the lock, so a call that
  never gets it ends in `BeginFails`. No fairness promises the lock, an error,
  a caller or the clock.
- `TimedGateway`: time passes (`WF(Tick)`), and `WF(Timed(Serve(h)))`: the event loop
  resumes handlers, the limiter's calls settle (that is `EveryCallSettles`), and
  both deadlines fire. A synthetic provider that has been reached answers; a call that
  is held is owed nothing, and clients owe no body.
- `GuardedStream`: the event loop resumes the generator and closes dropped ones; the
  client reads what it is sent; a wait for the provider ends, at the latest with
  the HTTP client's timeout of 30 s. That text is finite is an assumption
  (`MaxText`): a provider that sends for ever is streamed for ever, as it should be;
  and one that sends lines without text for ever is kept for ever.
- `McpGateway`: `WF(Handle(r))`. The event loop and the client's 5 s timeout; the
  downstream need not answer. The timeout bounds each wait for bytes: a downstream that
  sends its answer in small pieces keeps its request for as long as it goes on, and
  that it does not go on for ever is an assumption.

### What the runs found

1. **Rolling window** (`limiter.py:153`). `now_ms` is sampled before the
   connection is opened and the lock awaited. A call that sampled later may commit
   first and delete rows that have expired for it but not for the earlier sampler,
   which then counts too little and is admitted. In the trace two calls that both
   sampled at 0 are granted 2 tokens each under a limit of 3: between them a call
   that sampled at 2, and was denied, deleted the first row. No clock goes back in the
   run.
   `docs/TASK4_WALKTHROUGH.md:7` promises 50,000 tokens per rolling 60 seconds.
   What does hold, and is proved, is the limit over every interval shorter than the
   window by the worst *lag*: by how much a granted call's sample was behind the
   newest committed one. Sampling after BEGIN would bring the lag to
   zero, as long as the wall clock is not set back.
2. **Encoder errors** (`token_budget.py:85`). A text that spells a special token of
   the encoder makes `encode()` raise a ValueError that is no `TokenBudgetError`;
   the client gets the server's plain 500 instead of a gateway error.
3. **Tokens outside ASCII** (`auth.py:76`). `hmac.compare_digest` raises TypeError
   for them; `handle()` catches only `AuthenticationError`. Access stays denied, but
   with a plain 500 instead of 401 and -32000.
4. **Splits** (`redactor.py:242`). The card classifier counts the digits of the
   whole trailing run of digits and separators and gives up above 19, or when two
   separators touch. An SSN and a card with one separator between them (a hyphen in
   the trace, a space in the text the code was tried on), cut between characters, pass
   19 digits while the card is incomplete; its first groups are
   released. Cut nowhere, the same text is redacted. The tests split texts whose
   values stand apart, and for these `StreamedAsWhole` holds; `Separable` says
   precisely which those are. Its other clauses name further ways two values touch:
   several `@` in one word, words longer than an address or a local part, a number
   as long as a card sharing a word with an `@`.

Of the same kind, modelled without a run of its own: a refusal whose id cannot be
echoed (`proxy.py:106` and the others) is a plain 500, where
`docs/TASK2_WALKTHROUGH.md:108` promises -32001 for a prohibited tool; the tool is not
forwarded. `UnknownCallersAreRefused` leaves such ids out, so that its trace shows the
comparison.

## 4. Proofs

| Theorem | Module |
|---|---|
| `TypeCorrect`, `StoredWithinLimitHolds`, `UsageSeesWindowHolds`, `OnlyExpiredAreGoneHolds`, `RollingWindowLessLagHolds` | `SlidingWindowProofs` |
| `TypeCorrect`, `DecisionNotStaleHolds`, `Refinement` (Spec => ImplementsAtomic), `UsageWithinLimitHolds`, `UsageSeesWindowHolds`, `OnlyExpiredAreGoneHolds`, `RollingWindowLessLagHolds`, `AnswerMatchesLedgerHolds`, `RetryAfterExactHolds` | `LimiterProofs` |
| `TypeCorrect`, `ProviderWorkWithinLimitHolds`, `AnswerMatchesLedgerHolds`, `FallbackOnlyByPolicyHolds`, `AnswerMatchesProvidersHolds`, `RetryAfterHeaderExactHolds`, `GatewayUsesLimiter` | `ModelGatewayProofs` |
| `TimedImplementsGateway` (TimedSpec => Spec), `AnsweredInTimeHolds`, `ScenarioDecidesHolds` | `TimedGatewayProofs` |
| `SafeCutSeals` | `RedactorProofs` |
| `TypeCorrect`, `OverflowNeverCutsHolds`, `WithheldIsEndHolds`, `StreamedAsWholeHolds`, `NothingUndecidedIsShownHolds` | `GuardedStreamProofs` |
| `TypeCorrect`, `ExecutedWasAuthorizedHolds`, `AnswersFitExecutionsHolds` | `McpGatewayProofs` |

Assumptions: those named in the modules. Limit and window are positive, as the
constructor demands; the calls of one behaviour are a finite set, so that sums are
sums of finite tables; model values are distinct from the data they stand beside.
The slow answer comes after the primary's deadline (`TicksAssumption`, 3.2 s against
3.0 s). Of the redactor's limits: an address is the longest value
(`SpanAssumption`); the SSN mask is groups of digits with one hyphen between two
(`MaskAssumption`, `ddd-dd-dddd`); a number one digit short of a card is no longer
than a local part (`NumberAssumption`, 23 against 64). The last is needed because
feed() may cut inside the domain of an address, before a number at its end: the
number is then a word of its own, which must fit a local part for the rest of the
text to stand apart.

**TokenLedgerProofs** has the facts about sums: they are naturals, monotone, a row
counts its tokens, a sum splits over a partition, and an admitted row keeps a table
within the limit. `RetryAfterFits` is about the walk over the rows: among the
instants at which enough tokens have expired there is an earliest (well-foundedness
of the naturals), it is the instant of a row, and before it the request does not
fit; so the wait is exact in both directions.

**SlidingWindowProofs.** `IInv` is the type invariant, finiteness of the history,
and the three properties. `StoredWithinLimit` is not inductive without the types
and finiteness that make sums comparable, and `RollingWindowLessLag` not
without `OnlyExpiredAreGone`: take an interval of length window minus lag that
contains a new grant. Whatever was granted in it is younger than the newest clock
minus the window, hence still in the table when the grant counts it; so the
admission test bounds the interval. An interval without the new grant can only
shrink, because the lag only grows. `UsageSeesWindow` follows from
`OnlyExpiredAreGone`: what is gone was outside the window of any clock not behind
the newest.

**LimiterProofs.** `IInv` says that whoever holds the lock is inside its `try`
block and alone there (`OneWriter`), that `view` is the committed table with the
transaction's own statements applied (`ViewOK`), and that the branch taken is the
one the committed sum calls for (`BranchOK`). `DecisionNotStale` follows. The
refinement maps `rows` to the committed table and `verdict` to what `pc` says the
caller has been told; a commit maps to `Grant` or `Refuse` (told, or unheard), a
rollback or crash to `Abort`, and everything else to a stutter. `ViewOK` and
`BranchOK` are what makes the commit's effect the one-step effect.

The properties of `SlidingWindow` are then carried over that
refinement, so the promise about windows is proved once, about four actions, and
holds of the statements. `AnswerMatchesLedger` and `RetryAfterExact` are proved
there from the statement-level invariant, the latter with `RetryAfterFits`.

**ModelGatewayProofs.** Each step of the gateway is a step of `SlidingWindow` in its
ledger or leaves the ledger alone (`GatewayUsesLimiter`), so the limiter's invariant
is taken over as it is. `IInv` adds the types and, for each handler, what its stage
implies (`Handler`): what it was told by the limiter, which providers it has asked
and why. A step of one handler changes nothing of another's (`OwnStep`), except that
a transaction may expire rows; and what it may expire is what `OnlyExpiredAreGone`
allows. `RetryAfterHeaderExact` is an action property: the transaction computes the
exact wait, and rounding up to whole seconds gives the first second that is not
before it.

**TimedGatewayProofs.** A tick is a stutter of `ModelGateway` and every other step
one of its own, so `TimedImplementsGateway` takes over all that is proved of it.
`TimedIInv` adds what the clocks can read at each stage: a sum of waits is bounded
by the wait it is counted with (`InTime`: the total is at most the busy timeout plus
the primary's wait, that at most the primary's `Cost` plus the secondary's wait; the
cost of a call is its deadline if it is slow or held and otherwise nothing, and
`CostGrows` says that it never falls), because each clock runs only while its await is under way and
`Punctual` stops it at the deadline. `Told` relates answers to the scenario: what has
answered is what the scenario makes it answer, and a primary that is slow has not
answered while anybody waits for it, and a primary's deadline has passed only for a
call that is slow or held. That is what excludes a late answer from
deciding a request. `Moves` lists what one step can do to one handler, so the
invariant is proved once per kind of move and not per action and handler.

**RedactorProofs.** `Finditer`, `Sub` and `Present` are recursive functions: that they are
well defined, and what type they have, is proved by least counterexample
(`RecursionDefined`, `RecursionInside`), which needs no induction scheme with an
operator parameter; the same principle gives `FinditerSplits` and `PresentJoins`
(scanning, and taking out what is gone, can be done on the two sides of a cut that
no match crosses). The proof about cuts has three parts.

1. *A cut that is safe.* `Sealed(t, c)` says of the text t that no value can cross c:
   no word has an `@` after the cut and a character before it, no address crosses it
   or would end at it and go on, a number across it is too short for a card and has a
   space there, and the rest stands apart. For each pattern, in the order of
   the substitution and after what the earlier ones took out, the matches of t are
   then those of its two parts (`EmailSplits`, `SsnSplits`, `CardSplits`); hence
   redacting t is redacting the parts (`RedactedSplits`).
2. *feed() finds one.* `SafeCutSeals`: if t goes on to any text whose values stand
   apart, the cut of t is sealed in that text. Whatever could cross it is
   unfinished at the end of t, and then its classifier would have held it
   back (`EmailCandidateIs`, `SsnCandidateIs`, `CardCandidateFound`), or it is finished,
   and then the extension over complete matches would have moved the cut
   (`EmailFound`, `NumberAcross`). The classifiers of one pattern cut words and
   numbers of the others; that such a cut seals is where each clause of `Separable`
   is used.
3. *Cuts add up.* `SealsJoin`: a sealed cut of the rest after a sealed cut is a sealed
   cut of the whole, which the stream needs because each cut is found without the
   text released before it; `RedactedGoesOn` is the same of what is shown.

**GuardedStreamProofs.** The three classifiers return cuts that hold back at most
the longest supported value; the extension over complete matches only moves a cut
forward; so the memory bound never moves it (`OverflowNeverCutsHolds`). `IInv` adds that
what is held back is the end of what was received. `StreamedAsWhole` alone is not
inductive: that the client has seen what redacting the text so far shows says
nothing of what it should have seen when more text comes. `ShownIsDecided`
quantifies over all that may come: while text can follow, what is released ends at a
sealed cut of every separable text that goes on from what is received, and shows what
that text shows up to there. `Feed` keeps it by parts 2 and 3 above, `Finish` by part
1, and the two invariants follow, the one with no more text and the other with one
more chunk.

**McpGatewayProofs.** `IInv` follows a request through its life: what has left the
gateway had passed its checks (`Permitted`), what is on the wire has not been
executed yet, each execution is the only one of its request and carries the parsed
payload, and answers match. Without the middle parts a second execution could not
be excluded.

Only model-checked: liveness (`EveryCallSettles`, both `EveryRequestAnswered`,
`EveryStreamEnds`, `ConnectionsAreReleased`), which under fairness is out of the
prover's reach. Every invariant and action property that a passing run checks is a
theorem. The four claims the runs refute are of course not.

## 5. Not modelled

Task 1 (no state, no interleaving: a call validates, looks up a constant table, and
answers); application wiring and configuration (`create_app`, lifespans,
environment variables); the synthetic provider of Task 3, whose fixed texts and cuts
are among the ones the runs try; the statistics routes of Task 2's downstream; the
size of the HTTP connection pools (that a call may have to wait for one is modelled);
a Task 2 downstream that sends its answer piece by piece;
JSON, HTTP and SSE syntax; hashing of tenant keys (tenants are taken to be
distinct); the tokenizer; power loss; the provider's own resource use; the redacted
text's wording.

## 6. Plan

Order of work, most important behaviour first; the first ten are done.

1. `TokenLedger`, `SlidingWindow`, `Limiter`: the limiter and its refinement.
2. `SlidingWindowProofs`, `LimiterProofs`.
3. `TokenBudget`, `ModelGateway`: the handler and the router over the limiter.
4. `Redactor`, `GuardedStream`: the guardrail.
5. `McpGateway`: the authorization gateway.
6. `McpGatewayProofs`.
7. `ModelGatewayProofs`, and the remaining invariants of `Limiter`.
8. `TimedGateway`: deadlines as lengths of time, with the synthetic providers.
9. The provider's connection in `GuardedStream`, and `GuardedStreamProofs`.
10. `TimedGatewayProofs`; `RedactorProofs` and the two invariants about what a client
    sees.
11. An abstract specification of the guarded stream (text is released at sealed cuts
    and shown redacted), implemented by `GuardedStream`, with the refinement proved;
    that what `Redacted` shows contains no value.
12. `usage()` as a reader with a transaction of its own, and the SSE decoder as an
    automaton over event kinds.
