---------------------------- MODULE TimedGateway ----------------------------
(* The Task 4 gateway with its deadlines as lengths of time, in front of the  *)
(* synthetic providers it is demonstrated with                                *)
(* (task4_model_router/mock_provider.py).  Every step is one of ModelGateway; *)
(* time, in ticks, passes only while every handler waits for something that   *)
(* is not due yet: an answer, the limiter or a deadline.                      *)
EXTENDS ModelGateway

CONSTANTS
  BusyTicks,       \* DEFAULT_BUSY_TIMEOUT_MS: the longest wait for the limiter
  PrimaryTicks,    \* DEFAULT_PRIMARY_TIMEOUT_SECONDS
  SecondaryTicks,  \* DEFAULT_SECONDARY_TIMEOUT_SECONDS
  SlowTicks,       \* the sleep of the synthetic primary
  MaxHeld          \* how many calls of a behaviour may have to wait for a connection

\* "Intentionally exceeds the gateway's 3.0 second primary deadline."
ASSUME TicksAssumption ==
  /\ {BusyTicks, PrimaryTicks, SecondaryTicks} \subseteq Nat \ {0}
  /\ SlowTicks \in Nat /\ SlowTicks > PrimaryTicks
  /\ MaxHeld \in Nat

VARIABLES
  since,  \* the ticks since each handler entered each await, 0 once it is over
  held    \* the calls of each handler that have to wait for a connection

timedVars == <<vars, since, held>>

Awaits == {"reserve"} \cup Providers
Serving(h) == stage[h] \in Awaits
Entered(h, s) == s = "reserve" \/ s \in calls[h]

\* Mutant: the two deadlines of ModelRouter are swapped.
AllowanceSwapped ==
  [reserve |-> BusyTicks, primary |-> SecondaryTicks, secondary |-> PrimaryTicks]

\* Mutant: the secondary has only the longer timeout of the HTTP client.
AllowanceOfClient ==
  [reserve |-> BusyTicks, primary |-> PrimaryTicks,
   secondary |-> PrimaryTicks + SecondaryTicks]

\* How long each await may take.  The HTTP client's own timeout is longer.
Allowance ==
  [reserve |-> BusyTicks, primary |-> PrimaryTicks, secondary |-> SecondaryTicks]

\* What the synthetic providers make of the "scenario" of a request.
PrimaryStatus(scenario) ==
  IF scenario = "primary_429" THEN 429
  ELSE IF scenario = "primary_500" THEN 500
  ELSE 200

SecondaryStatus(scenario) == IF scenario = "secondary_500" THEN 500 ELSE 200

MockStatus(h, p) ==
  IF p = "primary" THEN PrimaryStatus(body[h].scenario)
  ELSE SecondaryStatus(body[h].scenario)

\* asyncio.sleep(3.2), of one scenario at the primary.
Delay(h, p) == IF p = "primary" /\ body[h].scenario = "primary_slow" THEN SlowTicks ELSE 0

\* No answer comes before the provider has slept.  It is due then, unless the
\* call has no connection yet, of the pool that all requests share or to a
\* provider that is not there: it may get one later, or never.
Ready(h, p) == since[h][p] >= Delay(h, p)
Replies(h, p) == Ready(h, p) /\ p \notin held[h]

\* Deadlines fire when their time is up, and the mock answers as it does.
Punctual ==
  \A h \in Calls, p \in Providers :
    /\ p \in expired'[h] \ expired[h] => since[h][p] = Allowance[p]
    /\ answers'[h][p] # answers[h][p] => Ready(h, p) /\ answers'[h][p] = MockStatus(h, p)

\* A call that goes out finds a connection, or does not.
Connect ==
  LET sent(h) == calls'[h] \ calls[h] IN
  \E S \in SUBSET (UNION {sent(h) : h \in Calls}) :
    /\ held' = [h \in Calls |-> held[h] \cup (S \cap sent(h))]
    /\ Cardinality({x \in Calls \X Providers : x[2] \in held'[x[1]]}) <= MaxHeld

\* A step of the gateway takes no time.
Timed(A) ==
  /\ A
  /\ Punctual
  /\ Connect
  /\ since' = [h \in Calls |->
                 IF stage'[h] \in Awaits THEN since[h] ELSE [s \in Awaits |-> 0]]

\* h waits, and nothing it waits for is due.
Waits(h) ==
  LET s == stage[h] IN
  /\ since[h][s] < Allowance[s]
  /\ IF s = "reserve"
     THEN verdict[h] = "pending"
     ELSE answers[h][s] = 0 /\ ~Replies(h, s)

Tick ==
  /\ \E h \in Calls : Serving(h)
  /\ \A h \in Calls : Serving(h) => Waits(h)
  /\ since' = [h \in Calls |-> [s \in Awaits |->
                 since[h][s] + (IF Serving(h) /\ Entered(h, s) THEN 1 ELSE 0)]]
  /\ UNCHANGED <<vars, held>>

TimedInit ==
  /\ Init
  /\ since = [h \in Calls |-> [s \in Awaits |-> 0]]
  /\ held = [h \in Calls |-> {}]

TimedSpec == TimedInit /\ [][Tick \/ Timed(Next)]_timedVars

\* Time passes, the event loop resumes its handlers, the limiter settles, and a
\* synthetic provider that has been reached answers.  A call that is held is
\* owed nothing.
FairTimedSpec ==
  /\ TimedSpec
  /\ WF_timedVars(Tick)
  /\ \A h \in Calls :
       /\ WF_timedVars(Timed(Serve(h)))
       /\ WF_timedVars(Timed(\E p \in Providers, status \in Statuses :
                               Answer(h, p, status) /\ Replies(h, p)))

\* The request's own calls that cost their deadline.
Late(h) == held[h] \cup (IF body[h].scenario = "primary_slow" THEN {"primary"} ELSE {})

(* How long a client can be kept waiting depends on what meets its own calls: *)
(* the limiter's busy timeout, then the primary's deadline if the primary is  *)
(* slow or the call has to wait for a connection, then the secondary's if     *)
(* that call has to.  A busy or rejecting primary costs no waiting            *)
(* (router.py:95-155, app.py:230-248; "elapsed" in                            *)
(* docs/TASK4_WALKTHROUGH.md:340-375).                                        *)
AnsweredInTime ==
  \A h \in Calls :
    Serving(h) =>
      since[h]["reserve"] <=
        BusyTicks + (IF "primary" \in Late(h) THEN PrimaryTicks ELSE 0)
                  + (IF "secondary" \in Late(h) THEN SecondaryTicks ELSE 0)

(* The outcomes the walkthrough reports of its four scenarios are the only    *)
(* ones for a request whose calls find a connection, whatever other requests  *)
(* do, unless the transport fails: success from the primary, success from the *)
(* secondary for a busy or slow primary, and 502 for a failing one            *)
(* (router.py:104-168; docs/TASK4_WALKTHROUGH.md:345).                        *)
ScenarioDecides ==
  \A h \in Calls :
    LET answer == response[h]
        server == IF body[h].scenario \in {"primary_429", "primary_slow"}
                  THEN "secondary" ELSE "primary"
        faults == {"unhandled", "primary_provider_unavailable", "fallback_provider_unavailable"}
    IN
    answer # NoResponse /\ calls[h] # {} /\ held[h] = {} /\ answer.code \notin faults =>
      IF body[h].scenario = "primary_500"
      THEN answer.status = 502 /\ answer.code = "primary_provider_rejected"
      ELSE answer.status = 200 /\ answer.provider = server
=============================================================================
