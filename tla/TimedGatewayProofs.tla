------------------------- MODULE TimedGatewayProofs -------------------------
(* What the deadlines promise for every length of them: no request waits      *)
(* longer than what meets its own calls accounts for, and the scenario of a   *)
(* request whose calls find a connection decides its answer, whatever other   *)
(* requests, late answers and crashes do.                                     *)
EXTENDS TimedGateway, ModelGatewayProofs

(***************************************************************************)
(* Every timed behaviour is one of the gateway                             *)
(***************************************************************************)
(* A tick is a stutter of the gateway and every other step one of its own.    *)
LEMMA TimedNext == [Tick \/ Timed(Next)]_timedVars => [Next]_vars
  BY DEF Tick, Timed, timedVars

(* The gateway with its clocks implements the gateway without, so everything  *)
(* proved in ModelGatewayProofs holds of it (router.py:89-168 with and        *)
(* without the lengths of its deadlines).                                     *)
THEOREM TimedImplementsGateway == TimedSpec => Spec
  BY TimedNext, PTL DEF TimedSpec, TimedInit, Spec

(***************************************************************************)
(* The inductive invariant                                                 *)
(***************************************************************************)
Clocks == since \in [Calls -> [Awaits -> Nat]]

\* What the deadline of p can cost.
Cost(h, p) ==
  IF p \in Late(h) THEN IF p = "primary" THEN PrimaryTicks ELSE SecondaryTicks
  ELSE 0

\* How long each await has taken, by where the handler is.
InTime(h) ==
  LET wait == since[h] IN
  /\ ~Serving(h) => \A s \in Awaits : wait[s] = 0
  /\ stage[h] = "reserve" =>
       wait["reserve"] <= BusyTicks /\ wait["primary"] = 0 /\ wait["secondary"] = 0
  /\ stage[h] = "primary" =>
       wait["reserve"] <= BusyTicks + wait["primary"] /\ wait["secondary"] = 0
  /\ stage[h] = "secondary" => wait["reserve"] <= BusyTicks + wait["primary"]
  /\ wait["primary"] <= Cost(h, "primary") + wait["secondary"]
  /\ wait["secondary"] <= Cost(h, "secondary")

\* What the providers have answered, and whose deadline has passed.
Told(h) ==
  /\ \A p \in Providers :
       answers[h][p] # 0 =>
         p \in calls[h] /\ answers[h][p] = MockStatus(h, p)
  /\ expired[h] \subseteq calls[h]
  /\ "primary" \in expired[h] => "primary" \in Late(h)
  /\ stage[h] = "primary" /\ body[h].scenario = "primary_slow" => answers[h]["primary"] = 0

Server(h) ==
  IF body[h].scenario \in {"primary_429", "primary_slow"} THEN "secondary" ELSE "primary"

Faults == {"unhandled", "primary_provider_unavailable", "fallback_provider_unavailable"}

\* ScenarioDecides, of one handler.
Decided(h) ==
  response[h] # NoResponse /\ calls[h] # {} /\ held[h] = {} /\ response[h].code \notin Faults =>
    IF body[h].scenario = "primary_500"
    THEN response[h].status = 502 /\ response[h].code = "primary_provider_rejected"
    ELSE response[h].status = 200 /\ response[h].provider = Server(h)

TimedIInv ==
  IInv /\ Clocks /\ \A h \in Calls : InTime(h) /\ Told(h) /\ Decided(h)

(***************************************************************************)
(* What a step can do to one handler                                       *)
(***************************************************************************)
Own(h) == <<stage[h], body[h], calls[h], answers[h], expired[h], response[h]>>

Moves(h) ==
  \/ Own(h)' = Own(h)
  \/ /\ stage[h] = "idle" /\ stage'[h] \in {"body", "done"}
     /\ calls'[h] = calls[h] /\ answers'[h] = answers[h] /\ expired'[h] = expired[h]
  \/ /\ stage[h] \in {"body", "reserve"} /\ stage'[h] = "done"
     /\ body'[h] = body[h] /\ calls'[h] = calls[h]
     /\ answers'[h] = answers[h] /\ expired'[h] = expired[h]
  \/ /\ stage'[h] = "lost"
     /\ body'[h] = body[h] /\ calls'[h] = calls[h] /\ answers'[h] = answers[h]
     /\ expired'[h] = expired[h] /\ response'[h] = response[h]
  \/ /\ stage[h] = "body" /\ stage'[h] = "reserve"
     /\ body'[h] = body[h] /\ calls'[h] = calls[h] /\ answers'[h] = answers[h]
     /\ expired'[h] = expired[h] /\ response'[h] = response[h]
  \/ /\ \/ stage[h] = "reserve" /\ stage'[h] = "primary"
        \/ stage[h] = "primary" /\ stage'[h] = "secondary"
     /\ body'[h] = body[h] /\ calls'[h] = calls[h] \cup {stage'[h]}
     /\ answers'[h] = answers[h] /\ expired'[h] = expired[h] /\ response'[h] = response[h]
  \/ \E p \in calls[h], status \in Statuses :
       /\ answers[h][p] = 0 /\ answers'[h] = [answers[h] EXCEPT ![p] = status]
       /\ stage'[h] = stage[h] /\ body'[h] = body[h] /\ calls'[h] = calls[h]
       /\ expired'[h] = expired[h] /\ response'[h] = response[h]
  \/ \E p \in Providers :
       /\ stage[h] = p /\ expired'[h] = expired[h] \cup {p}
       /\ stage'[h] = stage[h] /\ body'[h] = body[h] /\ calls'[h] = calls[h]
       /\ answers'[h] = answers[h] /\ response'[h] = response[h]
  \/ /\ stage[h] \in Providers /\ stage'[h] = "done"
     /\ body'[h] = body[h] /\ calls'[h] = calls[h] /\ answers'[h] = answers[h]
     /\ expired'[h] = expired[h]
     /\ \/ response'[h].code \in Faults
        \/ /\ answers[h][stage[h]] # 0
           /\ \/ /\ Successful(answers[h][stage[h]])
                 /\ response'[h].status = answers[h][stage[h]]
                 /\ response'[h].provider = stage[h]
              \/ /\ ~Successful(answers[h][stage[h]])
                 /\ answers[h][stage[h]] # 429 \/ stage[h] = "secondary"
                 /\ stage[h] = "primary" =>
                      response'[h].status = 502 /\ response'[h].code = "primary_provider_rejected"

(* The steps of the gateway, as one handler sees them.                        *)
LEMMA HandlerMoves ==
  ASSUME Types, Next, NEW h \in Calls
  PROVE  Moves(h)
<1> USE DEF Types, Moves, Own
<1>1. ASSUME NEW g \in Calls, NEW t, NEW b, Authenticate(g, t, b)
      PROVE  Moves(h)
  BY <1>1 DEF Authenticate, Respond, Enter
<1>2. ASSUME NEW g \in Calls, Admit(g)
      PROVE  Moves(h)
  BY <1>2 DEF Admit, RejectBody, RequestRaises, Reserve, Unhandled, Respond, Enter
<1>3. ASSUME NEW g \in Calls, Transact(g) \/ LimiterUnavailable(g) \/ RateLimited(g) \/ Route(g)
      PROVE  Moves(h)
  BY <1>3 DEF Transact, LimiterUnavailable, RateLimited, Route, Send, Respond, Enter
<1>4. ASSUME NEW g \in Calls, NEW p \in Providers, Deadline(g, p)
      PROVE  Moves(h)
  BY <1>4 DEF Deadline
<1>5. ASSUME NEW g \in Calls, NEW p \in Providers, Success(g, p)
      PROVE  Moves(h)
  BY <1>5 DEF Success, Answered, Awaiting, Relay, Enter
<1>6. ASSUME NEW g \in Calls, PrimaryBusy(g) \/ PrimaryTimeout(g)
      PROVE  Moves(h)
  BY <1>6 DEF PrimaryBusy, PrimaryTimeout, Answered, Awaiting, Fallback, Send, Enter
<1>7. ASSUME NEW g \in Calls, PrimaryRejected(g) \/ SecondaryTimeout(g) \/ SecondaryFailed(g)
      PROVE  Moves(h)
  BY <1>7
  DEF PrimaryRejected, SecondaryTimeout, SecondaryFailed, Answered, Awaiting, Respond, Enter,
      Providers, Faults
<1>8. ASSUME NEW g \in Calls, Disturbance(g)
      PROVE  Moves(h)
  BY <1>8
  DEF Disturbance, PrimaryTransportError, SecondaryTransportError, ProviderRaises, Unhandled,
      Awaiting, Respond, Enter, Providers, Faults
<1>9. ASSUME NEW g \in Calls, NEW p \in Providers, NEW status \in Statuses, Answer(g, p, status)
      PROVE  Moves(h)
  BY <1>9 DEF Answer
<1>10. CASE Crash
  BY <1>10 DEF Crash
<1> QED
  BY <1>1, <1>2, <1>3, <1>4, <1>5, <1>6, <1>7, <1>8, <1>9, <1>10 DEF Next, Serve

(***************************************************************************)
(* The invariant                                                           *)
(***************************************************************************)
(* Where Control puts a handler's calls.                                      *)
LEMMA CallsOf ==
  ASSUME IInv, NEW h \in Calls
  PROVE  /\ stage[h] \in {"idle", "body", "reserve"} => calls[h] = {}
         /\ stage[h] = "primary" => calls[h] = {"primary"}
         /\ stage[h] = "secondary" => calls[h] = Providers
         /\ (stage[h] = "done") <=> (response[h] # NoResponse)
         /\ "secondary" \in calls[h] =>
              answers[h]["primary"] = 429 \/ "primary" \in expired[h]
  BY DEF IInv, Handler, Control, Policy

(* A deadline costs a number of ticks, or nothing.                            *)
LEMMA CostType == ASSUME NEW h, NEW p PROVE Cost(h, p) \in Nat /\ Cost(h, p)' \in Nat
  BY TicksAssumption DEF Cost

(* Time passes: a handler that goes on waiting has not waited long enough, so *)
(* each clock stops at its allowance.                                         *)
LEMMA TickStep ==
  ASSUME TimedIInv, Tick
  PROVE  TimedIInv'
<1>1. UNCHANGED vars
  BY DEF Tick
<1>2. IInv'
  BY <1>1, IInvStep DEF TimedIInv
<1>3. Clocks'
  BY DEF Tick, TimedIInv, Clocks
<1>4. ASSUME NEW h \in Calls
      PROVE  InTime(h)' /\ Told(h)' /\ Decided(h)'
  <2>1. Clocks /\ InTime(h) /\ Told(h) /\ Decided(h)
    BY DEF TimedIInv
  <2>0. held' = held
    BY DEF Tick
  <2>2. Told(h)' /\ Decided(h)'
    BY <1>1, <2>0, <2>1 DEF vars, Told, Decided, MockStatus, Server, Late
  <2>3. /\ stage'[h] = stage[h] /\ body'[h] = body[h] /\ calls'[h] = calls[h]
        /\ \A p : Cost(h, p)' = Cost(h, p)
    BY <1>1, <2>0 DEF vars, Cost, Late
  <2>4. \A s \in Awaits :
          /\ since[h][s] \in Nat
          /\ since'[h][s] = since[h][s] + (IF Serving(h) /\ Entered(h, s) THEN 1 ELSE 0)
    BY <2>1 DEF Clocks, Tick
  <2>5. CASE ~Serving(h)
    <3>1. ~Serving(h)' /\ \A s \in Awaits : since'[h][s] = 0
      BY <2>1, <2>3, <2>4, <2>5 DEF InTime, Serving
    <3>2. InTime(h)'
      BY <2>5, <3>1, CostType DEF InTime, Serving, Awaits, Providers
    <3> QED
      BY <2>2, <3>2
  <2>6. CASE stage[h] = "reserve"
    <3>1. calls[h] = {} /\ since[h]["reserve"] < BusyTicks
      BY <2>6, CallsOf DEF TimedIInv, Tick, Serving, Awaits, Waits, Allowance
    <3>2. /\ since'[h]["reserve"] = since[h]["reserve"] + 1
          /\ since'[h]["primary"] = since[h]["primary"]
          /\ since'[h]["secondary"] = since[h]["secondary"]
      BY <2>4, <2>6, <3>1 DEF Serving, Awaits, Providers, Entered
    <3>3. InTime(h)'
      BY <2>1, <2>3, <2>4, <2>6, <3>1, <3>2, CostType, TicksAssumption
      DEF InTime, Serving, Awaits, Providers
    <3> QED
      BY <2>2, <3>3
  <2>7. CASE stage[h] = "primary"
    <3>1. calls[h] = {"primary"}
      BY <2>7, CallsOf DEF TimedIInv
    <3>2. since[h]["primary"] < PrimaryTicks /\ ~Replies(h, "primary")
      BY <2>7 DEF Tick, Serving, Awaits, Providers, Waits, Allowance
    <3>3. Cost(h, "primary") = PrimaryTicks
      BY <2>4, <3>2 DEF Replies, Ready, Delay, Late, Cost, Awaits, Providers
    <3>4. /\ since'[h]["reserve"] = since[h]["reserve"] + 1
          /\ since'[h]["primary"] = since[h]["primary"] + 1
          /\ since'[h]["secondary"] = since[h]["secondary"]
      BY <2>4, <2>7, <3>1 DEF Serving, Awaits, Providers, Entered
    <3>5. InTime(h)'
      BY <2>1, <2>3, <2>4, <2>7, <3>2, <3>3, <3>4, CostType, TicksAssumption
      DEF InTime, Serving, Awaits, Providers
    <3> QED
      BY <2>2, <3>5
  <2>8. CASE stage[h] = "secondary"
    <3>1. calls[h] = Providers
      BY <2>8, CallsOf DEF TimedIInv
    <3>2. since[h]["secondary"] < SecondaryTicks /\ ~Replies(h, "secondary")
      BY <2>8 DEF Tick, Serving, Awaits, Providers, Waits, Allowance
    <3>3. Cost(h, "secondary") = SecondaryTicks
      BY <2>4, <3>2 DEF Replies, Ready, Delay, Late, Cost, Awaits, Providers
    <3>4. /\ since'[h]["reserve"] = since[h]["reserve"] + 1
          /\ since'[h]["primary"] = since[h]["primary"] + 1
          /\ since'[h]["secondary"] = since[h]["secondary"] + 1
      BY <2>4, <2>8, <3>1 DEF Serving, Awaits, Providers, Entered
    <3>5. InTime(h)'
      BY <2>1, <2>3, <2>4, <2>8, <3>2, <3>3, <3>4, CostType, TicksAssumption
      DEF InTime, Serving, Awaits, Providers
    <3> QED
      BY <2>2, <3>5
  <2> QED
    BY <2>2, <2>5, <2>6, <2>7, <2>8 DEF Serving, Awaits, Providers
<1> QED
  BY <1>2, <1>3, <1>4 DEF TimedIInv

(* What the gateway's own steps do to the clocks of one handler, and to what  *)
(* its calls have met.                                                        *)
LEMMA ClocksKept ==
  ASSUME TimedIInv, Timed(Next), NEW h \in Calls
  PROVE  /\ Serving(h)' => since'[h] = since[h]
         /\ ~Serving(h)' => \A s \in Awaits : since'[h][s] = 0
  BY DEF Timed, Serving

LEMMA HeldGrows ==
  ASSUME Timed(Next), NEW h \in Calls
  PROVE  held[h] \subseteq held'[h]
  BY DEF Timed, Connect

LEMMA CostGrows ==
  ASSUME Timed(Next), NEW h \in Calls, body'[h] = body[h]
  PROVE  /\ Late(h) \subseteq Late(h)'
         /\ \A p \in Providers : Cost(h, p) <= Cost(h, p)'
<1>1. Late(h) \subseteq Late(h)'
  BY HeldGrows DEF Late
<1> QED
  BY <1>1, TicksAssumption DEF Cost

(* A step of the gateway takes no time; a deadline that fires has waited its  *)
(* full allowance, which only a late provider makes it do.                    *)
LEMMA TimedStep ==
  ASSUME TimedIInv, Timed(Next)
  PROVE  TimedIInv'
<1>1. Next /\ Punctual
  BY DEF Timed
<1>2. IInv /\ IInv'
  BY <1>1, IInvStep DEF TimedIInv
<1>3. Clocks'
  BY DEF Timed, TimedIInv, Clocks
<1>4. ASSUME NEW h \in Calls
      PROVE  InTime(h)' /\ Told(h)' /\ Decided(h)'
  <2>1. Clocks /\ InTime(h) /\ Told(h) /\ Decided(h) /\ Types /\ Types'
    BY <1>2 DEF TimedIInv, IInv
  <2>2. Moves(h)
    BY <1>1, <2>1, HandlerMoves
  <2>3. \A s \in Awaits : since[h][s] \in Nat
    BY <2>1 DEF Clocks
  <2>4. InTime(h)'
    <3>1. CASE ~Serving(h)'
      BY <3>1, ClocksKept, CostType DEF InTime, Serving, Awaits, Providers
    <3>2. CASE Serving(h)' /\ stage'[h] = stage[h]
      <4>1. body'[h] = body[h] /\ since'[h] = since[h]
        BY <2>1, <2>2, <3>2, ClocksKept DEF Serving, Awaits, Providers, Moves, Own
      <4>2. /\ Cost(h, "primary") <= Cost(h, "primary")'
            /\ Cost(h, "secondary") <= Cost(h, "secondary")'
        BY <4>1, CostGrows DEF Providers
      <4> QED
        BY <2>1, <2>3, <3>2, <4>1, <4>2, CostType DEF InTime, Serving, Awaits, Providers
    <3>3. CASE Serving(h)' /\ stage'[h] # stage[h]
      <4>1. \/ stage[h] = "body" /\ stage'[h] = "reserve"
            \/ stage[h] = "reserve" /\ stage'[h] = "primary"
            \/ stage[h] = "primary" /\ stage'[h] = "secondary"
        BY <2>2, <3>3 DEF Moves, Own, Serving, Awaits, Providers
      <4>2. body'[h] = body[h]
        BY <2>2, <4>1 DEF Moves, Own
      <4>3. /\ Cost(h, "primary") <= Cost(h, "primary")'
            /\ Cost(h, "secondary") <= Cost(h, "secondary")'
        BY <4>2, CostGrows DEF Providers
      <4> QED
        BY <2>1, <2>3, <3>3, <4>1, <4>3, ClocksKept, CostType, TicksAssumption
        DEF InTime, Serving, Awaits, Providers
    <3> QED
      BY <3>1, <3>2, <3>3
  <2>5. Told(h)'
    <3>1. stage[h] \in Providers => stage[h] \in calls[h]
      BY <1>2, CallsOf DEF Providers
    <3>2. "primary" \in expired'[h] => "primary" \in Late(h)'
      <4>1. CASE "primary" \in expired'[h] \ expired[h]
        <5>1. since[h]["primary"] = PrimaryTicks
          BY <1>1, <4>1 DEF Punctual, Providers, Allowance
        <5>2. body'[h] = body[h] /\ stage[h] = "primary"
          BY <2>2, <4>1 DEF Moves, Own
        <5>3. "primary" \in Late(h)
          BY <2>1, <5>1, <5>2, TicksAssumption DEF InTime, Cost
        <5> QED
          BY <5>2, <5>3, CostGrows
      <4>2. CASE "primary" \in expired[h]
        <5>1. calls[h] # {} /\ stage[h] # "idle"
          BY <1>2, <2>1, <4>2, CallsOf DEF Told
        <5>2. body'[h] = body[h]
          BY <2>2, <5>1 DEF Moves, Own
        <5> QED
          BY <2>1, <4>2, <5>2, CostGrows DEF Told
      <4> QED
        BY <4>1, <4>2
    <3>3. expired'[h] \subseteq calls'[h]
      BY <2>1, <2>2, <3>1 DEF Told, Moves, Own
    <3>4. ASSUME NEW p \in Providers, answers'[h][p] # 0
          PROVE  p \in calls'[h] /\ answers'[h][p] = MockStatus(h, p)'
      <4>1. CASE answers'[h][p] = answers[h][p]
        <5>1. stage[h] # "idle"
          BY <1>2, <2>1, <3>4, <4>1, CallsOf DEF Told
        <5>2. p \in calls'[h] /\ body'[h] = body[h]
          BY <2>1, <2>2, <3>4, <4>1, <5>1 DEF Told, Moves, Own
        <5> QED
          BY <2>1, <3>4, <4>1, <5>2 DEF Told, MockStatus
      <4>2. CASE answers'[h][p] # answers[h][p]
        <5>1. answers'[h][p] = MockStatus(h, p)
          BY <1>1, <4>2 DEF Punctual
        <5>2. p \in calls'[h] /\ body'[h] = body[h]
          BY <2>1, <2>2, <4>2 DEF Types, Moves, Own
        <5> QED
          BY <5>1, <5>2 DEF MockStatus
      <4> QED
        BY <4>1, <4>2
    <3>5. stage'[h] = "primary" /\ body'[h].scenario = "primary_slow" => answers'[h]["primary"] = 0
      <4> SUFFICES ASSUME stage'[h] = "primary", body'[h].scenario = "primary_slow",
                          answers'[h]["primary"] # 0
                   PROVE  FALSE
        OBVIOUS
      <4>1. body'[h] = body[h] /\ stage[h] \in {"reserve", "primary"}
        BY <2>2 DEF Moves, Own, Providers
      <4>2. answers'[h]["primary"] # answers[h]["primary"]
        BY <1>2, <2>1, <4>1, CallsOf DEF Told, Providers
      <4>3. Ready(h, "primary")
        BY <1>1, <4>2 DEF Punctual, Providers
      <4>4. since[h]["primary"] >= SlowTicks
        BY <4>1, <4>3 DEF Ready, Delay
      <4>5. since[h]["primary"] <= Cost(h, "primary") /\ Cost(h, "primary") <= PrimaryTicks
        BY <2>1, <2>3, <4>1, CostType, TicksAssumption DEF InTime, Cost, Awaits, Providers
      <4> QED
        BY <2>3, <4>4, <4>5, CostType, TicksAssumption DEF Awaits, Providers
    <3> QED
      BY <3>2, <3>3, <3>4, <3>5 DEF Told
  <2>6. Decided(h)'
    <3> SUFFICES ASSUME response'[h] # NoResponse, calls'[h] # {}, held'[h] = {},
                        response'[h].code \notin Faults
                 PROVE  IF body'[h].scenario = "primary_500"
                        THEN /\ response'[h].status = 502
                             /\ response'[h].code = "primary_provider_rejected"
                        ELSE response'[h].status = 200 /\ response'[h].provider = Server(h)'
      BY DEF Decided
    <3>0. held[h] = {}
      BY HeldGrows
    <3>1. stage'[h] = "done"
      BY <1>2 DEF IInv, Handler, Control
    <3>2. CASE stage[h] = "done"
      <4>1. body'[h] = body[h] /\ calls'[h] = calls[h] /\ response'[h] = response[h]
        BY <2>2, <3>1, <3>2 DEF Moves, Own, Providers
      <4> QED
        BY <2>1, <3>0, <4>1 DEF Decided, Server
    <3>3. CASE stage[h] # "done"
      <4> DEFINE p == stage[h]
      <4>1. /\ p \in Providers /\ body'[h] = body[h]
            /\ answers[h][p] # 0
            /\ \/ /\ Successful(answers[h][p])
                  /\ response'[h].status = answers[h][p] /\ response'[h].provider = p
               \/ /\ ~Successful(answers[h][p])
                  /\ answers[h][p] # 429 \/ p = "secondary"
                  /\ p = "primary" =>
                       response'[h].status = 502 /\ response'[h].code = "primary_provider_rejected"
        BY <1>2, <2>1, <2>2, <3>1, <3>3, CallsOf DEF Moves, Own
      <4>2. answers[h][p] = MockStatus(h, p)
        BY <2>1, <4>1 DEF Told
      <4>3. CASE p = "primary"
        <5>1. body[h].scenario # "primary_slow"
          BY <2>1, <4>1, <4>3 DEF Told
        <5> QED
          BY <4>1, <4>2, <4>3, <5>1 DEF MockStatus, PrimaryStatus, Successful, Server
      <4>4. CASE p = "secondary"
        <5>1. body[h].scenario \in {"primary_429", "primary_slow"}
          <6>1. answers[h]["primary"] = 429 \/ "primary" \in expired[h]
            BY <1>2, <4>4, CallsOf DEF Providers
          <6> QED
            BY <2>1, <3>0, <6>1 DEF Told, Late, Providers, MockStatus, PrimaryStatus
        <5> QED
          BY <4>1, <4>2, <4>4, <5>1 DEF MockStatus, SecondaryStatus, Successful, Server
      <4> QED
        BY <4>1, <4>3, <4>4 DEF Providers
    <3> QED
      BY <3>2, <3>3
  <2> QED
    BY <2>4, <2>5, <2>6
<1> QED
  BY <1>2, <1>3, <1>4 DEF TimedIInv

(* Nobody is served, and no time has passed.                                  *)
LEMMA InitTimedIInv == TimedInit => TimedIInv
<1> SUFFICES ASSUME TimedInit PROVE TimedIInv
  OBVIOUS
<1>1. IInv
  BY InitIInv DEF TimedInit
<1> QED
  BY <1>1, CostType
  DEF TimedInit, Init, TimedIInv, Clocks, Awaits, Providers, Serving, InTime, Told, Decided

(* Every reachable state of the timed gateway satisfies the invariant.        *)
THEOREM TimedInvariantHolds == TimedSpec => []TimedIInv
<1>1. TimedIInv /\ UNCHANGED timedVars => TimedIInv'
  <2> SUFFICES ASSUME TimedIInv, UNCHANGED timedVars PROVE TimedIInv'
    OBVIOUS
  <2>1. IInv' /\ UNCHANGED <<vars, since, held>>
    BY IInvStep DEF TimedIInv, timedVars
  <2> QED
    BY <2>1
    DEF vars, TimedIInv, Clocks, Serving, InTime, Cost, Late, Told, Decided, MockStatus, Server
<1>2. TimedIInv /\ [Tick \/ Timed(Next)]_timedVars => TimedIInv'
  BY <1>1, TickStep, TimedStep
<1> QED
  BY <1>2, InitTimedIInv, PTL DEF TimedSpec

(***************************************************************************)
(* The theorems                                                            *)
(***************************************************************************)
(* However long the deadlines are, a client waits no longer than the limiter  *)
(* and those of its own calls account for that are slow or have to wait for a *)
(* connection: a primary that answers at once, with whatever status, costs no *)
(* waiting (router.py:95-155).                                                *)
THEOREM AnsweredInTimeHolds == TimedSpec => []AnsweredInTime
<1>1. TimedIInv => AnsweredInTime
  <2> SUFFICES ASSUME TimedIInv, NEW h \in Calls, Serving(h)
               PROVE  since[h]["reserve"] <=
                        BusyTicks + (IF "primary" \in Late(h) THEN PrimaryTicks ELSE 0)
                                  + (IF "secondary" \in Late(h) THEN SecondaryTicks ELSE 0)
    BY DEF AnsweredInTime
  <2>1. InTime(h) /\ \A s \in Awaits : since[h][s] \in Nat
    BY DEF TimedIInv, Clocks
  <2> QED
    BY <2>1, TicksAssumption DEF InTime, Cost, Serving, Awaits, Providers
<1> QED
  BY <1>1, TimedInvariantHolds, PTL

(* The scenario of a request alone decides what its client gets, unless the   *)
(* transport fails or one of its calls has to wait for a connection: other    *)
(* requests, late answers of an abandoned primary and restarts change nothing *)
(* else (router.py:104-168, mock_provider.py).                                *)
THEOREM ScenarioDecidesHolds == TimedSpec => []ScenarioDecides
<1>1. TimedIInv => ScenarioDecides
  BY DEF TimedIInv, Decided, Server, Faults, ScenarioDecides
<1> QED
  BY <1>1, TimedInvariantHolds, PTL
=============================================================================
