--------------------------- MODULE MCTimedGateway ---------------------------
(* Small instances of TimedGateway for TLC. *)
EXTENDS TimedGateway, TLC

CONSTANTS h1, h2, t1

TwoRequests == {h1, h2}
OneTenant == {t1}

\* A total of 1 + 1, and of 1 + 2 where the limit of 4 is to refuse it.
Payload(scenario) ==
  [max_tokens |-> IF scenario = "primary_500" THEN 2 ELSE 1,
   max_completion_tokens |-> Absent, text |-> 1, scenario |-> scenario]

Scenarios ==
  {Payload(s) : s \in {"primary_ok", "primary_429", "primary_slow", "primary_500"}}
=============================================================================
