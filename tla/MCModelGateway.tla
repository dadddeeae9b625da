--------------------------- MODULE MCModelGateway ---------------------------
(* Small instances of ModelGateway for TLC. *)
EXTENDS ModelGateway, TLC

CONSTANTS h1, h2, h3, t1, t2

TwoRequests == {h1, h2}
OneTenant == {t1}
TwoTenants == {t1, t2}

Payload(limit, completion, text) ==
  [max_tokens |-> limit, max_completion_tokens |-> completion, text |-> text]

\* Totals of 1 + 1, 1 + 2 (by default, of an empty text) and 2 + 3, over a limit
\* of 3: two requests that exclude each other and one that never fits.
Budgetable == {Payload(1, Absent, 1), Payload(Absent, Absent, 0), Payload(Absent, 3, 2)}

\* Both limits, a limit of zero, one above the maximum, and a text the encoder
\* refuses, alone and behind an invalid limit.
Refused ==
  {Payload(1, 1, 1), Payload(0, Absent, 1), Payload(Absent, 4, 1),
   Payload(1, Absent, Unencodable), Payload(0, Absent, Unencodable)}

AllPayloads == Budgetable \cup Refused

Symmetry == Permutations(Calls) \cup Permutations(Tenants)
=============================================================================
