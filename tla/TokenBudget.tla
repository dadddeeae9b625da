---------------------------- MODULE TokenBudget ----------------------------
(* RequestTokenBudgeter.budget() (task4_model_router/token_budget.py): what a *)
(* request is charged before any provider sees it.  A payload is its two      *)
(* completion limits and the number of tokens the encoder finds in the rest.  *)
EXTENDS Integers

CONSTANTS
  DefaultReserve,  \* DEFAULT_COMPLETION_RESERVE
  MaxReserve       \* MAX_COMPLETION_RESERVE

ASSUME ReserveAssumption ==
  /\ MaxReserve \in Nat \ {0}
  /\ DefaultReserve \in 1..MaxReserve

\* A field the payload does not have.  A value that is no positive integer (a
\* string, a boolean, zero) is any number below 1.
Absent == -2

\* tiktoken's encode() raises ValueError on a text that spells one of its
\* special tokens.
Unencodable == -1

BothLimits(p) == p.max_tokens # Absent /\ p.max_completion_tokens # Absent

CompletionReserve(p) ==
  IF p.max_completion_tokens # Absent THEN p.max_completion_tokens
  ELSE IF p.max_tokens # Absent THEN p.max_tokens
  ELSE DefaultReserve

\* budget() raises TokenBudgetError, before it encodes anything.
Unbudgetable(p) == BothLimits(p) \/ CompletionReserve(p) \notin 1..MaxReserve

\* The encoder's own exception, which is no TokenBudgetError, leaves budget().
EncoderRaises(p) == ~Unbudgetable(p) /\ p.text = Unencodable

InputTokens(p) == IF p.text < 1 THEN 1 ELSE p.text

TotalTokens(p) == InputTokens(p) + CompletionReserve(p)
=============================================================================
