----------------------------- MODULE MCLimiter -----------------------------
(* Small instances of Limiter for TLC. *)
EXTENDS Limiter, TLC

CONSTANTS c1, c2, c3, t1, t2

TwoCalls == {c1, c2}
ThreeCalls == {c1, c2, c3}
OneTenant == {t1}
TwoTenants == {t1, t2}

Symmetry == Permutations(Calls) \cup Permutations(Tenants)
=============================================================================
