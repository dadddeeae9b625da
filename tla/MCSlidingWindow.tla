-------------------------- MODULE MCSlidingWindow --------------------------
(* Small instances of SlidingWindow for TLC.  Callers sample the clock in any *)
(* order, which includes a wall clock that is set back.                       *)
EXTENDS SlidingWindow, TLC

CONSTANTS c1, c2, c3, c4, t1, t2

AllCalls == {c1, c2, c3, c4}
AllTenants == {t1, t2}

Symmetry == Permutations(Calls) \cup Permutations(Tenants)
=============================================================================
