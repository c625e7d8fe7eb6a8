---------------------------- MODULE MCXyceCache -----------------------------
(* Two calls, of which either may die, with two executions each *)
EXTENDS XyceCache, TLC
CONSTANTS p1, p2
TwoCalls == {p1, p2}
Interchangeable == Permutations(TwoCalls)
=============================================================================
