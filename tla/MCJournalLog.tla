----------------------------- MODULE MCJournalLog -----------------------------
(* A run and two resumptions of it. *)
EXTENDS JournalLog

CONSTANTS a, b, c

MCWriters == {a, b, c}
Symmetric == Permutations(MCWriters)
=============================================================================
