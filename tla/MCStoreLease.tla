----------------------------- MODULE MCStoreLease -----------------------------
(* A reader and two writers, each calling twice; the owner marker of the  *)
(* second writer cannot be probed by the others.                           *)
EXTENDS StoreLease

CONSTANTS r1, w1, w2

MCReaders    == {r1}
MCWriters    == {w1, w2}
MCIdentified == {r1, w1}
=============================================================================
