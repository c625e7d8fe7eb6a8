------------------------------ MODULE MCRunLock ------------------------------
(* RunLock with two lock users and an operator on one host, and a lock    *)
(* user on another host.                                                   *)
EXTENDS RunLock, TLC

CONSTANTS a, b, c, o

MCLockers    == {a, b, c}
MCOperators  == {o}
MCHost       == (c :> "h2") @@ [p \in {a, b, o} |-> "h1"]
MCIdentified == {a, b, c, o}
Symmetric    == Permutations({a, b})
=============================================================================
