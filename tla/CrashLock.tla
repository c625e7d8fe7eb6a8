------------------------------ MODULE CrashLock ------------------------------
(***************************************************************************)
(* What RunLock promises to those who use it: a lock that can be present   *)
(* without an owner, because taking it, leaving it and breaking it are     *)
(* each two steps and the process may die between them.  A process reads   *)
(* "unknown" from a present lock that nobody has signed.                   *)
(***************************************************************************)
CONSTANTS Procs, Operators

VARIABLES
    present, \* the lock exists
    signer,  \* the process named in it: a set with at most one member
    hand,    \* the process at work on an unsigned lock: at most one
    dead     \* the processes that died

vars == <<present, signer, hand, dead>>

Init == /\ hand = {}
        /\ \/ present = FALSE /\ signer = {} /\ dead = {}
           \/ \E p \in Procs : present = TRUE /\ signer = {p} /\ dead = {p}

Claim(p) == /\ ~present
            /\ present' = TRUE /\ hand' = {p}
            /\ UNCHANGED <<signer, dead>>

Sign(p) == /\ hand = {p} /\ signer = {}
           /\ signer' = {p} /\ hand' = {}
           /\ UNCHANGED <<present, dead>>

(* A process removes its own name, or that of a dead one; an operator any *)
Erase(p, q) == /\ signer = {q}
               /\ p = q \/ q \in dead \/ p \in Operators
               /\ signer' = {} /\ hand' = {p}
               /\ UNCHANGED <<present, dead>>

Discard(p) == /\ hand = {p} /\ signer = {}
              /\ present' = FALSE /\ hand' = {}
              /\ UNCHANGED <<signer, dead>>

(* A lock file, unlike a directory, is removed in one step *)
EraseFile(p, q) == /\ signer = {q}
                   /\ q \in dead \/ p \in Operators
                   /\ present' = FALSE /\ signer' = {} /\ hand' = {}
                   /\ UNCHANGED dead

(* Nobody takes up an unsigned lock whose process gave it up *)
Abandon(p) == /\ hand = {p}
              /\ hand' = {}
              /\ UNCHANGED <<present, signer, dead>>

Die(p) == /\ dead' = dead \cup {p}
          /\ hand' = hand \ {p}
          /\ UNCHANGED <<present, signer>>

Next == \E p \in Procs :
           \/ Claim(p) \/ Sign(p) \/ Discard(p) \/ Abandon(p) \/ Die(p)
           \/ \E q \in Procs : Erase(p, q) \/ EraseFile(p, q)

Spec == Init /\ [][Next]_vars
=============================================================================
