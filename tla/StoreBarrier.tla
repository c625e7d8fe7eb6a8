----------------------------- MODULE StoreBarrier -----------------------------
(***************************************************************************)
(* What the leases of src/simcairn/coordination.py promise to the rest of  *)
(* the program: a barrier between any number of readers and one writer.    *)
(* StoreLease implements it with files; Collection is built on it.         *)
(***************************************************************************)
CONSTANTS Readers, Writers

VARIABLES
    reading,    \* the readers inside `with StoreReadLease`
    collecting  \* the writers inside `with StoreWriteLease`

barrier == <<reading, collecting>>
-----------------------------------------------------------------------------
BarrierInit == reading = {} /\ collecting = {}

Enter(r) == /\ collecting = {}
            /\ reading' = reading \cup {r}
            /\ UNCHANGED collecting

(* The end of the body, or of the process *)
Leave(r) == /\ reading' = reading \ {r}
            /\ UNCHANGED collecting

Begin(w) == /\ reading = {} /\ collecting = {}
            /\ collecting' = {w}
            /\ UNCHANGED reading

End(w) == /\ collecting' = collecting \ {w}
          /\ UNCHANGED reading

BarrierNext == \/ \E r \in Readers : Enter(r) \/ Leave(r)
               \/ \E w \in Writers : Begin(w) \/ End(w)

BarrierSpec == BarrierInit /\ [][BarrierNext]_barrier
=============================================================================
