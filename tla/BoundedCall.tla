---------------------------- MODULE BoundedCall -----------------------------
(***************************************************************************)
(* What _run_process promises to those who call it: the child it starts is *)
(* alive only while the call is, a result says that the child ended by     *)
(* itself, and a call that had to stop the child says so instead.  Only a  *)
(* call that is cancelled while it stops the child may let go of it.       *)
(***************************************************************************)
VARIABLES
    stage,  \* the call: "idle", "busy", "ended"
    child,  \* "none", "alive", "left" (by itself), "stopped"
    answer  \* "none", or that of an ended call: "result", "refused", "cancelled"

vars == <<stage, child, answer>>

Init == stage = "idle" /\ child = "none" /\ answer = "none"

Start == /\ stage = "idle"
         /\ stage' = "busy" /\ child' = "alive"
         /\ UNCHANGED answer

NoStart == /\ stage = "idle"
           /\ stage' = "ended" /\ answer' = "refused"
           /\ UNCHANGED child

Leave == /\ child = "alive"
         /\ child' = "left"
         /\ UNCHANGED <<stage, answer>>

Stop == /\ child = "alive"
        /\ child' = "stopped"
        /\ UNCHANGED <<stage, answer>>

Answer == /\ stage = "busy" /\ child # "alive"
          /\ stage' = "ended"
          /\ answer' \in {"refused", "cancelled"} \cup (IF child = "left" THEN {"result"} ELSE {})
          /\ UNCHANGED child

LetGo == /\ stage = "busy" /\ child = "alive"
         /\ stage' = "ended" /\ answer' = "cancelled"
         /\ UNCHANGED child

Next == Start \/ NoStart \/ Leave \/ Stop \/ Answer \/ LetGo

Spec == Init /\ [][Next]_vars
=============================================================================
