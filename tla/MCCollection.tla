----------------------------- MODULE MCCollection -----------------------------
(* Two executors, one of which may resume the run of the other.  Activity  *)
(* b depends on a; the plan of e1 has both, that of e2 only a.  The cache  *)
(* starts empty, complete, or with an entry that is damaged.               *)
EXTENDS Collection

CONSTANTS a, b, e1, e2

MCKeys      == {a, b}
MCDeps      == [k \in MCKeys |-> IF k = b THEN {a} ELSE {}]
MCExecutors == {e1, e2}
MCOldRuns   == {}
MCOldCaches == {[k \in MCKeys |-> "none"], [k \in MCKeys |-> "whole"],
                [k \in MCKeys |-> IF k = a THEN "torn" ELSE "none"],
                [k \in MCKeys |-> IF k = a THEN "whole" ELSE "torn"]}
MCPlan      == [i \in {e1, e2} |-> IF i = e1 THEN {a, b} ELSE {a}]
=============================================================================
