----------------------------- MODULE MCScheduler -----------------------------
(* Five activities share two simulator slots; one of them asks for both,   *)
(* and the last of a chain asks for a resource that the plan lacks.        *)
EXTENDS Scheduler

MCOrder    == <<"a", "b", "c", "d", "e">>
MCDeps     == [a |-> {}, b |-> {}, c |-> {"a"}, d |-> {"b", "c"}, e |-> {}]
MCRequests == [a |-> <<<<"simulator", 1>>>>,
               b |-> <<<<"simulator", 2>>>>,
               c |-> <<<<"simulator", 1>>>>,
               d |-> <<<<"simulator", 1>>, <<"solver", 1>>>>,
               e |-> <<<<"simulator", 1>>>>]
MCLimits   == [simulator |-> 2]
=============================================================================
