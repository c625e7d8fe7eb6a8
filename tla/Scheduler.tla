------------------------------ MODULE Scheduler ------------------------------
(***************************************************************************)
(* execute_plan of src/simcairn/scheduler.py: the coroutine that walks the *)
(* activity graph, one task per activity behind a job semaphore and named  *)
(* resource semaphores, and the run lock that must outlive the tasks.      *)
(*                                                                         *)
(* Every await, and every callback the coroutine awaits, is a step of its  *)
(* own.  What a task does between two awaits is one step.                  *)
(***************************************************************************)
EXTENDS Integers, Sequences, FiniteSets, SequencesExt, FiniteSetsExt

CONSTANTS
    Order,    \* plan.activities, in the plan's order
    Deps,     \* the dependencies of each
    Requests, \* per activity, the <<resource, amount>> pairs, sorted by name
    Limits,   \* plan.resource_limits: a function on resource names
    Jobs      \* plan.jobs

Activities == ToSet(Order)

ASSUME PlanAssumption == /\ \A a \in Activities : Deps[a] \subseteq Activities
                         /\ Order \in Seq(Activities) /\ IsInjective(Order)
                         /\ Jobs \in Nat \ {0}
                         /\ \A n \in DOMAIN Limits : Limits[n] \in Nat \ {0}
ASSUME RequestsAssumption == \A a \in Activities : Requests[a] \in Seq(STRING \X Int)

VARIABLES
    pc, next, failed, slots, progress, \* the coroutine and its locals
    statuses, pending, running, done,  \* its tables; done is what wait returned
    worker, cancelled,  \* the thread that acquires the run lock; a cancellation
    lock,               \* the run lock is held
    shut,               \* asyncio.run shut down: not yet, before the cleanup, or in it
    phase, got, outcome,    \* per task; got counts the slots it acquired
    free, queue, granted,   \* the semaphores: slots, waiters, waiters handed one
    started,            \* the activities with a "started" event in this run
    published,          \* the activities with a valid cache entry
    failFast, verdict   \* plan.fail_fast, and the status of the run

main  == <<pc, next, failed, slots, progress>>
table == <<statuses, pending, running, done>>
owner == <<worker, cancelled, lock, shut>>
sems  == <<free, queue, granted>>
tasks == <<phase, got, outcome, sems, started, published>>
vars  == <<main, table, owner, tasks, failFast, verdict>>

Good   == {"succeeded", "cached"}
Wrong  == {"failed", "skipped"}
Labels == {"acquire", "verify", "top", "scan", "wait", "record", "finish",
           "cleanup", "ended"}
Phases == {"none", "created", "waiting", "executing", "done"}

(* The slots a task acquires one by one: a job, then its resources up to  *)
(* the first request that cannot be met.                                   *)
Sems     == DOMAIN Limits \cup {"job"}
Capacity == [n \in Sems |-> IF n = "job" THEN Jobs ELSE Limits[n]]

Unmet(a, i) == LET n == Requests[a][i][1] IN
    n \notin DOMAIN Limits \/ Requests[a][i][2] \notin 1 .. Limits[n]
Impossible(a) == \E i \in DOMAIN Requests[a] : Unmet(a, i)
Met(a)  == {i \in DOMAIN Requests[a] : \A j \in 1 .. i : ~Unmet(a, j)}
Units   == [a \in Activities |->
              <<"job">> \o FlattenSeq([i \in DOMAIN Requests[a] |->
                  [j \in 1 .. IF i \in Met(a) THEN Requests[a][i][2] ELSE 0
                       |-> Requests[a][i][1]]])]
CountOf(n, a, i, j) == Cardinality({k \in i .. j : Units[a][k] = n})
-----------------------------------------------------------------------------
Init ==
    /\ pc = "acquire" /\ next = 1 /\ failed = FALSE /\ slots = 0 /\ progress = FALSE
    /\ statuses = [a \in Activities |-> "none"]
    /\ pending = Activities /\ running = {} /\ done = {}
    /\ worker = "busy" /\ cancelled = FALSE /\ lock = FALSE /\ shut = "no"
    /\ phase = [a \in Activities |-> "none"]
    /\ got = [a \in Activities |-> 0]
    /\ outcome = [a \in Activities |-> "none"]
    /\ free = Capacity
    /\ queue = [n \in Sems |-> <<>>]
    /\ granted = {}
    /\ started = {}
    /\ published \in SUBSET Activities
    /\ failFast \in BOOLEAN /\ verdict = "none"

Goto(l) == pc' = l /\ UNCHANGED <<failed, slots, progress>>
-----------------------------------------------------------------------------
(* _acquire_run_lock_async: the thread ends with or without the lock; the *)
(* coroutine stays with it, however often it is cancelled, by a shutdown   *)
(* too: the thread's future is not among the tasks.                        *)
WorkerEnds ==
    /\ worker = "busy"
    /\ \/ worker' = "locked" /\ lock' = TRUE
       \/ worker' = "raised" /\ UNCHANGED lock
    /\ UNCHANGED <<main, table, cancelled, shut, tasks, failFast, verdict>>

CancelAcquire ==
    /\ pc = "acquire" /\ ~cancelled
    /\ cancelled' = TRUE
    /\ UNCHANGED <<main, table, worker, lock, shut, tasks, failFast, verdict>>

Acquired ==
    /\ pc = "acquire" /\ worker # "busy"
    /\ IF worker = "locked" /\ ~cancelled
       THEN Goto("verify") /\ UNCHANGED lock
       ELSE Goto("ended") /\ lock' = FALSE
    /\ UNCHANGED <<next, table, worker, cancelled, shut, tasks, failFast, verdict>>
-----------------------------------------------------------------------------
Record(a, status) == statuses' = [statuses EXCEPT ![a] = status]
Current == Order[next]

(* Every cache entry is verified before anything is scheduled *)
Verify ==
    /\ pc = "verify"
    /\ IF next > Len(Order)
       THEN Goto("top") /\ UNCHANGED <<next, statuses, pending>>
       ELSE /\ next' = next + 1
            /\ IF Current \in published
               THEN Record(Current, "cached") /\ pending' = pending \ {Current}
               ELSE UNCHANGED <<statuses, pending>>
            /\ UNCHANGED <<pc, failed, slots, progress>>
    /\ UNCHANGED <<running, done, owner, tasks, failFast, verdict>>

(* Mutant: `while pending` *)
TopWhilePending ==
    /\ pc = "top"
    /\ IF pending = {}
       THEN Goto("finish") /\ UNCHANGED next
       ELSE /\ pc' = "scan" /\ next' = 1 /\ progress' = FALSE
            /\ failed' = \E a \in Activities : statuses[a] = "failed"
            /\ slots' = Jobs - Cardinality(running)
    /\ UNCHANGED <<table, owner, tasks, failFast, verdict>>

(* Mutant: failures are read once, before the loop *)
TopFailedOnce ==
    /\ pc = "top"
    /\ IF pending = {} /\ running = {}
       THEN Goto("finish") /\ UNCHANGED next
       ELSE /\ pc' = "scan" /\ next' = 1 /\ progress' = FALSE
            /\ slots' = Jobs - Cardinality(running)
            /\ UNCHANGED failed
    /\ UNCHANGED <<table, owner, tasks, failFast, verdict>>

(* `while pending or running`, and what the loop reads first *)
Top ==
    /\ pc = "top"
    /\ IF pending = {} /\ running = {}
       THEN Goto("finish") /\ UNCHANGED next
       ELSE /\ pc' = "scan" /\ next' = 1 /\ progress' = FALSE
            /\ failed' = \E a \in Activities : statuses[a] = "failed"
            /\ slots' = Jobs - Cardinality(running)
    /\ UNCHANGED <<table, owner, tasks, failFast, verdict>>

(* Mutant: a dependency need not have ended *)
ScanNotWrong ==
    /\ pc = "scan" /\ next <= Len(Order)
    /\ LET a == Current
           states == {statuses[d] : d \in Deps[a]}
       IN IF a \in pending /\ slots > 0 /\ states \cap Wrong = {}
          THEN /\ running' = running \cup {a} /\ pending' = pending \ {a}
               /\ phase' = [phase EXCEPT ![a] = "created"]
               /\ slots' = slots - 1 /\ progress' = TRUE
               /\ UNCHANGED <<statuses, done>>
          ELSE UNCHANGED <<slots, progress, table, phase>>
    /\ next' = next + 1
    /\ UNCHANGED <<pc, failed, owner, got, outcome, sems, started, published,
                   failFast, verdict>>

Scan ==
    /\ pc = "scan" /\ next <= Len(Order)
    /\ LET a == Current
           states == {statuses[d] : d \in Deps[a]}
       IN IF a \notin pending
          THEN UNCHANGED <<slots, progress, table, phase>>
          ELSE IF states \cap Wrong # {} \/ (failFast /\ failed)
          THEN /\ Record(a, "skipped") /\ pending' = pending \ {a} /\ progress' = TRUE
               /\ UNCHANGED <<slots, running, done, phase>>
          ELSE IF slots > 0 /\ states \subseteq Good
          THEN /\ running' = running \cup {a} /\ pending' = pending \ {a}
               /\ phase' = [phase EXCEPT ![a] = "created"]
               /\ slots' = slots - 1 /\ progress' = TRUE
               /\ UNCHANGED <<statuses, done>>
          ELSE UNCHANGED <<slots, progress, table, phase>>
    /\ next' = next + 1
    /\ UNCHANGED <<pc, failed, owner, got, outcome, sems, started, published,
                   failFast, verdict>>

(* Nothing running and nothing done while work is pending: SchedulerError *)
ScanEnds ==
    /\ pc = "scan" /\ next > Len(Order)
    /\ Goto(IF running # {} THEN "wait" ELSE IF progress THEN "top" ELSE "cleanup")
    /\ UNCHANGED <<next, table, owner, tasks, failFast, verdict>>

(* The event loop is first in, first out: a task's first step comes before *)
(* anything that the coroutine waits for after creating it.                *)
AllBegun == \A a \in running : phase[a] # "created"

(* asyncio.wait(running, FIRST_COMPLETED) *)
Wait ==
    /\ pc = "wait" /\ AllBegun
    /\ done' = {a \in running : phase[a] = "done"}
    /\ done' # {}
    /\ Goto("record")
    /\ UNCHANGED <<next, statuses, pending, running, owner, tasks, failFast, verdict>>

RecordDone ==
    /\ pc = "record"
    /\ \/ done = {} /\ Goto("top") /\ UNCHANGED table
       \/ \E a \in done :
             /\ done' = done \ {a} /\ running' = running \ {a}
             /\ UNCHANGED pending
             /\ IF outcome[a] = "raised"
                THEN Goto("cleanup") /\ UNCHANGED statuses
                ELSE Goto("record") /\ Record(a, outcome[a])
    /\ UNCHANGED <<next, owner, tasks, failFast, verdict>>

Finish ==
    /\ pc = "finish"
    /\ verdict' = IF \E a \in Activities : statuses[a] \in Wrong THEN "failed"
                                                                ELSE "succeeded"
    /\ Goto("cleanup")
    /\ UNCHANGED <<next, table, owner, tasks, failFast>>

(* A cancellation, an error of the journal, or one of the callback *)
MainRaises ==
    /\ pc \in {"verify", "scan", "wait", "record", "finish"}
    /\ Goto("cleanup")
    /\ UNCHANGED <<next, table, owner, tasks, failFast, verdict>>

(* The shutdown of asyncio.run, after a second interrupt for example,      *)
(* cancels every task there is.  The coroutine goes to its cleanup.  If it *)
(* is there, the task of _cancel_and_wait is cancelled as well.            *)
Shutdown ==
    /\ shut = "no"
    /\ \/ /\ pc \in {"verify", "scan", "wait", "record", "finish"}
          /\ Goto("cleanup") /\ shut' = "before"
       \/ /\ pc = "cleanup" /\ running # {}
          /\ shut' = "inside" /\ UNCHANGED main
    /\ UNCHANGED <<next, table, worker, cancelled, lock, tasks, failFast, verdict>>

(* Mutant: the lock goes with the first cancellation *)
CleanedUpAtOnce ==
    /\ pc = "cleanup"
    /\ lock' = FALSE
    /\ Goto("ended")
    /\ UNCHANGED <<next, table, worker, cancelled, shut, tasks, failFast, verdict>>

(* The lock goes once every cancelled task has ended, whatever cancels the *)
(* coroutine meanwhile: _cancel_and_wait is shielded.                       *)
CleanedUp ==
    /\ pc = "cleanup" /\ shut # "inside"
    /\ \A a \in running : phase[a] = "done"
    /\ lock' = FALSE
    /\ Goto("ended")
    /\ UNCHANGED <<next, table, worker, cancelled, shut, tasks, failFast, verdict>>

(* But a _cancel_and_wait that ended cancelled raises CancelledError each  *)
(* time it is awaited, and the loop around it takes that for one more      *)
(* cancellation of the coroutine: it spins, and keeps the lock.            *)
Spin == pc = "cleanup" /\ shut = "inside" /\ UNCHANGED vars
-----------------------------------------------------------------------------
(* asyncio.Semaphore: first come, first served.  The slots that are free  *)
(* go to the first waiters that were not handed one yet.                   *)
Ungranted(n, q, g) == {i \in DOMAIN q[n] : q[n][i] \notin g}
Handing(n, f, q, g) ==
    LET waiters == Ungranted(n, q, g)
        first == {i \in waiters : Cardinality({j \in waiters : j <= i}) <= f[n]}
    IN {q[n][i] : i \in first}

(* Mutant: a returned slot wakes nobody *)
SettleAsleep(f, q, g) == free' = f /\ queue' = q /\ granted' = g

Settle(f, q, g) ==
    LET handed == [n \in Sems |-> Handing(n, f, q, g)]
    IN /\ free' = [n \in Sems |-> f[n] - Cardinality(handed[n])]
       /\ queue' = q
       /\ granted' = g \cup UNION {handed[n] : n \in Sems}

Returned(a, k) == [n \in Sems |-> free[n] + CountOf(n, a, 1, k)]

(* How many slots the task can take from its k-th on without waiting      *)
CanTake(a, k, q) ==
    {j \in k .. Len(Units[a]) :
        \A n \in Sems : CountOf(n, a, k + 1, j) <= IF q[n] = <<>> THEN free[n] ELSE 0}

(* run_one up to the next await: it waits for a slot; it fails, because a *)
(* request cannot be met or the journal cannot be written, and returns its *)
(* slots; or it enters the executor.                                       *)
RunOn(a, k, q, g) ==
    LET j == Max(CanTake(a, k, q))
        taken == [n \in Sems |-> free[n] - CountOf(n, a, k + 1, j)]
    IN \/ /\ j < Len(Units[a])
          /\ phase' = [phase EXCEPT ![a] = "waiting"]
          /\ got' = [got EXCEPT ![a] = j]
          /\ Settle(taken, [q EXCEPT ![Units[a][j + 1]] = Append(@, a)], g)
          /\ UNCHANGED <<outcome, started>>
       \/ /\ j = Len(Units[a])
          /\ phase' = [phase EXCEPT ![a] = "done"]
          /\ got' = [got EXCEPT ![a] = 0]
          /\ outcome' = [outcome EXCEPT ![a] = IF Impossible(a) THEN "failed"
                                                                ELSE "raised"]
          /\ Settle(Returned(a, k), q, g)
          /\ UNCHANGED started
       \/ /\ j = Len(Units[a]) /\ ~Impossible(a)
          /\ phase' = [phase EXCEPT ![a] = "executing"]
          /\ got' = [got EXCEPT ![a] = j]
          /\ started' = started \cup {a}
          /\ Settle(taken, q, g)
          /\ UNCHANGED outcome

Begin(a) ==
    /\ phase[a] = "created" /\ shut = "no"
    /\ RunOn(a, 0, queue, granted)
    /\ UNCHANGED <<main, table, owner, published, failFast, verdict>>

WaitsFor(a) == Units[a][got[a] + 1]
Leave(a) == [queue EXCEPT ![WaitsFor(a)] = RemoveFirst(@, a)]

(* The waiter runs with the slot it was handed *)
Resume(a) ==
    /\ phase[a] = "waiting" /\ a \in granted
    /\ RunOn(a, got[a] + 1, Leave(a), granted \ {a})
    /\ UNCHANGED <<main, table, owner, published, failFast, verdict>>

(* The executor is done; its slots are returned in the same step *)
Ends(a, result) ==
    /\ phase' = [phase EXCEPT ![a] = "done"]
    /\ outcome' = [outcome EXCEPT ![a] = result]
    /\ got' = [got EXCEPT ![a] = 0]
    /\ UNCHANGED <<main, table, owner, started, failFast, verdict>>

Execute(a) ==
    /\ phase[a] = "executing"
    /\ \E result \in {"succeeded", "failed", "raised"} :
          /\ Ends(a, result)
          /\ published' = IF result = "succeeded" THEN published \cup {a} ELSE published
    /\ Settle(Returned(a, got[a]), queue, granted)

(* Mutant: a waiter that was handed a slot takes it with it *)
CancelTaskKeeping(a) ==
    /\ pc = "cleanup" /\ a \in running /\ AllBegun
    /\ phase[a] \in {"waiting", "executing"}
    /\ Ends(a, "cancelled")
    /\ Settle(Returned(a, got[a]),
              IF phase[a] = "waiting" THEN Leave(a) ELSE queue, granted \ {a})
    /\ UNCHANGED published

(* task.cancel() of _cancel_and_wait: a waiter leaves its queue and passes *)
(* a slot it was handed on.                                                 *)
CancelTask(a) ==
    /\ pc = "cleanup" /\ a \in running /\ AllBegun
    /\ phase[a] \in {"waiting", "executing"}
    /\ Ends(a, "cancelled")
    /\ IF phase[a] = "waiting"
       THEN LET k == got[a] + IF a \in granted THEN 1 ELSE 0
            IN Settle(Returned(a, k), Leave(a), granted \ {a})
       ELSE Settle(Returned(a, got[a]), queue, granted)
    /\ UNCHANGED published

(* A task that the shutdown cancels before its first step never runs *)
CancelUnbegun(a) ==
    /\ pc = "cleanup" /\ shut # "no" /\ phase[a] = "created"
    /\ Ends(a, "cancelled")
    /\ UNCHANGED <<sems, published>>

Main == \/ WorkerEnds \/ Acquired \/ Verify \/ Top \/ Scan \/ ScanEnds
        \/ Wait \/ RecordDone \/ Finish \/ CleanedUp
Task(a) == Begin(a) \/ Resume(a) \/ Execute(a) \/ CancelTask(a) \/ CancelUnbegun(a)

Over == pc = "ended" /\ worker # "busy" /\ UNCHANGED vars

Next == \/ Main \/ CancelAcquire \/ MainRaises \/ Shutdown \/ Spin \/ Over
        \/ \E a \in Activities : Task(a)

Spec     == Init /\ [][Next]_vars
FairSpec == Spec /\ WF_vars(Main) /\ \A a \in Activities : WF_vars(Task(a))
-----------------------------------------------------------------------------
(* Every variable has its type; there are no more tasks than jobs, and what *)
(* a task raised is nobody's status.  The types of the semaphores are part  *)
(* of SlotsConserved.                                                       *)
TypeOK ==
    /\ pc \in Labels /\ next \in 1 .. Len(Order) + 1
    /\ failed \in BOOLEAN /\ progress \in BOOLEAN /\ slots \in 0 .. Jobs
    /\ statuses \in [Activities -> Good \cup Wrong \cup {"none"}]
    /\ pending \subseteq Activities /\ running \subseteq Activities /\ done \subseteq running
    /\ Cardinality(running) <= Jobs
    /\ worker \in {"busy", "locked", "raised"} /\ cancelled \in BOOLEAN /\ lock \in BOOLEAN
    /\ shut \in {"no", "before", "inside"}
    /\ phase \in [Activities -> Phases]
    /\ outcome \in [Activities -> {"none", "succeeded", "failed", "raised", "cancelled"}]
    /\ started \subseteq Activities /\ published \subseteq Activities
    /\ failFast \in BOOLEAN /\ verdict \in {"none", "failed", "succeeded"}

(* The slots of a semaphore that tasks hold: the first got of each, and the *)
(* next if it was handed to it                                              *)
Taken(n) ==
    UNION {{<<a, k>> : k \in {k \in 1 .. got[a] + IF a \in granted THEN 1 ELSE 0 :
                                  Units[a][k] = n}} : a \in Activities}

(* "acquired before executor entry and always released": no slot is lost  *)
(* or made up, also by failures and by cancellations between a hand-over   *)
(* and its receipt, a task that executes holds all of its own, and a task  *)
(* waits only for slots of which none is free.                             *)
SlotsConserved ==
    /\ free \in [Sems -> Nat] /\ got \in [Activities -> Nat]
    /\ queue \in [Sems -> Seq(Activities)] /\ granted \subseteq Activities
    /\ \A n \in Sems : free[n] + Cardinality(Taken(n)) = Capacity[n]
    /\ \A a \in Activities :
          /\ phase[a] = "waiting" /\ a \notin granted => free[WaitsFor(a)] = 0
          /\ phase[a] = "executing" => got[a] = Len(Units[a])
          /\ phase[a] \notin {"waiting", "executing"} => got[a] = 0 /\ a \notin granted

(* A task exists only once every dependency was recorded as successful and *)
(* has its artifacts in the cache; the order of plan.activities is free.   *)
DependenciesFirst ==
    \A a \in Activities : phase[a] \in {"created", "waiting", "executing"} =>
        \A d \in Deps[a] : statuses[d] \in Good /\ d \in published

(* The run lock is held while a task is at work: cancellation, repeated or *)
(* while the lock is being acquired, neither frees it early nor keeps it.  *)
LockCoversWork ==
    /\ (\E a \in Activities : phase[a] \notin {"none", "done"}) => lock
    /\ pc \notin {"acquire", "ended"} => lock
    /\ pc = "ended" => ~lock

(* A run that reached its end has a verdict for every activity: those with *)
(* a wrong dependency are skipped or were cached, what is skipped has such *)
(* a dependency or a failure to fail fast on, and the rest was executed.   *)
WholeReport ==
    verdict # "none" => \A a \in Activities :
        LET due == \E d \in Deps[a] : statuses[d] \in Wrong
        IN /\ statuses[a] # "none"
           /\ due => statuses[a] \in {"skipped", "cached"}
           /\ statuses[a] = "skipped" =>
                 due \/ (failFast /\ \E b \in Activities : statuses[b] = "failed")
           /\ statuses[a] \in {"succeeded", "failed"} =>
                 a \in started \/ Impossible(a)
           /\ statuses[a] \in Good => a \in published

(* With fail_fast, no task is created once a failure was recorded.        *)
FailFastStopsScheduling ==
    [][failFast /\ (\E a \in Activities : statuses[a] = "failed")
          => running' \subseteq running]_vars

(* The run ends, however it fails or is cancelled, and nobody keeps a slot *)
(* that another waits for; with requests of which at most one takes two    *)
(* slots of the same resource, and unless asyncio.run shuts down while the *)
(* tasks are being cancelled, which the cleanup does not survive.          *)
RunEnds == <>((pc = "ended" /\ free = Capacity) \/ shut = "inside")
=============================================================================
