------------------------------ MODULE Collection ------------------------------
(***************************************************************************)
(* The content-addressed store of src/simcairn/store.py under executors    *)
(* that run or resume a plan (api.py, executor.py) and one collection of   *)
(* garbage (maintenance.py).  Registration of a run and its lock happen    *)
(* inside a read lease; planning a collection takes no lease; applying it  *)
(* holds the write lease, StoreBarrier here; everything else an executor   *)
(* does is guarded by nothing but the lock in its run's directory.         *)
(*                                                                         *)
(* A cache entry is a directory with an identity of its own: rename moves  *)
(* it to another name, and rmtree goes on in the directory it opened.      *)
(***************************************************************************)
EXTENDS FiniteSets

CONSTANTS
    Keys,       \* activity ids
    Deps,       \* each key to the keys it depends on
    Executors,  \* process incarnations that run or resume
    OldRuns,    \* runs that exist in the beginning
    OldCaches,  \* what the cache may hold in the beginning: each key to
                \* "none", "whole" or "torn"
    Plan,       \* each run to the keys of its plan
    Collector,  \* the process that collects
    IncludeUnreadable, \* store-gc --include-unreadable
    None

Runs  == OldRuns \cup Executors   \* a new run is named after its executor
Temps == Executors \X Keys        \* .publish-* directories, and sandboxes
Names == Keys \cup Temps          \* children of cache/, and the directories

ASSUME DisjointAssumption == /\ OldRuns \cap Executors = {}
                             /\ Keys \cap Temps = {}
                             /\ None \notin Names \cup Runs
                             /\ "none" \notin Executors /\ "bare" \notin Executors
ASSUME PlanAssumption == /\ Plan \in [Runs -> SUBSET Keys]
                         /\ Deps \in [Keys -> SUBSET Keys]
                         /\ \A i \in Runs : \A k \in Plan[i] : Deps[k] \subseteq Plan[i]
ASSUME CacheAssumption == OldCaches \subseteq [Keys -> {"none", "whole", "torn"}]
ASSUME OptionAssumption == IncludeUnreadable \in BOOLEAN

VARIABLES
    reading, collecting, \* the barrier of the store
    run,     \* run directories: "none", "bare" (no plan yet), "whole", "torn"
    lock,    \* their run.lock: "none", "bare" or the executor that signed
    at,      \* the directory found under a name of cache/, or None
    state,   \* "empty", "partial", "whole", "torn": what is in a directory
    boxes,   \* the sandboxes under work/
    pc, mine, job, cur, victim, \* executors: the run, its activities, the one
                                \* at hand, the directory rmtree has open
    cpc, seen, planRuns, planEntries, planBoxes, \* the collector and its plan
    reach, blind, hand,  \* its fresh survey, the name and directory at hand
    rebuilt  \* history: keys whose invalid entry some publisher removed

store   == <<run, lock, at, state, boxes>>
exec    == <<pc, mine, job, cur, victim>>
gcplan  == <<seen, planRuns, planEntries, planBoxes>>
gcwork  == <<reach, blind, hand>>
gc      == <<cpc, gcplan, gcwork>>
leases  == <<reading, collecting>>
vars    == <<leases, store, exec, gc, rebuilt>>

Barrier == INSTANCE StoreBarrier WITH Readers <- Executors, Writers <- {Collector}

RunStates   == {"none", "bare", "whole", "torn"}
DirStates   == {"empty", "partial", "whole", "torn"}
JobStates   == {"unseen", "todo", "boxed", "good", "failed"}
ExecLabels  == {"out", "create", "write", "lock", "leave", "giveup", "verify", "work",
                "deps", "temp", "copy", "seal", "exists", "check", "open", "tear",
                "empty", "rmdir", "rename", "again", "tidy", "done", "dead"}
GCLabels    == {"out", "survey", "boxes", "begin", "runs", "droprun",
                "entries", "tear", "empty", "rmdir", "sandboxes", "leave", "done", "dead"}

Temp(e) == <<e, cur[e]>>
Dead(e) == pc[e] = "dead"
Live(e) == pc[e] \notin {"out", "done", "dead"}

(* verify: an entry counts when it is whole; names that are no activity id *)
(* never do                                                                *)
Valid(k) == at[k] # None /\ state[at[k]] = "whole"

(* RunSummary.protected, by run_lock_state *)
Protected(i) == /\ run[i] # "none"
                /\ lock[i] # "none"
                /\ ~(lock[i] \in Executors /\ Dead(lock[i]))

Unreadable == {i \in Runs : run[i] \in {"bare", "torn"}}
Referenced == UNION {Plan[i] : i \in {j \in Runs : run[j] = "whole"}}
-----------------------------------------------------------------------------
(* A store with runs and entries of earlier processes, some of them left   *)
(* half made or damaged since                                              *)
Init ==
    /\ Barrier!BarrierInit
    /\ run \in {f \in [Runs -> RunStates] : \A e \in Executors : f[e] = "none"}
    /\ lock = [i \in Runs |-> "none"]
    /\ \E old \in OldCaches :
          /\ at = [n \in Names |-> IF n \in Keys /\ old[n] # "none" THEN n ELSE None]
          /\ state = [d \in Names |-> IF d \in Keys /\ old[d] # "none" THEN old[d] ELSE "empty"]
    /\ boxes = {}
    /\ pc = [e \in Executors |-> "out"]
    /\ mine = [e \in Executors |-> None]
    /\ job = [e \in Executors |-> [k \in Keys |-> "unseen"]]
    /\ cur = [e \in Executors |-> None]
    /\ victim = [e \in Executors |-> None]
    /\ cpc = "out"
    /\ seen = {} /\ planRuns = {} /\ planEntries = {} /\ planBoxes = {}
    /\ reach = {} /\ blind = FALSE /\ hand = <<None, None>>
    /\ rebuilt = {}

Goto(e, l) == pc' = [pc EXCEPT ![e] = l]
SetJob(e, k, s) == job' = [job EXCEPT ![e][k] = s]
-----------------------------------------------------------------------------
(* Runner.run: the lease, then a directory with a name never used before,  *)
(* then its plan                                                           *)
BeginRun(e) ==
    /\ pc[e] = "out"
    /\ Barrier!Enter(e)
    /\ mine' = [mine EXCEPT ![e] = e]
    /\ Goto(e, "create")
    /\ UNCHANGED <<store, job, cur, victim, gc, rebuilt>>

MakeRun(e) ==
    /\ pc[e] = "create"
    /\ run' = [run EXCEPT ![e] = "bare"]
    /\ Goto(e, "write")
    /\ UNCHANGED <<leases, lock, at, state, boxes, mine, job, cur, victim, gc, rebuilt>>

WritePlan(e) ==
    /\ pc[e] = "write"
    /\ run' = [run EXCEPT ![e] = "whole"]
    /\ Goto(e, "lock")
    /\ UNCHANGED <<leases, lock, at, state, boxes, mine, job, cur, victim, gc, rebuilt>>

(* Mutant: the run need not exist *)
BeginResumeUnloaded(e) ==
    /\ pc[e] = "out"
    /\ Barrier!Enter(e)
    /\ \E i \in Runs : mine' = [mine EXCEPT ![e] = i]
    /\ Goto(e, "lock")
    /\ UNCHANGED <<store, job, cur, victim, gc, rebuilt>>

(* Runner.resume: the lease, then the plan; one that does not load ends it *)
BeginResume(e) ==
    /\ pc[e] = "out"
    /\ Barrier!Enter(e)
    /\ \E i \in Runs :
          /\ run[i] # "none"
          /\ mine' = [mine EXCEPT ![e] = i]
          /\ Goto(e, IF run[i] = "whole" THEN "lock" ELSE "giveup")
    /\ UNCHANGED <<store, job, cur, victim, gc, rebuilt>>

(* RunLock.__enter__ *)
TakeLock(e) ==
    /\ pc[e] = "lock"
    /\ IF Protected(mine[e])
       THEN Goto(e, "giveup") /\ UNCHANGED lock
       ELSE Goto(e, "leave") /\ lock' = [lock EXCEPT ![mine[e]] = e]
    /\ UNCHANGED <<leases, run, at, state, boxes, mine, job, cur, victim, gc, rebuilt>>

LeaveLease(e) ==
    /\ pc[e] \in {"leave", "giveup"}
    /\ Barrier!Leave(e)
    /\ Goto(e, IF pc[e] = "leave" THEN "verify" ELSE "done")
    /\ UNCHANGED <<store, mine, job, cur, victim, gc, rebuilt>>
-----------------------------------------------------------------------------
Mine(e) == Plan[mine[e]]

(* execute_plan first counts what is valid already as cached *)
CachedPass(e) ==
    /\ pc[e] = "verify"
    /\ \E k \in Mine(e) :
          /\ job[e][k] = "unseen"
          /\ SetJob(e, k, IF Valid(k) THEN "good" ELSE "todo")
    /\ UNCHANGED <<leases, store, pc, mine, cur, victim, gc, rebuilt>>

CachedPassEnds(e) ==
    /\ pc[e] = "verify" /\ \A k \in Mine(e) : job[e][k] # "unseen"
    /\ Goto(e, "work")
    /\ UNCHANGED <<leases, store, mine, job, cur, victim, gc, rebuilt>>

(* ActivityExecutor.execute up to its first await.  Activities in their    *)
(* sandboxes run side by side; what comes between two awaits does not.     *)
MakeBox(e) ==
    /\ pc[e] = "work"
    /\ \E k \in Mine(e) :
          /\ job[e][k] = "todo"
          /\ \A d \in Deps[k] : job[e][d] = "good"
          /\ SetJob(e, k, "boxed")
          /\ boxes' = boxes \cup {<<e, k>>}
          /\ cur' = [cur EXCEPT ![e] = k]
    /\ Goto(e, "deps")
    /\ UNCHANGED <<leases, run, lock, at, state, mine, victim, gc, rebuilt>>

(* materialize refuses a dependency that is not valid (any more) *)
Materialize(e) ==
    /\ pc[e] = "deps"
    /\ IF \A d \in Deps[cur[e]] : Valid(d)
       THEN /\ Goto(e, "work") /\ UNCHANGED job
            /\ cur' = [cur EXCEPT ![e] = None]
       ELSE Goto(e, "tidy") /\ SetJob(e, cur[e], "failed") /\ UNCHANGED cur
    /\ UNCHANGED <<leases, store, mine, victim, gc, rebuilt>>

(* The work in a sandbox is over: published, or failed or cancelled *)
WorkEnds(e) ==
    /\ pc[e] = "work"
    /\ \E k \in Mine(e) :
          /\ job[e][k] = "boxed"
          /\ cur' = [cur EXCEPT ![e] = k]
          /\ \/ Goto(e, "temp") /\ UNCHANGED job
             \/ Goto(e, "tidy") /\ SetJob(e, k, "failed")
    /\ UNCHANGED <<leases, store, mine, victim, gc, rebuilt>>
-----------------------------------------------------------------------------
(* publish, which runs without an await *)
Fail(e) == Goto(e, "tidy") /\ SetJob(e, cur[e], "failed")
Succeed(e) == Goto(e, "tidy") /\ SetJob(e, cur[e], "good")

MakeTemp(e) ==
    /\ pc[e] = "temp"
    /\ at' = [at EXCEPT ![Temp(e)] = Temp(e)]
    /\ Goto(e, "copy")
    /\ UNCHANGED <<leases, run, lock, state, boxes, mine, job, cur, victim, gc, rebuilt>>

(* A directory that a collection is emptying misses files, or is made once *)
(* more by mkdir(parents=True), or lets the copy fail                      *)
CopyFiles(e) ==
    /\ pc[e] = "copy"
    /\ \/ /\ at' = [at EXCEPT ![Temp(e)] = Temp(e)]
          /\ state' = [state EXCEPT ![Temp(e)] = "partial"]
          /\ Goto(e, "seal") /\ UNCHANGED job
       \/ at[Temp(e)] = None /\ Fail(e) /\ UNCHANGED <<at, state>>
    /\ UNCHANGED <<leases, run, lock, boxes, mine, cur, victim, gc, rebuilt>>

(* ... and the manifest *)
WriteManifest(e) ==
    /\ pc[e] = "seal"
    /\ IF at[Temp(e)] = None THEN Fail(e) /\ UNCHANGED state
       ELSE /\ state' = [state EXCEPT ![Temp(e)] = IF @ = "partial" THEN "whole" ELSE "torn"]
            /\ Goto(e, "exists") /\ UNCHANGED job
    /\ UNCHANGED <<leases, run, lock, at, boxes, mine, cur, victim, gc, rebuilt>>

(* Does the target exist, and if so is it valid? *)
LookAtTarget(e) ==
    /\ pc[e] = "exists"
    /\ Goto(e, IF at[cur[e]] = None THEN "rename" ELSE "check")
    /\ UNCHANGED <<leases, store, mine, job, cur, victim, gc, rebuilt>>

(* Mutant: an entry that exists is believed *)
CheckTargetNot(e) ==
    /\ pc[e] = "check"
    /\ Succeed(e)
    /\ UNCHANGED <<leases, store, mine, cur, victim, gc, rebuilt>>

CheckTarget(e) ==
    /\ pc[e] = "check"
    /\ IF Valid(cur[e]) THEN Succeed(e) ELSE Goto(e, "open") /\ UNCHANGED job
    /\ UNCHANGED <<leases, store, mine, cur, victim, gc, rebuilt>>

(* rmtree of the target: what is found under the name now, emptied file by *)
(* file, and then the name; an OSError at any of it ends publish           *)
OpenTarget(e) ==
    /\ pc[e] = "open"
    /\ IF at[cur[e]] = None THEN Fail(e) /\ UNCHANGED <<victim, rebuilt>>
       ELSE /\ victim' = [victim EXCEPT ![e] = at[cur[e]]]
            /\ rebuilt' = rebuilt \cup {cur[e]}
            /\ Goto(e, "tear") /\ UNCHANGED job
    /\ UNCHANGED <<leases, store, mine, cur, gc>>

Tear(d) == state' = [state EXCEPT ![d] = IF @ = "empty" THEN "empty" ELSE "torn"]

TearTarget(e) ==
    /\ pc[e] = "tear"
    /\ \/ Tear(victim[e]) /\ Goto(e, "empty") /\ UNCHANGED <<job, victim>>
       \/ Fail(e) /\ victim' = [victim EXCEPT ![e] = None] /\ UNCHANGED state
    /\ UNCHANGED <<leases, run, lock, at, boxes, mine, cur, gc, rebuilt>>

EmptyTarget(e) ==
    /\ pc[e] = "empty"
    /\ victim' = [victim EXCEPT ![e] = None]
    /\ \/ /\ state' = [state EXCEPT ![victim[e]] = "empty"]
          /\ Goto(e, "rmdir") /\ UNCHANGED job
       \/ Fail(e) /\ UNCHANGED state
    /\ UNCHANGED <<leases, run, lock, at, boxes, mine, cur, gc, rebuilt>>

RemoveTarget(e) ==
    /\ pc[e] = "rmdir"
    /\ IF at[cur[e]] # None /\ state[at[cur[e]]] = "empty"
       THEN at' = [at EXCEPT ![cur[e]] = None] /\ Goto(e, "rename") /\ UNCHANGED job
       ELSE Fail(e) /\ UNCHANGED at
    /\ UNCHANGED <<leases, run, lock, state, boxes, mine, cur, victim, gc, rebuilt>>

(* os.replace moves onto nothing or onto an empty directory *)
Rename(e) ==
    /\ pc[e] = "rename"
    /\ IF /\ at[Temp(e)] # None
          /\ at[cur[e]] = None \/ state[at[cur[e]]] = "empty"
       THEN /\ at' = [at EXCEPT ![cur[e]] = at[Temp(e)], ![Temp(e)] = None]
            /\ Succeed(e)
       ELSE Goto(e, "again") /\ UNCHANGED <<at, job>>
    /\ UNCHANGED <<leases, run, lock, state, boxes, mine, cur, victim, gc, rebuilt>>

(* Somebody else published it meanwhile, or not *)
LookAgain(e) ==
    /\ pc[e] = "again"
    /\ IF Valid(cur[e]) THEN Succeed(e) ELSE Fail(e)
    /\ UNCHANGED <<leases, store, mine, cur, victim, gc, rebuilt>>

(* The two finally clauses: the .publish-* directory and the sandbox go *)
Tidy(e) ==
    /\ pc[e] = "tidy"
    /\ at' = [at EXCEPT ![Temp(e)] = None]
    /\ state' = IF at[Temp(e)] = None THEN state ELSE [state EXCEPT ![Temp(e)] = "empty"]
    /\ boxes' = boxes \ {Temp(e)}
    /\ cur' = [cur EXCEPT ![e] = None]
    /\ Goto(e, "work")
    /\ UNCHANGED <<leases, run, lock, mine, job, victim, gc, rebuilt>>

Idle(e) == pc[e] = "work" /\ \A k \in Keys : job[e][k] # "boxed"

(* What a process knew ends with it *)
Forget(e) == /\ mine' = [mine EXCEPT ![e] = None]
             /\ job' = [job EXCEPT ![e] = [k \in Keys |-> "unseen"]]
             /\ cur' = [cur EXCEPT ![e] = None]
             /\ victim' = [victim EXCEPT ![e] = None]

(* The end of _execute_locked, whether or not all was done; no lease *)
Release(e) ==
    /\ Idle(e)
    /\ lock' = [lock EXCEPT ![mine[e]] = "none"]
    /\ Goto(e, "done") /\ Forget(e)
    /\ UNCHANGED <<leases, run, at, state, boxes, gc, rebuilt>>

(* In the middle of taking or leaving the lock, a death leaves it unsigned *)
Crash(e) ==
    /\ Live(e)
    /\ Goto(e, "dead") /\ Forget(e)
    /\ Barrier!Leave(e)
    /\ LET halfway == \/ pc[e] = "lock" /\ ~Protected(mine[e])
                      \/ Idle(e)
       IN  \/ UNCHANGED lock
           \/ halfway /\ lock' = [lock EXCEPT ![mine[e]] = "bare"]
    /\ UNCHANGED <<run, at, state, boxes, gc, rebuilt>>
-----------------------------------------------------------------------------
GoGC(l) == cpc' = l

(* plan_collection, without a lease.  It lists the entries first, and      *)
(* without --include-unreadable drops those that verify refuses.           *)
SurveyEntries ==
    /\ cpc = "out"
    /\ seen' = {n \in Names : at[n] # None /\ (IncludeUnreadable \/ (n \in Keys /\ Valid(n)))}
    /\ GoGC("survey")
    /\ UNCHANGED <<leases, store, exec, planRuns, planEntries, planBoxes, gcwork, rebuilt>>

(* Then the runs: any of them may be among the newest ones that are kept.  *)
(* An unreadable run that is kept hides what it refers to.                 *)
SurveyRuns ==
    /\ cpc = "survey"
    /\ \E newest \in SUBSET {i \in Runs : run[i] # "none"} :
          LET idle    == {i \in Runs : run[i] # "none" /\ ~Protected(i)} \ newest
              removed == IF IncludeUnreadable THEN idle ELSE idle \ Unreadable
              kept    == {i \in Runs : run[i] # "none"} \ removed
          IN  /\ planRuns' = removed
              /\ planEntries' =
                     IF kept \cap Unreadable # {} THEN {}
                     ELSE seen \ UNION {Plan[i] : i \in kept}
    /\ seen' = {}
    /\ GoGC(IF \E i \in Runs : Protected(i) THEN "begin" ELSE "boxes")
    /\ UNCHANGED <<leases, store, exec, planBoxes, gcwork, rebuilt>>

(* Then the sandboxes, if no run was protected and --keep-work is not given *)
SurveyBoxes ==
    /\ cpc = "boxes"
    /\ planBoxes' \in {boxes, {}}
    /\ GoGC("begin")
    /\ UNCHANGED <<leases, store, exec, seen, planRuns, planEntries, gcwork, rebuilt>>

(* Mutant: the plan is applied without the write lease *)
BeginApplyUnleased ==
    /\ cpc = "begin"
    /\ GoGC("runs")
    /\ UNCHANGED <<leases, store, exec, gcplan, gcwork, rebuilt>>

(* apply_collection, under the write lease *)
BeginApply ==
    /\ cpc = "begin"
    /\ Barrier!Begin(Collector)
    /\ GoGC("runs")
    /\ UNCHANGED <<store, exec, gcplan, gcwork, rebuilt>>

(* Each planned run that is still there and not locked by now; rmtree may  *)
(* take its plan, or its stale lock, or half of that, first                *)
OpenRun ==
    /\ cpc = "runs"
    /\ \E i \in planRuns :
          /\ planRuns' = planRuns \ {i}
          /\ IF run[i] = "none" \/ Protected(i)
             THEN UNCHANGED <<cpc, run, lock, hand>>
             ELSE /\ run' \in {run, [run EXCEPT ![i] = "torn"]}
                  /\ hand' = <<i, None>>
                  /\ \E l \in {lock[i], "bare", "none"} :
                        /\ lock[i] = "none" => l = "none"
                        /\ lock' = [lock EXCEPT ![i] = l]
                  /\ GoGC("droprun")
    /\ UNCHANGED <<leases, at, state, boxes, exec, seen, planEntries, planBoxes,
                   reach, blind, rebuilt>>

(* ... and may fail before it has removed all *)
DropRun ==
    /\ cpc = "droprun"
    /\ \/ /\ run' = [run EXCEPT ![hand[1]] = "none"]
          /\ lock' = [lock EXCEPT ![hand[1]] = "none"]
       \/ UNCHANGED <<run, lock>>
    /\ hand' = <<None, None>>
    /\ GoGC("runs")
    /\ UNCHANGED <<leases, at, state, boxes, exec, gcplan, reach, blind, rebuilt>>

(* The runs that are left now decide about the entries *)
Resurvey ==
    /\ cpc = "runs" /\ planRuns = {}
    /\ reach' = Referenced
    /\ blind' = (Unreadable # {})
    /\ GoGC("entries")
    /\ UNCHANGED <<leases, store, exec, gcplan, hand, rebuilt>>

(* Mutant: the plan's idea of what is referenced stands *)
OpenEntryAsPlanned ==
    /\ cpc = "entries"
    /\ \E n \in planEntries :
          /\ planEntries' = planEntries \ {n}
          /\ IF at[n] = None \/ blind
             THEN UNCHANGED <<cpc, hand>>
             ELSE hand' = <<n, at[n]>> /\ GoGC("tear")
    /\ UNCHANGED <<leases, store, exec, seen, planRuns, planBoxes,
                   reach, blind, rebuilt>>

(* Mutant: a run that cannot be read refers to nothing *)
OpenEntryBlindly ==
    /\ cpc = "entries"
    /\ \E n \in planEntries :
          /\ planEntries' = planEntries \ {n}
          /\ IF at[n] = None \/ n \in reach
             THEN UNCHANGED <<cpc, hand>>
             ELSE hand' = <<n, at[n]>> /\ GoGC("tear")
    /\ UNCHANGED <<leases, store, exec, seen, planRuns, planBoxes,
                   reach, blind, rebuilt>>

(* Each planned entry that is there, unless a remaining run cannot be read *)
(* or refers to it: rmtree opens the directory ...                           *)
OpenEntry ==
    /\ cpc = "entries"
    /\ \E n \in planEntries :
          /\ planEntries' = planEntries \ {n}
          /\ IF at[n] = None \/ blind \/ n \in reach
             THEN UNCHANGED <<cpc, hand>>
             ELSE hand' = <<n, at[n]>> /\ GoGC("tear")
    /\ UNCHANGED <<leases, store, exec, seen, planRuns, planBoxes,
                   reach, blind, rebuilt>>

TearEntry ==
    /\ cpc = "tear"
    /\ Tear(hand[2])
    /\ GoGC("empty")
    /\ UNCHANGED <<leases, run, lock, at, boxes, exec, gcplan, gcwork, rebuilt>>

(* ... empties what it opened, wherever that is by now ... *)
EmptyEntry ==
    /\ cpc = "empty"
    /\ state' = [state EXCEPT ![hand[2]] = "empty"]
    /\ GoGC("rmdir")
    /\ UNCHANGED <<leases, run, lock, at, boxes, exec, gcplan, gcwork, rebuilt>>

(* ... and removes the name, if an empty directory has it *)
RemoveEntry ==
    /\ cpc = "rmdir"
    /\ at' = IF at[hand[1]] # None /\ state[at[hand[1]]] = "empty"
             THEN [at EXCEPT ![hand[1]] = None] ELSE at
    /\ hand' = <<None, None>>
    /\ GoGC("entries")
    /\ UNCHANGED <<leases, run, lock, state, boxes, exec, gcplan, reach, blind, rebuilt>>

(* An OSError ends the removal of this entry, not the collection *)
RemovalFails ==
    /\ cpc \in {"tear", "empty"}
    /\ hand' = <<None, None>>
    /\ GoGC("entries")
    /\ UNCHANGED <<leases, store, exec, gcplan, reach, blind, rebuilt>>

EntriesEnd ==
    /\ cpc = "entries" /\ planEntries = {}
    /\ GoGC("sandboxes")
    /\ UNCHANGED <<leases, store, exec, gcplan, gcwork, rebuilt>>

(* Mutant: that no run was locked when the plan was made is enough *)
RemoveBoxesAsPlanned ==
    /\ cpc = "sandboxes"
    /\ boxes' = boxes \ planBoxes
    /\ GoGC("leave")
    /\ UNCHANGED <<leases, run, lock, at, state, exec, gcplan, gcwork, rebuilt>>

(* The planned sandboxes, some of which may resist, unless a run is locked *)
RemoveBoxes ==
    /\ cpc = "sandboxes"
    /\ \E gone \in SUBSET planBoxes :
          boxes' = IF \E i \in Runs : Protected(i) THEN boxes ELSE boxes \ gone
    /\ GoGC("leave")
    /\ UNCHANGED <<leases, run, lock, at, state, exec, gcplan, gcwork, rebuilt>>

ForgetGC == /\ seen' = {} /\ planRuns' = {} /\ planEntries' = {} /\ planBoxes' = {}
            /\ reach' = {} /\ blind' = FALSE /\ hand' = <<None, None>>

EndApply ==
    /\ cpc = "leave"
    /\ Barrier!End(Collector)
    /\ GoGC("done") /\ ForgetGC
    /\ UNCHANGED <<store, exec, rebuilt>>

CrashGC ==
    /\ cpc \notin {"out", "done", "dead"}
    /\ Barrier!End(Collector)
    /\ GoGC("dead") /\ ForgetGC
    /\ UNCHANGED <<store, exec, rebuilt>>
-----------------------------------------------------------------------------
Publish(e) == \/ MakeTemp(e) \/ CopyFiles(e) \/ WriteManifest(e) \/ LookAtTarget(e)
              \/ CheckTarget(e) \/ OpenTarget(e) \/ TearTarget(e) \/ EmptyTarget(e)
              \/ RemoveTarget(e) \/ Rename(e) \/ LookAgain(e)

Execute(e) == \/ BeginRun(e) \/ MakeRun(e) \/ WritePlan(e) \/ BeginResume(e)
              \/ TakeLock(e) \/ LeaveLease(e) \/ CachedPass(e) \/ CachedPassEnds(e)
              \/ MakeBox(e) \/ Materialize(e) \/ WorkEnds(e) \/ Publish(e)
              \/ Tidy(e) \/ Release(e) \/ Crash(e)

Collect == \/ SurveyEntries \/ SurveyRuns \/ SurveyBoxes \/ BeginApply \/ OpenRun
           \/ DropRun \/ Resurvey \/ OpenEntry \/ TearEntry \/ EmptyEntry \/ RemoveEntry
           \/ RemovalFails \/ EntriesEnd \/ RemoveBoxes \/ EndApply \/ CrashGC

Next == Collect \/ \E e \in Executors : Execute(e)

Spec == Init /\ [][Next]_vars
-----------------------------------------------------------------------------
TypeOK ==
    /\ reading \subseteq Executors /\ collecting \subseteq {Collector}
    /\ run \in [Runs -> RunStates]
    /\ lock \in [Runs -> Executors \cup {"none", "bare"}]
    /\ \A i \in Runs : run[i] = "none" => lock[i] = "none"
    /\ at \in [Names -> Names \cup {None}]
    /\ \A m, n \in Names : at[m] = at[n] /\ at[m] # None => m = n
    /\ state \in [Names -> DirStates]
    /\ boxes \subseteq Temps
    /\ pc \in [Executors -> ExecLabels]
    /\ mine \in [Executors -> Runs \cup {None}]
    /\ job \in [Executors -> [Keys -> JobStates]]
    /\ cur \in [Executors -> Keys \cup {None}]
    /\ victim \in [Executors -> Names \cup {None}]
    /\ cpc \in GCLabels
    /\ seen \subseteq Names
    /\ planRuns \subseteq Runs
    /\ planEntries \subseteq Names
    /\ planBoxes \subseteq Temps
    /\ reach \subseteq Keys
    /\ blind \in BOOLEAN
    /\ hand \in (Runs \cup Names \cup {None}) \X (Names \cup {None})
    /\ rebuilt \subseteq Keys

Registered(e) == Live(e) /\ pc[e] \notin {"create", "write", "lock", "giveup"}

(* A run that is being executed keeps its directory, with its plan and its *)
(* lock, whatever a collection has planned before the run took the lock;   *)
(* and no two executors are in one run.                                    *)
LiveRunKept ==
    \A e \in Executors :
        Registered(e) => run[mine[e]] = "whole" /\ lock[mine[e]] = e

(* A collection takes away a valid entry only if no run that is left at    *)
(* that moment refers to it, whether the run existed when the collection   *)
(* was planned or came later, is executed or idle.                         *)
ReferencedKept ==
    [][cpc' # cpc =>
          \A k \in Keys : Valid(k) /\ ~Valid(k)' => k \notin Referenced]_vars

(* ... and only if every run that is left can be read, for the others may  *)
(* refer to it; an interrupted registration and a removal that failed half *)
(* way leave such runs.                                                    *)
NothingTakenBlindly ==
    [][cpc' # cpc =>
          \A k \in Keys : Valid(k) /\ ~Valid(k)' => Unreadable = {}]_vars

(* The sandbox of an activity that is being simulated stays, although      *)
(* nothing in it says whose it is.                                         *)
LiveBoxKept ==
    \A e \in Executors, k \in Keys : job[e][k] = "boxed" => <<e, k>> \in boxes

(* An entry that a live run has counted as cached or succeeded is there    *)
(* and valid when the activities that depend on it want it, unless another *)
(* publisher met it invalid and set out to replace it: of two that did,  *)
(* the slower removes the valid entry of the faster before its own is in.  *)
CountedGood ==
    \A e \in Executors, k \in Keys :
        Live(e) /\ job[e][k] = "good" => Valid(k) \/ k \in rebuilt
=============================================================================
