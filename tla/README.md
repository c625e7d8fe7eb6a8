# TLA+ verification of SimCairn

SimCairn runs a plan of circuit simulations as a graph of activities, keeps
every result in a content-addressed store, records each run in an append-only
journal, and lets several processes share one store on one file system. There
is no server and no database: mutual exclusion, crash recovery and publication
rest on the order of `mkdir`, `unlink`, `rename`, `fsync` calls, and inside a
process on the order in which an asyncio loop runs its tasks. Both are hard to
test and are what this directory models.

* [The system](#the-system) – the components, their state, how they interact
* [The modules](#the-modules) – which module models what, and what it leaves out
* [The runs](#the-runs) – what TLC checks, the bounds, the fairness
* [The proofs](#the-proofs) – what TLAPS proves, from what, and how
* [What the code does otherwise than its documents say](#findings)
* [Plan](#plan) and [what is not modelled](#not-modelled)

Paths below are relative to `src/simcairn/` unless they start with another
directory. `PROJECT.json` maps every definition to the lines it models, lists
the hazards by line, and gives for every property a mutant of the model, a
plausible bug of the code, that the property catches.

Commands, in this directory: `tlc -workers 2 -config RunLock.cfg MCRunLock`,
`tlapm RunLockProofs.tla`.

## The system

| component | code | state it keeps | operations |
|---|---|---|---|
| run lock | `journal.py` 40–350, 437–541 | `run.lock/` with one `owner-<nonce>` marker; `unlock-audit.jsonl` | `RunLock.__enter__/__exit__`, `clear_run_lock`, `run_lock_state` |
| store leases | `coordination.py` | `.locks/gc/run.lock`, `.locks/readers/<token>/run.lock` | `StoreReadLease`, `StoreWriteLease`, `StoreRunLock` |
| journal | `journal.py` 353–436 | `events.jsonl`, `Journal.sequence` | `Journal.append`, `replay` |
| scheduler | `scheduler.py` | `statuses`, `pending`, `running`, the job and resource semaphores | `execute_plan`, `run_one`, `_acquire_run_lock_async`, `_cancel_and_wait` |
| artifact store | `store.py` | `cache/<k>/<key>/`, `.publish-*`, `runs/<id>/` | `verify`, `publish`, `materialize`, `explain`, `create_run`, `load_plan` |
| store collection | `maintenance.py` | none of its own | `plan_collection`, `apply_collection` |
| activity executor | `executor.py` | a sandbox directory per activity | `_render`, `_simulate`, `_extract`, `_aggregate` |
| process supervision | `xyce.py` 500–673 | the child, its reader, watcher and time-out tasks | `_run_process`, `_terminate`, `_watch_artifacts` |
| characterization cache | `xyce.py` 676–1621 | a claim per cache key, entries published without replacing | `_acquire_cache_claim`, `_atomic_publish_no_replace`, `characterize_xyce_async` |
| planner | `planner.py`, `model.py`, `manifest.py`, `sweeps.py` | `plan.json` | `load_manifest`, `expand_sweep`, `compile_plan`, `Plan.from_dict` |
| analyses | `characterization.py` and the adapters | none | axis schedules, tables, log parsing |
| API, command line | `api.py`, `cli.py` | none | `Runner.run/resume/status/collect`, `simcairn unlock`, `simcairn store-gc` |
| PDK preparation | `pdk_replay.py` | the prepared tree, a decision and an evidence file; the identities of what the process made | `prepare_ciel_family`, `download_exact`, `_extract_zstd_archive` |
| replay, release tools | `reference_replay.py`, `release_*.py`, ... | reports | one-shot maintainer tools |

**Interactions.** `Runner.run` takes a `StoreRunLock` – a read lease of the
store around the lock of the run – and hands it to `execute_plan`, which may
also take the run lock by itself, in a thread. The scheduler asks the store
which activities are cached, creates a task for each of the others once its
dependencies are done, and appends an event to the journal at every change.
A task calls the executor, which materializes the artifacts of its
dependencies, runs a simulator and publishes a cache entry. `simcairn store-gc` takes
the write lease of the same store from another process, re-reads the runs and
removes runs and cache entries. `simcairn unlock` removes the lock of a run
that may or may not be alive. A characterization guards its cache keys with a
`RunLock` each. So the run lock is the base of everything that excludes
anything here, and is modelled first and proved.

**What is hard.** Any process can die between any two file-system calls, and
its lock must then be recoverable by others but by nobody while it lives;
contenders act on an owner they read earlier; breaking a lock is itself a
sequence of calls others interleave with; a reader and a collector publish and
look in opposite orders; a crash leaves half a line in the journal that the
next process continues; a cancellation can arrive at every await, also while a
thread is acquiring the lock and while tasks are being cancelled; a semaphore
slot can be lost between its hand-over and its receipt. Two processes may
publish one cache entry while a third collects. A child may ignore SIGTERM, leave
descendants behind, or write and exit between two looks of its watcher, and the
call that supervises it may be cancelled while it terminates it. A simulator or
an input may be replaced between the digest that names it and its use, and put
back before the digest is compared again; a cached result is used by plans other
than the one that computed it; a saved plan may come back altered where no id
covers it; and a file system gives the inode of a removed file to another.

**What makes each part correct.**

* Run lock: two live holders only after an operator's forced unlock; a
  complete marker is removed only from a dead process, by its owner, or after
  an audit record; a holder whose lock was cleared does no harm to its
  successor when it leaves.
* Store leases: collection and readers exclude one another; one collection at
  a time; leases of the dead do not block for ever; a live lease is never
  reaped.
* Journal: what `replay` accepts contains every acknowledged event, once, in
  order, and a crash does not make a journal unreadable.
* Scheduler: dependencies first, no slot lost, verdict complete, fail-fast
  respected, the lock held as long as any task, and an end to every run.
* Store and collection: a live run keeps its directory, lock and sandboxes;
  an entry goes only when every run can be read and none refers to it; what a
  live run has counted as done is a whole entry; publishing takes nothing away.
* Process supervision: when a call has ended nothing of its process group is
  alive; a result is given only for a child that exited within its limits; the
  call ends.
* Characterization cache: what is published under a key is executed once, by
  the simulator the key names as far as two comparisons around it can tell, and
  is what every call returns.
* Planner, executor and store together: the table of a run that succeeds is
  that of its own manifest, whatever it took from the cache; what is resumed is
  what was planned, in everything an id covers; what can be planned can be resumed.
* PDK preparation: evidence is the last thing written, a failure leaves
  nothing, and nothing of a concurrent preparation is touched that has another identity.

## The modules

```
CrashLock          the abstract lock: absent, unsigned, signed
   ^ implements
RunLock            journal.py: the directory protocol      <- MCRunLock, RunLockProofs

StoreBarrier       the abstract barrier: many readers or one collector
   ^ implements
StoreLease         coordination.py, its locks as CrashLock <- MCStoreLease, StoreLeaseProofs
Collection         store.py, maintenance.py, api.py, over  <- MCCollection, CollectionProofs
                   StoreBarrier and a CrashLock per run
JournalLog         journal.py: events.jsonl                <- MCJournalLog, JournalLogProofs
Scheduler          scheduler.py                            <- MCScheduler, PlanProofs

BoundedCall        the abstract call: a child lives at most as long as it
   ^ implements
ProcessSupervision xyce.py: _run_process                   <- MCProcessSupervision,
                                                              ProcessSupervisionProofs
XyceCache          xyce.py: characterize_xyce_async, with  <- MCXyceCache, XyceCacheProofs
                   claims as CrashLock, children as BoundedCall
PlanGraph          manifest.py, sweeps.py, planner.py, model.py: operators
   ^ EXTENDS
PlanReplay         executor.py, store.py, api.py over it   <- MCPlanReplay, PlanProofs
PdkPrepare         pdk_replay.py: prepare_ciel_family      <- MCPdkPrepare, PdkPrepareProofs
```

### CrashLock

An abstract specification of a lock that a crash can leave *present but
unsigned*, because taking, leaving and breaking it are each two steps. At most
one process (`hand`) is at work on an unsigned lock; a signature is erased only
by its owner, of a dead owner, or by an operator. `RunLock` implements it
(proved), and `StoreLease` uses exactly its states: `"none"`, `"bare"`, or the
process that signed.

### RunLock

One action per file-system call; `pc[p]` says which call is next.

| state | code |
|---|---|
| `kind`, `content` | what `run.lock` is, and the markers in it. `kind = "file"` is the lock of a release without directory locks, which the code still reads |
| `op[p]` | `__enter__`, or `clear_run_lock` without and with `force` |
| `tries[p]` | the attempt of the `for` loop in `__enter__` |
| `seen[p]` | the owner (path and bytes) that was read and is compared again later |
| `gen[p]` | the nonce: a fresh one per call |
| `audited`, `cleared` | the lines of `unlock-audit.jsonl`; the markers an operator removed (history) |

`StartEnter, Mkdir, CreateMarker, WriteMarker` are an acquisition without
contention; `MarkerFails, UndoMarker, UndoMkdir` its rollback after an
`OSError`; `Read, Judge, Recheck, Unlink, Rmdir` are `_remove_lock_if_owner`
after `_owner_state` said "stale"; an operator's `Audit` comes before the second
reading of a marker, and after that of a lock file, as in the code;
`StartRelease, DropMarker, VerifyEmpty, RemoveOwn, ReleaseGivesUp` are
`__exit__`. `Crash` is possible everywhere. A restarted process is another
process: the start marker in the owner record tells them apart.

Abstractions. `OwnerStates` is nondeterministic where a probe may fail; it
never calls a live process dead, which is what PID plus start marker are for.
The inode comparison in `_rmdir_owned_empty_lock` is left out: it can only
refuse a removal, so everything shown here holds with it. Symbolic links and
junctions in place of `run.lock` are refused by the code before it changes
anything and are left out, as is a rollback whose own `unlink` raises: it leaves
a marker that no process holds, which others read like that of a holder.

**The exemption `crossed`.** `__enter__` rolls an acquisition back when `fsync`
of the marker fails. By then the marker is readable, so an operator may clear
it by force and another process may make a new, still empty `run.lock`. The
rollback's `rmdir` (`journal.py` 510–514) has no identity check, unlike that of
the release, and removes it. The second process then fails to create its marker
and tries again – or, if a third made another directory in between, two
processes create markers in one directory. `crossed` records that a forced
unlock hit an acquisition in rollback; `Exclusion`, `SoleCustodian` and the
refinement are stated for behaviours in which that did not happen.

### StoreLease

A reader: `Check` (first look at the writer), `MakeHome` (a directory with a
fresh token), `ClaimLease, SignLease` (its `RunLock`), `Recheck` (second look),
then `read`; leaving is `Unsign, Unlock, RemoveHome`. A collector: `ClaimGC,
ClearGC, SignGC`, then passes over a listing of the readers' directories
(`List, Pick, Judge, RemoveEmpty, Reap`) until one pass met no blocker
(`Enter`). `Reap` is `with RunLock(directory): pass` over a dead reader's lock,
one call at a time. A directory in `todo` may be gone or replaced by the time
it is picked; as in the loop of `__enter__` (line 207), one that is gone counts as a
blocker for this pass. `CheckTimeout` and `ScanFails` are the deadlines,
`SignFails`, `SignGCFails` the failing writes; `Crash` is possible everywhere.
A take-over whose writes fail is left out: it blocks the pass and leaves the
directory as a live or dead reader does. The inside of each `RunLock` is `CrashLock`, which the proofs of `RunLock`
justify, and `ImplementsCrashLocks` says that `.locks/gc` and every reader's lock are used in
no other way: `Lock(c)` is an instance of `CrashLock` for each of them, with `Hands(c)` as the
process that has the unsigned lock in hand. No operator clears these locks by force, so the exemption
`crossed` of `RunLock` does not arise.

### StoreBarrier

What the leases are for, in four actions: readers enter while no collector is
in, a collector begins while nobody is in. `StoreLease` implements it with
`reading <-` the readers at `read` and `collecting <-` the collectors at
`collect`, and `Collection` is built on it by `INSTANCE`.

### Collection

Executors, each a process that runs a new plan or resumes a run, and one
process that collects, over one store.

| state | code |
|---|---|
| `reading`, `collecting` | the barrier |
| `run[i]`, `lock[i]` | `runs/<i>/` and its `plan.json`: absent, `"bare"` (made, no plan yet), `"whole"`, `"torn"` (present, unreadable); its `run.lock` as in `CrashLock` |
| `at[n]`, `state[d]` | which directory is found under a name of `cache/`, and what is in a directory |
| `boxes` | the sandboxes under `work/` |
| `mine`, `job`, `cur`, `victim` | an executor's run, its activities, the activity between two awaits, the directory its `rmtree` has open |
| `seen`, `planRuns`, `planEntries`, `planBoxes` | the collection plan |
| `reach`, `blind`, `hand` | the second survey, and the name and directory being removed |
| `rebuilt` | history: keys whose invalid entry some publisher began to remove |

*An executor.* `BeginRun, MakeRun, WritePlan, TakeLock, LeaveLease` is
`Runner.run` under its read lease; `BeginResume` loads the plan or gives up.
`CachedPass` verifies each activity once; `MakeBox, Materialize, WorkEnds` are
`ActivityExecutor.execute` from one await to the next; then `publish` call by
call: `MakeTemp, CopyFiles, WriteManifest, LookAtTarget, CheckTarget`, the
`rmtree` of an invalid target (`OpenTarget, TearTarget, EmptyTarget,
RemoveTarget`), `Rename`, and `LookAgain` when the rename fails. `Tidy` is the
two `finally` clauses, `Release` the end of `_execute_locked`, without a lease.

*The collector.* `SurveyEntries, SurveyRuns, SurveyBoxes` are `plan_collection`,
which takes no lease, so anything may happen in between; `BeginApply ...
EndApply` are `apply_collection` under the write lease: `OpenRun, DropRun` per
planned run, `Resurvey`, `OpenEntry, TearEntry, EmptyEntry, RemoveEntry` per planned
entry, `RemoveBoxes`. Every `rmtree` may fail at any point and leave what it
left. `Crash` and `CrashGC` are possible at every step of a live process.

*File system.* `rename` moves a directory to another name and replaces an empty
one; `rmtree` opens a directory once and goes on in it whatever its name is by
then; `rmdir` removes a name that has an empty directory. This is what POSIX
and Python's descriptor-based `rmtree` do.

*Abstractions.* There is one collection; several would exclude one another.
The lock of a run is taken in one step and given back in one, and a death
inside either leaves `"bare"`; `RunLock` has the calls. A forced unlock, which
hands a live run to two executors, is left out: no property of this module
holds after it. `--keep-runs` is any subset of the runs (`newest`). A listing of
a directory is one step. An executor publishes a key once. An execution that
fails, or is cancelled, is one outcome of `WorkEnds`. In `OldRuns` and
`OldCaches` the store may hold anything earlier processes left.

### JournalLog

The file is `lines` plus `tail`, what follows the last newline. A line is an
event's identity, its sequence number and whether it is JSON; `Readable` is
"`replay` does not raise". `WriteFails` and `DieWriting` leave nothing, some
bytes, or all but the newline; `PowerLoss` does the same to a line whose
`fsync` has not returned, and takes all processes with it. `Write` on a file with a tail continues
that line, which is then not JSON. `ForceUnlock` lets a second live writer in.
The schema checks of `replay` other than the number are one predicate. An event's
identity stands for its contents and its kind.

`AcknowledgedKept` speaks of a file that `replay` accepts. Once a forced unlock
has let two writers number lines alike, or a line was continued, no event can be
read back, acknowledged or not; by which steps a file comes to that is what
`OnlyUnfinishedBreaks` says.

### Scheduler

The coroutine of `execute_plan` as a program counter over its loop: `Verify`
(the cached pass), `Top` (what each round reads once), `Scan` (one activity of
the plan per step, in plan order), `ScanEnds`, `Wait`, `RecordDone`, `Finish`,
`CleanedUp`. A task is `created → waiting → executing → done`; `Begin` and
`Resume` take as many slots as are free without an await (`CanTake`), as
`run_one` does with its job slot and its sorted named requests one by one.
`Settle` is `asyncio.Semaphore`: FIFO, a returned slot goes to the first waiter
that has not been handed one, which is a state of its own (`granted`) because a
cancellation can come in between. `WorkerEnds, CancelAcquire, Acquired` are
`_acquire_run_lock_async` and its thread; `MainRaises` is a cancellation or an
error of the journal or the callback at any await; `CancelTask` is what
`_cancel_and_wait` does to each task.

`Shutdown` is the end of `asyncio.run` (`api.py` 60), which cancels every task of
the loop. While `_acquire_run_lock_async` waits it is one more `CancelAcquire`.
Before the cleanup it is a cancellation of the coroutine like any other, except
that tasks which have not begun never run (`CancelUnbegun`). Inside the cleanup it
cancels the task of `_cancel_and_wait`, too: `shield` of a task that is cancelled raises at once
whenever it is awaited, the loop around it takes that for a cancellation of the
coroutine, and the process spins with its lock (`Spin`, observation 5; `RunEnds` exempts it). The model lets
the executors go on meanwhile, which they cannot while the loop is blocked; for
safety that is more than happens. What ends such a process is a signal, and its lock is
then that of a dead process, which `RunLock` breaks.

Abstractions. The loop's ready queue is not modelled callback by callback; only
its FIFO rule that a new task's first step precedes whatever the coroutine
awaits next is kept (`AllBegun`). More orders are explored than one loop
produces. `published` stands for the store: `execute` succeeds only after it
published. That `published` only grows is what `Collection` shows of the store,
up to a second publisher of a damaged entry (observation 3). The variant in which
`Runner` owns the lock has its cleanup in `api.py`: `Release` of `Collection`.

### ProcessSupervision and BoundedCall

One call of `_run_process`. A step of the call is what it does between two
awaits: `Launch` (`connect`), `StartTasks` (`gather`, over the two readers, the
waiter and the watcher), `TaskRaised`, `TimeOut` and `Cancel` (the handlers, which
all begin with `_terminate`), `GraceOver` (the two seconds after SIGTERM),
`KillWaited` (after SIGKILL), `Sweep` (`_cancel_tasks`), `Close` (the `finally`
clause). On POSIX `_terminate` runs a second time in `finally`, to reach
descendants that outlive a reaped leader; on Windows the job is terminated.
The child may exit, fork, grow a watched file, ignore SIGTERM, and leave
descendants at any time; `Reap`, asyncio's child watcher, makes `returncode`
known some time later. `WatchRound` is one round of `_watch_artifacts`: it looks
at the files, then at the waiter, so the last look is always after the exit.

`BoundedCall` is what callers rely on: `Start`, the child ends by itself or is
stopped, `Answer` only when it is not alive, a result only if it ended by itself.
Its `LetGo` is the one exception, which `NothingSurvives` spells out: a call that
is cancelled a second time while it is terminating the child, or while asyncio
is launching it, may end before the group is dead (not on Windows, where the
job is closed). When a launch is cancelled, asyncio kills the leader itself,
and nobody its descendants. Descendants that leave the session are not modelled.

### XyceCache

A call goes through the labels `open, identify, probe, look`, then either
`verify` and `output`, or `acquire`, `second` (the second look, under the claim),
`temp`, for each corner and analysis `check, write, launch, running, after,
judge, strip`, then `report, manifest, publish, reread, deliver, cleanup,
release`. `key[p]` is the cache key, of which the model keeps the version of the
sources and of the simulator; `used[p]` the simulators it has executed. A claim
is a `RunLock` on a directory per key, taken as in `CrashLock`: `"bare"` if its
owner died before signing it. `EditSources` changes the sources once, between any
two steps; `ReplaceCommand` puts another simulator in place or puts the first one back,
`MaxReplaced` times in all; `Meddle` puts a valid entry under a key or
damages one, `MaxOutside` times. `_verify_cache` recomputes the manifest, the
digests and the report; here an entry is whole or not. `Check` compares sources
and simulator with the key before an execution, `Compare` the simulator after it,
`Report` the sources once more before publication.

**The exemption `doubt`.** Two comparisons around a child say nothing of the time
between them. A simulator that is replaced after `Check` and back before `Compare`
goes unnoticed (`xyce.py` 1393–1399, 1414), and what it computed is published. `doubt` collects the calls
whose simulator was put back while their child ran or before its digest was
compared; `EvidenceBound` exempts
their entries and no others (observation 6).

### PlanGraph and PlanReplay

`PlanGraph` has operators only. `Accepted` and `Executable` are what
`load_manifest` demands of a manifest (the relations between its fields; TOML
types and spellings are left out), `Loaded` what it makes of it, `Combinations`
and `Expandable` the sweep in product and zip mode, `Compile` the activities with
payload, identity, inputs and dependencies in plan order, `PlanDecodes` what
`Plan.from_dict` demands of a saved plan. A saved activity has two halves:
`Activity` is what its id covers or what must repeat that, `Loose` what no id
covers – the index of its point, the rank an extract carries, the paths of its
inputs, its template and copies, its resources and its time-out – and so may be
altered as far as `ActivityDecodes` and `PlanDecodes` compare it. A fingerprint is the value it is taken
of, so two ids are equal exactly if the code hashes equal documents.

`PlanReplay` runs them. A run of some manifest is planned and saved (`Submit`);
then it takes the activities in plan order: cached if the entry verifies
(`Verified`: its `manifest.json` decodes as an activity), or skipped (`Skip`), or
executed – the scheduler compares its resources with the limits (`Granted`),
`Compare` looks at the digests of the inputs or at the identity of
the simulator, `Work` computes in the sandbox, `Publish` puts it in the cache.
`Render, Simulate, Extract, AggregateRows` say what is computed, as terms over
the versions of files and simulators, so that a table row tells where it comes
from. Each step of an activity may fail (`WorkFails`, `PublishFails`,
`DeriveFails`): it must where the model has the reason – a placeholder without a
parameter, another Xyce than before – and is one of the `MaxEvents` events
where it has not.

Around the runs, `Edit` changes a file, `Replace` puts another version of the
simulators in place and `PutBack` the first one back, each at any moment. `Reload` ends the process of a run at
any point and loads its saved plan, which somebody may have altered: `Altered` has, for each
activity, every field of its first half exchanged for that of another, and
every field of its second half changed alone and together with those it is compared
with – a rank with its index, a path with its template and copies, both to values in use and to new
ones – besides the path of the manifest, the job count, the flag and the list itself. The names of `PlanReplay` differ
from those of `Scheduler` (`counted` and `lost` for what `Scheduler` has in `done` and
`statuses`), so that one module, `PlanProofs`, can hold the proofs of both.

`ResumedWorkIsThePlans` says how far a resumed plan is the compiled one:
the activities in their order with all that their ids cover, jobs, limits and `fail_fast`; that a
render copies and fills the files it digests; that an extract has the rank of its
point. It does not say that `plan.json` is unchanged: `Plan.from_dict` lets
a changed manifest path, time-out or resource pass, and an index moved to an unused
value, with its rank on an extract; and a path may name another file, whose digest is then compared.

`RowsAreThePlans` compares the table of a run that succeeded with `Table`, which
says from the manifest alone what it should hold – the reference definition of
the whole pipeline. Its exemptions are what the code does not check, and each is a
history variable:

* `late`: an input that is edited between the comparison of its digest and its use
  (`executor.py` 39–53, against `docs/architecture.md` 59–61); an Xyce that is replaced
  after it was compared and put back before it is compared again (lines 76–80 and 100–102);
  an ngspice that is not the one planned with, which is never compared (observation 7). Only
  the activities this happened to are exempt, with the runs whose plans have them;
* `ranks`: the order of rows is not that of the sweep if another plan ranks a
  point of this run otherwise, or this one did after it was altered (`Reranked`, finding 3).

Reductions, which keep the state space small and lose no interleaving that
matters to these properties: a crash and a resumption are one step, since
nothing else looks at a dead run; plans are altered only in ended runs; what no id
covers is altered in the first `MaxSpot` activities, among which there is each kind
with a loose half of its own, and to files of `Elsewhere`; each
file is edited once, and the simulators are replaced and put back once, and only if some plan names them; a
run executes one activity at a time (`jobs = 1`; other orders are `Scheduler`'s).
A time-out is a number in the plan and does not expire here; environment variables and the
producer's version are left out.

### PdkPrepare

Processes that prepare one family at the same paths. `Begin` refuses what exists;
`Observe` asks the release API; for each asset `Fetch, Follow, Body, Unlink`
(`download_exact`: one request, at most one redirect by hand, a staging file that
gets its name by a link) and `StartZstd ... Extract` (the child and its
watchdog); then the decision is downloaded and read, the tree is merged
(`Merge`), published by an exclusive `mkdir` and a copy (`PublishTree, Copy`), and the
evidence written (`WriteEvidence, CloseEvidence`). `Rollback, Undecide, DropArchives` are the
`except` and `finally` clauses. `files[f]` is who made what is at a path,
whether it is whole, and whether it is a `twin`; `mine[p]` are the paths whose identity (device, inode,
mode) the process remembers. `Tidy` is a user who removes one output file. The
inode of a removed file is free, and a file made at that path afterwards, by
whichever process, may get it: then it is a twin of the first, and
`_remove_if_owned` (`pdk_replay.py` 168–187) takes the one for the other.
`Owned` is that comparison, not authorship. `OthersKept` exempts twins, and says that the
roll-back removes no other file of a peer.

Idealised are the removals: the identity is compared and the file removed in
one step, where the code has a few instructions in between, and a removal
removes, where `rmtree` is called with `ignore_errors`. So `FailedLeavesNothing` is
about a file system that lets the process remove what it made. `Die` is the death of a process. When
the machine stops, unsynced contents may be lost, and the copies of the tree are
not synced (lines 1328–1336), so `EvidenceLast` says nothing of a power loss. An archive
that cannot be unlinked raises from `finally` after the evidence is written
(line 1490) and is left out.

The watchdog is a thread of its own: `DogBarks` (it polls the child and sets
`watchdog_expired`), `DogBites` (it kills it), `DogStops`. It can mark a child that
exits before it is killed, and it can be about to mark while the process
already waits for the child, which is why `JoinThreads` comes before the mark is
read.

## The runs

| run | instance | what it shows |
|---|---|---|
| `RunLock` | lock users `a`, `b` and an operator on one host, `c` on another, one call each, 3 attempts | exclusion, custody, audit, justified removals, refinement of `CrashLock` |
| `StoreLease` | 1 reader, 2 collectors, one of them not identifiable, two calls each, one failed write | readers and collectors exclude one another; refinement of `StoreBarrier`; each lock used as `CrashLock` allows; both get in |
| `JournalLog` | 3 processes, 2 appends each, one error, one forced unlock | acknowledged events are kept; numbering; only an unfinished line breaks a journal |
| `JournalResume` | the same without errors and forced unlocks | **violation**: a resumed run makes the journal unreadable |
| `Scheduler` | 5 activities, 3 jobs, 2 simulator slots, any set of cached activities, cancellations and one shutdown of the loop | slots, dependencies, lock, verdict, fail-fast, termination |
| `Collection` | 2 executors, one collection without `--include-unreadable`; keys `a` and `b`, which depends on `a`; plans `{a, b}` and `{a}`; four initial caches | live runs, their sandboxes and their entries stay; entries go only on full knowledge |
| `CollectionUnreadable` | the same with `--include-unreadable` | **violation**: a collection destroys an entry while a live run publishes it |
| `ProcessSupervision` | one child, two pipes, both platforms, up to 3 cancellations | nothing survives; honest results; the call ends; refinement of `BoundedCall` |
| `XyceCache` | 2 calls of 2 executions each, one edit of the sources, a simulator replaced and put back, one act of somebody else | executed once; evidence bound to the key; equal answers; clean ends |
| `PlanReplay` | 2 runs, of one manifest and of any of 12, with two events: an edit, a replacement (and its undoing), a failure or a resumption from a plan that may be altered | tables are those of the manifests; resumed work is the compiled; what is planned replays |
| `RowOrder` | one manifest each, without events | **violation**: rows in the order of another run's sweep |
| `PdkPrepare` | 2 preparations with one asset, and a user who removes one file | evidence last; nothing left by a failure; nothing taken from another; honest extraction; an end |

**Bounds and why they are enough.** In `RunLock`, the longest interesting
interleaving has a contender that read a dead owner, a second that breaks and
retakes the lock meanwhile, and an operator clearing either: three actors and
an owner that died, which one call each gives; the process on the other host
shows that nobody may judge it. More calls per process add owners, not roles;
that the properties do not depend on the number is what the proofs show.
`MaxTries` is the code's 3. In `StoreLease` two collectors race for the lock of a
dead one while the reader enters, dies or comes again in its second call; the
reader makes several directories in one call because it polls, so `MaxFaults`
bounds the attempts in which a write may fail. Two readers at once are covered by the
proofs. In `JournalLog` three processes give a crash, a resumption that crashes as
well, and one that reads the result; two appends give a line before and after
each fault. In `Scheduler` the plan has a chain and a join (`d` after `b` and `c`,
`c` after `a`), a request for both slots beside requests for one, a request for a
resource the plan lacks, and more ready activities than jobs; its order is
topological, as the planner's is. In `Collection` two executors publish the same
key, or one registers while the other works, or resumes what the other left when
it died; one plan refers to an entry the other does not; the cache starts empty,
complete, or with the entry of `a` or of `b` damaged. Every race found needs two
publishers, or one publisher and the collection. The instance has no runs from
before the first executor; those left by a dead executor play their part, and
the proofs hold for any `OldRuns`.

In `ProcessSupervision` one cancellation hits the call, a second its termination
and a third the clean-up of that. In `XyceCache` two executions let the simulator be
replaced between them, two replacements let it be put back in either, and two calls with the same or different keys are what a
race for one entry needs; a third adds nothing that `Meddle` does not do. In
`PlanReplay` two events are a fault and what uncovers it: an edit in one run and a
resumption of the other, an alteration and a failure, a replacement (whose undoing is free) and
a second run of the same activity. Of plans that share activities, one point of a sweep of two is
enough for entries with other ranks; sweeps in two orders are the business of `RowOrder`. `MaxSpot = 4` reaches a
render, a simulation and an extract of the first point and the next activity;
`Elsewhere` has one file, with the text of another, so that an altered path can lead to equal contents and
to other ones. The twelve manifests are each there for a reason: a sweep and a part of it, names
that differ in case, inputs whose names fold together or hold a backslash, two
measures with one field, a deck without placeholders, the three adapters, a
measure named as a parameter, a zip with equal and with uneven columns. In
`PdkPrepare` two processes are what the roll-back can confuse; one asset has all
steps, and the proofs hold for any number of both.

**Deadlock.** Processes stop when their calls are used up in all runs but
`Scheduler`, so deadlock is not checked there (`CHECK_DEADLOCK FALSE`); in
`Scheduler` it is, with the ended run as a self-loop.

**Fairness.** `StoreLease`: weak fairness of the steps a live process takes
when scheduled (`ReaderRuns`, `WriterRuns`): it does not sleep between two calls
for ever, and the body of a lease ends. Deadlines, failing writes, crashes and new
calls may happen and are never forced. `WriterProceeds` and `ReaderProceeds`
exempt what no fairness can help: a lock whose owner died before signing it,
or cannot be probed (`Stuck`). `Scheduler`: weak fairness of the coroutine and
of every task, which is what the event loop gives to ready callbacks, and that
an executor and the acquiring thread return, which the simulator's time-out and the three
attempts of `RunLock` give. `ProcessSupervision`: weak fairness of the call's
tasks and timers and of the child watcher; the child owes nothing, so `CallEnds` rests on
the time-out and on SIGKILL. `PdkPrepare`: weak fairness of the process, of its
watchdog and of a read once the output has ended; zstd may stall for ever, and
the watchdog is what ends it. Nothing else is assumed: cancellation and errors
are free.

`RunEnds` has a real precondition: a task takes the slots of a resource one by
one, so two tasks that each ask for two of the same resource can hold one each
and wait for ever. The planner emits only one simulator slot per activity, but
`load_plan` accepts more. The run's plan has at most one activity that asks
for two.

**Mutants.** An operator whose comment starts with "Mutant:" stands before the action it
varies, and no specification uses it. It is a bug somebody could write
(`mkdir(exist_ok=True)`, no second look at the writer, a waiter cancelled with the
slot it was handed, an entry taken as valid because it is there). `PROJECT.json` pairs each with the property that TLC must
find violated once it replaces the action.

## The proofs

TLC checks small instances. The proofs hold for any number of processes, hosts,
attempts and calls (`RunLockProofs`, `StoreLeaseProofs`), any keys, plans,
executors, old runs and cache contents (`CollectionProofs`), any number of
writers, appends and faults (`JournalLogProofs`), any plan, requests, limits and jobs, and
any manifests, files and runs (`PlanProofs`), any readers and cancellations
(`ProcessSupervisionProofs`), any calls, executions and outside acts
(`XyceCacheProofs`), any preparations and assets (`PdkPrepareProofs`). They use the
named assumptions of the modules about their constants, and nothing else: positive
bounds, names of different things that are different, plans whose dependencies are
activities and whose order lists them, requests that are sequences of names and
numbers (`RequestsAssumption`), manifests whose fields have the types TOML gives them
(`ReplayAssumption`; which manifests `load_manifest` accepts is not assumed), "no point"
that is not a point (`NoneAssumption`), and file names given by SimCairn itself that
casefolding leaves alone (`GivenAssumption`).
Every inductive invariant below was checked by TLC on the instance of the run first.

**RunLock.** The inductive invariant is

    IInv == TypeOK /\ Breaker /\ AuditFirst /\ (~crossed => Custody)

`SoleCustodian` alone is not inductive: a contender at `unlink` is not a
custodian but becomes one. `Breaker` says what each process at a label knows
(that a contender which goes on to unlink has seen a full marker of a process
that is dead, or is an operator with its record audited), and `Custody` that a
lock directory with a marker has no process at work on it other than that
marker's, and that one without a marker has at most one. From it follow `TypeOK` (theorem `TypeCorrect`),
`Exclusion` (`LockExcludes`), `SoleCustodian` (`OneCustodian`), `AuditFirst`
(`AuditedBeforeCleared`), the action property `RemovalJustified`
(`RemovalsJustified`), and `Refinement`: under the mapping `present <- kind #
"none"`, `signer <-` the processes named in complete markers, `hand <-` the
custodian of an unsigned directory, initial states map to initial states and
every step to a step of `CrashLock` or a stutter.

**StoreLease.** The inductive invariant is

    IInv == TypeOK /\ WriterLock /\ ReaderLock /\ Reaping /\ Noticed

`WriterLock` and `ReaderLock` tie the locks to the labels of their owners;
`Reaping` says that a lock being reaped belonged to a dead reader;
`Noticed` is the argument of the protocol: once a collector holds `.locks/gc`, a
reader that is past its second look has published its directory before the
collector listed the directories, so it is still on the list, at hand, or has already
blocked this pass. `ReadersExcludeWriter` is the case of an empty list and no
blocker. Theorems `LeaseTypes`, `LeasesExclude`, `CollectionsExclude`,
`LiveLeasesKept` (no run checks `LiveLeaseKept` by itself: that another
process takes the lease of a live reader violates `ImplementsCrashLocks`, which the run checks), and `LeaseRefinement`: `StoreLease` implements
`StoreBarrier`.

`LocksAsPromised` (`ImplementsCrashLocks`) is the refinement in the other direction, of what the leases
need. It takes two more conjuncts, in `UInv`: `Unlocked`, that a live reader outside its claim
and its removal has no lock, so that the next one is really made; and `Taking`, that a
collector that takes over a lease finds in it what it wrote last. `OneInHand` gives
the hand of `CrashLock`: two collectors never both hold `.locks/gc`, and a lease is taken over only
from the dead. Each step then is one of `Claim, Sign, Erase, Discard, Die` on one lock (`LockSteps`,
`CrashUses`) and leaves the hands of the others alone (`LeftAlone`).

**Collection.** The inductive invariant is

    IInv == TypeOK /\ Leasing /\ Registration /\ Activities /\ LiveBoxKept
            /\ Directories /\ Surveyed /\ (~IncludeUnreadable => Contents)

None of the properties is inductive alone. `Leasing` ties the barrier to the
labels, so that while a plan is applied nobody is creating, loading or locking
a run. `Registration` says what an executor knows of its run on the way to its
lock; with `Leasing` it gives `LiveRunKept`: the collector opens a run only if it
is not locked, and nobody can take its lock before it is gone. `Activities`
relates the labels to the activity at hand; a process with a sandbox has a locked
run, so `RemoveBoxes` removes nothing (`LiveBoxKept`). `Directories` is the
ownership of directories: one found under a key is that key's old one, or was
renamed there by an executor that is done with it, so nobody writes to what is
published, and no `rmtree` has open what somebody is still building.
`Surveyed` says that the second survey stays true while entries are removed,
and, without `--include-unreadable`, that the names in the plan are keys, whose
directories never move. From it `NeverBlind` (`NothingTakenBlindly`) and
`ReferencesKept` (`ReferencedKept`) follow. `Contents` adds that a sealed
`.publish-*` directory is whole until it is renamed, which gives
`CountedStaysGood` (`CountedGood`). `ReferencesKept` and `CountedStaysGood` have
the hypothesis `~IncludeUnreadable`: run `CollectionUnreadable` shows that
`CountedGood` is false without it. The other four theorems hold with either option.

**JournalLog.** The inductive invariant is

    IInv == TypeOK /\ Listed /\ Kept /\ \A w \in Writers : Syncing(w) /\ Alone(w)

`Listed`: the events of the lines, and of a whole tail, are different and were
attempted. `Kept`: every acknowledged event is in a complete line – power loss
can take a line only while its `fsync` is out, and `Syncing` says that such a line is
not acknowledged – and, without a forced unlock, in that order. `Alone`: without a forced
unlock the process at work is the holder, and if it met no error its number is where the
readable file ends. From it `AcknowledgedAreKept` (`AcknowledgedKept`),
`NumbersGoOn` (`NumbersContinue`) and `OnlyUnfinishedDoes`
(`OnlyUnfinishedBreaks`).

**Scheduler.** The inductive invariant is

    IInv == TypeOK /\ Tables /\ Recorded /\ Control

`Tables`: `pending`, `running` and the tasks agree, and what has no status is in one of
them. `Recorded`: every status is true of its activity, with what it needs from its
dependencies. `Control`: where the coroutine is determines whether it holds the
lock, and it has no live task once it ends; a shutdown inside the cleanup leaves it
there, with the lock (`ShutdownKeeps`). From it `DependenciesAreFirst`,
`LockCovers` (`LockCoversWork`), `ReportIsWhole` (`WholeReport`) and `FailFastHolds`
(`FailFastStopsScheduling`).

How the semaphores share their slots is needed for none of them, and has an invariant
of its own (`SlotInvariance`):

    SlotInv == Balanced(free, queue, granted, phase, got) /\ NoneIdle(free, queue, granted)

`Balanced`: for each semaphore the free slots and those the tasks hold, a slot
handed to a waiter that has not run yet included, add up to the capacity; a waiter
stands exactly once in the queue of the slot it needs next, and nobody else stands
in a queue. `NoneIdle`: no slot is free while somebody in its queue was handed none.
The count alone is not inductive: a waiter that is cancelled gives back what it was
handed and leaves the queue, and that this is one slot and one place follows from its
standing there once. What is held is counted as a set of
pairs <<task, number of the slot>> (`Taken`), so that a step adds or
removes an interval of one task's pairs and cardinalities of disjoint unions do the rest.
`HandsOutFirst` says that `Handing` gives k free slots to k waiters, or to all of
them. Theorem `SlotsAreConserved` (`SlotsConserved`).

**PlanReplay.** The inductive invariant is

    ReplayInv == Shapes /\ (\A r \in Runs : RunInv(r)) /\ (\A id \in DOMAIN cache : Entered(id))

`RunInv(r)`: a run past its planning knows the digests and simulator of that moment, and holds
the plan compiled for its manifest or a decoded one that `Stands` for it (`PlanKept`); it
counts only ids that have an
entry, compares and computes only what rests on entries that verify (`AtWork`), has
counted every id when it succeeded, and was refused only if its plan does not decode.
`Stands`: the same activities, id, jobs, limits and flag, and beside each activity a loose half
in which what is compared agrees (`Bound`).
`Entered(id)`: an entry is that of an activity of some run's plan, published when
its dependencies verified, and it verifies if that activity decodes with some loose half. Neither property
is inductive alone. For `ResumedWorkIsThePlans` the step is `Reload`:
`AlteredStands` shows that what `Plan.from_dict` accepts of `Altered` stands for
the compiled plan as its original did. The fingerprint of the plan covers the job count, the flag and the list of
ids, so the list keeps its length and its ids in their places, and as ids are distinct
no two activities change places; a field taken from another activity of the same kind
either breaks the contract of that kind or the activity's own id, or was equal
(`FieldIsKept`). Of the loose half nothing else is claimed: any edit of it that decodes
has the template where the inputs say it is, the copies that the paths make, and the
rank of the index (`LoosenedIs`, `DecodedIsBound`). For `PlansReplay`, the first half is `PlainPlanDecodes`: the plan
of a manifest that is not `Ambiguous` satisfies everything `PlanDecodes` demands,
activity by activity. The second half (`SucceededIsPlain`) needs the cache: a run
that succeeded has counted its first extract, so that extract was published,
by this run or another, when its simulation verified, and that when its render
verified; entries that verify decode, decoding demands distinct measures and
inputs, and the ids of the entries fix the fields of the activities (`IdTells`), so the
manifest of this run has them too. Theorems `ReplayInvariance`,
`ResumedWorkHolds` (`ResumedWorkIsThePlans`) and `PlansAreReplayed` (`PlansReplay`).

For `RowsAreThePlans` a second invariant, proved on top of the first, says what is in
the entries:

    ContentInv == /\ DOMAIN box = Runs
                  /\ \A r \in Runs : Under(r) => Ranked(saved[r]) \subseteq ranks
                  /\ \A r \in Runs : Doing(r)
                  /\ \A id \in DOMAIN cache : Held(id)

`Held(id)`: an entry holds what an activity of its id computes (`Holds`) from
the entries that one depends on, which all verify: a render its netlist with the
parameters of the point, a simulation that netlist and the simulator of the id, an
extract the fields of that deck, its point and a rank that some plan has given it, an
aggregate its rows in the order of
ranks. Renders and simulations whose file or simulator changed between comparison and use
(`late`) are exempt. `Doing(r)` says the same of the step a run is in: what it compared
still agrees, and what it computed and has not published is what its id says. A simulation
that ran with another version than that of its id is an Xyce, and that is not installed now (`Ran`): then its
publication is refused; and if it is put back before, the id is `late` from that step on. That a step keeps
this rests on `Lasts`: an entry that verifies is never replaced by another.
From there the argument follows one table from its end to its start. The aggregate
holds rows of extracts, each extract a cell of its deck, each deck a render, and at
every link the id fixes the activity (`IdTells`), so that it is this
manifest's. Measures and parameters are told apart by case, hence no metric
overwrites a parameter of its row (`RowHasBoth`). The ranks of the rows are distinct
and as many as the rows, so by a pigeonhole argument they are a permutation
(`RanksAre`), and the sort puts each row where its rank says (`RowsInOrder`). A rank is
one of those that plans have given (`ranks`), hence the run's own unless another plan, or this one
altered, gave that extract another, which is the third finding
(`RankIsOwn`, the exemption `Reranked`). Theorems `ContentInvariance` and `RowsArePlanned`
(`RowsAreThePlans`).

**ProcessSupervision.** The inductive invariant is

    IInv == TypeOK /\ Group /\ Watching /\ Stopping /\ NothingSurvives /\ HonestResult

`Group` relates the child, its job and what is known of it, `Watching` what the
tasks have seen (a watcher that is done looked after the exit), `Stopping` how
far the termination got at each await. `Refinement` shows that every step is a step of
`BoundedCall` or a stutter, under the mapping `SeenStage, SeenChild, SeenAnswer`.

**XyceCache.** The inductive invariant is

    IInv == /\ TypeOK /\ Claims /\ EvidenceBound
            /\ \A p \in Procs : Work(p) /\ Known(p)

`Claims`: a signed claim is that of a call at work on its key, or dead. `Work` says,
label by label, what a call holds: the claim, the temporary directory, and used
simulators that are the one in its key once they were compared, or before, while
that one is installed – or else the call is in `doubt` (`ReplaceKeeps`). `Known`: an
answer is what the cache has under the key. `ExecutesOnce`,
`EvidenceIsBound`, `CallsAgree` and `CallsEndClean` follow. The rename that replaces nothing is
what makes `CallsAgree` independent of the claims.

**PdkPrepare.** The inductive invariant is

    IInv == /\ TypeOK /\ Sealed /\ EvidenceLast /\ Twins
            /\ \A p \in Preparers : Made(p) /\ Ready(p) /\ Child(p)

`Made`: a file that a process made and that is still there is one whose identity it remembers,
until it ends. `Ready`: decision and tree are whole from their step on. `Sealed`: the
author of whole evidence is past everything that could remove it. `Twins`: only where
something was tidied away is there a file with the identity of another. `Frame` is what a step
of one process may do: it makes a file where there is none, or finishes or
removes its own, or removes a twin at a path of its own; every action is shown to be such a step, and from that nothing
of the others is disturbed, whatever they are doing. Theorems `EvidenceIsLast`,
`NothingIsLeft` (`FailedLeavesNothing`), `OthersAreKept` (`OthersKept`) and
`ExtractionsAreHonest` (`HonestExtraction`).

**Only model-checked.** Liveness under fairness (`WriterProceeds`,
`ReaderProceeds`, `RunEnds`, `CallEnds`, `PreparationEnds`), which this prover does
not reach; every invariant and every action property of a passing run has a
theorem. Of the library's induction none can be
cited, since its theorems take an operator as parameter. What the proofs need of folds,
of the product of a sweep and of recursive functions is proved from a least
counterexample instead (`Least`, from the well-foundedness of `<`; `Induction`,
`Recursion`, `Flattens`). No
module declares a RECURSIVE operator.
`Collection` uses `StoreBarrier` and locks of the kind of `CrashLock`; that the
three modules together implement it step by step is the composition of proved
refinements with an instance, not a theorem of its own. `Collection` and
`XyceCache` take a lock in one step, with the unsigned state only where a process dies; that this is
`CrashLock` seen from outside is by construction of their actions, not a theorem.

## Findings

1. **Resuming after a torn line destroys the journal** (`JournalResume`).
   `replay` ignores an unfinished last line, but `append` continues it. The
   resulting line ends in a newline and is not JSON, so every later `replay`
   raises. The README promises recovery of an incomplete final record.
2. **`store-gc --apply --include-unreadable` can destroy an entry that a live run
   publishes** (`CollectionUnreadable`). Such a plan names the `.publish-*`
   directory of a live run; its name is no activity id, so no run refers to it,
   and no lock is looked at. `rmtree` opens it, `publish` renames it, `rmtree`
   goes on emptying it. `publish` returns, the run records a success, and the
   entry is gone. The README calls a live run, and what it references, untouchable.
3. **Rows come in the order of the run that filled the cache** (`RowOrder`).
   `point_index` is in the payload of an extract activity and not in its
   identity; a cached extract keeps the rank it had in another plan, and the
   aggregate sorts by it. `docs/architecture.md` promises sweep order, and that
   identities and result order do not depend on how runs are operated.

Observations without a run of their own. The properties name them as exemptions,
and TLC finds those of 5 to 7 violated when the exemption is taken out.

1. A process that dies between `mkdir` and its marker, or between unlinking its
   marker and `rmdir`, blocks its lock for good. `RunLock.__enter__` and
   `clear_run_lock` treat a lock directory without exactly one marker as an
   owner they cannot judge, and `--force` raises as well (`journal.py` 339–340).
   `Stuck` of `StoreLease` is this case.
2. `fail_fast` does not hold for tasks that wait for a slot: a task is created
   when a job is free and waits for its named resource inside `run_one`, which
   does not look at failures. `FailFastStopsScheduling` says what does hold: no
   round makes a task after a failure.
3. Publishing can take a valid entry away: `publish` removes an invalid target
   without looking again (`store.py` 168–172), so of two runs that both met a
   damaged entry the slower may remove what the faster has just published.
   `CountedGood` exempts these keys (`rebuilt`).
4. A manifest with two measures that read the same field is accepted and
   planned, and its simulation always fails, because the manifest of its entry is no
   activity that decodes ("simulate measure_fields must not contain
   case-insensitive duplicates"); `resume` cannot load its plan. The same holds of
   inputs whose names differ in case only or contain a backslash. `PlansReplay`
   says that these (`Ambiguous`) are the only ones.
5. A run that the loop's shutdown hits in its cleanup never ends. The loop around
   `asyncio.shield(cleanup)` (`scheduler.py` 206–214) cannot tell a cancellation of
   the coroutine from one of the cleanup task. When `asyncio.run` shuts down while
   the cleanup is pending it cancels both, and the coroutine spins with the run lock held.
   `CHANGELOG.md` 96 says that cancellation drains the activities before it
   *releases* the lock.
6. Characterization evidence may come from another Xyce than its key names: a
   simulator that is replaced and put back between the two comparisons around a child
   passes both (`xyce.py` 1393–1399, 1414). `docs/xyce-characterization.md` 118–137 says that
   the key covers the executable and that conflicting evidence is never silently
   accepted.
7. The executor's comparisons have the same limit. An Xyce replaced and put back
   around a run goes unnoticed (`executor.py` 76–80 and 100–102, against
   `docs/validation.md` 27); an input is digested and then opened again (39–53, against
   `docs/architecture.md` 59–61); an ngspice replaced after planning is not looked
   for at all. What was computed so is published under the planned id, where
   later runs find it, too.
8. `Plan.from_dict` accepts a `plan.json` with another manifest path, other resources
   or time-outs, and points with other indices; no id covers them. A resumed run can so
   fail, wait or order its rows otherwise, but it computes nothing else
   (`ResumedWorkIsThePlans`).
9. The roll-back of a preparation recognises its files by device, inode and mode. If a
   user removes one of them and a peer makes the same path, the peer's file may have the
   inode again and is removed as the process's own. `OthersKept` exempts such a `twin`.

## Plan

The components are modelled in the order of their importance: locks and leases,
journal, scheduler, store and collection, process supervision, the
characterization cache, planning and replay, and the preparation of a PDK. What
is left:

1. the kinds of journal events, and `status` while a resumption is in progress
   (`api.py` 64–79);
2. the Xyce branch of `PlanReplay` over `BoundedCall`, with the environment of the child;
3. a theorem that composes `StoreLease` and `RunLock` with `Collection`;
4. the integer parts of `characterization.py` (axis schedules) as operators.

## Not modelled

* Simulator adapters, table normalization and measurement parsing: text and
  floating point without state between calls.
* `reference_replay.py` and the release and provenance tools: sequential
  comparisons and reports of maintainers, with no concurrent actor. Of
  `pdk_replay.py`, the contents of inventories, decisions and archives: comparisons
  with locked values that either hold or end the preparation.
* TOML types, spellings and most numeric ranges in manifests and plans; environment
  variables, the expiry of time-outs and the producer's version in `PlanReplay`.
* Descendants of a simulator that leave its session.
* `benchmarks/`, `examples/`, CI: no program logic.
* Redirected directories (symbolic links, junctions) and file permissions:
  refused up front.
* The durability of directory entries and of published trees under power loss: only the
  contents of `events.jsonl` lose unsynced bytes, and `Die` of `PdkPrepare` is the death of a process; a lock directory that a power loss undoes
  belongs to a process that is dead as well.
