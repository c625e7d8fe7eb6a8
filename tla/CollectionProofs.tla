--------------------------- MODULE CollectionProofs ---------------------------
(***************************************************************************)
(* Proofs about Collection, for any keys, plans, executors and contents of *)
(* the cache.  A collector acts under the barrier on what it has read      *)
(* there; an executor is safe from it because its run is locked and its    *)
(* plan readable before it leaves the barrier, and because without         *)
(* --include-unreadable a collection only names entries, which have one    *)
(* name for life.                                                          *)
(***************************************************************************)
EXTENDS Collection, TLAPS

(* The labels inside a lease, between the first and the last activity, and *)
(* inside publish; those from which the .publish-* directory is complete   *)
LeaseLabels  == {"create", "write", "lock", "leave", "giveup"}
SealedLabels == {"exists", "check", "open", "tear", "empty", "rmdir", "rename", "again"}
BoxedLabels  == {"deps", "temp", "copy", "seal"} \cup SealedLabels
WorkLabels   == {"work", "tidy"} \cup BoxedLabels
ApplyLabels  == {"runs", "droprun", "entries", "tear", "empty", "rmdir", "sandboxes", "leave"}

(* Collection and registration exclude one another.                        *)
Leasing ==
    /\ \A e \in Executors : pc[e] \in LeaseLabels => e \in reading
    /\ cpc \in ApplyLabels => collecting = {Collector}
    /\ reading = {} \/ collecting = {}

(* What an executor and a collector know of a run before they act on it.   *)
Registration ==
    /\ \A e \in Executors :
          /\ Live(e) => mine[e] \in Runs
          /\ pc[e] \in {"out", "create"} => run[e] = "none"
          /\ pc[e] \in {"create", "write"} => mine[e] = e
          /\ pc[e] = "lock" => run[mine[e]] = "whole"
    /\ LiveRunKept
    /\ cpc = "droprun" => /\ hand[1] \in Runs
                          /\ \A e \in Executors : Registered(e) => mine[e] # hand[1]

(* Activities and the labels at which an executor is at work on them.      *)
Activities ==
    \A e \in Executors :
        /\ \A k \in Keys :
              /\ job[e][k] # "unseen" => pc[e] \in WorkLabels \cup {"verify"} /\ k \in Mine(e)
              /\ job[e][k] = "boxed" => pc[e] \in WorkLabels
        /\ pc[e] \in BoxedLabels => cur[e] \in Keys /\ job[e][cur[e]] = "boxed"
        /\ pc[e] = "tidy" => cur[e] \in Keys /\ job[e][cur[e]] \in {"good", "failed"}

(* Directories under a key are an old one or one that its executor is done *)
(* with; so is what an executor has open to empty it.                      *)
Published(e, k) == pc[e] \in {"done", "dead"} \/ job[e][k] = "good"
Belongs(d, k) == d = k \/ \E e \in Executors : d = <<e, k>> /\ Published(e, k)

Directories ==
    /\ \A k \in Keys : at[k] # None => Belongs(at[k], k)
    /\ \A t \in Temps : at[t] \in {t, None}
    /\ \A e \in Executors :
          /\ pc[e] \in {"tear", "empty"} => Belongs(victim[e], cur[e])
          /\ pc[e] \in {"tear", "empty", "rmdir"} => cur[e] \in rebuilt

(* The fresh survey stays true while the entries are removed by it.        *)
Surveyed ==
    /\ cpc \in {"entries", "tear", "empty", "rmdir"} =>
          reach = Referenced /\ blind = (Unreadable # {})
    /\ cpc \in {"tear", "empty"} => ~blind /\ hand[1] \notin reach
    /\ ~IncludeUnreadable =>
          /\ seen \subseteq Keys /\ planEntries \subseteq Keys
          /\ cpc \in {"tear", "empty", "rmdir"} => hand[1] \in Keys
          /\ cpc \in {"tear", "empty"} => Belongs(hand[2], hand[1])

(* A complete .publish-* directory stays complete until it is renamed, and *)
(* what was counted good stays good.                                       *)
Contents ==
    /\ CountedGood
    /\ \A e \in Executors :
          /\ pc[e] \in SealedLabels \cup {"copy", "seal"} => at[Temp(e)] = Temp(e)
          /\ pc[e] = "seal" => state[Temp(e)] = "partial"
          /\ pc[e] \in SealedLabels => state[Temp(e)] = "whole"

IInv == /\ TypeOK /\ Leasing /\ Registration /\ Activities /\ LiveBoxKept
        /\ Directories /\ Surveyed
        /\ ~IncludeUnreadable => Contents
-----------------------------------------------------------------------------
(* One executor moves; the others and the collector keep what they know.   *)
LEMMA ExecFrame ==
  ASSUME TypeOK, NEW e \in Executors, Execute(e)
  PROVE  /\ \A f \in Executors \ {e} :
               /\ pc'[f] = pc[f] /\ mine'[f] = mine[f] /\ job'[f] = job[f]
               /\ cur'[f] = cur[f] /\ victim'[f] = victim[f]
         /\ UNCHANGED gc
<1> USE DEF TypeOK, Goto, SetJob, Forget, Fail, Succeed, exec, store, gc
<1>1. CASE BeginRun(e) \/ MakeRun(e) \/ WritePlan(e) \/ BeginResume(e)
  BY <1>1 DEF BeginRun, MakeRun, WritePlan, BeginResume
<1>2. CASE TakeLock(e) \/ LeaveLease(e) \/ CachedPass(e) \/ CachedPassEnds(e)
  BY <1>2 DEF TakeLock, LeaveLease, CachedPass, CachedPassEnds
<1>3. CASE MakeBox(e) \/ Materialize(e) \/ WorkEnds(e)
  BY <1>3 DEF MakeBox, Materialize, WorkEnds
<1>4. CASE MakeTemp(e) \/ CopyFiles(e) \/ WriteManifest(e) \/ LookAtTarget(e) \/ CheckTarget(e)
  BY <1>4 DEF MakeTemp, CopyFiles, WriteManifest, LookAtTarget, CheckTarget
<1>5. CASE OpenTarget(e) \/ TearTarget(e) \/ EmptyTarget(e) \/ RemoveTarget(e)
  BY <1>5 DEF OpenTarget, TearTarget, EmptyTarget, RemoveTarget
<1>6. CASE Rename(e) \/ LookAgain(e)
  BY <1>6 DEF Rename, LookAgain
<1>7. CASE Tidy(e) \/ Release(e) \/ Crash(e)
  BY <1>7 DEF Tidy, Release, Crash
<1> QED BY <1>1, <1>2, <1>3, <1>4, <1>5, <1>6, <1>7 DEF Execute, Publish

(* The collector moves; the executors know nothing of it.                  *)
LEMMA CollectFrame ==
  ASSUME Collect
  PROVE  UNCHANGED <<exec, rebuilt>>
BY DEF Collect, SurveyEntries, SurveyRuns, SurveyBoxes, BeginApply, OpenRun, DropRun,
       Resurvey, OpenEntry, TearEntry, EmptyEntry, RemoveEntry, RemovalFails,
       EntriesEnd, RemoveBoxes, EndApply, CrashGC, store, exec, gc
-----------------------------------------------------------------------------
(* A step of an executor: it is in the barrier from before it creates or   *)
(* loads a run until it has its lock.                                      *)
LEMMA ExecLeasing ==
  ASSUME IInv, NEW e \in Executors, Execute(e)
  PROVE  Leasing'
<1> USE DEF IInv, Leasing, LeaseLabels, ApplyLabels, TypeOK, Goto, store, exec, gc, leases
<1>f. /\ \A f \in Executors \ {e} : pc'[f] = pc[f]
      /\ UNCHANGED cpc
  BY ExecFrame
<1>1. CASE BeginRun(e) \/ BeginResume(e)
  <2>1. /\ collecting = {} /\ reading' = reading \cup {e} /\ UNCHANGED collecting
    BY <1>1 DEF BeginRun, BeginResume, Barrier!Enter
  <2> QED BY <2>1, <1>f
<1>2. CASE LeaveLease(e) \/ Crash(e)
  <2>1. /\ reading' = reading \ {e} /\ UNCHANGED collecting
        /\ pc'[e] \in {"verify", "done", "dead"}
    BY <1>2 DEF LeaveLease, Crash, Barrier!Leave
  <2> QED BY <2>1, <1>f
<1>3. CASE ~(BeginRun(e) \/ BeginResume(e) \/ LeaveLease(e) \/ Crash(e))
  <2>1. UNCHANGED <<reading, collecting>> /\ (pc'[e] \in LeaseLabels => pc[e] \in LeaseLabels)
    <3>1. CASE MakeRun(e) \/ WritePlan(e) \/ TakeLock(e)
      BY <3>1 DEF MakeRun, WritePlan, TakeLock
    <3>2. CASE CachedPass(e) \/ CachedPassEnds(e) \/ MakeBox(e) \/ Materialize(e) \/ WorkEnds(e)
      BY <3>2 DEF CachedPass, CachedPassEnds, MakeBox, Materialize, WorkEnds
    <3>3. CASE MakeTemp(e) \/ CopyFiles(e) \/ WriteManifest(e) \/ LookAtTarget(e)
               \/ CheckTarget(e) \/ OpenTarget(e)
      BY <3>3 DEF MakeTemp, CopyFiles, WriteManifest, LookAtTarget, CheckTarget,
                  OpenTarget, Fail, Succeed
    <3>4. CASE TearTarget(e) \/ EmptyTarget(e) \/ RemoveTarget(e) \/ Rename(e) \/ LookAgain(e)
      BY <3>4 DEF TearTarget, EmptyTarget, RemoveTarget, Rename, LookAgain, Fail, Succeed
    <3>5. CASE Tidy(e) \/ Release(e)
      BY <3>5 DEF Tidy, Release
    <3> QED BY <1>3, <3>1, <3>2, <3>3, <3>4, <3>5 DEF Execute, Publish
  <2> QED BY <2>1, <1>f
<1> QED BY <1>1, <1>2, <1>3

(* A step of the collector: it applies a plan inside the barrier only.     *)
LEMMA CollectLeasing ==
  ASSUME IInv, Collect
  PROVE  Leasing'
<1> USE DEF IInv, Leasing, ApplyLabels, GoGC, store, exec, leases
<1>f. UNCHANGED pc
  BY CollectFrame
<1>1. CASE BeginApply
  BY <1>f, <1>1 DEF BeginApply, Barrier!Begin
<1>2. CASE EndApply \/ CrashGC
  BY <1>f, <1>2 DEF EndApply, CrashGC, Barrier!End, TypeOK
<1>3. CASE ~(BeginApply \/ EndApply \/ CrashGC)
  <2>1. UNCHANGED <<reading, collecting>> /\ (cpc' \in ApplyLabels => cpc \in ApplyLabels)
    BY <1>3 DEF Collect, SurveyEntries, SurveyRuns, SurveyBoxes, OpenRun, DropRun,
       Resurvey, OpenEntry, TearEntry, EmptyEntry, RemoveEntry, RemovalFails,
       EntriesEnd, RemoveBoxes
  <2> QED BY <1>f, <2>1
<1> QED BY <1>1, <1>2, <1>3
-----------------------------------------------------------------------------
(* While a plan is being applied no run is being registered.               *)
LEMMA Frozen ==
  ASSUME IInv, cpc \in ApplyLabels
  PROVE  \A e \in Executors : pc[e] \notin LeaseLabels
BY DEF IInv, Leasing

(* A run that is executed is protected.                                    *)
LEMMA RegisteredProtected ==
  ASSUME IInv, NEW e \in Executors, Registered(e)
  PROVE  mine[e] \in Runs /\ Protected(mine[e]) /\ lock[mine[e]] = e
BY DisjointAssumption
   DEF IInv, Registration, LiveRunKept, Registered, Live, Protected, Dead

(* Between its first and its last activity an executor leaves all runs,    *)
(* their locks and the leases alone.                                       *)
Busy(e) == \/ CachedPass(e) \/ CachedPassEnds(e) \/ MakeBox(e) \/ Materialize(e)
           \/ WorkEnds(e) \/ Publish(e) \/ Tidy(e)

(* Such a step begins and ends at work.                                    *)
LEMMA BusyFrame ==
  ASSUME TypeOK, NEW e \in Executors, Busy(e)
  PROVE  /\ pc[e] \in WorkLabels \cup {"verify"}
         /\ pc'[e] \in WorkLabels \cup {"verify"}
         /\ UNCHANGED <<run, lock, mine>>
<1> USE DEF TypeOK, Goto, store, WorkLabels, BoxedLabels, SealedLabels
<1>1. CASE CachedPass(e) \/ CachedPassEnds(e) \/ MakeBox(e) \/ Materialize(e) \/ WorkEnds(e)
  BY <1>1 DEF CachedPass, CachedPassEnds, MakeBox, Materialize, WorkEnds
<1>2. CASE MakeTemp(e) \/ CopyFiles(e) \/ WriteManifest(e) \/ LookAtTarget(e)
           \/ CheckTarget(e) \/ OpenTarget(e)
  BY <1>2 DEF MakeTemp, CopyFiles, WriteManifest, LookAtTarget, CheckTarget,
              OpenTarget, Fail, Succeed
<1>3. CASE TearTarget(e) \/ EmptyTarget(e) \/ RemoveTarget(e) \/ Rename(e) \/ LookAgain(e)
  BY <1>3 DEF TearTarget, EmptyTarget, RemoveTarget, Rename, LookAgain, Fail, Succeed
<1>4. CASE Tidy(e) BY <1>4 DEF Tidy
<1> QED BY <1>1, <1>2, <1>3, <1>4 DEF Busy, Publish

(* A step of an executor keeps what is known of runs: a lock is taken only *)
(* from the dead, and not while a run is being removed.                    *)
LEMMA ExecRegistration ==
  ASSUME IInv, NEW e \in Executors, Execute(e)
  PROVE  Registration'
<1> USE DEF Registration, LiveRunKept, Registered, Live, Goto
<1>t. Registration /\ TypeOK
  BY DEF IInv
<1>p. /\ pc \in [Executors -> ExecLabels] /\ mine \in [Executors -> Runs \cup {None}]
      /\ run \in [Runs -> RunStates] /\ DOMAIN lock = Runs
  BY <1>t DEF TypeOK
<1>f. /\ \A f \in Executors \ {e} : pc'[f] = pc[f] /\ mine'[f] = mine[f]
      /\ cpc' = cpc /\ hand' = hand
  BY <1>t, ExecFrame DEF gc, gcwork
<1>r. Executors \subseteq Runs
  BY DEF Runs
<1>1. CASE BeginRun(e)
  BY <1>1, <1>t, <1>p, <1>f, <1>r DEF BeginRun, store
<1>2. CASE MakeRun(e)
  BY <1>2, <1>t, <1>p, <1>f, <1>r DEF MakeRun
<1>3. CASE WritePlan(e)
  <2>1. run' = [run EXCEPT ![e] = "whole"] /\ lock' = lock /\ mine' = mine
        /\ pc[e] = "write" /\ pc' = [pc EXCEPT ![e] = "lock"] /\ mine[e] = e
    BY <1>3, <1>t DEF WritePlan
  <2> QED BY <2>1, <1>t, <1>p, <1>f, <1>r
<1>4. CASE BeginResume(e)
  <2>1. /\ run' = run /\ lock' = lock
        /\ mine'[e] \in Runs /\ pc'[e] \in {"lock", "giveup"}
        /\ pc'[e] = "lock" => run[mine'[e]] = "whole"
    BY <1>4, <1>p DEF BeginResume, store
  <2> QED BY <2>1, <1>t, <1>p, <1>f, <1>r
<1>5. CASE TakeLock(e)
  <2>1. CASE Protected(mine[e])
    BY <1>5, <2>1, <1>t, <1>p, <1>f DEF TakeLock
  <2>2. CASE ~Protected(mine[e])
    <3>1. /\ pc[e] = "lock" /\ pc' = [pc EXCEPT ![e] = "leave"]
          /\ lock' = [lock EXCEPT ![mine[e]] = e] /\ run' = run /\ mine' = mine
      BY <1>5, <2>2 DEF TakeLock
    <3>2. \A f \in Executors : Registered(f) => mine[f] # mine[e]
      BY <2>2, RegisteredProtected
    <3>3. cpc # "droprun"
      BY <3>1, Frozen DEF ApplyLabels, LeaseLabels
    <3> QED BY <3>1, <3>2, <3>3, <1>t, <1>p, <1>f
  <2> QED BY <2>1, <2>2
<1>6. CASE LeaveLease(e)
  BY <1>6, <1>t, <1>p, <1>f DEF LeaveLease, store
<1>7. CASE Busy(e)
  <2>1. /\ pc[e] \notin {"out", "done", "dead", "create", "write", "lock", "giveup"}
        /\ pc'[e] \notin {"out", "done", "dead", "create", "write", "lock", "giveup"}
        /\ run' = run /\ lock' = lock /\ mine' = mine
    BY <1>7, <1>t, BusyFrame DEF WorkLabels, BoxedLabels, SealedLabels
  <2> QED BY <2>1, <1>t, <1>p, <1>f
<1>8. CASE Release(e)
  <2>1. /\ pc[e] = "work" /\ pc'[e] = "done" /\ run' = run
        /\ lock' = [lock EXCEPT ![mine[e]] = "none"]
    BY <1>8, <1>p DEF Release, Idle
  <2>2. \A f \in Executors \ {e} : Registered(f) => mine[f] # mine[e]
    BY <1>t, <2>1, DisjointAssumption
  <2> QED BY <2>1, <2>2, <1>t, <1>p, <1>f
<1>9. CASE Crash(e)
  <2>1. /\ pc'[e] = "dead" /\ run' = run
        /\ \/ lock' = lock
           \/ /\ lock' = [lock EXCEPT ![mine[e]] = "bare"]
              /\ \/ pc[e] = "lock" /\ ~Protected(mine[e])
                 \/ pc[e] = "work"
    BY <1>9, <1>p DEF Crash, Idle
  <2>2. pc[e] = "work" \/ ~Protected(mine[e]) =>
           \A f \in Executors \ {e} : Registered(f) => mine[f] # mine[e]
    BY RegisteredProtected
  <2> QED BY <2>1, <2>2, <1>t, <1>p, <1>f
<1> QED BY <1>1, <1>2, <1>3, <1>4, <1>5, <1>6, <1>7, <1>8, <1>9 DEF Execute, Busy

(* A step of the collector: the run it opens is nobody's.                  *)
LEMMA CollectRegistration ==
  ASSUME IInv, Collect
  PROVE  Registration'
<1> USE DEF Registration, LiveRunKept, Registered, Live, GoGC
<1>t. Registration /\ TypeOK
  BY DEF IInv
<1>p. /\ pc \in [Executors -> ExecLabels] /\ mine \in [Executors -> Runs \cup {None}]
      /\ run \in [Runs -> RunStates] /\ DOMAIN lock = Runs
      /\ planRuns \subseteq Runs
  BY <1>t DEF TypeOK
<1>f. pc' = pc /\ mine' = mine
  BY CollectFrame DEF exec
<1>1. CASE OpenRun
  <2>0. cpc = "runs"
    BY <1>1 DEF OpenRun
  <2>1. \A e \in Executors : pc[e] \notin LeaseLabels
    BY <2>0, Frozen DEF ApplyLabels
  <2>2. PICK i \in planRuns :
           IF run[i] = "none" \/ Protected(i)
           THEN UNCHANGED <<cpc, run, lock, hand>>
           ELSE /\ run' \in {run, [run EXCEPT ![i] = "torn"]}
                /\ hand' = <<i, None>>
                /\ \E l \in {lock[i], "bare", "none"} : lock' = [lock EXCEPT ![i] = l]
    BY <1>1 DEF OpenRun
  <2>3. CASE run[i] = "none" \/ Protected(i)
    BY <1>t, <1>p, <1>f, <2>0, <2>2, <2>3
  <2>4. CASE ~(run[i] = "none" \/ Protected(i))
    <3>1. \A e \in Executors : Registered(e) => mine[e] # i
      BY <2>4, RegisteredProtected
    <3>2. i \in Runs /\ hand'[1] = i
      BY <1>p, <2>2, <2>4
    <3>3. \A j \in Runs \ {i} : run'[j] = run[j] /\ lock'[j] = lock[j]
      BY <1>p, <2>2, <2>4
    <3>4. run[i] # "none" /\ run'[i] \in {run[i], "torn"}
      BY <1>p, <2>2, <2>4
    <3> QED BY <1>t, <1>p, <1>f, <2>1, <3>1, <3>2, <3>3, <3>4 DEF LeaseLabels, Runs
  <2> QED BY <2>3, <2>4
<1>2. CASE DropRun
  <2>1. cpc = "droprun" /\ cpc' = "runs"
    BY <1>p, <1>2 DEF DropRun
  <2>2. \A e \in Executors : pc[e] \notin LeaseLabels
    BY <2>1, Frozen DEF ApplyLabels
  <2>3. \A j \in Runs \ {hand[1]} : run'[j] = run[j] /\ lock'[j] = lock[j]
    BY <1>p, <1>2 DEF DropRun
  <2>4. run' = run \/ run'[hand[1]] = "none"
    BY <1>p, <1>t, <1>2, <2>1 DEF DropRun
  <2> QED BY <1>t, <1>p, <1>f, <2>1, <2>2, <2>3, <2>4 DEF LeaseLabels, Runs
<1>3. CASE ~(OpenRun \/ DropRun)
  <2>1. run' = run /\ lock' = lock /\ cpc' # "droprun"
    BY <1>3 DEF Collect, SurveyEntries, SurveyRuns, SurveyBoxes, BeginApply, Resurvey,
       OpenEntry, TearEntry, EmptyEntry, RemoveEntry, RemovalFails, EntriesEnd,
       RemoveBoxes, EndApply, CrashGC, store
  <2> QED BY <1>t, <1>p, <1>f, <2>1
<1> QED BY <1>1, <1>2, <1>3
-----------------------------------------------------------------------------
(* Who is at work on an activity is registered.                            *)
LEMMA WorkingRegistered ==
  ASSUME NEW e \in Executors, pc[e] \in WorkLabels \cup {"verify"}
  PROVE  Registered(e) /\ Live(e)
BY DEF WorkLabels, BoxedLabels, SealedLabels, Registered, Live

(* A step of an executor: only the activity at hand changes, and its       *)
(* sandbox goes after it has ended.                                        *)
LEMMA ExecActivities ==
  ASSUME IInv, NEW e \in Executors, Execute(e)
  PROVE  Activities' /\ LiveBoxKept'
<1> USE DEF Activities, LiveBoxKept, Mine, WorkLabels, BoxedLabels, SealedLabels, Goto, SetJob
<1>t. TypeOK /\ Activities /\ LiveBoxKept
  BY DEF IInv
<1>p. /\ pc \in [Executors -> ExecLabels] /\ mine \in [Executors -> Runs \cup {None}]
      /\ job \in [Executors -> [Keys -> JobStates]]
      /\ cur \in [Executors -> Keys \cup {None}]
  BY <1>t DEF TypeOK
<1>f. \A f \in Executors \ {e} : /\ pc'[f] = pc[f] /\ mine'[f] = mine[f]
                                 /\ job'[f] = job[f] /\ cur'[f] = cur[f]
  BY <1>t, ExecFrame
<1>o. ASSUME \A f \in Executors \ {e} : \A k \in Keys : <<f, k>> \in boxes => <<f, k>> \in boxes',
             \A k \in Keys :
                /\ job'[e][k] # "unseen" =>
                      pc'[e] \in WorkLabels \cup {"verify"} /\ k \in Plan[mine'[e]]
                /\ job'[e][k] = "boxed" => pc'[e] \in WorkLabels /\ <<e, k>> \in boxes',
             pc'[e] \in BoxedLabels => cur'[e] \in Keys /\ job'[e][cur'[e]] = "boxed",
             pc'[e] = "tidy" => cur'[e] \in Keys /\ job'[e][cur'[e]] \in {"good", "failed"}
      PROVE  Activities' /\ LiveBoxKept'
  <2> HIDE DEF WorkLabels, BoxedLabels
  <2>1. ASSUME NEW f \in Executors
        PROVE  /\ \A k \in Keys :
                     /\ job'[f][k] # "unseen" =>
                           pc'[f] \in WorkLabels \cup {"verify"} /\ k \in Plan[mine'[f]]
                     /\ job'[f][k] = "boxed" => pc'[f] \in WorkLabels /\ <<f, k>> \in boxes'
               /\ pc'[f] \in BoxedLabels => cur'[f] \in Keys /\ job'[f][cur'[f]] = "boxed"
               /\ pc'[f] = "tidy" => cur'[f] \in Keys /\ job'[f][cur'[f]] \in {"good", "failed"}
    <3>1. CASE f = e BY <1>o, <3>1
    <3>2. CASE f # e BY <1>t, <1>f, <1>o, <3>2
    <3> QED BY <3>1, <3>2
  <2>2. Activities' BY <2>1
  <2>3. LiveBoxKept' BY <2>1
  <2> QED BY <2>2, <2>3
<1>1. CASE BeginRun(e) \/ MakeRun(e) \/ WritePlan(e) \/ BeginResume(e)
           \/ TakeLock(e) \/ LeaveLease(e)
  <2>1. /\ pc[e] \in {"out", "create", "write", "lock", "leave", "giveup"}
        /\ pc'[e] \in {"create", "write", "lock", "leave", "giveup", "verify", "done"}
        /\ job' = job /\ cur' = cur /\ boxes' = boxes
    BY <1>1, <1>p DEF BeginRun, MakeRun, WritePlan, BeginResume, TakeLock, LeaveLease, store
  <2>2. \A k \in Keys : job[e][k] = "unseen"
    BY <1>t, <2>1
  <2> QED BY <1>o, <2>1, <2>2
<1>2. CASE CachedPass(e) \/ CachedPassEnds(e) \/ MakeBox(e)
  <2>1. CASE CachedPass(e)
    BY <1>t, <1>p, <1>o, <2>1 DEF CachedPass, store
  <2>2. CASE CachedPassEnds(e)
    BY <1>t, <1>p, <1>o, <2>2 DEF CachedPassEnds, store
  <2>3. CASE MakeBox(e)
    <3>1. PICK k \in Mine(e) : /\ job[e][k] = "todo"
                               /\ job' = [job EXCEPT ![e][k] = "boxed"]
                               /\ boxes' = boxes \cup {<<e, k>>}
                               /\ cur' = [cur EXCEPT ![e] = k]
      BY <2>3 DEF MakeBox
    <3>2. k \in Keys /\ mine' = mine /\ pc[e] = "work" /\ pc' = [pc EXCEPT ![e] = "deps"]
      BY <2>3, <1>t, WorkingRegistered, PlanAssumption DEF MakeBox, IInv, Registration
    <3> QED BY <1>t, <1>p, <1>o, <3>1, <3>2
  <2> QED BY <1>2, <2>1, <2>2, <2>3
<1>3. CASE Materialize(e) \/ WorkEnds(e)
  <2>1. CASE Materialize(e)
    BY <1>t, <1>p, <1>o, <2>1 DEF Materialize, store
  <2>2. CASE WorkEnds(e)
    <3>1. PICK k \in Mine(e) :
             /\ job[e][k] = "boxed" /\ cur' = [cur EXCEPT ![e] = k]
             /\ \/ pc' = [pc EXCEPT ![e] = "temp"] /\ job' = job
                \/ pc' = [pc EXCEPT ![e] = "tidy"] /\ job' = [job EXCEPT ![e][k] = "failed"]
      BY <2>2 DEF WorkEnds
    <3>2. k \in Keys /\ mine' = mine /\ pc[e] = "work" /\ boxes' = boxes
      BY <2>2, <1>t, WorkingRegistered, PlanAssumption DEF WorkEnds, IInv, Registration, store
    <3> QED BY <1>t, <1>p, <1>o, <3>1, <3>2
  <2> QED BY <1>3, <2>1, <2>2
<1>4. CASE Publish(e)
  <2>1. /\ pc[e] \in BoxedLabels /\ mine' = mine /\ cur' = cur /\ boxes' = boxes
        /\ \/ pc'[e] \in BoxedLabels /\ job' = job
           \/ pc'[e] = "tidy" /\ \E s \in {"good", "failed"} : job' = [job EXCEPT ![e][cur[e]] = s]
    <3>1. CASE MakeTemp(e) \/ CopyFiles(e) \/ WriteManifest(e) \/ LookAtTarget(e)
               \/ CheckTarget(e) \/ OpenTarget(e)
      BY <3>1, <1>p DEF MakeTemp, CopyFiles, WriteManifest, LookAtTarget, CheckTarget,
                  OpenTarget, Fail, Succeed, store
    <3>2. CASE TearTarget(e) \/ EmptyTarget(e) \/ RemoveTarget(e) \/ Rename(e) \/ LookAgain(e)
      BY <3>2, <1>p DEF TearTarget, EmptyTarget, RemoveTarget, Rename, LookAgain, Fail,
                  Succeed, store
    <3> QED BY <1>4, <3>1, <3>2 DEF Publish
  <2>2. CASE pc'[e] \in BoxedLabels /\ job' = job
    BY <1>t, <1>o, <2>1, <2>2
  <2>3. CASE pc'[e] = "tidy" /\ \E s \in {"good", "failed"} : job' = [job EXCEPT ![e][cur[e]] = s]
    BY <1>t, <1>p, <1>o, <2>1, <2>3
  <2> QED BY <2>1, <2>2, <2>3
<1>5. CASE Tidy(e)
  <2>1. /\ pc[e] = "tidy" /\ pc'[e] = "work" /\ job' = job /\ mine' = mine
        /\ boxes' = boxes \ {<<e, cur[e]>>}
    BY <1>5, <1>p DEF Tidy, Temp
  <2> QED BY <1>t, <1>o, <2>1
<1>6. CASE Release(e) \/ Crash(e)
  <2>1. /\ pc'[e] \in {"done", "dead"} /\ boxes' = boxes
        /\ job' = [job EXCEPT ![e] = [k \in Keys |-> "unseen"]]
    BY <1>6, <1>p DEF Release, Crash, Forget
  <2> QED BY <1>o, <1>p, <2>1
<1> QED BY <1>1, <1>2, <1>3, <1>4, <1>5, <1>6 DEF Execute

(* A step of the collector: who has a sandbox has a lock, so sandboxes     *)
(* stay.                                                                   *)
LEMMA CollectActivities ==
  ASSUME IInv, Collect
  PROVE  Activities' /\ LiveBoxKept'
<1>f. UNCHANGED exec
  BY CollectFrame
<1>t. TypeOK /\ Activities /\ LiveBoxKept
  BY DEF IInv
<1>1. Activities'
  BY <1>t, <1>f DEF exec, Activities, Mine
<1>2. \A e \in Executors, k \in Keys : job[e][k] = "boxed" => boxes' = boxes
  <2>1. CASE RemoveBoxes
    <3> SUFFICES ASSUME NEW e \in Executors, NEW k \in Keys, job[e][k] = "boxed"
                 PROVE  boxes' = boxes
      OBVIOUS
    <3>1. pc[e] \in WorkLabels
      BY <1>t DEF Activities
    <3>2. \E i \in Runs : Protected(i)
      BY <3>1, WorkingRegistered, RegisteredProtected
    <3> QED BY <2>1, <3>2 DEF RemoveBoxes
  <2>2. CASE ~RemoveBoxes
    BY <2>2 DEF Collect, SurveyEntries, SurveyRuns, SurveyBoxes, BeginApply, OpenRun,
       DropRun, Resurvey, OpenEntry, TearEntry, EmptyEntry, RemoveEntry, RemovalFails,
       EntriesEnd, EndApply, CrashGC, store
  <2> QED BY <2>1, <2>2
<1> QED BY <1>t, <1>f, <1>1, <1>2 DEF LiveBoxKept, exec
-----------------------------------------------------------------------------
(* The five kinds of facts in TypeOK.                                      *)
StoreTypes == /\ run \in [Runs -> RunStates]
              /\ lock \in [Runs -> Executors \cup {"none", "bare"}]
              /\ state \in [Names -> DirStates]
              /\ boxes \subseteq Temps
              /\ rebuilt \subseteq Keys
LeaseTypes == reading \subseteq Executors /\ collecting \subseteq {Collector}
NameTypes  == /\ at \in [Names -> Names \cup {None}]
              /\ \A m, n \in Names : at[m] = at[n] /\ at[m] # None => m = n
ExecTypes  == /\ pc \in [Executors -> ExecLabels]
              /\ mine \in [Executors -> Runs \cup {None}]
              /\ job \in [Executors -> [Keys -> JobStates]]
              /\ cur \in [Executors -> Keys \cup {None}]
              /\ victim \in [Executors -> Names \cup {None}]
GCTypes    == /\ cpc \in GCLabels
              /\ seen \subseteq Names /\ planRuns \subseteq Runs
              /\ planEntries \subseteq Names /\ planBoxes \subseteq Temps
              /\ reach \subseteq Keys /\ blind \in BOOLEAN
              /\ hand \in (Runs \cup Names \cup {None}) \X (Names \cup {None})
LockTypes  == \A i \in Runs : run[i] = "none" => lock[i] = "none"

(* TypeOK is its parts, now and after a step.                              *)
LEMMA TypeParts ==
  /\ TypeOK <=> StoreTypes /\ LeaseTypes /\ NameTypes /\ ExecTypes /\ GCTypes /\ LockTypes
  /\ TypeOK' <=> StoreTypes' /\ LeaseTypes' /\ NameTypes' /\ ExecTypes' /\ GCTypes' /\ LockTypes'
BY DEF TypeOK, StoreTypes, LeaseTypes, NameTypes, ExecTypes, GCTypes, LockTypes

(* Who publishes has an activity at hand that is not published yet.        *)
LEMMA AtHand ==
  ASSUME IInv, NEW e \in Executors, pc[e] \in BoxedLabels \cup {"tidy"}
  PROVE  /\ cur[e] \in Keys /\ Temp(e) \in Temps /\ Temp(e) \in Names /\ cur[e] \in Names
         /\ pc[e] # "tidy" => job[e][cur[e]] = "boxed"
BY DEF IInv, Activities, Temp, Temps, Names

(* An executor's own variables keep their types.                           *)
LEMMA ExecExecTypes ==
  ASSUME IInv, NEW e \in Executors, Execute(e)
  PROVE  ExecTypes' /\ rebuilt' \subseteq Keys
<1> USE DEF ExecTypes, Goto, SetJob, Forget, Fail, Succeed
<1>t. ExecTypes /\ rebuilt \subseteq Keys /\ NameTypes
  BY DEF IInv, TypeOK, NameTypes
<1>m. pc[e] \in WorkLabels \cup {"verify"} => Mine(e) \subseteq Keys
  BY WorkingRegistered, PlanAssumption DEF IInv, Registration, Mine
<1>j. \A k \in Keys, l \in JobStates :
         [job EXCEPT ![e][k] = l] \in [Executors -> [Keys -> JobStates]]
  BY <1>t
<1>g. \A l \in ExecLabels : [pc EXCEPT ![e] = l] \in [Executors -> ExecLabels]
  BY <1>t
<1>c. \A k \in Keys : [cur EXCEPT ![e] = k] \in [Executors -> Keys \cup {None}]
  BY <1>t
<1>n. /\ [cur EXCEPT ![e] = None] \in [Executors -> Keys \cup {None}]
      /\ [victim EXCEPT ![e] = None] \in [Executors -> Names \cup {None}]
  BY <1>t
<1>l. /\ "out" \in ExecLabels /\ "create" \in ExecLabels /\ "write" \in ExecLabels
      /\ "lock" \in ExecLabels /\ "leave" \in ExecLabels /\ "giveup" \in ExecLabels
      /\ "verify" \in ExecLabels /\ "work" \in ExecLabels /\ "deps" \in ExecLabels
      /\ "temp" \in ExecLabels /\ "copy" \in ExecLabels /\ "seal" \in ExecLabels
      /\ "exists" \in ExecLabels /\ "check" \in ExecLabels /\ "open" \in ExecLabels
      /\ "tear" \in ExecLabels /\ "empty" \in ExecLabels /\ "rmdir" \in ExecLabels
      /\ "rename" \in ExecLabels /\ "again" \in ExecLabels /\ "tidy" \in ExecLabels
      /\ "done" \in ExecLabels /\ "dead" \in ExecLabels
  BY DEF ExecLabels
<1>s. /\ "unseen" \in JobStates /\ "todo" \in JobStates /\ "boxed" \in JobStates
      /\ "good" \in JobStates /\ "failed" \in JobStates
  BY DEF JobStates
<1>1. mine' \in [Executors -> Runs \cup {None}]
  <2>1. mine' = mine \/ \E i \in Runs \cup {None} : mine' = [mine EXCEPT ![e] = i]
    <3>1. CASE BeginRun(e) \/ BeginResume(e)
      BY <3>1 DEF BeginRun, BeginResume, Runs
    <3>2. CASE Release(e) \/ Crash(e)
      BY <3>2 DEF Release, Crash
    <3>3. CASE MakeRun(e) \/ WritePlan(e) \/ TakeLock(e) \/ LeaveLease(e)
      BY <3>3 DEF MakeRun, WritePlan, TakeLock, LeaveLease
    <3>4. CASE Busy(e)
      BY <3>4, BusyFrame DEF IInv
    <3> QED BY <3>1, <3>2, <3>3, <3>4 DEF Execute, Busy
  <2> QED BY <1>t, <2>1
<1>2. pc' \in [Executors -> ExecLabels]
  <2>1. CASE BeginRun(e) \/ MakeRun(e) \/ WritePlan(e) \/ BeginResume(e)
    BY <2>1, <1>t, <1>g, <1>l DEF BeginRun, MakeRun, WritePlan, BeginResume
  <2>2. CASE TakeLock(e) \/ LeaveLease(e) \/ CachedPass(e) \/ CachedPassEnds(e)
    BY <2>2, <1>t, <1>g, <1>l DEF TakeLock, LeaveLease, CachedPass, CachedPassEnds
  <2>3. CASE MakeBox(e) \/ Materialize(e) \/ WorkEnds(e)
    BY <2>3, <1>t, <1>g, <1>l DEF MakeBox, Materialize, WorkEnds
  <2>4. CASE MakeTemp(e) \/ CopyFiles(e) \/ WriteManifest(e) \/ LookAtTarget(e)
    BY <2>4, <1>t, <1>g, <1>l DEF MakeTemp, CopyFiles, WriteManifest, LookAtTarget
  <2>5. CASE CheckTarget(e) \/ OpenTarget(e) \/ TearTarget(e) \/ EmptyTarget(e)
    BY <2>5, <1>t, <1>g, <1>l DEF CheckTarget, OpenTarget, TearTarget, EmptyTarget
  <2>6. CASE RemoveTarget(e) \/ Rename(e) \/ LookAgain(e)
    BY <2>6, <1>t, <1>g, <1>l DEF RemoveTarget, Rename, LookAgain
  <2>7. CASE Tidy(e) \/ Release(e) \/ Crash(e)
    BY <2>7, <1>t, <1>g, <1>l DEF Tidy, Release, Crash
  <2> QED BY <2>1, <2>2, <2>3, <2>4, <2>5, <2>6, <2>7 DEF Execute, Publish
<1>k. Materialize(e) \/ Publish(e) => cur[e] \in Keys /\ cur[e] \in Names
  <2>1. Materialize(e) \/ Publish(e) => pc[e] \in BoxedLabels
    BY DEF Materialize, Publish, MakeTemp, CopyFiles, WriteManifest, LookAtTarget,
       CheckTarget, OpenTarget, TearTarget, EmptyTarget, RemoveTarget, Rename, LookAgain,
       BoxedLabels, SealedLabels
  <2> QED BY <2>1, AtHand
<1>M. MakeBox(e) \/ WorkEnds(e) \/ CachedPass(e) => Mine(e) \subseteq Keys
  BY <1>m DEF MakeBox, WorkEnds, CachedPass, WorkLabels
<1>3. cur' \in [Executors -> Keys \cup {None}]
  <2>1. CASE BeginRun(e) \/ MakeRun(e) \/ WritePlan(e) \/ BeginResume(e) \/ TakeLock(e)
             \/ LeaveLease(e) \/ CachedPass(e) \/ CachedPassEnds(e)
    BY <2>1, <1>t DEF BeginRun, MakeRun, WritePlan, BeginResume, TakeLock, LeaveLease,
       CachedPass, CachedPassEnds
  <2>2. CASE MakeBox(e) \/ WorkEnds(e)
    BY <2>2, <1>M, <1>t, <1>c DEF MakeBox, WorkEnds
  <2>3. CASE Materialize(e) \/ Tidy(e) \/ Release(e) \/ Crash(e)
    BY <2>3, <1>t, <1>n DEF Materialize, Tidy, Release, Crash
  <2>4. CASE Publish(e)
    BY <2>4, <1>t DEF Publish, MakeTemp, CopyFiles, WriteManifest, LookAtTarget,
       CheckTarget, OpenTarget, TearTarget, EmptyTarget, RemoveTarget, Rename, LookAgain
  <2> QED BY <2>1, <2>2, <2>3, <2>4 DEF Execute
<1>4. job' \in [Executors -> [Keys -> JobStates]]
  <2>1. CASE BeginRun(e) \/ MakeRun(e) \/ WritePlan(e) \/ BeginResume(e) \/ TakeLock(e)
             \/ LeaveLease(e) \/ CachedPassEnds(e) \/ Tidy(e)
    BY <2>1, <1>t DEF BeginRun, MakeRun, WritePlan, BeginResume, TakeLock, LeaveLease,
       CachedPassEnds, Tidy
  <2>2. CASE CachedPass(e)
    <3>1. PICK k \in Mine(e) : job' = [job EXCEPT ![e][k] = IF Valid(k) THEN "good" ELSE "todo"]
      BY <2>2 DEF CachedPass
    <3>2. (IF Valid(k) THEN "good" ELSE "todo") \in JobStates
      BY <1>s
    <3> QED BY <2>2, <3>1, <3>2, <1>M, <1>j
  <2>3. CASE MakeBox(e)
    <3>1. PICK k \in Mine(e) : job' = [job EXCEPT ![e][k] = "boxed"]
      BY <2>3 DEF MakeBox
    <3> QED BY <2>3, <3>1, <1>M, <1>j, <1>s
  <2>4. CASE WorkEnds(e)
    <3>1. PICK k \in Mine(e) : job' = job \/ job' = [job EXCEPT ![e][k] = "failed"]
      BY <2>4 DEF WorkEnds
    <3>2. [job EXCEPT ![e][k] = "failed"] \in [Executors -> [Keys -> JobStates]]
      BY <2>4, <1>M, <1>j, <1>s
    <3> QED BY <3>1, <3>2, <1>t
  <2>6. CASE Materialize(e) \/ Publish(e)
    <3>1. \/ job' = job \/ job' = [job EXCEPT ![e][cur[e]] = "failed"]
          \/ job' = [job EXCEPT ![e][cur[e]] = "good"]
      BY <2>6 DEF Materialize, Publish, MakeTemp, CopyFiles, WriteManifest, LookAtTarget,
         CheckTarget, OpenTarget, TearTarget, EmptyTarget, RemoveTarget, Rename, LookAgain
    <3>2. /\ [job EXCEPT ![e][cur[e]] = "failed"] \in [Executors -> [Keys -> JobStates]]
          /\ [job EXCEPT ![e][cur[e]] = "good"] \in [Executors -> [Keys -> JobStates]]
      BY <2>6, <1>k, <1>j, <1>s
    <3> QED BY <3>1, <3>2, <1>t
  <2>5. CASE Release(e) \/ Crash(e)
    <3>1. job' = [job EXCEPT ![e] = [k \in Keys |-> "unseen"]]
      BY <2>5 DEF Release, Crash
    <3> QED BY <3>1, <1>t, <1>s
  <2> QED BY <2>1, <2>2, <2>3, <2>4, <2>5, <2>6 DEF Execute
<1>5. victim' \in [Executors -> Names \cup {None}] /\ rebuilt' \subseteq Keys
  <2>1. CASE OpenTarget(e)
    <3>1. at[cur[e]] \in Names \cup {None} /\ cur[e] \in Keys
      BY <2>1, <1>k, <1>t DEF NameTypes, Publish
    <3> QED BY <2>1, <3>1, <1>t DEF OpenTarget
  <2>2. CASE TearTarget(e) \/ EmptyTarget(e) \/ Release(e) \/ Crash(e)
    BY <2>2, <1>t, <1>n DEF TearTarget, EmptyTarget, Release, Crash
  <2>3. CASE ~(OpenTarget(e) \/ TearTarget(e) \/ EmptyTarget(e) \/ Release(e) \/ Crash(e))
    <3>1. UNCHANGED <<victim, rebuilt>>
      BY <2>3 DEF Execute, Publish, BeginRun, MakeRun, WritePlan, BeginResume, TakeLock,
         LeaveLease, CachedPass, CachedPassEnds, MakeBox, Materialize, WorkEnds, MakeTemp,
         CopyFiles, WriteManifest, LookAtTarget, CheckTarget, RemoveTarget, Rename,
         LookAgain, Tidy
    <3> QED BY <3>1, <1>t
  <2> QED BY <2>1, <2>2, <2>3
<1> QED BY <1>1, <1>2, <1>3, <1>4, <1>5

(* A .publish-* directory is found under its own name only, until it is    *)
(* renamed by the executor that is done with it.                           *)
LEMMA OwnName ==
  ASSUME IInv, NEW e \in Executors, pc[e] \in BoxedLabels,
         NEW n \in Names, at[n] = Temp(e)
  PROVE  n = Temp(e)
<1>1. cur[e] \in Keys /\ Temp(e) \in Temps /\ job[e][cur[e]] = "boxed" /\ pc[e] \notin {"done", "dead"}
  BY AtHand DEF BoxedLabels, SealedLabels
<1>2. CASE n \in Temps
  <2>1. at[n] \in {n, None} /\ Temp(e) # None
    BY <1>1, <1>2, DisjointAssumption DEF IInv, Directories, Names
  <2> QED BY <2>1
<1>3. CASE n \in Keys
  <2>1. Belongs(Temp(e), n)
    BY <1>1, <1>3, DisjointAssumption DEF IInv, Directories, Names
  <2>2. Temp(e) # n
    BY <1>1, <1>3, DisjointAssumption
  <2>3. ~ \E f \in Executors : Temp(e) = <<f, n>> /\ Published(f, n)
    BY <1>1 DEF Temp, Published
  <2> QED BY <2>1, <2>2, <2>3 DEF Belongs
<1> QED BY <1>2, <1>3 DEF Names

(* No step of an executor gives a directory a second name.                 *)
LEMMA ExecNameTypes ==
  ASSUME IInv, NEW e \in Executors, Execute(e)
  PROVE  NameTypes'
<1> USE DEF NameTypes
<1>t. NameTypes
  BY DEF IInv, TypeOK
<1>1. CASE MakeTemp(e) \/ CopyFiles(e)
  <2>1. Temp(e) \in Names /\ \A n \in Names : at[n] = Temp(e) => n = Temp(e)
    BY <1>1, AtHand, OwnName DEF MakeTemp, CopyFiles, BoxedLabels
  <2>2. at' = at \/ at' = [at EXCEPT ![Temp(e)] = Temp(e)]
    BY <1>1 DEF MakeTemp, CopyFiles
  <2> QED BY <1>t, <2>1, <2>2
<1>2. CASE RemoveTarget(e) \/ Tidy(e)
  <2>1. at' = at \/ \E n \in Names : at' = [at EXCEPT ![n] = None]
    BY <1>2, AtHand DEF RemoveTarget, Tidy, BoxedLabels, SealedLabels
  <2> QED BY <1>t, <2>1
<1>3. CASE Rename(e)
  <2>1. cur[e] \in Names /\ Temp(e) \in Names
    BY <1>3, AtHand DEF Rename, BoxedLabels, SealedLabels
  <2>2. at' = at \/ at' = [at EXCEPT ![cur[e]] = at[Temp(e)], ![Temp(e)] = None]
    BY <1>3 DEF Rename
  <2> QED BY <1>t, <2>1, <2>2
<1>4. CASE ~(MakeTemp(e) \/ CopyFiles(e) \/ RemoveTarget(e) \/ Tidy(e) \/ Rename(e))
  <2>1. at' = at
    BY <1>4 DEF Execute, Publish, BeginRun, MakeRun, WritePlan, BeginResume, TakeLock,
       LeaveLease, CachedPass, CachedPassEnds, MakeBox, Materialize, WorkEnds,
       WriteManifest, LookAtTarget, CheckTarget, OpenTarget, TearTarget, EmptyTarget,
       LookAgain, Release, Crash, store
  <2> QED BY <1>t, <2>1
<1> QED BY <1>1, <1>2, <1>3, <1>4

(* Only executors read, after a step of one of them too.                   *)
LEMMA ExecLeaseTypes ==
  ASSUME IInv, NEW e \in Executors, Execute(e)
  PROVE  LeaseTypes'
<1>t. LeaseTypes
  BY DEF IInv, TypeOK, LeaseTypes
<1>1. CASE BeginRun(e) \/ BeginResume(e) \/ LeaveLease(e) \/ Crash(e)
  BY <1>1, <1>t DEF LeaseTypes, BeginRun, BeginResume, LeaveLease, Crash, Barrier!Enter, Barrier!Leave
<1>2. CASE ~(BeginRun(e) \/ BeginResume(e) \/ LeaveLease(e) \/ Crash(e))
  <2>1. UNCHANGED leases
    BY <1>2 DEF Execute, Publish, MakeRun, WritePlan, TakeLock, CachedPass, CachedPassEnds,
       MakeBox, Materialize, WorkEnds, MakeTemp, CopyFiles, WriteManifest, LookAtTarget,
       CheckTarget, OpenTarget, TearTarget, EmptyTarget, RemoveTarget, Rename, LookAgain,
       Tidy, Release
  <2> QED BY <1>t, <2>1 DEF LeaseTypes, leases
<1> QED BY <1>1, <1>2

(* Runs and locks keep their types, and a run that is not there has no     *)
(* lock.                                                                   *)
LEMMA ExecRunTypes ==
  ASSUME IInv, NEW e \in Executors, Execute(e)
  PROVE  /\ run' \in [Runs -> RunStates]
         /\ lock' \in [Runs -> Executors \cup {"none", "bare"}]
         /\ LockTypes'
<1> USE DEF LockTypes, RunStates
<1>t. TypeOK
  BY DEF IInv
<1>p. /\ run \in [Runs -> RunStates] /\ LockTypes
      /\ lock \in [Runs -> Executors \cup {"none", "bare"}]
  BY <1>t DEF TypeOK
<1>r. e \in Runs
  BY DEF Runs
<1>1. CASE MakeRun(e) \/ WritePlan(e)
  BY <1>1, <1>p, <1>r DEF MakeRun, WritePlan
<1>2. CASE TakeLock(e) \/ Release(e) \/ Crash(e)
  <2>1. \/ lock' = lock
        \/ \E l \in Executors \cup {"none", "bare"} : lock' = [lock EXCEPT ![mine[e]] = l]
    BY <1>2 DEF TakeLock, Release, Crash
  <2>2. run' = run
    BY <1>2 DEF TakeLock, Release, Crash
  <2>3. lock' = lock \/ (mine[e] \in Runs /\ run[mine[e]] = "whole")
    BY <1>2, RegisteredProtected DEF TakeLock, Release, Crash, Idle, IInv, Registration,
       LiveRunKept, Registered, Live
  <2> QED BY <1>p, <2>1, <2>2, <2>3
<1>3. CASE BeginRun(e) \/ BeginResume(e) \/ LeaveLease(e)
  BY <1>3, <1>p DEF BeginRun, BeginResume, LeaveLease, store
<1>4. CASE Busy(e)
  BY <1>4, <1>p, <1>t, BusyFrame
<1> QED BY <1>1, <1>2, <1>3, <1>4 DEF Execute, Busy

(* The contents of directories and the sandboxes keep their types.         *)
LEMMA ExecStateTypes ==
  ASSUME IInv, NEW e \in Executors, Execute(e)
  PROVE  state' \in [Names -> DirStates] /\ boxes' \subseteq Temps
<1>t. state \in [Names -> DirStates] /\ boxes \subseteq Temps
  BY DEF IInv, TypeOK
<1>1. CASE MakeBox(e)
  <2>1. Mine(e) \subseteq Keys
    BY <1>1, WorkingRegistered, PlanAssumption DEF MakeBox, IInv, Registration, Mine, WorkLabels
  <2> QED BY <1>1, <1>t, <2>1 DEF MakeBox, Temps
<1>2. CASE CopyFiles(e) \/ WriteManifest(e) \/ TearTarget(e) \/ EmptyTarget(e) \/ Tidy(e)
  <2>1. state' = state \/ \E d, s : s \in DirStates /\ state' = [state EXCEPT ![d] = s]
    BY <1>2, <1>t DEF CopyFiles, WriteManifest, TearTarget, Tear, EmptyTarget, Tidy, DirStates
  <2>2. boxes' \subseteq boxes
    BY <1>2 DEF CopyFiles, WriteManifest, TearTarget, EmptyTarget, Tidy
  <2> QED BY <1>t, <2>1, <2>2
<1>3. CASE ~(MakeBox(e) \/ CopyFiles(e) \/ WriteManifest(e) \/ TearTarget(e)
             \/ EmptyTarget(e) \/ Tidy(e))
  <2>1. UNCHANGED <<state, boxes>>
    BY <1>3 DEF Execute, Publish, BeginRun, MakeRun, WritePlan, BeginResume, TakeLock,
       LeaveLease, CachedPass, CachedPassEnds, Materialize, WorkEnds, MakeTemp, LookAtTarget,
       CheckTarget, OpenTarget, RemoveTarget, Rename, LookAgain, Release, Crash, store
  <2> QED BY <1>t, <2>1
<1> QED BY <1>1, <1>2, <1>3

(* A step of an executor keeps every type.                                 *)
LEMMA ExecTypeOK ==
  ASSUME IInv, NEW e \in Executors, Execute(e)
  PROVE  TypeOK'
<1>1. StoreTypes'
  BY ExecExecTypes, ExecRunTypes, ExecStateTypes DEF StoreTypes
<1>2. GCTypes'
  BY ExecFrame DEF IInv, TypeOK, GCTypes, gc, gcplan, gcwork
<1> QED BY <1>1, <1>2, ExecExecTypes, ExecNameTypes, ExecLeaseTypes, ExecRunTypes, TypeParts

(* The collector's own variables keep their types.                         *)
LEMMA CollectGCTypes ==
  ASSUME IInv, Collect
  PROVE  GCTypes'
<1> USE DEF GCTypes, GoGC, ForgetGC, gcplan, gcwork
<1>t. GCTypes /\ NameTypes
  BY DEF IInv, TypeOK, NameTypes
<1>r. Referenced \subseteq Keys
  BY PlanAssumption DEF Referenced
<1>l. /\ "survey" \in GCLabels /\ "boxes" \in GCLabels /\ "begin" \in GCLabels
      /\ "runs" \in GCLabels /\ "droprun" \in GCLabels /\ "entries" \in GCLabels
      /\ "tear" \in GCLabels /\ "empty" \in GCLabels /\ "rmdir" \in GCLabels
      /\ "sandboxes" \in GCLabels /\ "leave" \in GCLabels /\ "done" \in GCLabels
      /\ "dead" \in GCLabels
  BY DEF GCLabels
<1>1. CASE SurveyEntries \/ SurveyBoxes \/ BeginApply \/ Resurvey
  BY <1>1, <1>t, <1>l, <1>r DEF SurveyEntries, SurveyBoxes, BeginApply, Resurvey, IInv, TypeOK
<1>2. CASE SurveyRuns
  <2>1. /\ planRuns' \subseteq Runs /\ planEntries' \subseteq seen /\ seen' = {}
        /\ cpc' \in {"begin", "boxes"} /\ UNCHANGED <<planBoxes, gcwork>>
    BY <1>2 DEF SurveyRuns
  <2> QED BY <2>1, <1>t, <1>l
<1>3. CASE OpenRun
  BY <1>3, <1>t, <1>l DEF OpenRun
<1>4. CASE DropRun \/ RemovalFails \/ RemoveEntry
  BY <1>4, <1>t, <1>l DEF DropRun, RemovalFails, RemoveEntry
<1>5. CASE OpenEntry
  BY <1>5, <1>t, <1>l DEF OpenEntry, NameTypes
<1>6. CASE TearEntry \/ EmptyEntry \/ EntriesEnd \/ RemoveBoxes
  BY <1>6, <1>t, <1>l DEF TearEntry, EmptyEntry, EntriesEnd, RemoveBoxes
<1>7. CASE EndApply \/ CrashGC
  <2>1. /\ seen' = {} /\ planRuns' = {} /\ planEntries' = {} /\ planBoxes' = {}
        /\ reach' = {} /\ blind' = FALSE /\ hand' = <<None, None>> /\ cpc' \in {"done", "dead"}
    BY <1>7 DEF EndApply, CrashGC
  <2> QED BY <2>1, <1>l
<1> QED BY <1>1, <1>2, <1>3, <1>4, <1>5, <1>6, <1>7 DEF Collect

(* What the collector removes leaves the store well typed.                 *)
LEMMA CollectStoreTypes ==
  ASSUME IInv, Collect
  PROVE  StoreTypes' /\ LockTypes' /\ NameTypes' /\ LeaseTypes'
<1>t. StoreTypes /\ LockTypes /\ NameTypes /\ LeaseTypes /\ GCTypes
  BY TypeParts DEF IInv
<1>f. rebuilt' = rebuilt
  BY CollectFrame
<1>1. StoreTypes' /\ LockTypes'
  <2> USE DEF StoreTypes, LockTypes, RunStates
  <2>1. CASE OpenRun
    <3>1. PICK i \in planRuns :
             IF run[i] = "none" \/ Protected(i)
             THEN UNCHANGED <<cpc, run, lock, hand>>
             ELSE /\ run' \in {run, [run EXCEPT ![i] = "torn"]}
                  /\ hand' = <<i, None>>
                  /\ \E l \in {lock[i], "bare", "none"} : lock' = [lock EXCEPT ![i] = l]
      BY <2>1 DEF OpenRun
    <3>2. UNCHANGED <<state, boxes>> /\ i \in Runs
      BY <2>1, <1>t DEF OpenRun, GCTypes
    <3>3. CASE run[i] = "none" \/ Protected(i)
      BY <3>1, <3>2, <3>3, <1>t, <1>f
    <3>4. CASE ~(run[i] = "none" \/ Protected(i))
      <4>1. \A l \in {lock[i], "bare", "none"} : l \in Executors \cup {"none", "bare"}
        BY <3>2, <1>t
      <4>2. run' \in [Runs -> RunStates] /\ run'[i] # "none"
        BY <3>1, <3>2, <3>4, <1>t
      <4>3. \A j \in Runs \ {i} : run'[j] = run[j] /\ lock'[j] = lock[j]
        BY <3>1, <3>2, <3>4, <1>t
      <4>4. lock' \in [Runs -> Executors \cup {"none", "bare"}]
        BY <3>1, <3>2, <3>4, <4>1, <1>t
      <4> QED BY <3>2, <4>2, <4>3, <4>4, <1>t, <1>f
    <3> QED BY <3>3, <3>4
  <2>2. CASE DropRun
    BY <2>2, <1>t, <1>f DEF DropRun
  <2>3. CASE TearEntry \/ EmptyEntry
    <3>1. \E d, s : s \in DirStates /\ state' = [state EXCEPT ![d] = s]
      BY <2>3, <1>t DEF TearEntry, Tear, EmptyEntry, DirStates
    <3>2. UNCHANGED <<run, lock, boxes>>
      BY <2>3 DEF TearEntry, EmptyEntry
    <3> QED BY <3>1, <3>2, <1>t, <1>f
  <2>4. CASE RemoveBoxes
    <3>1. UNCHANGED <<run, lock, state>> /\ boxes' \subseteq boxes
      BY <2>4 DEF RemoveBoxes
    <3> QED BY <3>1, <1>t, <1>f
  <2>5. CASE ~(OpenRun \/ DropRun \/ TearEntry \/ EmptyEntry \/ RemoveBoxes)
    <3>1. UNCHANGED <<run, lock, state, boxes>>
      BY <2>5 DEF Collect, SurveyEntries, SurveyRuns, SurveyBoxes, BeginApply, Resurvey,
         OpenEntry, RemoveEntry, RemovalFails, EntriesEnd, EndApply, CrashGC, store
    <3> QED BY <3>1, <1>t, <1>f
  <2> QED BY <2>1, <2>2, <2>3, <2>4, <2>5
<1>2. NameTypes'
  <2>1. at' = at \/ \E n : at' = [at EXCEPT ![n] = None]
    BY DEF Collect, SurveyEntries, SurveyRuns, SurveyBoxes, BeginApply, OpenRun, DropRun,
       Resurvey, OpenEntry, TearEntry, EmptyEntry, RemoveEntry, RemovalFails,
       EntriesEnd, RemoveBoxes, EndApply, CrashGC, store
  <2> QED BY <2>1, <1>t DEF NameTypes
<1>3. LeaseTypes'
  <2>1. UNCHANGED reading /\ (collecting' = collecting \/ collecting' \subseteq {Collector})
    <3>1. CASE BeginApply \/ EndApply \/ CrashGC
      BY <3>1, <1>t DEF BeginApply, EndApply, CrashGC, Barrier!Begin, Barrier!End, LeaseTypes
    <3>2. CASE ~(BeginApply \/ EndApply \/ CrashGC)
      BY <3>2 DEF Collect, SurveyEntries, SurveyRuns, SurveyBoxes, OpenRun, DropRun,
         Resurvey, OpenEntry, TearEntry, EmptyEntry, RemoveEntry, RemovalFails,
         EntriesEnd, RemoveBoxes, leases
    <3> QED BY <3>1, <3>2
  <2> QED BY <2>1, <1>t DEF LeaseTypes
<1> QED BY <1>1, <1>2, <1>3

(* A step of the collector keeps every type.                               *)
LEMMA CollectTypeOK ==
  ASSUME IInv, Collect
  PROVE  TypeOK'
<1>1. ExecTypes'
  BY CollectFrame DEF IInv, TypeOK, ExecTypes, exec
<1> QED BY <1>1, CollectGCTypes, CollectStoreTypes, TypeParts
-----------------------------------------------------------------------------
(* What is published once is nobody's to write to any more.                *)
LEMMA ExecPublished ==
  ASSUME IInv, NEW e \in Executors, Execute(e),
         NEW f \in Executors, NEW k \in Keys, Published(f, k)
  PROVE  Published(f, k)'
<1> USE DEF Published, Goto, SetJob
<1>t. TypeOK
  BY DEF IInv
<1>p. /\ pc \in [Executors -> ExecLabels]
      /\ job \in [Executors -> [Keys -> JobStates]]
  BY <1>t DEF TypeOK
<1>1. CASE f # e
  BY <1>1, <1>t, ExecFrame
<1>2. CASE f = e
  <2>1. pc[e] \notin {"done", "dead"}
    BY DEF Execute, Publish, BeginRun, MakeRun, WritePlan, BeginResume, TakeLock,
       LeaveLease, CachedPass, CachedPassEnds, MakeBox, Materialize, WorkEnds, MakeTemp,
       CopyFiles, WriteManifest, LookAtTarget, CheckTarget, OpenTarget, TearTarget,
       EmptyTarget, RemoveTarget, Rename, LookAgain, Tidy, Release, Crash, Idle, Live
  <2>2. job[e][k] = "good"
    BY <1>2, <2>1
  <2>3. CASE Release(e) \/ Crash(e)
    BY <1>2, <1>p, <2>3 DEF Release, Crash
  <2>4. CASE BeginRun(e) \/ MakeRun(e) \/ WritePlan(e) \/ BeginResume(e) \/ TakeLock(e)
             \/ LeaveLease(e) \/ CachedPassEnds(e) \/ Tidy(e)
    <3>1. job' = job
      BY <2>4 DEF BeginRun, MakeRun, WritePlan, BeginResume, TakeLock, LeaveLease,
         CachedPassEnds, Tidy
    <3> QED BY <1>2, <2>2, <3>1
  <2>5. CASE CachedPass(e) \/ MakeBox(e) \/ WorkEnds(e)
    <3>1. job' = job \/ \E j \in Mine(e) : \E s :
             /\ job[e][j] \in {"unseen", "todo", "boxed"}
             /\ job' = [job EXCEPT ![e][j] = s]
      BY <2>5 DEF CachedPass, MakeBox, WorkEnds
    <3> QED BY <1>2, <1>p, <2>2, <3>1
  <2>6. CASE Materialize(e) \/ Publish(e)
    <3>1. pc[e] \in BoxedLabels
      BY <2>6 DEF Materialize, Publish, MakeTemp, CopyFiles, WriteManifest, LookAtTarget,
         CheckTarget, OpenTarget, TearTarget, EmptyTarget, RemoveTarget, Rename, LookAgain,
         BoxedLabels, SealedLabels
    <3>2. job[e][cur[e]] = "boxed"
      BY <3>1 DEF IInv, Activities
    <3>3. job' = job \/ \E s : job' = [job EXCEPT ![e][cur[e]] = s]
      BY <2>6 DEF Materialize, Publish, MakeTemp, CopyFiles, WriteManifest, LookAtTarget,
         CheckTarget, OpenTarget, TearTarget, EmptyTarget, RemoveTarget, Rename, LookAgain,
         Fail, Succeed
    <3> QED BY <1>2, <1>p, <2>2, <3>2, <3>3
  <2> QED BY <2>3, <2>4, <2>5, <2>6 DEF Execute
<1> QED BY <1>1, <1>2

(* Whether d belongs to k after a step.                                    *)
BelongsNext(d, k) ==
  d = k \/ \E e \in Executors : d = <<e, k>> /\ (pc'[e] \in {"done", "dead"} \/ job'[e][k] = "good")

(* What belongs to a key keeps doing so when an executor moves.            *)
LEMMA ExecBelongs ==
  ASSUME IInv, NEW e \in Executors, Execute(e)
  PROVE  \A k \in Keys : \A d : Belongs(d, k) => BelongsNext(d, k)
BY ExecPublished DEF Belongs, BelongsNext, Published

(* What Directories says after a step.                                     *)
LEMMA DirectoriesNext ==
  ASSUME \A k \in Keys : at'[k] # None => BelongsNext(at'[k], k),
         \A t \in Temps : at'[t] \in {t, None},
         \A e \in Executors :
            /\ pc'[e] \in {"tear", "empty"} =>
                  \E k \in Keys : k = cur'[e] /\ BelongsNext(victim'[e], k)
            /\ pc'[e] \in {"tear", "empty", "rmdir"} => cur'[e] \in rebuilt'
  PROVE  Directories'
BY DEF Directories, Belongs, BelongsNext, Published

(* A step of an executor: it renames only its own complete directory, and  *)
(* opens for removal only what is found under its key.                     *)
LEMMA ExecDirectories ==
  ASSUME IInv, NEW e \in Executors, Execute(e)
  PROVE  Directories'
<1>t. TypeOK /\ Directories
  BY DEF IInv
<1>p. /\ pc \in [Executors -> ExecLabels] /\ at \in [Names -> Names \cup {None}]
      /\ victim \in [Executors -> Names \cup {None}]
      /\ job \in [Executors -> [Keys -> JobStates]]
  BY <1>t DEF TypeOK
<1>f. \A f \in Executors \ {e} : pc'[f] = pc[f] /\ cur'[f] = cur[f] /\ victim'[f] = victim[f]
  BY <1>t, ExecFrame
<1>k. pc[e] \in BoxedLabels \cup {"tidy"} =>
         cur[e] \in Keys /\ cur[e] \in Names /\ Temp(e) \in Temps /\ Temp(e) \in Names
  BY AtHand
<1>d. Keys \cap Temps = {} /\ Keys \subseteq Names /\ Temps \subseteq Names
  BY DisjointAssumption DEF Names
<1>1. \A k \in Keys : at'[k] # None => BelongsNext(at'[k], k)
  <2>1. CASE Rename(e)
    <3>1. pc[e] = "rename"
      BY <2>1 DEF Rename
    <3>2. cur[e] \in Keys /\ cur[e] \in Names /\ Temp(e) \in Temps /\ Temp(e) \in Names
      BY <3>1, <1>k DEF BoxedLabels, SealedLabels
    <3>3. CASE at' = at
      BY <3>3, <1>t, ExecBelongs DEF Directories
    <3>4. CASE at' # at
      <4>1. /\ at[Temp(e)] # None /\ job' = [job EXCEPT ![e][cur[e]] = "good"]
            /\ at' = [at EXCEPT ![cur[e]] = at[Temp(e)], ![Temp(e)] = None]
        BY <2>1, <3>4 DEF Rename, Succeed, SetJob
      <4>2. at[Temp(e)] = Temp(e) /\ job'[e][cur[e]] = "good"
        BY <4>1, <3>2, <1>t, <1>p DEF Directories
      <4>3. at'[cur[e]] = Temp(e) /\ \A k \in Keys \ {cur[e]} : at'[k] = at[k]
        BY <4>1, <4>2, <3>2, <1>p, <1>d
      <4>4. BelongsNext(Temp(e), cur[e])
        BY <4>2, <3>2 DEF BelongsNext, Temp
      <4> QED BY <4>3, <4>4, <1>t, ExecBelongs DEF Directories
    <3> QED BY <3>3, <3>4
  <2>2. CASE ~Rename(e)
    <3>1. \A k \in Keys : at'[k] \in {at[k], None}
      <4>1. CASE MakeTemp(e) \/ CopyFiles(e) \/ Tidy(e)
        <5>1. Temp(e) \in Temps
          BY <4>1, <1>k DEF MakeTemp, CopyFiles, Tidy, BoxedLabels
        <5> QED BY <4>1, <5>1, <1>p, <1>d DEF MakeTemp, CopyFiles, Tidy
      <4>2. CASE RemoveTarget(e)
        BY <4>2, <1>p, <1>d DEF RemoveTarget
      <4>3. CASE ~(MakeTemp(e) \/ CopyFiles(e) \/ Tidy(e) \/ RemoveTarget(e))
        BY <2>2, <4>3 DEF Execute, Publish, BeginRun, MakeRun, WritePlan, BeginResume,
           TakeLock, LeaveLease, CachedPass, CachedPassEnds, MakeBox, Materialize, WorkEnds,
           WriteManifest, LookAtTarget, CheckTarget, OpenTarget, TearTarget, EmptyTarget,
           LookAgain, Release, Crash, store
      <4> QED BY <4>1, <4>2, <4>3
    <3> QED BY <3>1, <1>t, ExecBelongs DEF Directories
  <2> QED BY <2>1, <2>2
<1>2. \A t \in Temps : at'[t] \in {t, None}
  <2>1. CASE MakeTemp(e) \/ CopyFiles(e)
    BY <2>1, <1>t, <1>p, <1>d DEF MakeTemp, CopyFiles, Directories
  <2>2. CASE Tidy(e) \/ RemoveTarget(e)
    BY <2>2, <1>t, <1>p, <1>d DEF Tidy, RemoveTarget, Directories
  <2>3. CASE Rename(e)
    <3>1. cur[e] \in Keys /\ cur[e] \notin Temps
      BY <2>3, <1>k, <1>d DEF Rename, BoxedLabels, SealedLabels
    <3> QED BY <2>3, <3>1, <1>t, <1>p, <1>d DEF Rename, Directories
  <2>4. CASE ~(MakeTemp(e) \/ CopyFiles(e) \/ Tidy(e) \/ RemoveTarget(e) \/ Rename(e))
    <3>1. at' = at
      BY <2>4 DEF Execute, Publish, BeginRun, MakeRun, WritePlan, BeginResume, TakeLock,
         LeaveLease, CachedPass, CachedPassEnds, MakeBox, Materialize, WorkEnds,
         WriteManifest, LookAtTarget, CheckTarget, OpenTarget, TearTarget, EmptyTarget,
         LookAgain, Release, Crash, store
    <3> QED BY <3>1, <1>t DEF Directories
  <2> QED BY <2>1, <2>2, <2>3, <2>4
<1>3. rebuilt \subseteq rebuilt'
  BY DEF Execute, Publish, BeginRun, MakeRun, WritePlan, BeginResume, TakeLock,
     LeaveLease, CachedPass, CachedPassEnds, MakeBox, Materialize, WorkEnds, MakeTemp,
     CopyFiles, WriteManifest, LookAtTarget, CheckTarget, OpenTarget, TearTarget,
     EmptyTarget, RemoveTarget, Rename, LookAgain, Tidy, Release, Crash
<1>4. /\ pc'[e] \in {"tear", "empty"} =>
            \E k \in Keys : k = cur'[e] /\ BelongsNext(victim'[e], k)
      /\ pc'[e] \in {"tear", "empty", "rmdir"} => cur'[e] \in rebuilt'
  <2> USE DEF Goto
  <2>1. CASE OpenTarget(e)
    <3>1. pc[e] = "open" /\ cur' = cur
      BY <2>1 DEF OpenTarget
    <3>2. cur[e] \in Keys
      BY <3>1, <1>k DEF BoxedLabels, SealedLabels
    <3>3. CASE at[cur[e]] = None
      BY <2>1, <3>3, <1>p DEF OpenTarget, Fail
    <3>4. CASE at[cur[e]] # None
      <4>1. victim'[e] = at[cur[e]] /\ cur[e] \in rebuilt'
        BY <2>1, <3>4, <1>p DEF OpenTarget
      <4>2. Belongs(at[cur[e]], cur[e])
        BY <3>2, <3>4, <1>t DEF Directories
      <4> QED BY <3>1, <3>2, <4>1, <4>2, ExecBelongs
    <3> QED BY <3>3, <3>4
  <2>2. CASE TearTarget(e) \/ EmptyTarget(e)
    <3>1. /\ pc[e] \in {"tear", "empty"} /\ cur' = cur
          /\ pc'[e] \in {"empty", "rmdir", "tidy"}
          /\ pc'[e] = "empty" => victim' = victim
      BY <2>2, <1>p DEF TearTarget, EmptyTarget, Fail
    <3>2. cur[e] \in Keys
      BY <3>1, <1>k DEF BoxedLabels, SealedLabels
    <3> QED BY <3>1, <3>2, <1>t, <1>3, ExecBelongs DEF Directories
  <2>3. CASE ~(OpenTarget(e) \/ TearTarget(e) \/ EmptyTarget(e))
    <3>1. pc'[e] \notin {"tear", "empty", "rmdir"}
      <4>1. CASE BeginRun(e) \/ MakeRun(e) \/ WritePlan(e) \/ BeginResume(e)
                 \/ TakeLock(e) \/ LeaveLease(e)
        BY <4>1, <1>p DEF BeginRun, MakeRun, WritePlan, BeginResume, TakeLock, LeaveLease
      <4>2. CASE CachedPass(e) \/ CachedPassEnds(e) \/ MakeBox(e) \/ Materialize(e) \/ WorkEnds(e)
        BY <4>2, <1>p DEF CachedPass, CachedPassEnds, MakeBox, Materialize, WorkEnds
      <4>3. CASE MakeTemp(e) \/ CopyFiles(e) \/ WriteManifest(e) \/ LookAtTarget(e) \/ CheckTarget(e)
        BY <4>3, <1>p DEF MakeTemp, CopyFiles, WriteManifest, LookAtTarget, CheckTarget,
           Fail, Succeed
      <4>4. CASE RemoveTarget(e) \/ Rename(e) \/ LookAgain(e)
        BY <4>4, <1>p DEF RemoveTarget, Rename, LookAgain, Fail, Succeed
      <4>5. CASE Tidy(e) \/ Release(e) \/ Crash(e)
        BY <4>5, <1>p DEF Tidy, Release, Crash
      <4> QED BY <2>3, <4>1, <4>2, <4>3, <4>4, <4>5 DEF Execute, Publish
    <3> QED BY <3>1
  <2> QED BY <2>1, <2>2, <2>3
<1>5. \A f \in Executors \ {e} :
         /\ pc'[f] \in {"tear", "empty"} =>
               \E k \in Keys : k = cur'[f] /\ BelongsNext(victim'[f], k)
         /\ pc'[f] \in {"tear", "empty", "rmdir"} => cur'[f] \in rebuilt'
  <2>1. \A f \in Executors : pc[f] \in {"tear", "empty"} => cur[f] \in Keys
    BY AtHand DEF BoxedLabels, SealedLabels
  <2> QED BY <2>1, <1>t, <1>f, <1>3, ExecBelongs DEF Directories
<1> QED BY <1>1, <1>2, <1>4, <1>5, DirectoriesNext

(* A step of the collector: it removes names and gives none.               *)
LEMMA CollectDirectories ==
  ASSUME IInv, Collect
  PROVE  Directories' /\ \A k \in Keys : \A d : Belongs(d, k)' <=> Belongs(d, k)
<1>t. TypeOK /\ Directories
  BY DEF IInv
<1>f. UNCHANGED exec /\ rebuilt' = rebuilt
  BY CollectFrame
<1>1. \A k, d : Belongs(d, k)' <=> Belongs(d, k)
  BY <1>f DEF Belongs, Published, exec
<1>2. \A n \in Names : at'[n] \in {at[n], None}
  <2>1. at' = at \/ \E n : at' = [at EXCEPT ![n] = None]
    BY DEF Collect, SurveyEntries, SurveyRuns, SurveyBoxes, BeginApply, OpenRun, DropRun,
       Resurvey, OpenEntry, TearEntry, EmptyEntry, RemoveEntry, RemovalFails,
       EntriesEnd, RemoveBoxes, EndApply, CrashGC, store
  <2> QED BY <2>1, <1>t DEF TypeOK
<1>3. Directories'
  BY <1>t, <1>f, <1>1, <1>2 DEF Directories, Names, exec
<1> QED BY <1>1, <1>3
-----------------------------------------------------------------------------
(* While entries are removed no run appears, goes, or becomes readable.    *)
LEMMA ExecSurveyed ==
  ASSUME IInv, NEW e \in Executors, Execute(e)
  PROVE  Surveyed'
<1>t. TypeOK /\ Surveyed
  BY DEF IInv
<1>f. UNCHANGED <<cpc, seen, planEntries, reach, blind, hand>>
  BY <1>t, ExecFrame DEF gc, gcplan, gcwork
<1>1. cpc \in {"entries", "tear", "empty", "rmdir"} => run' = run
  <2> SUFFICES ASSUME cpc \in {"entries", "tear", "empty", "rmdir"} PROVE run' = run
    OBVIOUS
  <2>1. pc[e] \notin LeaseLabels
    BY Frozen DEF ApplyLabels
  <2>2. ~MakeRun(e) /\ ~WritePlan(e)
    BY <2>1 DEF MakeRun, WritePlan, LeaseLabels
  <2> QED BY <2>2 DEF Execute, Publish, BeginRun, BeginResume, TakeLock, LeaveLease,
     CachedPass, CachedPassEnds, MakeBox, Materialize, WorkEnds, MakeTemp, CopyFiles,
     WriteManifest, LookAtTarget, CheckTarget, OpenTarget, TearTarget, EmptyTarget,
     RemoveTarget, Rename, LookAgain, Tidy, Release, Crash, store
<1>2. run' = run => Referenced' = Referenced /\ Unreadable' = Unreadable
  BY DEF Referenced, Unreadable
<1>3. /\ cpc' \in {"entries", "tear", "empty", "rmdir"} =>
            reach' = Referenced' /\ blind' = (Unreadable' # {})
      /\ cpc' \in {"tear", "empty"} => ~blind' /\ hand'[1] \notin reach'
  BY <1>t, <1>f, <1>1, <1>2 DEF Surveyed
<1>4. ASSUME ~IncludeUnreadable
      PROVE  /\ seen' \subseteq Keys /\ planEntries' \subseteq Keys
             /\ cpc' \in {"tear", "empty", "rmdir"} => hand'[1] \in Keys
             /\ cpc' \in {"tear", "empty"} => BelongsNext(hand'[2], hand'[1])
  BY <1>t, <1>f, <1>4, ExecBelongs DEF Surveyed
<1> QED BY <1>3, <1>4 DEF Surveyed, Belongs, BelongsNext, Published

(* A step of the collector: what it opens was planned, is not referred to, *)
(* and all runs can be read.                                               *)
LEMMA CollectSurveyed ==
  ASSUME IInv, Collect
  PROVE  Surveyed'
<1> USE DEF GoGC
<1>t. Surveyed /\ Directories
  BY DEF IInv
<1>f. UNCHANGED exec
  BY CollectFrame
<1>b. \A k, d : BelongsNext(d, k) <=> Belongs(d, k)
  BY <1>f DEF Belongs, BelongsNext, Published, exec
<1>r. run' = run => Referenced' = Referenced /\ Unreadable' = Unreadable
  BY DEF Referenced, Unreadable
<1>s. ASSUME cpc' \in {"entries", "tear", "empty", "rmdir"} =>
                reach' = Referenced' /\ blind' = (Unreadable' # {}),
             cpc' \in {"tear", "empty"} => ~blind' /\ hand'[1] \notin reach',
             ~IncludeUnreadable =>
                /\ seen' \subseteq Keys /\ planEntries' \subseteq Keys
                /\ cpc' \in {"tear", "empty", "rmdir"} => hand'[1] \in Keys
                /\ cpc' \in {"tear", "empty"} => Belongs(hand'[2], hand'[1])
      PROVE  Surveyed'
  BY <1>s, <1>b DEF Surveyed, Belongs, BelongsNext, Published
<1>1. CASE SurveyEntries \/ SurveyRuns \/ SurveyBoxes \/ BeginApply \/ DropRun \/ OpenRun
  <2>1. /\ cpc' \notin {"entries", "tear", "empty", "rmdir"}
        /\ \/ seen' = {n \in Names : at[n] # None /\ (IncludeUnreadable \/ (n \in Keys /\ Valid(n)))}
           \/ seen' = {} \/ seen' = seen
        /\ planEntries' = planEntries \/ planEntries' \subseteq seen
    BY <1>1 DEF SurveyEntries, SurveyRuns, SurveyBoxes, BeginApply, DropRun, OpenRun, gcplan
  <2> QED BY <2>1, <1>s, <1>t DEF Surveyed
<1>2. CASE EntriesEnd \/ RemoveBoxes \/ EndApply \/ CrashGC
  <2>1. /\ cpc' \notin {"entries", "tear", "empty", "rmdir"}
        /\ seen' = {} \/ seen' = seen
        /\ planEntries' = planEntries \/ planEntries' = {}
    BY <1>2 DEF EntriesEnd, RemoveBoxes, EndApply, CrashGC, ForgetGC, gcplan
  <2> QED BY <2>1, <1>s, <1>t DEF Surveyed
<1>3. CASE Resurvey
  <2>1. /\ cpc' = "entries" /\ UNCHANGED <<seen, planEntries>> /\ run' = run
        /\ reach' = Referenced /\ blind' = (Unreadable # {})
    BY <1>3 DEF Resurvey, gcplan, store
  <2> QED BY <2>1, <1>s, <1>t, <1>r DEF Surveyed
<1>4. CASE OpenEntry
  <2>1. PICK n \in planEntries :
           /\ planEntries' = planEntries \ {n}
           /\ IF at[n] = None \/ blind \/ n \in reach
              THEN UNCHANGED <<cpc, hand>>
              ELSE hand' = <<n, at[n]>> /\ cpc' = "tear"
    BY <1>4 DEF OpenEntry
  <2>2. cpc = "entries" /\ UNCHANGED <<seen, reach, blind>> /\ run' = run
    BY <1>4 DEF OpenEntry, store
  <2>3. ~IncludeUnreadable /\ at[n] # None => n \in Keys /\ Belongs(at[n], n)
    BY <2>1, <1>t DEF Surveyed, Directories
  <2>4. CASE at[n] = None \/ blind \/ n \in reach
    BY <2>1, <2>2, <2>4, <1>s, <1>t, <1>r DEF Surveyed
  <2>5. CASE ~(at[n] = None \/ blind \/ n \in reach)
    <3>1. hand'[1] = n /\ hand'[2] = at[n] /\ cpc' = "tear"
      BY <2>1, <2>5
    <3> QED BY <2>1, <2>2, <2>3, <2>5, <3>1, <1>s, <1>t, <1>r DEF Surveyed
  <2> QED BY <2>4, <2>5
<1>5. CASE TearEntry \/ EmptyEntry
  <2>1. /\ cpc \in {"tear", "empty"} /\ cpc' \in {"empty", "rmdir"} /\ run' = run
        /\ UNCHANGED <<seen, planEntries, reach, blind, hand>>
    BY <1>5 DEF TearEntry, EmptyEntry, gcplan, gcwork
  <2> QED BY <2>1, <1>s, <1>t, <1>r DEF Surveyed
<1>6. CASE RemoveEntry \/ RemovalFails
  <2>1. /\ cpc \in {"tear", "empty", "rmdir"} /\ cpc' = "entries" /\ run' = run
        /\ UNCHANGED <<seen, planEntries, reach, blind>>
    BY <1>6 DEF RemoveEntry, RemovalFails, gcplan, store
  <2> QED BY <2>1, <1>s, <1>t, <1>r DEF Surveyed
<1> QED BY <1>1, <1>2, <1>3, <1>4, <1>5, <1>6 DEF Collect
-----------------------------------------------------------------------------
(* A directory belongs to one key, and none before it is published.        *)
LEMMA BelongsOnce ==
  ASSUME IInv, NEW k \in Keys, NEW d, Belongs(d, k)
  PROVE  /\ \A j \in Keys : Belongs(d, j) => j = k
         /\ \A f \in Executors : pc[f] \in BoxedLabels => d # Temp(f)
<1>1. \A j \in Keys : Belongs(d, j) => j = k
  BY DisjointAssumption DEF Belongs, Temps
<1>2. ASSUME NEW f \in Executors, pc[f] \in BoxedLabels
      PROVE  d # Temp(f)
  <2>1. cur[f] \in Keys /\ Temp(f) \in Temps /\ job[f][cur[f]] = "boxed" /\ pc[f] \notin {"done", "dead"}
    BY <1>2, AtHand DEF BoxedLabels, SealedLabels
  <2> QED BY <2>1, DisjointAssumption DEF Belongs, Published, Temp
<1> QED BY <1>1, <1>2

(* A collection invalidates only what rmtree empties.                      *)
LEMMA CollectValid ==
  ASSUME IInv, Collect, NEW k \in Keys, Valid(k), ~Valid(k)'
  PROVE  cpc \in {"tear", "empty"} /\ at[k] = hand[2]
<1>t. TypeOK
  BY DEF IInv
<1>p. /\ at \in [Names -> Names \cup {None}] /\ state \in [Names -> DirStates]
      /\ k \in Names /\ None \notin Names
  BY <1>t, DisjointAssumption DEF TypeOK, Names
<1>1. CASE TearEntry \/ EmptyEntry
  <2>1. /\ cpc \in {"tear", "empty"} /\ at' = at
        /\ \A d \in Names \ {hand[2]} : state'[d] = state[d]
    BY <1>1, <1>p DEF TearEntry, EmptyEntry, Tear
  <2> QED BY <2>1, <1>p DEF Valid
<1>2. CASE RemoveEntry
  <2>1. /\ state' = state
        /\ at' = at \/ (state[at[hand[1]]] = "empty" /\ at' = [at EXCEPT ![hand[1]] = None])
    BY <1>2 DEF RemoveEntry
  <2>2. at'[k] = at[k]
    BY <2>1, <1>p DEF Valid
  <2> QED BY <2>1, <2>2 DEF Valid
<1>3. CASE ~(TearEntry \/ EmptyEntry \/ RemoveEntry)
  <2>1. UNCHANGED <<at, state>>
    BY <1>3 DEF Collect, SurveyEntries, SurveyRuns, SurveyBoxes, BeginApply, OpenRun, DropRun,
       Resurvey, OpenEntry, RemovalFails, EntriesEnd, RemoveBoxes, EndApply, CrashGC, store
  <2> QED BY <2>1 DEF Valid
<1> QED BY <1>1, <1>2, <1>3

(* An executor invalidates only what it has met invalid before.            *)
LEMMA ExecValid ==
  ASSUME IInv, NEW e \in Executors, Execute(e), NEW k \in Keys, Valid(k), k \notin rebuilt
  PROVE  Valid(k)'
<1>t. TypeOK /\ Directories
  BY DEF IInv
<1>p. /\ at \in [Names -> Names \cup {None}] /\ state \in [Names -> DirStates]
      /\ k \in Names /\ None \notin Names /\ at[k] # None /\ state[at[k]] = "whole"
      /\ at[k] \in Names
  BY <1>t, DisjointAssumption DEF TypeOK, Names, Valid
<1>k. pc[e] \in BoxedLabels \cup {"tidy"} =>
         cur[e] \in Keys /\ cur[e] \in Names /\ Temp(e) \in Temps /\ Temp(e) \in Names
         /\ k # Temp(e)
  BY AtHand, DisjointAssumption
<1>o. pc[e] \in BoxedLabels => at[k] # Temp(e)
  BY <1>p, <1>k, OwnName
<1>1. CASE MakeTemp(e) \/ CopyFiles(e) \/ WriteManifest(e)
  <2>1. pc[e] \in BoxedLabels
    BY <1>1 DEF MakeTemp, CopyFiles, WriteManifest, BoxedLabels
  <2>2. at'[k] = at[k] /\ \A d \in Names \ {Temp(e)} : state'[d] = state[d]
    BY <1>1, <2>1, <1>p, <1>k DEF MakeTemp, CopyFiles, WriteManifest
  <2> QED BY <2>1, <2>2, <1>p, <1>o DEF Valid
<1>2. CASE TearTarget(e) \/ EmptyTarget(e)
  <2>1. pc[e] \in {"tear", "empty"}
    BY <1>2 DEF TearTarget, EmptyTarget
  <2>2. Belongs(victim[e], cur[e]) /\ cur[e] \in rebuilt /\ cur[e] \in Keys
    BY <2>1, <1>t, <1>k DEF Directories, BoxedLabels, SealedLabels
  <2>3. at[k] # victim[e]
    BY <2>2, <1>p, <1>t, BelongsOnce DEF Directories
  <2>4. at' = at /\ \A d \in Names \ {victim[e]} : state'[d] = state[d]
    BY <1>2, <1>p DEF TearTarget, EmptyTarget, Tear
  <2> QED BY <2>3, <2>4, <1>p DEF Valid
<1>3. CASE RemoveTarget(e)
  <2>1. state' = state /\ at'[k] = at[k]
    BY <1>3, <1>p DEF RemoveTarget
  <2> QED BY <2>1 DEF Valid
<1>4. CASE Rename(e)
  <2>1. k # Temp(e)
    BY <1>4, <1>k DEF Rename, BoxedLabels, SealedLabels
  <2>2. state' = state /\ at'[k] = at[k]
    BY <1>4, <2>1, <1>p DEF Rename
  <2> QED BY <2>2 DEF Valid
<1>5. CASE Tidy(e)
  <2>1. /\ k # Temp(e) /\ Temp(e) \in Names /\ Temp(e) \in Temps
    BY <1>5, <1>k DEF Tidy
  <2>2. at[Temp(e)] # None => at[k] # Temp(e)
    BY <2>1, <1>p, <1>t DEF Directories, TypeOK
  <2>3. at'[k] = at[k] /\ state'[at[k]] = state[at[k]]
    BY <1>5, <2>1, <2>2, <1>p DEF Tidy
  <2> QED BY <2>3 DEF Valid
<1>6. CASE ~(MakeTemp(e) \/ CopyFiles(e) \/ WriteManifest(e) \/ TearTarget(e)
             \/ EmptyTarget(e) \/ RemoveTarget(e) \/ Rename(e) \/ Tidy(e))
  <2>1. UNCHANGED <<at, state>>
    BY <1>6 DEF Execute, Publish, BeginRun, MakeRun, WritePlan, BeginResume, TakeLock,
       LeaveLease, CachedPass, CachedPassEnds, MakeBox, Materialize, WorkEnds,
       LookAtTarget, CheckTarget, OpenTarget, LookAgain, Release, Crash, store
  <2> QED BY <2>1 DEF Valid
<1> QED BY <1>1, <1>2, <1>3, <1>4, <1>5, <1>6
-----------------------------------------------------------------------------
(* What counts as good after a step was counted before, by a live process, *)
(* or is valid after the step.                                             *)
LEMMA ExecCounts ==
  ASSUME IInv, Contents, NEW e \in Executors, Execute(e),
         NEW f \in Executors, NEW k \in Keys, job'[f][k] = "good"
  PROVE  \/ job[f][k] = "good" /\ Live(f)
         \/ Valid(k)'
<1> USE DEF Goto, SetJob
<1>t. TypeOK /\ Activities
  BY DEF IInv
<1>p. /\ pc \in [Executors -> ExecLabels]
      /\ job \in [Executors -> [Keys -> JobStates]]
      /\ at \in [Names -> Names \cup {None}]
  BY <1>t DEF TypeOK
<1>l. job[f][k] = "good" => Live(f)
  BY <1>t, WorkingRegistered DEF Activities
<1>k. pc[e] \in BoxedLabels => cur[e] \in Keys /\ cur[e] \in Names /\ Temp(e) \in Names
                               /\ cur[e] # Temp(e)
  BY AtHand, DisjointAssumption
<1>1. CASE f # e
  BY <1>1, <1>t, <1>l, ExecFrame
<1>2. CASE f = e /\ (CachedPass(e) \/ MakeBox(e) \/ WorkEnds(e))
  <2>1. CASE CachedPass(e)
    <3>1. PICK j \in Mine(e) : job' = [job EXCEPT ![e][j] = IF Valid(j) THEN "good" ELSE "todo"]
      BY <2>1 DEF CachedPass
    <3>2. UNCHANGED <<at, state>>
      BY <2>1 DEF CachedPass, store
    <3> QED BY <1>2, <1>p, <1>l, <3>1, <3>2 DEF Valid
  <2>2. CASE MakeBox(e) \/ WorkEnds(e)
    <3>1. job' = job \/ \E j \in Mine(e), s \in {"boxed", "failed"} : job' = [job EXCEPT ![e][j] = s]
      BY <2>2 DEF MakeBox, WorkEnds
    <3> QED BY <1>2, <1>p, <1>l, <3>1
  <2> QED BY <1>2, <2>1, <2>2
<1>3. CASE f = e /\ (CheckTarget(e) \/ LookAgain(e))
  <2>1. UNCHANGED <<at, state>>
    BY <1>3 DEF CheckTarget, LookAgain, store
  <2>2. \/ job' = job \/ job' = [job EXCEPT ![e][cur[e]] = "failed"]
        \/ job' = [job EXCEPT ![e][cur[e]] = "good"] /\ Valid(cur[e])
    BY <1>3 DEF CheckTarget, LookAgain, Fail, Succeed
  <2> QED BY <1>3, <1>p, <1>l, <2>1, <2>2 DEF Valid
<1>4. CASE f = e /\ Rename(e)
  <2>1. CASE job' = job
    BY <1>4, <1>l, <2>1
  <2>2. CASE job' # job
    <3>1. /\ pc[e] = "rename" /\ at[Temp(e)] # None /\ state' = state
          /\ at' = [at EXCEPT ![cur[e]] = at[Temp(e)], ![Temp(e)] = None]
          /\ job' = [job EXCEPT ![e][cur[e]] = "good"]
      BY <1>4, <2>2 DEF Rename, Succeed
    <3>2. at[Temp(e)] = Temp(e) /\ state[Temp(e)] = "whole"
      BY <3>1 DEF Contents, SealedLabels
    <3>3. Valid(cur[e])'
      <4>1. at'[cur[e]] = Temp(e) /\ Temp(e) # None
        BY <3>1, <3>2, <1>k, <1>p DEF BoxedLabels, SealedLabels
      <4>2. cur' = cur
        BY <1>4 DEF Rename
      <4> QED BY <4>1, <4>2, <3>1, <3>2 DEF Valid
    <3>4. cur' = cur
      BY <1>4 DEF Rename
    <3> QED BY <1>4, <1>p, <1>l, <3>1, <3>3, <3>4 DEF Valid
  <2> QED BY <2>1, <2>2
<1>5. CASE f = e /\ (Release(e) \/ Crash(e))
  <2>1. job' = [job EXCEPT ![e] = [j \in Keys |-> "unseen"]]
    BY <1>5 DEF Release, Crash, Forget
  <2> QED BY <1>5, <2>1, <1>p
<1>6. CASE f = e /\ ~(CachedPass(e) \/ MakeBox(e) \/ WorkEnds(e) \/ CheckTarget(e)
                      \/ LookAgain(e) \/ Rename(e) \/ Release(e) \/ Crash(e))
  <2>1. job' = job \/ job' = [job EXCEPT ![e][cur[e]] = "failed"]
    BY <1>6 DEF Execute, Publish, BeginRun, MakeRun, WritePlan, BeginResume, TakeLock,
       LeaveLease, CachedPassEnds, Materialize, MakeTemp, CopyFiles, WriteManifest,
       LookAtTarget, OpenTarget, TearTarget, EmptyTarget, RemoveTarget, Tidy, Fail
  <2> QED BY <1>6, <1>p, <1>l, <2>1
<1> QED BY <1>1, <1>2, <1>3, <1>4, <1>5, <1>6

(* The .publish-* directory of the executor that moves.                    *)
LEMMA ExecOwnTemp ==
  ASSUME IInv, Contents, NEW e \in Executors, Execute(e)
  PROVE  /\ pc'[e] \in SealedLabels \cup {"copy", "seal"} =>
               cur'[e] = cur[e] /\ at'[Temp(e)] = Temp(e)
         /\ pc'[e] = "seal" => state'[Temp(e)] = "partial"
         /\ pc'[e] \in SealedLabels => state'[Temp(e)] = "whole"
<1> USE DEF Goto, Fail, Succeed
<1>t. TypeOK /\ Directories
  BY DEF IInv
<1>p. /\ pc \in [Executors -> ExecLabels] /\ at \in [Names -> Names \cup {None}]
      /\ state \in [Names -> DirStates] /\ None \notin Names
  BY <1>t, DisjointAssumption DEF TypeOK
<1>k. pc[e] \in BoxedLabels =>
         cur[e] \in Keys /\ cur[e] \in Names /\ Temp(e) \in Names /\ cur[e] # Temp(e)
  BY AtHand, DisjointAssumption
<1>c. /\ pc[e] \in SealedLabels \cup {"copy", "seal"} => at[Temp(e)] = Temp(e)
      /\ pc[e] = "seal" => state[Temp(e)] = "partial"
      /\ pc[e] \in SealedLabels => state[Temp(e)] = "whole"
  BY DEF Contents
<1>1. CASE MakeTemp(e)
  BY <1>1, <1>p, <1>k DEF MakeTemp, BoxedLabels, SealedLabels
<1>2. CASE CopyFiles(e)
  BY <1>2, <1>p, <1>k, <1>c DEF CopyFiles, BoxedLabels, SealedLabels
<1>3. CASE WriteManifest(e)
  BY <1>3, <1>p, <1>k, <1>c DEF WriteManifest, BoxedLabels, SealedLabels
<1>4. CASE LookAtTarget(e) \/ CheckTarget(e) \/ OpenTarget(e)
  <2>1. pc[e] \in SealedLabels /\ UNCHANGED <<at, state, cur>> /\ pc'[e] # "seal"
    BY <1>4, <1>p DEF LookAtTarget, CheckTarget, OpenTarget, SealedLabels, store
  <2> QED BY <2>1, <1>c
<1>5. CASE TearTarget(e) \/ EmptyTarget(e)
  <2>1. pc[e] \in {"tear", "empty"} /\ pc'[e] # "seal" /\ UNCHANGED <<at, cur>>
    BY <1>5, <1>p DEF TearTarget, EmptyTarget
  <2>2. victim[e] # Temp(e) /\ Temp(e) \in Names
    BY <2>1, <1>t, <1>k, BelongsOnce DEF Directories, BoxedLabels, SealedLabels
  <2>3. state'[Temp(e)] = state[Temp(e)]
    BY <1>5, <2>2, <1>p DEF TearTarget, EmptyTarget, Tear
  <2> QED BY <2>1, <2>3, <1>c DEF SealedLabels
<1>6. CASE RemoveTarget(e)
  <2>1. /\ pc[e] \in SealedLabels /\ pc[e] \in BoxedLabels /\ pc'[e] # "seal"
        /\ UNCHANGED <<state, cur>>
    BY <1>6, <1>p DEF RemoveTarget, SealedLabels, BoxedLabels
  <2>2. at'[Temp(e)] = at[Temp(e)]
    BY <1>6, <2>1, <1>k, <1>p DEF RemoveTarget
  <2> QED BY <2>1, <2>2, <1>c
<1>7. CASE Rename(e)
  <2>1. pc[e] \in SealedLabels /\ pc'[e] # "seal" /\ UNCHANGED <<state, cur>>
    BY <1>7, <1>p DEF Rename, SealedLabels
  <2>2. pc'[e] \in SealedLabels => at' = at
    BY <1>7, <1>p DEF Rename, SealedLabels
  <2>3. pc'[e] \notin {"copy", "seal"}
    BY <1>7, <1>p DEF Rename
  <2> QED BY <2>1, <2>2, <2>3, <1>c
<1>8. CASE ~(MakeTemp(e) \/ CopyFiles(e) \/ WriteManifest(e) \/ LookAtTarget(e)
             \/ CheckTarget(e) \/ OpenTarget(e) \/ TearTarget(e) \/ EmptyTarget(e)
             \/ RemoveTarget(e) \/ Rename(e))
  <2>1. pc'[e] \notin SealedLabels \cup {"copy", "seal"}
    <3> USE DEF SealedLabels
    <3>1. CASE BeginRun(e) \/ MakeRun(e) \/ WritePlan(e) \/ BeginResume(e)
               \/ TakeLock(e) \/ LeaveLease(e)
      BY <3>1, <1>p DEF BeginRun, MakeRun, WritePlan, BeginResume, TakeLock, LeaveLease
    <3>2. CASE CachedPass(e) \/ CachedPassEnds(e) \/ MakeBox(e) \/ Materialize(e) \/ WorkEnds(e)
      BY <3>2, <1>p DEF CachedPass, CachedPassEnds, MakeBox, Materialize, WorkEnds
    <3>3. CASE LookAgain(e) \/ Tidy(e) \/ Release(e) \/ Crash(e)
      BY <3>3, <1>p DEF LookAgain, Tidy, Release, Crash
    <3> QED BY <1>8, <3>1, <3>2, <3>3 DEF Execute, Publish
  <2> QED BY <2>1
<1> QED BY <1>1, <1>2, <1>3, <1>4, <1>5, <1>6, <1>7, <1>8

(* ... and those of the others, which it does not touch.                   *)
LEMMA ExecOtherTemps ==
  ASSUME IInv, NEW e \in Executors, Execute(e),
         NEW f \in Executors \ {e}, pc[f] \in SealedLabels \cup {"copy", "seal"},
         at[Temp(f)] = Temp(f)
  PROVE  at'[Temp(f)] = at[Temp(f)] /\ state'[Temp(f)] = state[Temp(f)]
<1>t. TypeOK /\ Directories
  BY DEF IInv
<1>p. /\ at \in [Names -> Names \cup {None}] /\ state \in [Names -> DirStates]
  BY <1>t DEF TypeOK
<1>b. pc[f] \in BoxedLabels
  BY DEF BoxedLabels
<1>f. Temp(f) \in Temps /\ Temp(f) \in Names /\ Temp(f) # Temp(e)
  BY <1>b, AtHand DEF Temp
<1>k. pc[e] \in BoxedLabels \cup {"tidy"} => cur[e] \in Keys /\ cur[e] # Temp(f)
  BY <1>f, AtHand, DisjointAssumption
<1>1. CASE MakeTemp(e) \/ CopyFiles(e) \/ WriteManifest(e) \/ Tidy(e)
  BY <1>1, <1>p, <1>f DEF MakeTemp, CopyFiles, WriteManifest, Tidy
<1>2. CASE TearTarget(e) \/ EmptyTarget(e)
  <2>1. pc[e] \in {"tear", "empty"} /\ at' = at
    BY <1>2 DEF TearTarget, EmptyTarget
  <2>2. Belongs(victim[e], cur[e]) /\ cur[e] \in Keys
    BY <2>1, <1>t, <1>k DEF Directories, BoxedLabels, SealedLabels
  <2>3. victim[e] # Temp(f)
    BY <2>2, <1>b, BelongsOnce
  <2> QED BY <1>2, <2>1, <2>3, <1>p, <1>f DEF TearTarget, EmptyTarget, Tear
<1>3. CASE RemoveTarget(e) \/ Rename(e)
  <2>1. pc[e] \in BoxedLabels
    BY <1>3 DEF RemoveTarget, Rename, BoxedLabels, SealedLabels
  <2> QED BY <1>3, <2>1, <1>k, <1>p, <1>f DEF RemoveTarget, Rename
<1>4. CASE ~(MakeTemp(e) \/ CopyFiles(e) \/ WriteManifest(e) \/ TearTarget(e)
             \/ EmptyTarget(e) \/ RemoveTarget(e) \/ Rename(e) \/ Tidy(e))
  BY <1>4 DEF Execute, Publish, BeginRun, MakeRun, WritePlan, BeginResume, TakeLock,
     LeaveLease, CachedPass, CachedPassEnds, MakeBox, Materialize, WorkEnds,
     LookAtTarget, CheckTarget, OpenTarget, LookAgain, Release, Crash, store
<1> QED BY <1>1, <1>2, <1>3, <1>4

(* A step of an executor keeps what was counted good and every complete    *)
(* .publish-* directory.                                                   *)
LEMMA ExecContents ==
  ASSUME IInv, Contents, NEW e \in Executors, Execute(e)
  PROVE  Contents'
<1>t. TypeOK
  BY DEF IInv
<1>r. rebuilt \subseteq rebuilt'
  BY DEF Execute, Publish, BeginRun, MakeRun, WritePlan, BeginResume, TakeLock,
     LeaveLease, CachedPass, CachedPassEnds, MakeBox, Materialize, WorkEnds, MakeTemp,
     CopyFiles, WriteManifest, LookAtTarget, CheckTarget, OpenTarget, TearTarget,
     EmptyTarget, RemoveTarget, Rename, LookAgain, Tidy, Release, Crash
<1>1. \A f \in Executors, k \in Keys : job'[f][k] = "good" => Valid(k)' \/ k \in rebuilt'
  <2> SUFFICES ASSUME NEW f \in Executors, NEW k \in Keys, job'[f][k] = "good"
               PROVE  Valid(k)' \/ k \in rebuilt'
    OBVIOUS
  <2>1. CASE job[f][k] = "good" /\ Live(f)
    <3>1. Valid(k) \/ k \in rebuilt
      BY <2>1 DEF Contents, CountedGood
    <3> QED BY <3>1, <1>r, ExecValid
  <2> QED BY <2>1, ExecCounts
<1>2. CountedGood'
  BY <1>1 DEF CountedGood
<1>3. ASSUME NEW f \in Executors \ {e}
      PROVE  /\ pc'[f] \in SealedLabels \cup {"copy", "seal"} =>
                   cur'[f] = cur[f] /\ at'[Temp(f)] = Temp(f)
             /\ pc'[f] = "seal" => state'[Temp(f)] = "partial"
             /\ pc'[f] \in SealedLabels => state'[Temp(f)] = "whole"
  <2>1. pc'[f] = pc[f] /\ cur'[f] = cur[f]
    BY <1>3, <1>t, ExecFrame
  <2>2. /\ pc[f] \in SealedLabels \cup {"copy", "seal"} => at[Temp(f)] = Temp(f)
        /\ pc[f] = "seal" => state[Temp(f)] = "partial"
        /\ pc[f] \in SealedLabels => state[Temp(f)] = "whole"
    BY <1>3 DEF Contents
  <2> QED BY <2>1, <2>2, ExecOtherTemps
<1>4. \A f \in Executors : /\ pc'[f] \in SealedLabels \cup {"copy", "seal"} => at'[Temp(f)'] = Temp(f)'
                           /\ pc'[f] = "seal" => state'[Temp(f)'] = "partial"
                           /\ pc'[f] \in SealedLabels => state'[Temp(f)'] = "whole"
  BY <1>3, ExecOwnTemp DEF Temp
<1> QED BY <1>2, <1>4 DEF Contents

(* A step of the collector: what a live run has counted good is referred   *)
(* to, so it stays.                                                        *)
LEMMA CollectContents ==
  ASSUME IInv, Contents, ~IncludeUnreadable, Collect
  PROVE  Contents'
<1>t. TypeOK /\ Surveyed /\ Activities /\ Registration /\ Directories
  BY DEF IInv
<1>p. /\ at \in [Names -> Names \cup {None}] /\ state \in [Names -> DirStates]
      /\ run \in [Runs -> RunStates]
  BY <1>t DEF TypeOK
<1>f. UNCHANGED <<exec, rebuilt>>
  BY CollectFrame
<1>1. ASSUME NEW f \in Executors, NEW k \in Keys, Live(f), job[f][k] = "good", Valid(k)
      PROVE  Valid(k)'
  <2> SUFFICES ASSUME ~Valid(k)' PROVE FALSE
    OBVIOUS
  <2>1. cpc \in {"tear", "empty"} /\ at[k] = hand[2] /\ at[k] # None
    BY <1>1, CollectValid DEF Valid
  <2>2. hand[1] \in Keys /\ Belongs(hand[2], hand[1]) /\ hand[1] \notin Referenced
    BY <2>1, <1>t DEF Surveyed
  <2>3. k = hand[1]
    BY <2>1, <2>2, <1>t, BelongsOnce DEF Directories
  <2>4. pc[f] \in WorkLabels \cup {"verify"} /\ k \in Plan[mine[f]]
    BY <1>1, <1>t DEF Activities, Mine
  <2>5. mine[f] \in Runs /\ run[mine[f]] = "whole"
    BY <2>4, <1>t, WorkingRegistered DEF Registration, LiveRunKept
  <2>6. k \in Referenced
    BY <2>4, <2>5 DEF Referenced
  <2> QED BY <2>2, <2>3, <2>6
<1>2. CountedGood'
  BY <1>1, <1>f DEF CountedGood, Contents, Live, exec
<1>3. ASSUME NEW f \in Executors, pc[f] \in SealedLabels \cup {"copy", "seal"}
      PROVE  at'[Temp(f)] = at[Temp(f)] /\ state'[Temp(f)] = state[Temp(f)]
  <2>1. pc[f] \in BoxedLabels /\ Temp(f) \in Names /\ Temp(f) \notin Keys
    BY <1>3, AtHand, DisjointAssumption DEF BoxedLabels
  <2>2. CASE TearEntry \/ EmptyEntry
    <3>1. cpc \in {"tear", "empty"} /\ at' = at
      BY <2>2 DEF TearEntry, EmptyEntry
    <3>2. hand[2] # Temp(f)
      BY <3>1, <2>1, <1>t, BelongsOnce DEF Surveyed
    <3> QED BY <2>2, <3>1, <3>2, <2>1, <1>p DEF TearEntry, EmptyEntry, Tear
  <2>3. CASE RemoveEntry
    <3>1. hand[1] # Temp(f)
      BY <2>3, <2>1, <1>t DEF Surveyed, RemoveEntry
    <3> QED BY <2>3, <3>1, <2>1, <1>p DEF RemoveEntry
  <2>4. CASE ~(TearEntry \/ EmptyEntry \/ RemoveEntry)
    BY <2>4 DEF Collect, SurveyEntries, SurveyRuns, SurveyBoxes, BeginApply, OpenRun, DropRun,
       Resurvey, OpenEntry, RemovalFails, EntriesEnd, RemoveBoxes, EndApply, CrashGC, store
  <2> QED BY <2>2, <2>3, <2>4
<1>4. \A f \in Executors : /\ pc'[f] \in SealedLabels \cup {"copy", "seal"} => at'[Temp(f)'] = Temp(f)'
                           /\ pc'[f] = "seal" => state'[Temp(f)'] = "partial"
                           /\ pc'[f] \in SealedLabels => state'[Temp(f)'] = "whole"
  BY <1>3, <1>f DEF Contents, Temp, exec
<1> QED BY <1>2, <1>4 DEF Contents
-----------------------------------------------------------------------------
(* The inductive invariant holds in the beginning.                         *)
LEMMA InitInv == Init => IInv
<1> SUFFICES ASSUME Init PROVE IInv
  OBVIOUS
<1> USE DEF Init
<1>0. /\ \A e \in Executors, k \in Keys : job[e][k] = "unseen"
      /\ \A e \in Executors : pc[e] = "out" /\ run[e] = "none"
      /\ cpc = "out" /\ boxes = {} /\ reading = {} /\ collecting = {}
  BY DEF Barrier!BarrierInit
<1>1. TypeOK
  <2>1. PICK old \in OldCaches :
           /\ at = [n \in Names |-> IF n \in Keys /\ old[n] # "none" THEN n ELSE None]
           /\ state = [d \in Names |-> IF d \in Keys /\ old[d] # "none" THEN old[d] ELSE "empty"]
    OBVIOUS
  <2>2. old \in [Keys -> {"none", "whole", "torn"}]
    BY CacheAssumption
  <2>3. NameTypes
    BY <2>1, DisjointAssumption DEF NameTypes
  <2>4. state \in [Names -> DirStates]
    BY <2>1, <2>2 DEF DirStates
  <2>5. StoreTypes /\ LockTypes
    BY <2>4 DEF StoreTypes, LockTypes
  <2>6. ExecTypes
    BY DEF ExecTypes, ExecLabels, JobStates
  <2>7. GCTypes /\ LeaseTypes
    BY <1>0 DEF GCTypes, LeaseTypes, GCLabels
  <2> QED BY <2>3, <2>5, <2>6, <2>7, TypeParts
<1>2. Leasing
  BY <1>0 DEF Leasing, LeaseLabels, ApplyLabels
<1>3. Registration
  BY <1>0 DEF Registration, LiveRunKept, Registered, Live
<1>4. Activities /\ LiveBoxKept
  BY <1>0 DEF Activities, LiveBoxKept, BoxedLabels, SealedLabels
<1>5. Directories
  BY <1>0, DisjointAssumption DEF Directories, Belongs, Names
<1>6. Surveyed
  BY <1>0 DEF Surveyed
<1>7. Contents
  BY <1>0 DEF Contents, CountedGood, SealedLabels
<1> QED BY <1>1, <1>2, <1>3, <1>4, <1>5, <1>6, <1>7 DEF IInv

(* Every step keeps the inductive invariant.                               *)
LEMMA NextInv == IInv /\ [Next]_vars => IInv'
<1> SUFFICES ASSUME IInv, [Next]_vars PROVE IInv'
  OBVIOUS
<1>1. CASE Collect
  <2>1. ~IncludeUnreadable => Contents'
    BY <1>1, CollectContents DEF IInv
  <2> QED BY <1>1, <2>1, CollectTypeOK, CollectLeasing, CollectRegistration,
             CollectActivities, CollectDirectories, CollectSurveyed DEF IInv
<1>2. ASSUME NEW e \in Executors, Execute(e) PROVE IInv'
  <2>1. ~IncludeUnreadable => Contents'
    BY <1>2, ExecContents DEF IInv
  <2> QED BY <1>2, <2>1, ExecTypeOK, ExecLeasing, ExecRegistration, ExecActivities,
             ExecDirectories, ExecSurveyed DEF IInv
<1>3. CASE UNCHANGED vars
  BY <1>3 DEF IInv, TypeOK, Leasing, Registration, LiveRunKept, Registered, Live, Activities,
     Mine, LiveBoxKept, Directories, Belongs, Published, Surveyed, Referenced, Unreadable,
     Contents, CountedGood, Valid, Temp, vars, leases, store, exec, gc, gcplan, gcwork
<1> QED BY <1>1, <1>2, <1>3 DEF Next

(* The inductive invariant holds in every reachable state.                 *)
THEOREM Invariance == Spec => []IInv
BY InitInv, NextInv, PTL DEF Spec

(* Every variable has its type: in particular no directory has two names,  *)
(* and no lock outlives its run's directory.                               *)
THEOREM CollectionTyping == Spec => []TypeOK
<1>1. IInv => TypeOK
  BY DEF IInv
<1> QED BY <1>1, Invariance, PTL

(* A run being executed keeps its plan and its lock, and is nobody else's, *)
(* whatever a collection has planned and with whatever option.             *)
THEOREM LiveRunsKept == Spec => []LiveRunKept
<1>1. IInv => LiveRunKept
  BY DEF IInv, Registration
<1> QED BY <1>1, Invariance, PTL

(* The sandbox of an activity at work stays.                               *)
THEOREM LiveBoxesKept == Spec => []LiveBoxKept
<1>1. IInv => LiveBoxKept
  BY DEF IInv
<1> QED BY <1>1, Invariance, PTL

(* A collection takes a valid entry away only when all runs can be read,   *)
(* with or without --include-unreadable.                                   *)
THEOREM NeverBlind == Spec => NothingTakenBlindly
<1>1. IInv /\ [Next]_vars =>
         [cpc' # cpc => \A k \in Keys : Valid(k) /\ ~Valid(k)' => Unreadable = {}]_vars
  <2> SUFFICES ASSUME IInv, Next, cpc' # cpc, NEW k \in Keys, Valid(k), ~Valid(k)'
               PROVE  Unreadable = {}
    OBVIOUS
  <2>1. Collect
    BY ExecFrame DEF Next, IInv, gc
  <2>2. cpc \in {"tear", "empty"}
    BY <2>1, CollectValid
  <2> QED BY <2>2 DEF IInv, Surveyed
<1> QED BY <1>1, Invariance, PTL DEF Spec, NothingTakenBlindly

(* Without --include-unreadable, a collection takes a valid entry away     *)
(* only when no run there is refers to it.                                 *)
THEOREM ReferencesKept ==
  ASSUME ~IncludeUnreadable
  PROVE  Spec => ReferencedKept
<1>1. IInv /\ [Next]_vars =>
         [cpc' # cpc => \A k \in Keys : Valid(k) /\ ~Valid(k)' => k \notin Referenced]_vars
  <2> SUFFICES ASSUME IInv, Next, cpc' # cpc, NEW k \in Keys, Valid(k), ~Valid(k)'
               PROVE  k \notin Referenced
    OBVIOUS
  <2>1. Collect
    BY ExecFrame DEF Next, IInv, gc
  <2>2. cpc \in {"tear", "empty"} /\ at[k] = hand[2] /\ at[k] # None
    BY <2>1, CollectValid DEF Valid
  <2>3. hand[1] \in Keys /\ Belongs(hand[2], hand[1]) /\ hand[1] \notin Referenced
    BY <2>2 DEF IInv, Surveyed
  <2>4. k = hand[1]
    BY <2>2, <2>3, BelongsOnce DEF IInv, Directories
  <2> QED BY <2>3, <2>4
<1> QED BY <1>1, Invariance, PTL DEF Spec, ReferencedKept

(* Without --include-unreadable, what a live run has counted as done is    *)
(* there when it is wanted, or was met invalid by another publisher.       *)
THEOREM CountedStaysGood ==
  ASSUME ~IncludeUnreadable
  PROVE  Spec => []CountedGood
<1>1. IInv => CountedGood
  BY DEF IInv, Contents
<1> QED BY <1>1, Invariance, PTL

=============================================================================
