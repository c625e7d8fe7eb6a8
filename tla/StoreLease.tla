------------------------------ MODULE StoreLease ------------------------------
(***************************************************************************)
(* The reader/writer leases of src/simcairn/coordination.py.  A reader     *)
(* publishes a directory of its own under .locks/readers with a RunLock in *)
(* it; the one writer, store collection, holds a RunLock on .locks/gc and  *)
(* waits until it has seen no reader directory.  A reader looks at the     *)
(* writer before and after publishing.                                     *)
(*                                                                         *)
(* Each RunLock is the lock of CrashLock: absent, present but unsigned, or *)
(* signed by a process.                                                    *)
(***************************************************************************)
EXTENDS Integers, Sequences

CONSTANTS
    Readers, Writers, \* process incarnations; disjoint
    GC,               \* names the RunLock of .locks/gc
    Identified,       \* owners that the other processes can probe
    MaxCalls,         \* bound: leases one process asks for
    MaxFaults         \* bound: the attempts of a reader in which a write may fail

ASSUME RolesAssumption == /\ Readers \cap Writers = {}
                          /\ GC \notin Readers \cup Writers
                          /\ "none" \notin Readers \cup Writers
                          /\ "bare" \notin Readers \cup Writers
ASSUME BoundsAssumption == MaxCalls \in Nat /\ MaxFaults \in Nat

Procs == Readers \cup Writers

VARIABLES
    lock,    \* GC and readers to "none", "bare" or the process that signed
    home,    \* the directories under .locks/readers
    tries,   \* attempts of each reader: they name its directories
    pc, calls,
    after,   \* where a reader goes when its lease is withdrawn
    todo, blocked, cur, \* the writer's pass: directories left, verdict, at hand
    stage    \* how far the writer is with taking over an abandoned lease

vars == <<lock, home, tries, pc, calls, after, todo, blocked, cur, stage>>
pass == <<todo, blocked, cur, stage>>

(* Every attempt has a directory of its own, named by a fresh token, and  *)
(* the last one is the only one of its reader that can still exist.        *)
Dirs   == Readers \X Nat
NoDir  == <<"none", 0>>
Dir(r) == <<r, tries[r]>>
LockIn(d) == IF d \in home THEN lock[d[1]] ELSE "none"

ReaderLabels == {"out", "check", "home", "claim", "sign", "scrap", "recheck",
                 "read", "unsign", "unlock", "rmhome", "dead"}
WriterLabels == {"out", "claim", "clear", "sign", "list", "pick", "judge", "rmdir",
                 "reap", "collect", "unsign", "unlock", "dead"}

Dead(p)  == pc[p] = "dead"
Stale(s) == s \in Procs /\ s \in Identified /\ Dead(s)

(* Mutant: a dead collector's lock counts as an active one *)
WriterActiveOrDead == lock[GC] # "none"

(* run_lock_state: "none" is None; anything but a stale owner is busy *)
WriterActive == lock[GC] # "none" /\ ~Stale(lock[GC])
-----------------------------------------------------------------------------
Init ==
    /\ lock = [c \in Readers \cup {GC} |-> "none"]
    /\ home = {}
    /\ tries = [r \in Readers |-> 0]
    /\ pc = [p \in Procs |-> "out"]
    /\ calls = [p \in Procs |-> 0]
    /\ after = [r \in Readers |-> "out"]
    /\ todo = [w \in Writers |-> {}]
    /\ blocked = [w \in Writers |-> FALSE]
    /\ cur = [w \in Writers |-> NoDir]
    /\ stage = [w \in Writers |-> 0]

Goto(p, l) == pc' = [pc EXCEPT ![p] = l] /\ UNCHANGED calls
SetLock(c, s) == lock' = [lock EXCEPT ![c] = s]

Start(p, l) == /\ pc[p] = "out" /\ calls[p] < MaxCalls
               /\ pc' = [pc EXCEPT ![p] = l]
               /\ calls' = [calls EXCEPT ![p] = @ + 1]
               /\ UNCHANGED <<lock, home, tries, after, pass>>
-----------------------------------------------------------------------------
(* StoreReadLease.__enter__ *)
StartRead(r) == Start(r, "check")

(* The first look at the writer; while it is active the reader polls *)
Check(r) ==
    /\ pc[r] = "check" /\ ~WriterActive
    /\ Goto(r, "home")
    /\ UNCHANGED <<lock, home, tries, after, pass>>

CheckTimeout(r) ==
    /\ pc[r] = "check" /\ WriterActive
    /\ Goto(r, "out")
    /\ UNCHANGED <<lock, home, tries, after, pass>>

MakeHome(r) ==
    /\ pc[r] = "home"
    /\ tries' = [tries EXCEPT ![r] = @ + 1]
    /\ home' = home \cup {Dir(r)'}
    /\ Goto(r, "claim")
    /\ UNCHANGED <<lock, after, pass>>

(* RunLock(directory).__enter__; it fails when a writer removed the       *)
(* directory in the meantime                                               *)
ClaimLease(r) ==
    /\ pc[r] = "claim"
    /\ IF Dir(r) \in home THEN SetLock(r, "bare") /\ Goto(r, "sign")
                          ELSE UNCHANGED lock /\ Goto(r, "scrap")
    /\ UNCHANGED <<home, tries, after, pass>>

SignLease(r) ==
    /\ pc[r] = "sign"
    /\ SetLock(r, r) /\ Goto(r, "recheck")
    /\ UNCHANGED <<home, tries, after, pass>>

SignFails(r) ==
    /\ pc[r] = "sign" /\ tries[r] <= MaxFaults
    /\ SetLock(r, "none") /\ Goto(r, "scrap")
    /\ UNCHANGED <<home, tries, after, pass>>

(* rmtree of the directory that holds no lock, then again or give up *)
Scrap(r) ==
    /\ pc[r] = "scrap"
    /\ home' = home \ {Dir(r)}
    /\ \E l \in {"check", "out"} : Goto(r, l)
    /\ UNCHANGED <<lock, tries, after, pass>>

(* Mutant: no second look *)
RecheckNothing(r) ==
    /\ pc[r] = "recheck"
    /\ Goto(r, "read")
    /\ UNCHANGED <<lock, home, tries, after, pass>>

(* The second look: a writer that came first makes the reader withdraw *)
Recheck(r) ==
    /\ pc[r] = "recheck"
    /\ IF WriterActive
       THEN /\ Goto(r, "unsign")
            /\ \E l \in {"check", "out"} : after' = [after EXCEPT ![r] = l]
       ELSE Goto(r, "read") /\ UNCHANGED after
    /\ UNCHANGED <<lock, home, tries, pass>>

(* The body of `with StoreReadLease` is over *)
FinishRead(r) ==
    /\ pc[r] = "read"
    /\ Goto(r, "unsign")
    /\ after' = [after EXCEPT ![r] = "out"]
    /\ UNCHANGED <<lock, home, tries, pass>>

(* _release: the lock's marker, if it is still there, and its directory; *)
(* then the reader's directory, if it is empty                            *)
Unsign(r) ==
    /\ pc[r] = "unsign"
    /\ IF lock[r] = r THEN SetLock(r, "bare") /\ Goto(r, "unlock")
                      ELSE UNCHANGED lock /\ Goto(r, "rmhome")
    /\ UNCHANGED <<home, tries, after, pass>>

Unlock(r) ==
    /\ pc[r] = "unlock"
    /\ SetLock(r, "none") /\ Goto(r, "rmhome")
    /\ UNCHANGED <<home, tries, after, pass>>

RemoveHome(r) ==
    /\ pc[r] = "rmhome"
    /\ IF lock[r] = "none"
       THEN home' = home \ {Dir(r)} /\ Goto(r, after[r])
       ELSE UNCHANGED home /\ Goto(r, "out")
    /\ after' = [after EXCEPT ![r] = "out"]
    /\ UNCHANGED <<lock, tries, pass>>
-----------------------------------------------------------------------------
(* StoreWriteLease.__enter__ *)
StartCollect(w) == Start(w, "claim")

(* RunLock(writer).__enter__: claim, break a stale lock, or raise *)
ClaimGC(w) ==
    /\ pc[w] = "claim"
    /\ IF lock[GC] = "none" THEN SetLock(GC, "bare") /\ Goto(w, "sign")
       ELSE IF Stale(lock[GC]) THEN SetLock(GC, "bare") /\ Goto(w, "clear")
       ELSE UNCHANGED lock /\ Goto(w, "out")
    /\ UNCHANGED <<home, tries, after, pass>>

ClearGC(w) ==
    /\ pc[w] = "clear"
    /\ SetLock(GC, "none") /\ Goto(w, "claim")
    /\ UNCHANGED <<home, tries, after, pass>>

SignGC(w) ==
    /\ pc[w] = "sign"
    /\ SetLock(GC, w) /\ Goto(w, "list")
    /\ UNCHANGED <<home, tries, after, pass>>

(* A rollback: RunLock.__enter__ tries again or raises *)
SignGCFails(w) ==
    /\ pc[w] = "sign"
    /\ SetLock(GC, "none")
    /\ Goto(w, "out")
    /\ UNCHANGED <<home, tries, after, pass>>

(* One pass over a snapshot of the readers' directories, and another one *)
(* after a pass that met a blocker                                        *)
List(w) ==
    /\ \/ pc[w] = "list"
       \/ pc[w] = "pick" /\ todo[w] = {} /\ blocked[w]
    /\ todo' = [todo EXCEPT ![w] = home]
    /\ blocked' = [blocked EXCEPT ![w] = FALSE]
    /\ Goto(w, "pick")
    /\ UNCHANGED <<lock, home, tries, after, cur, stage>>

(* A directory that is gone by now counts as a blocker for this pass *)
Pick(w) ==
    /\ pc[w] = "pick"
    /\ \E d \in todo[w] :
          /\ todo' = [todo EXCEPT ![w] = @ \ {d}]
          /\ IF d \in home
             THEN /\ cur' = [cur EXCEPT ![w] = d]
                  /\ Goto(w, "judge") /\ UNCHANGED blocked
             ELSE /\ blocked' = [blocked EXCEPT ![w] = TRUE]
                  /\ UNCHANGED <<pc, calls, cur>>
    /\ UNCHANGED <<lock, home, tries, after, stage>>

(* To the next directory, after a verdict about this one *)
Done(w, isBlocker) ==
    /\ Goto(w, "pick")
    /\ blocked' = [blocked EXCEPT ![w] = @ \/ isBlocker]
    /\ cur' = [cur EXCEPT ![w] = NoDir]
    /\ stage' = [stage EXCEPT ![w] = 0]

(* Mutant: every signed lease is reaped *)
JudgeSigned(w) ==
    /\ pc[w] = "judge"
    /\ LET state == LockIn(cur[w]) IN
          \/ state = "none" /\ Goto(w, "rmdir") /\ UNCHANGED <<blocked, cur, stage>>
          \/ state \in Procs /\ Goto(w, "reap") /\ UNCHANGED <<blocked, cur, stage>>
          \/ state = "bare" /\ Done(w, TRUE)
    /\ UNCHANGED <<lock, home, tries, after, todo>>

(* Mutant: a stale lease blocks like a live one *)
JudgeNoReap(w) ==
    /\ pc[w] = "judge"
    /\ \/ LockIn(cur[w]) = "none" /\ Goto(w, "rmdir") /\ UNCHANGED <<blocked, cur, stage>>
       \/ LockIn(cur[w]) # "none" /\ Done(w, TRUE)
    /\ UNCHANGED <<lock, home, tries, after, todo>>

(* _reap_abandoned_reader decides by run_lock_state of the reader *)
Judge(w) ==
    /\ pc[w] = "judge"
    /\ LET state == LockIn(cur[w]) IN
          \/ state = "none" /\ Goto(w, "rmdir") /\ UNCHANGED <<blocked, cur, stage>>
          \/ Stale(state) /\ Goto(w, "reap") /\ UNCHANGED <<blocked, cur, stage>>
          \/ state # "none" /\ ~Stale(state) /\ Done(w, TRUE)
    /\ UNCHANGED <<lock, home, tries, after, todo>>

(* rmdir refuses a directory that is no longer empty *)
RemoveEmpty(w) ==
    /\ pc[w] = "rmdir"
    /\ home' = IF LockIn(cur[w]) = "none" THEN home \ {cur[w]} ELSE home
    /\ Done(w, LockIn(cur[w]) # "none")
    /\ UNCHANGED <<lock, tries, after, todo>>

(* `with RunLock(directory): pass` over a stale lock: erase its owner,    *)
(* remove it, make it again, sign it, and release it.  Nobody else acts on *)
(* a dead reader's lock while this process holds .locks/gc.                *)
TakeOver(w) == <<"bare", "none", "bare", w, "bare", "none">>

Reap(w) ==
    /\ pc[w] = "reap"
    /\ stage' = [stage EXCEPT ![w] = @ + 1]
    /\ SetLock(cur[w][1], TakeOver(w)[stage[w] + 1])
    /\ IF stage[w] + 1 = Len(TakeOver(w)) THEN Goto(w, "rmdir")
                                          ELSE UNCHANGED <<pc, calls>>
    /\ UNCHANGED <<home, tries, after, todo, blocked, cur>>

(* Mutant: a pass that met a blocker counts as a clean one *)
EnterAnyway(w) ==
    /\ pc[w] = "pick" /\ todo[w] = {}
    /\ Goto(w, "collect")
    /\ UNCHANGED <<lock, home, tries, after, pass>>

Enter(w) ==
    /\ pc[w] = "pick" /\ todo[w] = {} /\ ~blocked[w]
    /\ Goto(w, "collect")
    /\ UNCHANGED <<lock, home, tries, after, pass>>

(* The deadline after a blocked pass, or an OSError while listing *)
ScanFails(w) ==
    /\ \/ pc[w] = "list"
       \/ pc[w] = "pick" /\ todo[w] = {} /\ blocked[w]
    /\ Goto(w, "unsign")
    /\ blocked' = [blocked EXCEPT ![w] = FALSE]
    /\ UNCHANGED <<lock, home, tries, after, todo, cur, stage>>

FinishCollect(w) ==
    /\ pc[w] = "collect"
    /\ Goto(w, "unsign")
    /\ UNCHANGED <<lock, home, tries, after, pass>>

UnsignGC(w) ==
    /\ pc[w] = "unsign"
    /\ SetLock(GC, "bare") /\ Goto(w, "unlock")
    /\ UNCHANGED <<home, tries, after, pass>>

UnlockGC(w) ==
    /\ pc[w] = "unlock"
    /\ SetLock(GC, "none") /\ Goto(w, "out")
    /\ UNCHANGED <<home, tries, after, pass>>

(* What the process knew is gone; what it did to the file system stays *)
Crash(p) ==
    /\ pc[p] # "dead"
    /\ Goto(p, "dead")
    /\ after' = [r \in Readers |-> IF r = p THEN "out" ELSE after[r]]
    /\ todo' = [w \in Writers |-> IF w = p THEN {} ELSE todo[w]]
    /\ blocked' = [w \in Writers |-> IF w = p THEN FALSE ELSE blocked[w]]
    /\ cur' = [w \in Writers |-> IF w = p THEN NoDir ELSE cur[w]]
    /\ stage' = [w \in Writers |-> IF w = p THEN 0 ELSE stage[w]]
    /\ UNCHANGED <<lock, home, tries>>
-----------------------------------------------------------------------------
(* The steps a live process takes when it is scheduled, and the rest: the *)
(* start of a call, an expired deadline, a failed write, the end.         *)
ReaderRuns(r) == \/ Check(r) \/ MakeHome(r) \/ ClaimLease(r) \/ SignLease(r)
                 \/ Scrap(r) \/ Recheck(r) \/ FinishRead(r)
                 \/ Unsign(r) \/ Unlock(r) \/ RemoveHome(r)

WriterRuns(w) == \/ ClaimGC(w) \/ ClearGC(w) \/ SignGC(w) \/ List(w) \/ Pick(w)
                 \/ Judge(w) \/ RemoveEmpty(w) \/ Reap(w) \/ Enter(w) 
                 \/ FinishCollect(w) \/ UnsignGC(w) \/ UnlockGC(w)

ReaderStep(r) == ReaderRuns(r) \/ StartRead(r) \/ CheckTimeout(r) \/ SignFails(r)
WriterStep(w) == WriterRuns(w) \/ StartCollect(w) \/ SignGCFails(w) \/ ScanFails(w)

Next == \/ \E r \in Readers : ReaderStep(r) \/ Crash(r)
        \/ \E w \in Writers : WriterStep(w) \/ Crash(w)

Spec == Init /\ [][Next]_vars

FairSpec == /\ Spec
            /\ \A r \in Readers : WF_vars(ReaderRuns(r))
            /\ \A w \in Writers : WF_vars(WriterRuns(w))
-----------------------------------------------------------------------------
TypeOK ==
    /\ lock \in [Readers \cup {GC} -> Procs \cup {"none", "bare"}]
    /\ home \subseteq Dirs
    /\ tries \in [Readers -> Nat]
    /\ pc \in [Procs -> ReaderLabels \cup WriterLabels]
    /\ \A r \in Readers : pc[r] \in ReaderLabels
    /\ \A w \in Writers : pc[w] \in WriterLabels
    /\ calls \in [Procs -> 0 .. MaxCalls]
    /\ after \in [Readers -> {"check", "out"}]
    /\ todo \in [Writers -> SUBSET Dirs]
    /\ blocked \in [Writers -> BOOLEAN]
    /\ cur \in [Writers -> Dirs \cup {NoDir}]
    /\ stage \in [Writers -> 0 .. 6]
    /\ \A w \in Writers : /\ pc[w] = "reap" => stage[w] < 6
                          /\ pc[w] \notin {"reap", "rmdir"} => stage[w] = 0
                          /\ pc[w] \in {"judge", "rmdir", "reap"} => cur[w] \in Dirs

(* Store collection never runs while a reader is inside its lease, however *)
(* the two publications and the two looks interleave and whoever dies.     *)
ReadersExcludeWriter ==
    \A r \in Readers, w \in Writers : ~(pc[r] = "read" /\ pc[w] = "collect")

(* Two collections never run together.                                     *)
OneCollector ==
    \A v, w \in Writers : pc[v] = "collect" /\ pc[w] = "collect" => v = w

(* The protocol is a barrier: a reader is let in while no writer is in, and *)
(* a writer while nobody is; a death counts as leaving.                    *)
Barrier == INSTANCE StoreBarrier WITH
               reading    <- {r \in Readers : pc[r] = "read"},
               collecting <- {w \in Writers : pc[w] = "collect"}
ImplementsBarrier == Barrier!BarrierSpec

(* A writer takes away only leases of the dead and directories in which no *)
(* reader got its lock yet; a live reader's signed lease goes by its hand. *)
LiveLeaseKept ==
    [][\A r \in Readers :
          lock[r] = r /\ lock'[r] # r => pc[r] \in {"unsign", "dead"}]_vars

(* Who has a lock in hand while nobody's name is in it.                    *)
AtWork(p, c) == IF c = GC THEN p \in Writers /\ pc[p] \in {"sign", "clear", "unlock"}
                ELSE \/ p = c /\ pc[p] \in {"sign", "unlock"}
                     \/ p \in Writers /\ pc[p] = "reap" /\ cur[p][1] = c
Hands(c) == {p \in Procs : lock[c] = "bare" /\ AtWork(p, c)}

(* Every lock is used as CrashLock allows, also by a collector that takes  *)
(* over what a dead reader or collector left: nobody makes one that is     *)
(* there, signs or removes one he has not in hand, or erases the name of   *)
(* another who is alive.  What RunLock promises therefore suffices.        *)
Lock(c) == INSTANCE CrashLock WITH
               Operators <- {},
               present   <- lock[c] # "none",
               signer    <- {lock[c]} \cap Procs,
               hand      <- Hands(c),
               dead      <- {p \in Procs : Dead(p)}
ImplementsCrashLocks ==
    /\ \A c \in Readers \cup {GC} : Lock(c)!Init
    /\ [][\A c \in Readers \cup {GC} : Lock(c)!Next \/ UNCHANGED Lock(c)!vars]_vars

(* What nobody clears: a lock whose process died before it signed it, or   *)
(* an owner that cannot be probed.                                         *)
Stuck(c) == \/ lock[c] = "bare" /\ \A p \in Procs : ~AtWork(p, c)
            \/ lock[c] \in Procs \ Identified /\ Dead(lock[c])

(* Deadlines aside, a writer that holds .locks/gc gets its turn: readers   *)
(* that are in leave, later ones wait, and abandoned leases are reaped,    *)
(* unless one of them is stuck.                                            *)
WriterProceeds ==
    \A w \in Writers :
        pc[w] = "list" ~> \/ pc[w] \in {"collect", "unsign", "dead"}
                          \/ \E r \in Readers : Stuck(r)

(* Deadlines aside, a reader that polls gets in once collections end: it   *)
(* takes no offence at a dead collector, nor a collector at a dead reader. *)
ReaderProceeds ==
    \A r \in Readers :
        pc[r] = "check" ~> \/ pc[r] \in {"read", "out", "dead"}
                           \/ \E c \in Readers \cup {GC} : Stuck(c)
=============================================================================
