--------------------------- MODULE StoreLeaseProofs ---------------------------
(***************************************************************************)
(* Proofs about StoreLease, for any readers and writers: collection        *)
(* excludes readers and other collections.  The argument is Dekker's, over *)
(* a snapshot of directories: whoever publishes second sees the other.     *)
(* And every lock of a store is used as CrashLock allows.                  *)
(***************************************************************************)
EXTENDS StoreLease, TLAPS

Holding == {"list", "pick", "judge", "rmdir", "reap", "collect", "unsign"}
Working == {"sign", "clear", "unlock"}
Scanning == {"pick", "judge", "rmdir", "reap"}

(* Who is past the claim of .locks/gc has signed it or is at work on it.  *)
WriterLock ==
    \A w \in Writers :
       /\ pc[w] \in Holding => lock[GC] = w
       /\ pc[w] \in Working => lock[GC] = "bare"
       /\ \A v \in Writers : pc[v] \in Working /\ pc[w] \in Working => v = w

(* A reader past its publication has its directory and its own lock in it. *)
ReaderLock ==
    \A r \in Readers :
       /\ pc[r] \in {"recheck", "read", "unsign"} => lock[r] = r
       /\ pc[r] \in {"sign", "unlock"} => lock[r] = "bare"
       /\ pc[r] \in {"sign", "recheck", "read", "unsign"} => Dir(r) \in home
       /\ lock[r] = r => pc[r] \in {"recheck", "read", "unsign", "dead"}
       /\ lock[r] \in Writers => Dead(r)
       /\ lock[r] \in Readers => lock[r] = r

(* Only the directories of dead readers are taken over.                    *)
Reaping == \A w \in Writers : pc[w] = "reap" => Dead(cur[w][1])

(* A pass that overlaps a reader has it still ahead, at hand, or blocked.  *)
Noticed ==
    \A r \in Readers, w \in Writers :
       pc[r] = "read" =>
          /\ pc[w] # "collect"
          /\ pc[w] \in Scanning =>
                \/ Dir(r) \in todo[w]
                \/ blocked[w] = TRUE
                \/ pc[w] # "pick" /\ cur[w] = Dir(r)

IInv == TypeOK /\ WriterLock /\ ReaderLock /\ Reaping /\ Noticed
-----------------------------------------------------------------------------
(* Nothing is published and nobody is in at the start.                   *)
LEMMA InitInv == Init => IInv
<1> SUFFICES ASSUME Init PROVE IInv
  OBVIOUS
<1>1. TypeOK
  BY BoundsAssumption DEF Init, TypeOK, ReaderLabels, WriterLabels, Procs, Dirs
<1>2. WriterLock /\ Reaping /\ Noticed
  BY DEF Init, WriterLock, Reaping, Noticed, Holding, Working, Scanning, Procs
<1>3. ReaderLock
  BY RolesAssumption DEF Init, ReaderLock, Procs
<1> QED BY <1>1, <1>2, <1>3 DEF IInv

(* What taking over a lock writes into it, step by step.                   *)
LEMMA TakeOverSteps ==
  ASSUME NEW w \in Writers, NEW i \in 0 .. 5
  PROVE  TakeOver(w)[i + 1] \in {"bare", "none", w} /\ Len(TakeOver(w)) = 6
<1>1. i \in {0, 1, 2, 3, 4, 5}
  OBVIOUS
<1> QED BY <1>1 DEF TakeOver

(* A process moves only itself, and a process does not come back.          *)
LEMMA StepLocal ==
  ASSUME TypeOK, NEW p \in Procs,
         \/ p \in Readers /\ ReaderStep(p)
         \/ p \in Writers /\ WriterStep(p)
         \/ Crash(p)
  PROVE  /\ \A q \in Procs \ {p} : pc'[q] = pc[q]
         /\ \A q \in Procs : pc[q] = "dead" => pc'[q] = "dead"
<1>1. pc \in [Procs -> ReaderLabels \cup WriterLabels]
  BY DEF TypeOK
<1>2. CASE p \in Readers /\ ReaderStep(p)
  BY <1>1, <1>2 DEF ReaderStep, ReaderRuns, StartRead, Start, Check, CheckTimeout, MakeHome,
     ClaimLease, SignLease, SignFails, Scrap, Recheck, FinishRead, Unsign, Unlock,
     RemoveHome, Goto
<1>3. CASE p \in Writers /\ WriterStep(p)
  BY <1>1, <1>3 DEF WriterStep, WriterRuns, StartCollect, Start, ClaimGC, ClearGC, SignGC,
     SignGCFails, List, Pick, Judge, Done, RemoveEmpty, Reap, Enter, ScanFails,
     FinishCollect, UnsignGC, UnlockGC, Goto
<1>4. CASE Crash(p)
  BY <1>1, <1>4 DEF Crash, Goto
<1> QED BY <1>2, <1>3, <1>4
-----------------------------------------------------------------------------
(* Every step of a reader keeps the types.                               *)
LEMMA ReaderType ==
  ASSUME TypeOK, NEW r \in Readers, ReaderStep(r)
  PROVE  TypeOK'
<1> USE DEF TypeOK, Procs, Dirs, Goto, SetLock, pass
<1>0. Readers \cap Writers = {}
  BY RolesAssumption
<1>l. ReaderLabels = {"out", "check", "home", "claim", "sign", "scrap", "recheck",
                      "read", "unsign", "unlock", "rmhome", "dead"}
  BY DEF ReaderLabels
<1>1. CASE StartRead(r) BY <1>0, <1>1, <1>l, BoundsAssumption DEF StartRead, Start
<1>2. CASE Check(r) \/ CheckTimeout(r) BY <1>0, <1>2, <1>l DEF Check, CheckTimeout
<1>3. CASE MakeHome(r) BY <1>0, <1>3, <1>l DEF MakeHome, Dir
<1>4. CASE ClaimLease(r) BY <1>0, <1>4, <1>l DEF ClaimLease
<1>5. CASE SignLease(r) \/ SignFails(r) BY <1>0, <1>5, <1>l DEF SignLease, SignFails
<1>6. CASE Scrap(r) BY <1>0, <1>6, <1>l DEF Scrap
<1>7. CASE Recheck(r) \/ FinishRead(r) BY <1>0, <1>7, <1>l DEF Recheck, FinishRead
<1>8. CASE Unsign(r) \/ Unlock(r) BY <1>0, <1>8, <1>l DEF Unsign, Unlock
<1>9. CASE RemoveHome(r) BY <1>0, <1>9, <1>l DEF RemoveHome
<1> QED BY <1>1, <1>2, <1>3, <1>4, <1>5, <1>6, <1>7, <1>8, <1>9 DEF ReaderStep, ReaderRuns

(* Every step of a writer keeps the types.                               *)
LEMMA WriterType ==
  ASSUME TypeOK, NEW w \in Writers, WriterStep(w)
  PROVE  TypeOK'
<1> USE DEF TypeOK, Procs, Goto, SetLock, pass
<1>0. Readers \cap Writers = {}
  BY RolesAssumption
<1>l. WriterLabels = {"out", "claim", "clear", "sign", "list", "pick", "judge", "rmdir",
                      "reap", "collect", "unsign", "unlock", "dead"}
  BY DEF WriterLabels
<1>1. CASE StartCollect(w) BY <1>0, <1>1, <1>l, BoundsAssumption DEF StartCollect, Start
<1>2. CASE ClaimGC(w) \/ ClearGC(w) BY <1>0, <1>2, <1>l DEF ClaimGC, ClearGC
<1>3. CASE SignGC(w) \/ SignGCFails(w) BY <1>0, <1>3, <1>l DEF SignGC, SignGCFails
<1>4. CASE List(w) BY <1>0, <1>4, <1>l DEF List
<1>5. CASE Pick(w)
  <2> PICK d \in todo[w] :
         /\ todo' = [todo EXCEPT ![w] = @ \ {d}]
         /\ \/ cur' = [cur EXCEPT ![w] = d] /\ pc' = [pc EXCEPT ![w] = "judge"]
               /\ UNCHANGED blocked
            \/ blocked' = [blocked EXCEPT ![w] = TRUE] /\ UNCHANGED <<pc, cur>>
    BY <1>5 DEF Pick
  <2>1. d \in Dirs /\ pc[w] = "pick"
    BY <1>5 DEF Pick
  <2>2. todo' \in [Writers -> SUBSET Dirs]
    OBVIOUS
  <2>3. cur' \in [Writers -> Dirs \cup {NoDir}] /\ blocked' \in [Writers -> BOOLEAN]
    <3>1. cur' = [cur EXCEPT ![w] = d] \/ UNCHANGED cur
      OBVIOUS
    <3>2. cur' \in [Writers -> Dirs \cup {NoDir}]
      BY <2>1, <3>1
    <3>3. UNCHANGED blocked \/ blocked' = [blocked EXCEPT ![w] = TRUE]
      OBVIOUS
    <3>4. blocked' \in [Writers -> BOOLEAN]
      BY <3>3
    <3> QED BY <3>2, <3>4
  <2>4. \A v \in Writers :
           pc'[v] \in {"judge", "rmdir", "reap"} => cur'[v] \in Dirs
    BY <2>1
  <2> QED BY <1>0, <1>5, <1>l, <2>1, <2>2, <2>3, <2>4 DEF Pick
<1>6. CASE Judge(w)
  <2>1. CASE Done(w, TRUE) BY <1>0, <1>6, <1>l, <2>1 DEF Judge, Done
  <2>2. CASE ~Done(w, TRUE)
    <3>1. /\ pc' = [pc EXCEPT ![w] = "rmdir"] \/ pc' = [pc EXCEPT ![w] = "reap"]
          /\ UNCHANGED <<lock, home, tries, calls, after, todo, blocked, cur, stage>>
          /\ pc[w] = "judge"
      BY <1>6, <2>2 DEF Judge
    <3>2. stage[w] = 0
      BY <3>1
    <3> QED BY <1>0, <1>l, <3>1, <3>2
  <2> QED BY <2>1, <2>2
<1>7. CASE RemoveEmpty(w) BY <1>0, <1>7, <1>l DEF RemoveEmpty, Done
<1>8. CASE Reap(w)
  <2>1. stage[w] \in 0 .. 5 /\ cur[w] \in Dirs /\ cur[w][1] \in Readers
    BY <1>8 DEF Reap, Dirs
  <2>2. TakeOver(w)[stage[w] + 1] \in {"bare", "none", w} /\ Len(TakeOver(w)) = 6
    BY <2>1, TakeOverSteps
  <2>3. lock' \in [Readers \cup {GC} -> Procs \cup {"none", "bare"}]
    BY <1>8, <2>1, <2>2 DEF Reap
  <2>4. stage' \in [Writers -> 0 .. 6] /\ stage'[w] = stage[w] + 1
    BY <1>8, <2>1 DEF Reap
  <2>5. pc' = [pc EXCEPT ![w] = "rmdir"] \/ (pc' = pc /\ stage'[w] < 6)
    BY <1>8, <2>1, <2>2, <2>4 DEF Reap
  <2>6. \A v \in Writers : v # w => stage'[v] = stage[v] /\ pc'[v] = pc[v]
    BY <1>8, <2>1, <2>5 DEF Reap
  <2>7. \A v \in Writers :
           /\ pc'[v] = "reap" => stage'[v] < 6
           /\ pc'[v] \notin {"reap", "rmdir"} => stage'[v] = 0
           /\ pc'[v] \in {"judge", "rmdir", "reap"} => cur'[v] \in Dirs
    BY <1>8, <2>1, <2>5, <2>6 DEF Reap
  <2>8. UNCHANGED <<home, tries, calls, after, todo, blocked, cur>>
    BY <1>8 DEF Reap
  <2> QED BY <1>0, <1>l, <2>3, <2>4, <2>5, <2>7, <2>8
<1>9. CASE Enter(w) \/ ScanFails(w)
  <2>1. CASE Enter(w) BY <1>0, <2>1, <1>l DEF Enter
  <2>2. CASE ScanFails(w) BY <1>0, <2>2, <1>l DEF ScanFails
  <2> QED BY <1>9, <2>1, <2>2
<1>10. CASE FinishCollect(w) \/ UnsignGC(w) \/ UnlockGC(w)
  BY <1>0, <1>10, <1>l DEF FinishCollect, UnsignGC, UnlockGC
<1> QED BY <1>1, <1>2, <1>3, <1>4, <1>5, <1>6, <1>7, <1>8, <1>9, <1>10
        DEF WriterStep, WriterRuns

(* The end of a process keeps the types.                                 *)
LEMMA CrashType ==
  ASSUME TypeOK, NEW p \in Procs, Crash(p)
  PROVE  TypeOK'
<1> USE DEF Crash, TypeOK, Goto
<1>1. /\ pc' \in [Procs -> ReaderLabels \cup WriterLabels]
      /\ \A q \in Procs : pc'[q] = IF q = p THEN "dead" ELSE pc[q]
  BY DEF Procs, ReaderLabels, WriterLabels
<1>2. /\ \A r \in Readers : pc'[r] \in ReaderLabels
      /\ \A w \in Writers : pc'[w] \in WriterLabels
  BY <1>1 DEF Procs, ReaderLabels, WriterLabels
<1>3. after' \in [Readers -> {"check", "out"}] /\ todo' \in [Writers -> SUBSET Dirs]
  OBVIOUS
<1>4. /\ cur' \in [Writers -> Dirs \cup {NoDir}]
      /\ stage' \in [Writers -> 0 .. 6]
      /\ blocked' \in [Writers -> BOOLEAN]
  <2>1. cur' \in [Writers -> Dirs \cup {NoDir}]
    OBVIOUS
  <2>2. stage' \in [Writers -> 0 .. 6]
    OBVIOUS
  <2>3. blocked' \in [Writers -> BOOLEAN]
    BY Zenon
  <2> QED BY <2>1, <2>2, <2>3
<1>5. \A w \in Writers :
         /\ pc'[w] = "reap" => stage'[w] < 6
         /\ pc'[w] \notin {"reap", "rmdir"} => stage'[w] = 0
         /\ pc'[w] \in {"judge", "rmdir", "reap"} => cur'[w] \in Dirs
  BY <1>1 DEF Procs
<1> QED BY <1>1, <1>2, <1>3, <1>4, <1>5
-----------------------------------------------------------------------------
(* What the steps of a reader do to the rest of the system: its own lock   *)
(* and its own directory are all it changes.                               *)
LEMMA ReaderFrame ==
  ASSUME TypeOK, NEW r \in Readers, ReaderStep(r)
  PROVE  /\ \A q \in Procs \ {r} : pc'[q] = pc[q]
         /\ \A c \in (Readers \cup {GC}) \ {r} : lock'[c] = lock[c]
         /\ \A q \in Readers \ {r} : tries'[q] = tries[q]
         /\ \A d \in Dirs : d[1] # r => (d \in home' <=> d \in home)
         /\ UNCHANGED pass
<1> USE DEF TypeOK, Procs, Goto, SetLock, pass, Dirs, Dir
<1>1. CASE StartRead(r) \/ Check(r) \/ CheckTimeout(r)
  BY <1>1 DEF StartRead, Start, Check, CheckTimeout
<1>2. CASE MakeHome(r) BY <1>2 DEF MakeHome
<1>3. CASE ClaimLease(r) \/ SignLease(r) \/ SignFails(r)
  BY <1>3 DEF ClaimLease, SignLease, SignFails
<1>4. CASE Scrap(r) BY <1>4 DEF Scrap
<1>5. CASE Recheck(r) \/ FinishRead(r) \/ Unsign(r) \/ Unlock(r)
  BY <1>5 DEF Recheck, FinishRead, Unsign, Unlock
<1>6. CASE RemoveHome(r) BY <1>6 DEF RemoveHome
<1> QED BY <1>1, <1>2, <1>3, <1>4, <1>5, <1>6 DEF ReaderStep, ReaderRuns

(* And those of a writer: .locks/gc, and, when it takes over or removes    *)
(* one, the lock and the directory at hand.                                *)
LEMMA WriterFrame ==
  ASSUME TypeOK, NEW w \in Writers, WriterStep(w)
  PROVE  /\ \A q \in Procs \ {w} : pc'[q] = pc[q]
         /\ UNCHANGED tries
         /\ ~RemoveEmpty(w) => UNCHANGED home
         /\ ~Reap(w) => \A r \in Readers : lock'[r] = lock[r]
         /\ \A v \in Writers \ {w} :
              /\ todo'[v] = todo[v] /\ blocked'[v] = blocked[v] /\ cur'[v] = cur[v]
<1> USE DEF TypeOK, Procs, Goto, SetLock, pass
<1>0. GC \notin Readers
  BY RolesAssumption
<1>1. CASE StartCollect(w) BY <1>1 DEF StartCollect, Start
<1>2. CASE ClaimGC(w) \/ ClearGC(w) BY <1>0, <1>2 DEF ClaimGC, ClearGC
<1>3. CASE SignGC(w) \/ SignGCFails(w) BY <1>0, <1>3 DEF SignGC, SignGCFails
<1>4. CASE List(w) BY <1>4 DEF List
<1>5. CASE Pick(w) BY <1>5 DEF Pick
<1>6. CASE Judge(w) BY <1>6 DEF Judge, Done
<1>7. CASE RemoveEmpty(w) BY <1>7 DEF RemoveEmpty, Done
<1>8. CASE Reap(w) BY <1>8 DEF Reap
<1>9. CASE Enter(w) BY <1>9 DEF Enter
<1>10. CASE ScanFails(w) BY <1>10 DEF ScanFails
<1>11. CASE FinishCollect(w) BY <1>11 DEF FinishCollect
<1>12. CASE UnsignGC(w) \/ UnlockGC(w) BY <1>0, <1>12 DEF UnsignGC, UnlockGC
<1> QED BY <1>1, <1>2, <1>3, <1>4, <1>5, <1>6, <1>7, <1>8, <1>9, <1>10, <1>11, <1>12
        DEF WriterStep, WriterRuns
-----------------------------------------------------------------------------
(* Every step keeps what .locks/gc says of the writers.                  *)
LEMMA NextWriterLock ==
  ASSUME IInv, NEW p \in Procs,
         \/ p \in Readers /\ ReaderStep(p)
         \/ p \in Writers /\ WriterStep(p)
         \/ Crash(p)
  PROVE  WriterLock'
<1> USE DEF IInv
<1>1. CASE p \in Readers /\ ReaderStep(p)
  <2>1. lock'[GC] = lock[GC] /\ \A w \in Writers : pc'[w] = pc[w]
    BY <1>1, ReaderFrame, RolesAssumption DEF Procs
  <2> QED BY <2>1 DEF WriterLock
<1>2. CASE Crash(p)
  <2>1. lock' = lock /\ \A w \in Writers : pc'[w] \in {pc[w], "dead"}
    BY <1>2 DEF Crash, Goto, TypeOK, Procs
  <2> QED BY <2>1 DEF WriterLock, Holding, Working
<1>3. CASE p \in Writers /\ WriterStep(p)
  <2>0. \A v \in Writers \ {p} : pc'[v] = pc[v]
    BY <1>3, WriterFrame DEF Procs
  <2> USE <1>3 DEF WriterLock, TypeOK, Procs, Goto, SetLock, Holding, Working
  <2>c. GC \notin Readers /\ GC \notin Writers /\ "none" \notin Writers /\ "bare" \notin Writers
    BY RolesAssumption
  <2>1. CASE StartCollect(p) BY <2>0, <2>1 DEF StartCollect, Start
  <2>2. CASE ClaimGC(p)
    <3>1. CASE lock[GC] = "none" BY <2>0, <2>c, <2>2, <3>1 DEF ClaimGC
    <3>2. CASE lock[GC] # "none" /\ Stale(lock[GC])
      <4>1. \A v \in Writers : pc[v] \notin Holding \cup Working
        BY <2>c, <3>2, RolesAssumption DEF Stale, Dead
      <4> QED BY <2>0, <2>c, <2>2, <3>2, <4>1 DEF ClaimGC
    <3>3. CASE lock[GC] # "none" /\ ~Stale(lock[GC])
      BY <2>0, <2>c, <2>2, <3>3 DEF ClaimGC
    <3> QED BY <3>1, <3>2, <3>3
  <2>3. CASE ClearGC(p) BY <2>0, <2>c, <2>3 DEF ClearGC
  <2>4. CASE SignGC(p) \/ SignGCFails(p) BY <2>0, <2>c, <2>4 DEF SignGC, SignGCFails
  <2>5. CASE List(p) \/ Pick(p) BY <2>0, <2>5 DEF List, Pick
  <2>6. CASE Judge(p) \/ RemoveEmpty(p) BY <2>0, <2>6 DEF Judge, RemoveEmpty, Done
  <2>7. CASE Reap(p)
    <3>1. lock'[GC] = lock[GC] /\ pc[p] = "reap" /\ pc'[p] \in {"reap", "rmdir"}
      BY <2>7, <2>c DEF Reap, Dirs
    <3> QED BY <2>0, <3>1
  <2>8. CASE Enter(p) \/ ScanFails(p) \/ FinishCollect(p)
    BY <2>0, <2>8 DEF Enter, ScanFails, FinishCollect
  <2>9. CASE UnsignGC(p) \/ UnlockGC(p) BY <2>0, <2>c, <2>9 DEF UnsignGC, UnlockGC
  <2> QED BY <1>3, <2>1, <2>2, <2>3, <2>4, <2>5, <2>6, <2>7, <2>8, <2>9
          DEF WriterStep, WriterRuns
<1> QED BY <1>1, <1>2, <1>3

(* Every step keeps what the directory of a reader says of it.           *)
LEMMA NextReaderLock ==
  ASSUME IInv, NEW p \in Procs,
         \/ p \in Readers /\ ReaderStep(p)
         \/ p \in Writers /\ WriterStep(p)
         \/ Crash(p)
  PROVE  ReaderLock'
<1> USE DEF IInv
<1> SUFFICES ASSUME NEW r \in Readers
    PROVE  /\ pc'[r] \in {"recheck", "read", "unsign"} => lock'[r] = r
           /\ pc'[r] \in {"sign", "unlock"} => lock'[r] = "bare"
           /\ pc'[r] \in {"sign", "recheck", "read", "unsign"} => Dir(r)' \in home'
           /\ lock'[r] = r => pc'[r] \in {"recheck", "read", "unsign", "dead"}
           /\ lock'[r] \in Writers => pc'[r] = "dead"
           /\ lock'[r] \in Readers => lock'[r] = r
  BY DEF ReaderLock, Dead
<1>c. /\ r \notin Writers /\ "none" # r /\ "bare" # r
      /\ "none" \notin Procs /\ "bare" \notin Procs /\ GC # r
  BY RolesAssumption DEF Procs
<1>d. Dir(r) \in Dirs /\ Dir(r)[1] = r
  BY DEF Dir, Dirs, TypeOK
<1>1. CASE p \in Readers /\ ReaderStep(p) /\ p # r
  <2>1. pc'[r] = pc[r] /\ lock'[r] = lock[r] /\ Dir(r)' = Dir(r)
        /\ (Dir(r) \in home' <=> Dir(r) \in home)
    BY <1>1, <1>d, ReaderFrame DEF Procs, Dir
  <2> QED BY <2>1 DEF ReaderLock, Dead
<1>2. CASE Crash(p)
  <2>1. lock' = lock /\ home' = home /\ Dir(r)' = Dir(r) /\ pc'[r] \in {pc[r], "dead"}
    BY <1>2 DEF Crash, Goto, TypeOK, Procs, Dir
  <2> QED BY <2>1 DEF ReaderLock, Dead
<1>3. CASE p \in Writers /\ WriterStep(p)
  <2>1. pc'[r] = pc[r] /\ Dir(r)' = Dir(r)
    BY <1>3, <1>c, WriterFrame DEF Procs, Dir
  <2>2. CASE RemoveEmpty(p)
    <3>1. lock' = lock
      BY <2>2 DEF RemoveEmpty
    <3>2. Dir(r) \in home /\ lock[r] # "none" => Dir(r) \in home'
      BY <1>d, <2>2 DEF RemoveEmpty, LockIn
    <3> QED BY <1>c, <2>1, <3>1, <3>2 DEF ReaderLock, Dead
  <2>3. CASE Reap(p) /\ cur[p][1] = r
    <3>1. home' = home /\ pc[r] = "dead" /\ cur[p] \in Dirs /\ stage[p] \in 0 .. 5
      BY <1>3, <2>3 DEF Reap, Reaping, Dead, TypeOK
    <3>2. lock'[r] \in {"bare", "none", p}
      BY <1>3, <2>3, <3>1, TakeOverSteps DEF Reap, SetLock, TypeOK
    <3>3. p \notin Readers
      BY <1>3, RolesAssumption
    <3> QED BY <1>3, <1>c, <2>1, <3>1, <3>2, <3>3 DEF Procs
  <2>4. CASE ~RemoveEmpty(p) /\ ~(Reap(p) /\ cur[p][1] = r)
    <3>1. home' = home
      BY <1>3, <2>4, WriterFrame
    <3>2. lock'[r] = lock[r]
      <4>1. CASE Reap(p) BY <2>4, <4>1 DEF Reap, SetLock, TypeOK
      <4>2. CASE ~Reap(p) BY <1>3, <4>2, WriterFrame
      <4> QED BY <4>1, <4>2
    <3> QED BY <2>1, <3>1, <3>2 DEF ReaderLock, Dead
  <2> QED BY <2>2, <2>3, <2>4
<1>4. CASE p = r /\ ReaderStep(r)
  <2> USE <1>c, <1>d DEF TypeOK, Procs, Goto, SetLock, ReaderLock, Dead
  <2>1. CASE StartRead(r) \/ Check(r) \/ CheckTimeout(r)
    BY <2>1 DEF StartRead, Start, Check, CheckTimeout
  <2>2. CASE MakeHome(r) BY <2>2 DEF MakeHome
  <2>3. CASE ClaimLease(r) BY <2>3 DEF ClaimLease, Dir
  <2>4. CASE SignLease(r) BY <2>4 DEF SignLease, Dir
  <2>5. CASE SignFails(r) BY <2>5 DEF SignFails
  <2>6. CASE Scrap(r) BY <2>6 DEF Scrap
  <2>7. CASE Recheck(r) \/ FinishRead(r) BY <2>7 DEF Recheck, FinishRead, Dir
  <2>8. CASE Unsign(r) \/ Unlock(r) BY <2>8 DEF Unsign, Unlock
  <2>9. CASE RemoveHome(r)
    <3>1. pc'[r] \in {"check", "out"} /\ lock' = lock /\ pc[r] = "rmhome"
      BY <2>9 DEF RemoveHome
    <3> QED BY <3>1
  <2> QED BY <1>4, <2>1, <2>2, <2>3, <2>4, <2>5, <2>6, <2>7, <2>8, <2>9
          DEF ReaderStep, ReaderRuns
<1> QED BY <1>1, <1>2, <1>3, <1>4

(* A writer takes over a lease only after it read that its owner is dead. *)
LEMMA NextReaping ==
  ASSUME IInv, NEW p \in Procs,
         \/ p \in Readers /\ ReaderStep(p)
         \/ p \in Writers /\ WriterStep(p)
         \/ Crash(p)
  PROVE  Reaping'
<1> USE DEF IInv
<1> SUFFICES ASSUME NEW w \in Writers, pc'[w] = "reap"
    PROVE  pc'[cur'[w][1]] = "dead"
  BY DEF Reaping, Dead
<1>1. \A q \in Procs : pc[q] = "dead" => pc'[q] = "dead"
  BY StepLocal
<1>2. CASE pc[w] = "reap" /\ cur'[w] = cur[w]
  <2>1. cur[w][1] \in Procs /\ pc[cur[w][1]] = "dead"
    BY <1>2 DEF Reaping, Dead, TypeOK, Dirs, Procs
  <2> QED BY <1>1, <1>2, <2>1
<1>3. CASE p \in Readers /\ ReaderStep(p)
  <2>1. cur' = cur /\ pc'[w] = pc[w]
    BY <1>3, ReaderFrame, RolesAssumption DEF pass, Procs
  <2> QED BY <1>2, <2>1
<1>4. CASE Crash(p)
  <2>1. p # w /\ pc'[w] = pc[w] /\ cur'[w] = cur[w]
    BY <1>4 DEF Crash, Goto, TypeOK, Procs
  <2> QED BY <1>2, <2>1
<1>5. CASE p \in Writers /\ WriterStep(p) /\ p # w
  <2>1. cur'[w] = cur[w] /\ pc'[w] = pc[w]
    BY <1>5, WriterFrame DEF Procs
  <2> QED BY <1>2, <2>1
<1>6. CASE Reap(w)
  BY <1>2, <1>6 DEF Reap
<1>7. CASE Judge(w)
  <2>1. Stale(LockIn(cur[w])) /\ cur' = cur /\ pc[w] = "judge" /\ pc' = [pc EXCEPT ![w] = "reap"]
    BY <1>7 DEF Judge, Done, Goto, TypeOK, Procs
  <2>2. cur[w] \in Dirs /\ cur[w][1] \in Readers
    BY <2>1 DEF TypeOK, Dirs
  <2>3. cur[w] \in home /\ Stale(lock[cur[w][1]])
    BY <2>1, RolesAssumption DEF LockIn, Stale, Procs
  <2>4. pc[cur[w][1]] = "dead"
    <3> DEFINE r == cur[w][1]
    <3>1. CASE lock[r] = r
      BY <2>3, <3>1 DEF Stale, Dead
    <3>2. CASE lock[r] \in Writers
      BY <2>2, <3>2 DEF ReaderLock, Dead
    <3>3. CASE lock[r] \in Readers /\ lock[r] # r
      BY <2>2, <3>3 DEF ReaderLock
    <3> QED BY <2>3, <3>1, <3>2, <3>3 DEF Stale, Procs
  <2> QED BY <1>1, <2>1, <2>2, <2>4 DEF Procs
<1>8. CASE p = w /\ WriterStep(w) /\ ~Reap(w) /\ ~Judge(w)
  <2> USE DEF TypeOK, Procs, Goto
  <2>1. ~(StartCollect(w) \/ ClaimGC(w) \/ ClearGC(w) \/ SignGC(w) \/ SignGCFails(w))
    BY DEF StartCollect, Start, ClaimGC, ClearGC, SignGC, SignGCFails
  <2>2. ~(List(w) \/ Pick(w) \/ RemoveEmpty(w) \/ Enter(w) \/ ScanFails(w))
    BY DEF List, Pick, RemoveEmpty, Done, Enter, ScanFails
  <2>3. ~(FinishCollect(w) \/ UnsignGC(w) \/ UnlockGC(w))
    BY DEF FinishCollect, UnsignGC, UnlockGC
  <2> QED BY <1>8, <2>1, <2>2, <2>3 DEF WriterStep, WriterRuns
<1> QED BY <1>3, <1>4, <1>5, <1>6, <1>7, <1>8

(* While a writer scans or collects, every other process sees it at work. *)
LEMMA HolderSeen ==
  ASSUME IInv, NEW w \in Writers, pc[w] \in Holding
  PROVE  WriterActive
BY RolesAssumption DEF IInv, WriterLock, WriterActive, Stale, Dead, Holding

(* A reader passes its second look only if no writer has listed the readers. *)
LEMMA NextNoticed ==
  ASSUME IInv, NEW p \in Procs,
         \/ p \in Readers /\ ReaderStep(p)
         \/ p \in Writers /\ WriterStep(p)
         \/ Crash(p)
  PROVE  Noticed'
<1> USE DEF IInv
<1> SUFFICES ASSUME NEW r \in Readers, NEW w \in Writers, pc'[r] = "read"
    PROVE  /\ pc'[w] # "collect"
           /\ pc'[w] \in Scanning =>
                 \/ Dir(r)' \in todo'[w]
                 \/ blocked'[w] = TRUE
                 \/ pc'[w] # "pick" /\ cur'[w] = Dir(r)'
  BY DEF Noticed
<1>c. r # w /\ r \in Procs /\ w \in Procs /\ w \notin Readers /\ r \notin Writers
  BY RolesAssumption DEF Procs
<1>1. CASE p = r /\ ReaderStep(r)
  <2>1. pc'[w] = pc[w]
    BY <1>1, <1>c, ReaderFrame
  <2>2. Recheck(r) /\ ~WriterActive
    <3> USE DEF TypeOK, Procs, Goto
    <3>1. ~(StartRead(r) \/ Check(r) \/ CheckTimeout(r) \/ MakeHome(r) \/ ClaimLease(r))
      BY DEF StartRead, Start, Check, CheckTimeout, MakeHome, ClaimLease
    <3>2. ~(SignLease(r) \/ SignFails(r) \/ Scrap(r) \/ FinishRead(r) \/ Unsign(r))
      BY DEF SignLease, SignFails, Scrap, FinishRead, Unsign
    <3>3. ~(Unlock(r) \/ RemoveHome(r))
      BY DEF Unlock, RemoveHome
    <3> QED BY <1>1, <3>1, <3>2, <3>3 DEF ReaderStep, ReaderRuns, Recheck
  <2>3. pc[w] \notin Holding
    BY <2>2, HolderSeen
  <2> QED BY <2>1, <2>3 DEF Holding, Scanning
<1>2. CASE \/ p # r /\ p \in Readers /\ ReaderStep(p)
           \/ p # w /\ p \in Writers /\ WriterStep(p)
  <2>1. /\ pc'[r] = pc[r] /\ pc'[w] = pc[w] /\ tries'[r] = tries[r]
        /\ todo'[w] = todo[w] /\ blocked'[w] = blocked[w] /\ cur'[w] = cur[w]
    BY <1>2, <1>c, ReaderFrame, WriterFrame DEF pass
  <2>2. Dir(r)' = Dir(r)
    BY <2>1 DEF Dir
  <2> QED BY <2>1, <2>2 DEF Noticed
<1>3. CASE Crash(p)
  <2>1. p # r /\ pc'[r] = pc[r] /\ Dir(r)' = Dir(r)
    BY <1>3 DEF Crash, Goto, TypeOK, Procs, Dir
  <2>2. CASE p = w
    <3>1. pc'[w] = "dead"
      BY <1>3, <2>2 DEF Crash, Goto, TypeOK, Procs
    <3> QED BY <3>1 DEF Scanning
  <2>3. CASE p # w
    <3>1. pc'[w] = pc[w] /\ UNCHANGED <<todo[w], blocked[w], cur[w]>>
      BY <1>3, <2>3 DEF Crash, Goto, TypeOK, Procs
    <3> QED BY <2>1, <3>1 DEF Noticed
  <2> QED BY <2>2, <2>3
<1>4. CASE p = w /\ WriterStep(w)
  <2>0. pc'[r] = pc[r] /\ Dir(r)' = Dir(r) /\ Dir(r) \in Dirs /\ Dir(r)[1] = r
    BY <1>4, <1>c, WriterFrame DEF Dir, Dirs, TypeOK
  <2>r. pc[r] = "read" /\ Dir(r) \in home /\ LockIn(Dir(r)) = r /\ ~Stale(r) /\ r # "none"
    BY <2>0, RolesAssumption DEF ReaderLock, LockIn, Stale, Dead
  <2>n. /\ pc[w] # "collect"
        /\ pc[w] \in Scanning => \/ Dir(r) \in todo[w]
                                 \/ blocked[w] = TRUE
                                 \/ pc[w] # "pick" /\ cur[w] = Dir(r)
    BY <2>r DEF Noticed
  <2> USE DEF TypeOK, Procs, Goto, Scanning
  <2>1. CASE StartCollect(w) \/ ClaimGC(w) \/ ClearGC(w) \/ SignGC(w) \/ SignGCFails(w)
    BY <2>1 DEF StartCollect, Start, ClaimGC, ClearGC, SignGC, SignGCFails
  <2>2. CASE List(w)
    <3>1. pc'[w] = "pick" /\ todo'[w] = home
      BY <2>2 DEF List
    <3> QED BY <2>0, <2>r, <3>1
  <2>3. CASE Pick(w)
    <3> PICK d \in todo[w] :
           /\ todo'[w] = todo[w] \ {d}
           /\ \/ d \in home /\ cur'[w] = d /\ pc'[w] = "judge" /\ blocked'[w] = blocked[w]
              \/ blocked'[w] = TRUE /\ pc'[w] = pc[w]
      BY <2>3 DEF Pick
    <3>1. pc[w] = "pick"
      BY <2>3 DEF Pick
    <3> QED BY <2>0, <2>n, <3>1
  <2>4. CASE Judge(w)
    <3>1. pc[w] = "judge" /\ todo' = todo
      BY <2>4 DEF Judge
    <3>2. CASE cur[w] = Dir(r)
      <4>1. Done(w, TRUE)
        BY <2>4, <2>r, <3>2 DEF Judge
      <4> QED BY <4>1, <3>1 DEF Done
    <3>3. CASE cur[w] # Dir(r)
      <4>1. (Dir(r) \in todo[w] \/ blocked[w] = TRUE) /\ pc'[w] # "collect"
        BY <2>n, <2>4, <3>1, <3>3 DEF Judge, Done
      <4>2. blocked[w] = TRUE => blocked'[w] = TRUE
        BY <2>4 DEF Judge, Done
      <4> QED BY <2>0, <3>1, <4>1, <4>2
    <3> QED BY <3>2, <3>3
  <2>5. CASE RemoveEmpty(w)
    <3>1. pc[w] = "rmdir" /\ pc'[w] = "pick" /\ todo' = todo
      BY <2>5 DEF RemoveEmpty, Done
    <3>2. blocked'[w] = (blocked[w] \/ LockIn(cur[w]) # "none")
      BY <2>5 DEF RemoveEmpty, Done
    <3>3. Dir(r) \in todo[w] \/ blocked'[w] = TRUE
      BY <2>n, <2>r, <3>1, <3>2
    <3> QED BY <2>0, <3>1, <3>3
  <2>6. CASE Reap(w)
    <3>1. pc[w] = "reap" /\ UNCHANGED <<todo, blocked, cur>> /\ cur[w] # Dir(r)
      BY <2>6, <2>r, <2>0 DEF Reap, Reaping, Dead
    <3>2. pc'[w] \in {"reap", "rmdir"}
      BY <2>6 DEF Reap
    <3> QED BY <2>0, <2>n, <3>1, <3>2
  <2>7. CASE Enter(w)
    <3>1. pc[w] = "pick" /\ todo[w] = {} /\ ~blocked[w]
      BY <2>7 DEF Enter
    <3> QED BY <2>n, <3>1
  <2>8. CASE ScanFails(w) \/ FinishCollect(w) \/ UnsignGC(w) \/ UnlockGC(w)
    BY <2>8 DEF ScanFails, FinishCollect, UnsignGC, UnlockGC
  <2> QED BY <1>4, <2>1, <2>2, <2>3, <2>4, <2>5, <2>6, <2>7, <2>8 DEF WriterStep, WriterRuns
<1> QED BY <1>1, <1>2, <1>3, <1>4
-----------------------------------------------------------------------------
(* The strengthening is inductive.                                       *)
LEMMA NextInv == IInv /\ [Next]_vars => IInv'
<1> SUFFICES ASSUME IInv, [Next]_vars PROVE IInv'
  OBVIOUS
<1>1. CASE UNCHANGED vars
  <2> USE <1>1 DEF vars
  <2>1. TypeOK' BY DEF IInv, TypeOK
  <2>2. WriterLock' BY DEF IInv, WriterLock
  <2>3. ReaderLock' BY DEF IInv, ReaderLock, Dir, Dead
  <2>4. Reaping' /\ Noticed' BY DEF IInv, Reaping, Noticed, Dir, Dead
  <2> QED BY <2>1, <2>2, <2>3, <2>4 DEF IInv
<1>2. ASSUME NEW p \in Procs,
             \/ p \in Readers /\ ReaderStep(p)
             \/ p \in Writers /\ WriterStep(p)
             \/ Crash(p)
      PROVE  IInv'
  <2>1. TypeOK'
    BY <1>2, ReaderType, WriterType, CrashType DEF IInv
  <2> QED BY <1>2, <2>1, NextWriterLock, NextReaderLock, NextReaping, NextNoticed DEF IInv
<1> QED BY <1>1, <1>2 DEF Next, Procs

(* The inductive invariant holds in every reachable state.               *)
THEOREM LeaseInvariance == Spec => []IInv
<1> QED BY InitInv, NextInv, PTL DEF Spec

(* The leases keep their types, whatever the processes do.                *)
THEOREM LeaseTypes == Spec => []TypeOK
<1>1. IInv => TypeOK
  BY DEF IInv
<1> QED BY <1>1, LeaseInvariance, PTL

(* A read lease and the write lease are never held together: the reason    *)
(* why collection may delete what no reader can be looking at.             *)
THEOREM LeasesExclude == Spec => []ReadersExcludeWriter
<1>1. IInv => ReadersExcludeWriter
  BY DEF IInv, Noticed, ReadersExcludeWriter
<1> QED BY <1>1, LeaseInvariance, PTL

(* Collections exclude one another, over broken stale locks too.           *)
THEOREM CollectionsExclude == Spec => []OneCollector
<1>1. IInv => OneCollector
  BY DEF IInv, WriterLock, OneCollector, Holding
<1> QED BY <1>1, LeaseInvariance, PTL

(* Nobody takes the signed lease of a reader that is alive.               *)
THEOREM LiveLeasesKept == Spec => LiveLeaseKept
<1>1. IInv /\ [Next]_vars =>
        [\A r \in Readers :
            lock[r] = r /\ lock'[r] # r => pc[r] \in {"unsign", "dead"}]_vars
  <2> SUFFICES ASSUME IInv, NEW p \in Procs,
                      \/ p \in Readers /\ ReaderStep(p)
                      \/ p \in Writers /\ WriterStep(p)
                      \/ Crash(p),
                      NEW r \in Readers, lock[r] = r, lock'[r] # r
      PROVE  pc[r] \in {"unsign", "dead"}
    BY DEF Next, Procs
  <2> USE DEF IInv
  <2>1. pc[r] \in {"recheck", "read", "unsign", "dead"}
    BY DEF ReaderLock
  <2>2. CASE p \in Readers /\ ReaderStep(p)
    <3>1. p = r
      BY <2>2, ReaderFrame
    <3> QED BY <2>1, <2>2, <3>1 DEF ReaderStep, ReaderRuns, StartRead, Start, Check,
         CheckTimeout, MakeHome, ClaimLease, SignLease, SignFails, Scrap, Recheck,
         FinishRead, Unsign, Unlock, RemoveHome
  <2>3. CASE p \in Writers /\ WriterStep(p)
    <3>1. Reap(p)
      BY <2>3, WriterFrame
    <3>2. cur[p][1] = r
      BY <3>1 DEF Reap, SetLock, TypeOK
    <3>3. pc[p] = "reap"
      BY <3>1 DEF Reap
    <3> QED BY <2>3, <3>2, <3>3 DEF Reaping, Dead
  <2>4. CASE Crash(p)
    BY <2>4 DEF Crash
  <2> QED BY <2>2, <2>3, <2>4
<1> QED BY <1>1, LeaseInvariance, PTL DEF Spec, LiveLeaseKept
-----------------------------------------------------------------------------
(* The processes inside, as the barrier sees them *)
InLease == {r \in Readers : pc[r] = "read"}
InCollection == {w \in Writers : pc[w] = "collect"}

(* Where one process moves, the barrier sees it enter, leave or nothing.   *)
LEMMA MoveRefines ==
  ASSUME TypeOK, ReadersExcludeWriter, OneCollector,
         TypeOK', ReadersExcludeWriter', OneCollector',
         NEW p \in Procs, \A q \in Procs \ {p} : pc'[q] = pc[q]
  PROVE  [Barrier!BarrierNext]_(Barrier!barrier)
<1> USE RolesAssumption DEF Procs, TypeOK
<1>1. CASE p \in Readers
  <2>1. UNCHANGED InCollection
    BY <1>1 DEF InCollection
  <2>2. CASE pc'[p] = "read"
    <3>1. InLease' = InLease \cup {p}
      BY <1>1, <2>2 DEF InLease
    <3>2. InCollection = {}
      BY <1>1, <2>1, <2>2 DEF InCollection, ReadersExcludeWriter
    <3>3. Barrier!Enter(p)
      BY <2>1, <3>1, <3>2 DEF Barrier!Enter, InLease, InCollection
    <3> QED BY <1>1, <3>3 DEF Barrier!BarrierNext
  <2>3. CASE pc'[p] # "read"
    <3>1. InLease' = InLease \ {p}
      BY <1>1, <2>3 DEF InLease
    <3>2. Barrier!Leave(p)
      BY <2>1, <3>1 DEF Barrier!Leave, InLease, InCollection
    <3> QED BY <1>1, <3>2 DEF Barrier!BarrierNext
  <2> QED BY <2>2, <2>3
<1>2. CASE p \in Writers
  <2>1. UNCHANGED InLease
    BY <1>2 DEF InLease
  <2>2. CASE pc'[p] = "collect" /\ pc[p] = "collect"
    <3>1. UNCHANGED InCollection
      BY <1>2, <2>2 DEF InCollection
    <3> QED BY <2>1, <3>1 DEF Barrier!barrier, InLease, InCollection
  <2>3. CASE pc'[p] = "collect" /\ pc[p] # "collect"
    <3>1. InLease = {}
      BY <1>2, <2>1, <2>3 DEF InLease, ReadersExcludeWriter
    <3>2. InCollection = {} /\ InCollection' = {p}
      BY <1>2, <2>3 DEF InCollection, OneCollector
    <3>3. Barrier!Begin(p)
      BY <2>1, <3>1, <3>2 DEF Barrier!Begin, InLease, InCollection
    <3> QED BY <1>2, <3>3 DEF Barrier!BarrierNext
  <2>4. CASE pc'[p] # "collect"
    <3>1. InCollection' = InCollection \ {p}
      BY <1>2, <2>4 DEF InCollection
    <3>2. Barrier!End(p)
      BY <2>1, <3>1 DEF Barrier!End, InLease, InCollection
    <3> QED BY <1>2, <3>2 DEF Barrier!BarrierNext
  <2> QED BY <2>2, <2>3, <2>4
<1> QED BY <1>1, <1>2

(* The protocol of files implements the barrier that the rest of the      *)
(* program relies on, for any number of readers and collectors.            *)
THEOREM LeaseRefinement == Spec => ImplementsBarrier
<1>1. Init => Barrier!BarrierInit
  BY DEF Init, Barrier!BarrierInit, Procs
<1>2. /\ IInv /\ ReadersExcludeWriter /\ OneCollector
      /\ (IInv /\ ReadersExcludeWriter /\ OneCollector)'
      /\ [Next]_vars
      => [Barrier!BarrierNext]_(Barrier!barrier)
  <2> SUFFICES ASSUME IInv, ReadersExcludeWriter, OneCollector,
                      IInv', ReadersExcludeWriter', OneCollector', [Next]_vars
      PROVE  [Barrier!BarrierNext]_(Barrier!barrier)
    OBVIOUS
  <2>1. CASE UNCHANGED vars
    BY <2>1 DEF vars, Barrier!barrier
  <2>2. ASSUME NEW p \in Procs,
               \/ p \in Readers /\ ReaderStep(p)
               \/ p \in Writers /\ WriterStep(p)
               \/ Crash(p)
        PROVE  [Barrier!BarrierNext]_(Barrier!barrier)
    <3>1. \A q \in Procs \ {p} : pc'[q] = pc[q]
      <4>1. CASE Crash(p) BY <4>1 DEF Crash, Goto, IInv, TypeOK
      <4> QED BY <2>2, <4>1, ReaderFrame, WriterFrame DEF IInv
    <3> QED BY <3>1, MoveRefines DEF IInv
  <2> QED BY <2>1, <2>2 DEF Next, Procs
<1> QED BY <1>1, <1>2, LeaseInvariance, LeasesExclude, CollectionsExclude, PTL
       DEF Spec, ImplementsBarrier, Barrier!BarrierSpec
-----------------------------------------------------------------------------
(* How the locks are used.                                                 *)

(* A live reader that is not between claim and removal has no lock.        *)
Unlocked ==
    \A r \in Readers :
       pc[r] \notin {"sign", "recheck", "read", "unsign", "unlock", "dead"} => lock[r] = "none"

(* A writer that takes over a lease finds in it what it wrote last; at    *)
(* first, the name of a process that is dead.                              *)
Taking ==
    \A w \in Writers : pc[w] = "reap" =>
       LET owner == lock[cur[w][1]]
       IN  /\ stage[w] = 0 => owner \in Procs /\ Dead(owner)
           /\ stage[w] # 0 => owner = TakeOver(w)[stage[w]]

UInv == IInv /\ Unlocked /\ Taking

(* What a take-over wrote in each of its six steps.                       *)
LEMMA TakeOverIs ==
  ASSUME NEW w
  PROVE  /\ TakeOver(w)[1] = "bare" /\ TakeOver(w)[2] = "none" /\ TakeOver(w)[3] = "bare"
         /\ TakeOver(w)[4] = w /\ TakeOver(w)[5] = "bare" /\ TakeOver(w)[6] = "none"
         /\ Len(TakeOver(w)) = 6
BY DEF TakeOver

(* Nobody is locked at the start, and nobody takes over a lease.          *)
LEMMA InitUse == Init => Unlocked /\ Taking
BY DEF Init, Unlocked, Taking, Procs

(* No step gives a live reader a lock but its own claim.                  *)
LEMMA NextUnlocked ==
  ASSUME IInv, Unlocked, NEW p \in Procs,
         \/ p \in Readers /\ ReaderStep(p)
         \/ p \in Writers /\ WriterStep(p)
         \/ Crash(p)
  PROVE  Unlocked'
<1> USE DEF IInv
<1> SUFFICES ASSUME NEW r \in Readers,
                    pc'[r] \notin {"sign", "recheck", "read", "unsign", "unlock", "dead"}
             PROVE  lock'[r] = "none"
  BY DEF Unlocked
<1>c. r \in Procs /\ r \notin Writers /\ r # GC /\ "none" # r /\ "bare" # r
  BY RolesAssumption DEF Procs
<1>1. CASE p # r /\ p \in Readers /\ ReaderStep(p)
  <2>1. pc'[r] = pc[r] /\ lock'[r] = lock[r]
    BY <1>1, <1>c, ReaderFrame
  <2> QED BY <1>c, <2>1 DEF Unlocked
<1>2. CASE Crash(p)
  <2>1. p # r /\ pc'[r] = pc[r] /\ lock' = lock
    BY <1>2 DEF Crash, Goto, TypeOK, Procs
  <2> QED BY <2>1 DEF Unlocked
<1>3. CASE p \in Writers /\ WriterStep(p)
  <2>1. pc'[r] = pc[r]
    BY <1>3, <1>c, WriterFrame
  <2>2. CASE Reap(p)
    <3>1. cur[p][1] # r
      BY <1>3, <2>1, <2>2 DEF Reap, Reaping, Dead
    <3> QED BY <2>1, <2>2, <3>1 DEF Reap, SetLock, TypeOK, Unlocked
  <2>3. CASE ~Reap(p)
    BY <1>3, <2>1, <2>3, WriterFrame DEF Unlocked
  <2> QED BY <2>2, <2>3
<1>4. CASE p = r /\ ReaderStep(r)
  <2> USE <1>c DEF TypeOK, Goto, SetLock, Unlocked, ReaderLock
  <2>1. CASE StartRead(r) \/ Check(r) \/ CheckTimeout(r) \/ MakeHome(r)
    BY <2>1 DEF StartRead, Start, Check, CheckTimeout, MakeHome
  <2>2. CASE ClaimLease(r) \/ SignLease(r) \/ SignFails(r)
    BY <2>2 DEF ClaimLease, SignLease, SignFails
  <2>3. CASE Scrap(r) \/ Recheck(r) \/ FinishRead(r)
    BY <2>3 DEF Scrap, Recheck, FinishRead
  <2>4. CASE Unsign(r) \/ Unlock(r)
    BY <2>4 DEF Unsign, Unlock
  <2>5. CASE RemoveHome(r)
    <3>1. pc[r] = "rmhome" /\ lock' = lock
      BY <2>5 DEF RemoveHome
    <3> QED BY <3>1
  <2> QED BY <1>4, <2>1, <2>2, <2>3, <2>4, <2>5 DEF ReaderStep, ReaderRuns
<1> QED BY <1>1, <1>2, <1>3, <1>4

(* Two writers do not take over leases at the same time.                  *)
LEMMA OneTakesOver ==
  ASSUME IInv, NEW v \in Writers, NEW w \in Writers, pc[v] = "reap", pc[w] = "reap"
  PROVE  v = w
BY DEF IInv, WriterLock, Holding

(* What a writer that takes over finds is what it wrote.                  *)
LEMMA NextTaking ==
  ASSUME IInv, Taking, NEW p \in Procs,
         \/ p \in Readers /\ ReaderStep(p)
         \/ p \in Writers /\ WriterStep(p)
         \/ Crash(p)
  PROVE  Taking'
<1> USE DEF IInv
<1> SUFFICES ASSUME NEW w \in Writers, pc'[w] = "reap"
             PROVE  LET owner == lock'[cur'[w][1]]
                    IN  /\ stage'[w] = 0 => owner \in Procs /\ pc'[owner] = "dead"
                        /\ stage'[w] # 0 => owner = TakeOver(w)[stage'[w]]
  BY DEF Taking, Dead, TakeOver
<1>c. w \in Procs /\ w \notin Readers /\ \A r \in Readers : r # GC
  BY RolesAssumption DEF Procs
<1>d. \A q \in Procs : pc[q] = "dead" => pc'[q] = "dead"
  BY StepLocal
<1>1. ASSUME pc[w] = "reap", cur'[w] = cur[w], stage'[w] = stage[w],
             lock'[cur[w][1]] = lock[cur[w][1]]
      PROVE  LET owner == lock'[cur'[w][1]]
             IN  /\ stage'[w] = 0 => owner \in Procs /\ pc'[owner] = "dead"
                 /\ stage'[w] # 0 => owner = TakeOver(w)[stage'[w]]
  BY <1>1, <1>d DEF Taking, Dead
<1>2. pc[w] = "reap" => cur[w] \in Dirs /\ cur[w][1] \in Readers /\ pc[cur[w][1]] = "dead"
  BY DEF TypeOK, Dirs, Reaping, Dead
<1>3. CASE p \in Readers /\ ReaderStep(p)
  <2>1. pc'[w] = pc[w] /\ cur' = cur /\ stage' = stage
    BY <1>3, <1>c, ReaderFrame DEF pass
  <2>2. p # cur[w][1]
    <3>1. pc[p] # "dead"
      BY <1>3 DEF ReaderStep, ReaderRuns, StartRead, Start, Check, CheckTimeout, MakeHome,
         ClaimLease, SignLease, SignFails, Scrap, Recheck, FinishRead, Unsign, Unlock, RemoveHome
    <3> QED BY <1>2, <2>1, <3>1
  <2>3. lock'[cur[w][1]] = lock[cur[w][1]]
    BY <1>2, <1>3, <2>1, <2>2, ReaderFrame
  <2> QED BY <1>1, <2>1, <2>3
<1>4. CASE Crash(p)
  <2>1. p # w /\ pc'[w] = pc[w] /\ cur'[w] = cur[w] /\ stage'[w] = stage[w] /\ lock' = lock
    BY <1>4 DEF Crash, Goto, TypeOK, Procs
  <2> QED BY <1>1, <2>1
<1>5. CASE p \in Writers /\ WriterStep(p) /\ p # w
  <2>1. pc'[w] = pc[w] /\ cur'[w] = cur[w]
    BY <1>5, <1>c, WriterFrame
  <2>2. ~Reap(p)
    BY <1>5, <2>1, OneTakesOver DEF Reap
  <2>3. lock'[cur[w][1]] = lock[cur[w][1]]
    BY <1>2, <1>5, <2>1, <2>2, WriterFrame
  <2>4. stage'[w] = stage[w]
    <3> USE <1>5 DEF TypeOK
    <3>1. CASE StartCollect(p) \/ ClaimGC(p) \/ ClearGC(p) \/ SignGC(p) \/ SignGCFails(p)
      BY <3>1 DEF StartCollect, Start, ClaimGC, ClearGC, SignGC, SignGCFails, pass
    <3>2. CASE List(p) \/ Pick(p) \/ Judge(p) \/ RemoveEmpty(p)
      BY <3>2 DEF List, Pick, Judge, RemoveEmpty, Done
    <3>3. CASE Enter(p) \/ ScanFails(p) \/ FinishCollect(p) \/ UnsignGC(p) \/ UnlockGC(p)
      BY <3>3 DEF Enter, ScanFails, FinishCollect, UnsignGC, UnlockGC, pass
    <3> QED BY <2>2, <3>1, <3>2, <3>3 DEF WriterStep, WriterRuns
  <2> QED BY <1>1, <2>1, <2>3, <2>4
<1>6. CASE Judge(w)
  <2>1. Stale(LockIn(cur[w])) /\ UNCHANGED <<cur, stage, lock>> /\ pc[w] = "judge"
    BY <1>6 DEF Judge, Done, Goto, TypeOK, Procs
  <2>2. stage[w] = 0 /\ LockIn(cur[w]) = lock[cur[w][1]]
    BY <2>1, RolesAssumption DEF LockIn, Stale, Procs, TypeOK
  <2> QED BY <1>d, <2>1, <2>2 DEF Stale, Dead
<1>7. CASE Reap(w)
  <2>1. pc[w] = "reap" /\ cur' = cur /\ stage[w] \in 0 .. 5 /\ stage'[w] = stage[w] + 1
        /\ lock'[cur[w][1]] = TakeOver(w)[stage[w] + 1]
    BY <1>2, <1>7 DEF Reap, SetLock, TypeOK
  <2> QED BY <2>1
<1>8. CASE p = w /\ WriterStep(w) /\ ~Reap(w) /\ ~Judge(w)
  <2> USE <1>c DEF TypeOK, Goto
  <2>1. ~(StartCollect(w) \/ ClaimGC(w) \/ ClearGC(w) \/ SignGC(w) \/ SignGCFails(w))
    BY DEF StartCollect, Start, ClaimGC, ClearGC, SignGC, SignGCFails
  <2>2. ~(List(w) \/ Pick(w) \/ RemoveEmpty(w) \/ Enter(w) \/ ScanFails(w))
    BY DEF List, Pick, RemoveEmpty, Done, Enter, ScanFails
  <2>3. ~(FinishCollect(w) \/ UnsignGC(w) \/ UnlockGC(w))
    BY DEF FinishCollect, UnsignGC, UnlockGC
  <2> QED BY <1>8, <2>1, <2>2, <2>3 DEF WriterStep, WriterRuns
<1> QED BY <1>3, <1>4, <1>5, <1>6, <1>7, <1>8

(* Both are kept along with the invariant.                                *)
LEMMA NextUse == UInv /\ [Next]_vars => UInv'
<1> SUFFICES ASSUME UInv, [Next]_vars PROVE UInv'
  OBVIOUS
<1>1. IInv'
  BY NextInv DEF UInv
<1>2. CASE UNCHANGED vars
  BY <1>1, <1>2 DEF UInv, vars, Unlocked, Taking, Dead, TakeOver
<1>3. ASSUME NEW p \in Procs,
             \/ p \in Readers /\ ReaderStep(p)
             \/ p \in Writers /\ WriterStep(p)
             \/ Crash(p)
      PROVE  UInv'
  BY <1>1, <1>3, NextUnlocked, NextTaking DEF UInv
<1> QED BY <1>2, <1>3 DEF Next, Procs

(* The strengthened invariant holds in every reachable state.             *)
LEMMA UseInvariance == Spec => []UInv
<1>1. Init => UInv
  BY InitInv, InitUse DEF UInv
<1> QED BY <1>1, NextUse, PTL DEF Spec

(* One process at most has an unsigned lock in hand: who is making or      *)
(* leaving it, or who takes it over.                                       *)
InHand ==
    /\ \A r \in Readers : pc[r] \in {"sign", "unlock"} => Hands(r) = {r}
    /\ \A w \in Writers :
          /\ pc[w] \in Working => Hands(GC) = {w}
          /\ \A r \in Readers :
                pc[w] = "reap" /\ cur[w][1] = r /\ lock[r] = "bare" => Hands(r) = {w}

LEMMA OneInHand == IInv => InHand
<1> SUFFICES ASSUME IInv PROVE InHand
  OBVIOUS
<1> USE DEF IInv
<1>c. GC \notin Readers /\ \A w \in Writers : w \notin Readers /\ w \in Procs
  BY RolesAssumption DEF Procs
<1>1. ASSUME NEW r \in Readers, pc[r] \in {"sign", "unlock"} PROVE Hands(r) = {r}
  <2>1. lock[r] = "bare" /\ r # GC /\ r \in Procs
    BY <1>1, <1>c DEF ReaderLock, Procs
  <2>2. \A w \in Writers : ~(pc[w] = "reap" /\ cur[w][1] = r)
    BY <1>1 DEF Reaping, Dead
  <2> QED BY <1>1, <2>1, <2>2 DEF Hands, AtWork
<1>2. ASSUME NEW w \in Writers, pc[w] \in Working PROVE Hands(GC) = {w}
  <2>1. lock[GC] = "bare" /\ \A v \in Writers : pc[v] \in Working => v = w
    BY <1>2 DEF WriterLock
  <2> QED BY <1>2, <1>c, <2>1 DEF Hands, AtWork, Working
<1>3. ASSUME NEW w \in Writers, NEW r \in Readers,
             pc[w] = "reap", cur[w][1] = r, lock[r] = "bare"
      PROVE  Hands(r) = {w}
  <2>1. r # GC /\ pc[r] = "dead"
    BY <1>3, <1>c DEF Reaping, Dead
  <2>2. \A p \in Procs : AtWork(p, r) <=> p = w
    BY <1>3, <1>c, <2>1, OneTakesOver DEF AtWork, Procs
  <2> QED BY <1>3, <1>c, <2>2 DEF Hands
<1> QED BY <1>1, <1>2, <1>3 DEF InHand

LEMMA OneInHandNext == IInv' => InHand'
BY OneInHand, PTL

(* The steps of CrashLock, by what they do to one lock while nobody dies.  *)
LEMMA LockSteps ==
  ASSUME NEW c \in Readers \cup {GC}, NEW p \in Procs, UNCHANGED {q \in Procs : Dead(q)},
         \/ lock[c] = "none" /\ lock'[c] = "bare" /\ Hands(c)' = {p}
         \/ lock[c] = "bare" /\ Hands(c) = {p} /\ lock'[c] \in {"none", p}
         \/ /\ lock[c] \in Procs /\ (lock[c] = p \/ Dead(lock[c]))
            /\ lock'[c] = "bare" /\ Hands(c)' = {p}
  PROVE  Lock(c)!Next
<1>c. "none" \notin Procs /\ "bare" \notin Procs
  BY RolesAssumption DEF Procs
<1>1. CASE lock[c] = "none" /\ lock'[c] = "bare" /\ Hands(c)' = {p}
  <2>1. Lock(c)!Claim(p)
    BY <1>1, <1>c DEF Lock!Claim
  <2> QED BY <2>1 DEF Lock!Next
<1>2. CASE lock[c] = "bare" /\ Hands(c) = {p} /\ lock'[c] = p
  <2>1. Hands(c)' = {}
    BY <1>2, <1>c DEF Hands
  <2>2. Lock(c)!Sign(p)
    BY <1>2, <1>c, <2>1 DEF Lock!Sign
  <2> QED BY <2>2 DEF Lock!Next
<1>3. CASE lock[c] = "bare" /\ Hands(c) = {p} /\ lock'[c] = "none"
  <2>1. Hands(c)' = {}
    BY <1>3 DEF Hands
  <2>2. Lock(c)!Discard(p)
    BY <1>3, <1>c, <2>1 DEF Lock!Discard
  <2> QED BY <2>2 DEF Lock!Next
<1>4. CASE /\ lock[c] \in Procs /\ (lock[c] = p \/ Dead(lock[c]))
           /\ lock'[c] = "bare" /\ Hands(c)' = {p}
  <2>1. PICK q \in Procs : lock[c] = q /\ (q = p \/ Dead(q))
    BY <1>4
  <2>2. Lock(c)!Erase(p, q)
    BY <1>4, <1>c, <2>1 DEF Lock!Erase
  <2> QED BY <2>2 DEF Lock!Next
<1> QED BY <1>1, <1>2, <1>3, <1>4

(* A death shows as that of CrashLock, in every lock.                      *)
LEMMA CrashUses ==
  ASSUME TypeOK, NEW p \in Procs, Crash(p), NEW c \in Readers \cup {GC}
  PROVE  Lock(c)!Next
<1>1. pc' = [pc EXCEPT ![p] = "dead"] /\ lock' = lock
      /\ \A w \in Writers : w # p => cur'[w] = cur[w]
  BY DEF Crash, Goto
<1>2. pc \in [Procs -> ReaderLabels \cup WriterLabels]
  BY DEF TypeOK
<1>3. {q \in Procs : Dead(q)}' = {q \in Procs : Dead(q)} \cup {p}
  BY <1>1, <1>2 DEF Dead
<1>4. Hands(c)' = Hands(c) \ {p}
  <2>1. ~AtWork(p, c)'
    BY <1>1, <1>2 DEF AtWork
  <2>2. \A q \in Procs \ {p} : AtWork(q, c)' <=> AtWork(q, c)
    BY <1>1, <1>2 DEF AtWork
  <2> QED BY <1>1, <2>1, <2>2 DEF Hands
<1>5. Lock(c)!Die(p)
  BY <1>1, <1>3, <1>4 DEF Lock!Die
<1> QED BY <1>5 DEF Lock!Next

(* In any other step nobody dies.                                          *)
LEMMA NobodyDies ==
  ASSUME TypeOK, NEW p \in Procs,
         \/ p \in Readers /\ ReaderStep(p)
         \/ p \in Writers /\ WriterStep(p)
  PROVE  pc[p] # "dead" /\ UNCHANGED {q \in Procs : Dead(q)}
<1> USE DEF TypeOK, Goto
<1>1. CASE p \in Readers /\ ReaderStep(p)
  <2>1. pc[p] # "dead" /\ pc'[p] # "dead"
    BY <1>1 DEF ReaderStep, ReaderRuns, StartRead, Start, Check, CheckTimeout, MakeHome,
       ClaimLease, SignLease, SignFails, Scrap, Recheck, FinishRead, Unsign, Unlock, RemoveHome
  <2> QED BY <1>1, <2>1, StepLocal DEF Dead
<1>2. CASE p \in Writers /\ WriterStep(p)
  <2>1. pc[p] # "dead" /\ pc'[p] # "dead"
    BY <1>2 DEF WriterStep, WriterRuns, StartCollect, Start, ClaimGC, ClearGC, SignGC,
       SignGCFails, List, Pick, Judge, Done, RemoveEmpty, Reap, Enter, ScanFails,
       FinishCollect, UnsignGC, UnlockGC
  <2> QED BY <1>2, <2>1, StepLocal DEF Dead
<1> QED BY <1>1, <1>2

(* A lock that is left alone is in the same hands if p is at work on it    *)
(* after the step as it was before.                                        *)
LEMMA LeftAlone ==
  ASSUME TypeOK, NEW c \in Readers \cup {GC}, NEW p \in Procs, lock'[c] = lock[c],
         \/ p \in Readers /\ ReaderStep(p)
         \/ p \in Writers /\ WriterStep(p),
         lock[c] = "bare" => (AtWork(p, c)' <=> AtWork(p, c))
  PROVE  UNCHANGED Lock(c)!vars
<1>1. \A q \in Procs \ {p} : pc'[q] = pc[q] /\ (q \in Writers => cur'[q] = cur[q])
  <2>1. CASE p \in Readers /\ ReaderStep(p)
    BY <2>1, ReaderFrame DEF pass
  <2>2. CASE p \in Writers /\ WriterStep(p)
    BY <2>2, WriterFrame
  <2> QED BY <2>1, <2>2
<1>2. \A q \in Procs \ {p} : AtWork(q, c)' <=> AtWork(q, c)
  BY <1>1 DEF AtWork, Procs
<1>3. Hands(c)' = Hands(c)
  BY <1>2 DEF Hands
<1>4. UNCHANGED {q \in Procs : Dead(q)}
  BY NobodyDies
<1> QED BY <1>3, <1>4 DEF Lock!vars

(* A reader makes, signs, erases and removes its own lock in this order.   *)
LEMMA ReaderUses ==
  ASSUME UInv, UInv', NEW r \in Readers, ReaderStep(r), NEW c \in Readers \cup {GC}
  PROVE  Lock(c)!Next \/ UNCHANGED Lock(c)!vars
<1> USE DEF UInv, IInv
<1>c. r \in Procs /\ r \notin Writers /\ r # GC /\ "none" # r /\ "bare" # r
  BY RolesAssumption DEF Procs
<1>d. pc[r] # "dead" /\ UNCHANGED {q \in Procs : Dead(q)}
  BY <1>c, NobodyDies
<1>h. InHand /\ InHand'
  BY OneInHand, OneInHandNext
<1>1. CASE c # r
  <2>1. lock'[c] = lock[c] /\ ~AtWork(r, c) /\ ~AtWork(r, c)'
    BY <1>1, <1>c, ReaderFrame DEF AtWork
  <2> QED BY <1>c, <2>1, LeftAlone
<1>2. CASE c = r /\ lock'[r] = lock[r]
  <2>1. pc'[r] # "dead"
    BY <1>c, <1>d DEF Dead
  <2>2. lock[r] = "bare" => pc[r] \in {"sign", "unlock"} /\ pc'[r] \in {"sign", "unlock"}
    BY <1>2, <1>c, <1>d, <2>1 DEF Unlocked, ReaderLock
  <2> QED BY <1>2, <1>c, <2>2, LeftAlone DEF AtWork
<1>3. CASE c = r /\ lock'[r] # lock[r]
  <2>t. lock \in [Readers \cup {GC} -> Procs \cup {"none", "bare"}]
        /\ pc \in [Procs -> ReaderLabels \cup WriterLabels]
    BY DEF TypeOK
  <2>1. ClaimLease(r) \/ SignLease(r) \/ SignFails(r) \/ Unsign(r) \/ Unlock(r)
    BY <1>3 DEF ReaderStep, ReaderRuns, StartRead, Start, Check, CheckTimeout, MakeHome,
       Scrap, Recheck, FinishRead, RemoveHome
  <2>2. CASE ClaimLease(r)
    <3>1. lock[r] = "none" /\ lock'[r] = "bare" /\ pc'[r] = "sign"
      BY <1>3, <1>c, <2>t, <2>2 DEF ClaimLease, SetLock, Goto, Unlocked
    <3> QED BY <1>3, <1>c, <1>d, <1>h, <3>1, LockSteps DEF InHand
  <2>3. CASE SignLease(r) \/ SignFails(r) \/ Unlock(r)
    <3>1. pc[r] \in {"sign", "unlock"} /\ lock'[r] \in {"none", r}
      BY <2>t, <2>3 DEF SignLease, SignFails, Unlock, SetLock
    <3> QED BY <1>3, <1>c, <1>d, <1>h, <3>1, LockSteps DEF InHand, ReaderLock
  <2>4. CASE Unsign(r)
    <3>1. lock[r] = r /\ lock'[r] = "bare" /\ pc'[r] = "unlock"
      BY <1>3, <1>c, <2>t, <2>4 DEF Unsign, SetLock, Goto
    <3> QED BY <1>3, <1>c, <1>d, <1>h, <3>1, LockSteps DEF InHand
  <2> QED BY <2>1, <2>2, <2>3, <2>4
<1> QED BY <1>1, <1>2, <1>3

(* So does a collector with .locks/gc, and it breaks that of a dead one.   *)
LEMMA WriterUsesGC ==
  ASSUME UInv, UInv', NEW w \in Writers, WriterStep(w)
  PROVE  Lock(GC)!Next \/ UNCHANGED Lock(GC)!vars
<1> USE DEF UInv, IInv
<1>c. w \in Procs /\ GC \notin Readers /\ "none" # w /\ "bare" # w
      /\ "none" \notin Procs /\ "bare" \notin Procs
  BY RolesAssumption DEF Procs
<1>d. pc[w] # "dead" /\ UNCHANGED {q \in Procs : Dead(q)}
  BY <1>c, NobodyDies
<1>h. InHand /\ InHand'
  BY OneInHand, OneInHandNext
<1>t. lock \in [Readers \cup {GC} -> Procs \cup {"none", "bare"}]
      /\ pc \in [Procs -> ReaderLabels \cup WriterLabels]
  BY DEF TypeOK
<1>1. ASSUME lock'[GC] = lock[GC], pc[w] \notin Working, pc'[w] \notin Working
      PROVE  UNCHANGED Lock(GC)!vars
  <2>1. ~AtWork(w, GC) /\ ~AtWork(w, GC)'
    BY <1>1 DEF AtWork, Working
  <2> QED BY <1>1, <1>c, <2>1, LeftAlone
<1>2. CASE ClaimGC(w)
  <2>1. CASE lock'[GC] = "bare" /\ pc'[w] \in {"sign", "clear"} /\ lock[GC] # "bare"
    <3>1. lock[GC] = "none" \/ (lock[GC] \in Procs /\ Dead(lock[GC]))
      BY <1>2, <1>t, <1>c, <2>1 DEF ClaimGC, SetLock, Goto, Stale
    <3>2. Hands(GC)' = {w}
      BY <1>h, <2>1 DEF InHand, Working
    <3> QED BY <1>c, <1>d, <2>1, <3>1, <3>2, LockSteps
  <2>2. CASE lock' = lock /\ pc[w] = "claim" /\ pc'[w] = "out"
    BY <1>1, <2>2 DEF Working
  <2> QED BY <1>2, <1>t, <1>c, <2>1, <2>2 DEF ClaimGC, SetLock, Goto, Stale
<1>3. CASE ClearGC(w) \/ SignGC(w) \/ SignGCFails(w) \/ UnlockGC(w)
  <2>1. pc[w] \in Working /\ lock'[GC] \in {"none", w}
    BY <1>3, <1>t DEF ClearGC, SignGC, SignGCFails, UnlockGC, SetLock, Working
  <2>2. lock[GC] = "bare" /\ Hands(GC) = {w}
    BY <1>h, <2>1 DEF WriterLock, InHand
  <2> QED BY <1>c, <1>d, <2>1, <2>2, LockSteps
<1>4. CASE UnsignGC(w)
  <2>1. lock[GC] = w /\ lock'[GC] = "bare" /\ pc'[w] = "unlock"
    BY <1>4, <1>t, <1>c DEF UnsignGC, SetLock, Goto, WriterLock, Holding
  <2>2. Hands(GC)' = {w}
    BY <1>h, <2>1 DEF InHand, Working
  <2> QED BY <1>c, <1>d, <2>1, <2>2, LockSteps
<1>5. CASE Reap(w)
  <2>1. cur[w][1] # GC
    BY <1>5, <1>c DEF Reap, TypeOK, Dirs
  <2>2. lock'[GC] = lock[GC] /\ pc[w] = "reap" /\ pc'[w] \in {"reap", "rmdir"}
    BY <1>5, <1>t, <1>c, <2>1 DEF Reap, SetLock, Goto
  <2> QED BY <1>1, <2>2 DEF Working
<1>6. CASE StartCollect(w) \/ List(w) \/ Pick(w) \/ Judge(w) \/ RemoveEmpty(w)
  <2>1. lock' = lock /\ pc[w] \notin Working /\ pc'[w] \notin Working
    BY <1>6, <1>t, <1>c DEF StartCollect, Start, List, Pick, Judge, Done, RemoveEmpty, Goto, Working
  <2> QED BY <1>1, <2>1
<1>7. CASE Enter(w) \/ ScanFails(w) \/ FinishCollect(w)
  <2>1. lock' = lock /\ pc[w] \notin Working /\ pc'[w] \notin Working
    BY <1>7, <1>t, <1>c DEF Enter, ScanFails, FinishCollect, Goto, Working
  <2> QED BY <1>1, <2>1
<1> QED BY <1>2, <1>3, <1>4, <1>5, <1>6, <1>7 DEF WriterStep, WriterRuns

(* The lease of a reader is taken over in the same order, step by step:    *)
(* the dead one's name is erased, the lock removed, made, signed, its name *)
(* erased, and the lock removed again.                                     *)
LEMMA WriterUsesLease ==
  ASSUME UInv, UInv', NEW w \in Writers, WriterStep(w), NEW c \in Readers
  PROVE  Lock(c)!Next \/ UNCHANGED Lock(c)!vars
<1> USE DEF UInv, IInv
<1>c. w \in Procs /\ c # GC /\ c # w /\ "none" # w /\ "bare" # w
      /\ "none" \notin Procs /\ "bare" \notin Procs
  BY RolesAssumption DEF Procs
<1>d. pc[w] # "dead" /\ UNCHANGED {q \in Procs : Dead(q)}
  BY <1>c, NobodyDies
<1>h. InHand /\ InHand'
  BY OneInHand, OneInHandNext
<1>1. ASSUME lock'[c] = lock[c],
             lock[c] = "bare" => pc[w] # "reap" \/ cur[w][1] # c,
             lock[c] = "bare" => pc'[w] # "reap" \/ cur'[w][1] # c
      PROVE  UNCHANGED Lock(c)!vars
  <2>1. lock[c] = "bare" => ~AtWork(w, c) /\ ~AtWork(w, c)'
    BY <1>1, <1>c DEF AtWork
  <2> QED BY <1>1, <1>c, <2>1, LeftAlone
<1>2. CASE Reap(w) /\ cur[w][1] # c
  BY <1>1, <1>2 DEF Reap, SetLock, TypeOK
<1>3. CASE Reap(w) /\ cur[w][1] = c
  <2>1. /\ stage[w] \in 0 .. 5 /\ pc[w] = "reap"
        /\ lock'[c] = TakeOver(w)[stage[w] + 1]
        /\ stage'[w] = stage[w] + 1 /\ cur' = cur
        /\ pc'[w] = IF stage[w] + 1 = 6 THEN "rmdir" ELSE "reap"
    BY <1>3, <1>c, TakeOverIs DEF Reap, SetLock, Goto, TypeOK
  <2>2. /\ lock[c] = "bare" => Hands(c) = {w}
        /\ lock'[c] = "bare" /\ stage[w] # 5 => Hands(c)' = {w}
    BY <1>3, <1>h, <2>1 DEF InHand
  <2>3. CASE stage[w] = 0
    <3>1. lock[c] \in Procs /\ Dead(lock[c]) /\ lock'[c] = "bare"
      BY <1>3, <2>1, <2>3, TakeOverIs DEF Taking
    <3> QED BY <1>c, <1>d, <2>2, <2>3, <3>1, LockSteps
  <2>4. CASE stage[w] \in {1, 3, 5}
    <3>1. lock[c] = "bare" /\ lock'[c] \in {"none", w}
      BY <1>3, <2>1, <2>4, TakeOverIs DEF Taking
    <3> QED BY <1>c, <1>d, <2>2, <3>1, LockSteps
  <2>5. CASE stage[w] = 2
    <3>1. lock[c] = "none" /\ lock'[c] = "bare"
      BY <1>3, <2>1, <2>5, TakeOverIs DEF Taking
    <3> QED BY <1>c, <1>d, <2>2, <2>5, <3>1, LockSteps
  <2>6. CASE stage[w] = 4
    <3>1. lock[c] = w /\ lock'[c] = "bare"
      BY <1>3, <2>1, <2>6, TakeOverIs DEF Taking
    <3> QED BY <1>c, <1>d, <2>2, <2>6, <3>1, LockSteps
  <2> QED BY <2>1, <2>3, <2>4, <2>5, <2>6
<1>4. CASE Judge(w)
  <2>1. lock' = lock /\ pc[w] = "judge"
    BY <1>4 DEF Judge
  <2>2. pc'[w] = "reap" => cur' = cur /\ lock[cur[w][1]] \in Procs
    BY <1>4, <1>c DEF Judge, Done, Goto, TypeOK, Stale, LockIn
  <2> QED BY <1>1, <1>c, <2>1, <2>2
<1>5. CASE ~Reap(w) /\ ~Judge(w)
  <2>1. lock'[c] = lock[c]
    BY <1>5, WriterFrame
  <2>2. pc[w] # "reap" /\ pc'[w] # "reap"
    <3> USE <1>c DEF TypeOK, Goto
    <3>1. CASE StartCollect(w) \/ ClaimGC(w) \/ ClearGC(w) \/ SignGC(w) \/ SignGCFails(w)
      BY <3>1 DEF StartCollect, Start, ClaimGC, ClearGC, SignGC, SignGCFails
    <3>2. CASE List(w) \/ Pick(w) \/ RemoveEmpty(w) \/ Enter(w) \/ ScanFails(w)
      BY <3>2 DEF List, Pick, RemoveEmpty, Done, Enter, ScanFails
    <3>3. CASE FinishCollect(w) \/ UnsignGC(w) \/ UnlockGC(w)
      BY <3>3 DEF FinishCollect, UnsignGC, UnlockGC
    <3> QED BY <1>5, <3>1, <3>2, <3>3 DEF WriterStep, WriterRuns
  <2> QED BY <1>1, <2>1, <2>2
<1> QED BY <1>2, <1>3, <1>4, <1>5

(* Every lock of a store is used as CrashLock allows, by any number of     *)
(* readers and collectors that die wherever they are: what RunLock is      *)
(* proved to implement is all that the leases need of it.                  *)
THEOREM LocksAsPromised == Spec => ImplementsCrashLocks
<1>1. Init => \A c \in Readers \cup {GC} : Lock(c)!Init
  <2> SUFFICES ASSUME Init, NEW c \in Readers \cup {GC} PROVE Lock(c)!Init
    OBVIOUS
  <2>1. lock[c] = "none" /\ \A p \in Procs : ~Dead(p)
    BY DEF Init, Dead
  <2> QED BY <2>1, RolesAssumption DEF Lock!Init, Hands, Procs
<1>2. UInv /\ UInv' /\ [Next]_vars =>
        [\A c \in Readers \cup {GC} : Lock(c)!Next \/ UNCHANGED Lock(c)!vars]_vars
  <2> SUFFICES ASSUME UInv, UInv', Next, NEW c \in Readers \cup {GC}
               PROVE  Lock(c)!Next \/ UNCHANGED Lock(c)!vars
    OBVIOUS
  <2>1. CASE \E p \in Procs : Crash(p)
    BY <2>1, CrashUses DEF UInv, IInv
  <2>2. CASE \E r \in Readers : ReaderStep(r)
    BY <2>2, ReaderUses
  <2>3. CASE c = GC /\ \E w \in Writers : WriterStep(w)
    BY <2>3, WriterUsesGC
  <2>4. CASE c \in Readers /\ \E w \in Writers : WriterStep(w)
    BY <2>4, WriterUsesLease
  <2> QED BY <2>1, <2>2, <2>3, <2>4 DEF Next, Procs
<1> QED BY <1>1, <1>2, UseInvariance, PTL DEF Spec, ImplementsCrashLocks
=============================================================================
