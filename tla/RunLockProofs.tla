---------------------------- MODULE RunLockProofs ----------------------------
(***************************************************************************)
(* Proofs about RunLock, for any lock users, hosts and operators.  The     *)
(* inductive invariant has three layers: the types, what a process that    *)
(* is about to remove a marker knows about its owner, and who the          *)
(* custodian of the directory is.                                          *)
(***************************************************************************)
EXTENDS RunLock, TLAPS

(* A process on its way to a removal has read a complete marker whose     *)
(* owner is dead, unless it is a forced unlock, and has audited it first. *)
Breaker ==
    \A q \in Procs :
      /\ pc[q] \in {"judge", "audit", "recheck", "unlink"} => seen[q] \in Marks
      /\ pc[q] = "unlink" => seen[q].full
      /\ op[q] # "enter" => q \in Operators
      /\ pc[q] = "audit" => op[q] # "enter" /\ (FileLock(seen[q]) => seen[q].full)
      /\ pc[q] \in {"audit", "recheck", "unlink"} /\ op[q] # "force"
            => pc[seen[q].by] = "dead"
      /\ pc[q] = "recheck" /\ op[q] # "enter" /\ ~FileLock(seen[q])
            => seen[q] \in audited
      /\ pc[q] = "unlink" /\ op[q] # "enter" => seen[q] \in audited

(* What the directory holds while its custodian is at each step.          *)
Custody ==
    /\ \A m, n \in content : m = n
    /\ kind = "none" => content = {}
    /\ \A p \in Procs : Custodian(p) => kind = "dir"
    /\ \A p, q \in Procs : Custodian(p) /\ Custodian(q) => p = q
    /\ \A p \in Procs :
         /\ pc[p] \in {"made", "abort", "rmdir", "verify", "rmown"} => content = {}
         /\ pc[p] = "marked" => content = {Own(p, FALSE)}
         /\ pc[p] = "undo" => content \subseteq {Own(p, FALSE), Own(p, TRUE)}
         /\ pc[p] \in {"held", "drop"} =>
               Own(p, TRUE) \in content \/ Own(p, TRUE) \in cleared

IInv == TypeOK /\ Breaker /\ AuditFirst /\ (~crossed => Custody)
-----------------------------------------------------------------------------
(* The initial states, also those with a lock file left by a dead owner. *)
LEMMA InitType == Init => TypeOK
<1> SUFFICES ASSUME Init PROVE TypeOK
  OBVIOUS
<1>1. tries \in [Procs -> 0 .. MaxTries - 1] /\ gen \in [Procs -> 0 .. MaxCalls]
  BY TriesAssumption, CallsAssumption DEF Init
<1>2. pc \in [Procs -> Labels] /\ op \in [Procs -> Ops] /\ kind \in Kinds
  BY DEF Init, Labels, Ops, Kinds
<1>3. content \subseteq Marks
  <2>1. CASE content = {}
    BY <2>1
  <2>2. ASSUME NEW o \in Procs, content = {[by |-> o, gen |-> 0, full |-> TRUE]}
        PROVE  content \subseteq Marks
    BY <2>2 DEF Marks
  <2> QED BY <2>1, <2>2 DEF Init
<1>4. seen \in [Procs -> Marks \cup {NoMark}]
  BY DEF Init
<1>5. audited \subseteq Marks /\ cleared \subseteq Marks /\ crossed \in BOOLEAN
  BY DEF Init
<1> QED BY <1>1, <1>2, <1>3, <1>4, <1>5 DEF TypeOK

(* The marker of a call is a marker; the empty and the complete one differ *)
LEMMA OwnMark ==
  ASSUME TypeOK, NEW p \in Procs
  PROVE  /\ Own(p, FALSE) \in Marks /\ Own(p, TRUE) \in Marks
         /\ Own(p, TRUE).full /\ ~Own(p, FALSE).full
         /\ Own(p, TRUE).by = p /\ Own(p, FALSE).by = p
         /\ Own(p, TRUE) # Own(p, FALSE)
<1>1. gen[p] \in Nat
  BY CallsAssumption DEF TypeOK
<1> QED BY <1>1 DEF Own, Marks

(* The control helpers keep the per-process variables typed.              *)
LocalOK == /\ pc \in [Procs -> Labels]
           /\ op \in [Procs -> Ops]
           /\ tries \in [Procs -> 0 .. MaxTries - 1]
           /\ seen \in [Procs -> Marks \cup {NoMark}]
           /\ gen \in [Procs -> 0 .. MaxCalls]

SharedOK == /\ kind \in Kinds
            /\ content \subseteq Marks /\ audited \subseteq Marks
            /\ cleared \subseteq Marks /\ crossed \in BOOLEAN

(* What Goto, Forget, Stop and Retry do to the variables of a process.   *)
LEMMA ControlType ==
  ASSUME LocalOK, NEW p \in Procs
  PROVE  /\ \A l \in Labels : Goto(p, l) => LocalOK'
         /\ \A l \in Labels : Forget(p, l) => LocalOK'
         /\ Stop(p) => LocalOK'
         /\ Retry(p) => LocalOK'
         /\ \A b \in BOOLEAN : RetryIf(p, b) => LocalOK'
<1> USE TriesAssumption DEF LocalOK
<1>1. ASSUME NEW l \in Labels, Goto(p, l) PROVE LocalOK'
  BY <1>1 DEF Goto
<1>2. ASSUME NEW l \in Labels, Forget(p, l) PROVE LocalOK'
  BY <1>2 DEF Forget, Ops
<1>3. Stop(p) => LocalOK'
  BY <1>2 DEF Stop, Labels
<1>4. Retry(p) => LocalOK'
  BY <1>3 DEF Retry, Labels
<1> QED BY <1>1, <1>2, <1>3, <1>4 DEF RetryIf

(* Every step keeps the types.                                           *)
LEMMA NextType == TypeOK /\ Breaker /\ [Next]_vars => TypeOK'
<1> SUFFICES ASSUME TypeOK, Breaker, [Next]_vars PROVE LocalOK' /\ SharedOK'
  BY DEF TypeOK, LocalOK, SharedOK
<1>1. LocalOK /\ SharedOK
  BY DEF TypeOK, LocalOK, SharedOK
<1>2. CASE UNCHANGED vars
  BY <1>1, <1>2 DEF vars, LocalOK, SharedOK
<1>3. ASSUME NEW p \in Procs, Step(p) PROVE LocalOK' /\ SharedOK'
  <2>1. LocalOK'
    <3> USE <1>1 DEF Labels
    <3>1. CASE StartEnter(p) BY <3>1, CallsAssumption DEF StartEnter, LocalOK
    <3>2. CASE StartUnlock(p) BY <3>2, CallsAssumption DEF StartUnlock, LocalOK, Ops
    <3>3. CASE Read(p)
      <4>1. CASE Stop(p) BY <4>1, ControlType
      <4>2. CASE ~Stop(p) BY <3>3, <4>2 DEF Read, LocalOK, SharedOK
      <4> QED BY <4>1, <4>2
    <3>4. CASE Mkdir(p) \/ CreateMarker(p) \/ WriteMarker(p) \/ MarkerFails(p)
      BY <3>4, ControlType DEF Mkdir, CreateMarker, WriteMarker, MarkerFails
    <3>5. CASE UndoMarker(p) \/ UndoMkdir(p) \/ Judge(p) \/ Audit(p)
      BY <3>5, ControlType DEF UndoMarker, UndoMkdir, Judge, Audit
    <3>6. CASE Recheck(p) \/ Unlink(p) \/ Rmdir(p)
      BY <3>6, ControlType DEF Recheck, Unlink, Rmdir
    <3>7. CASE StartRelease(p) \/ DropMarker(p) \/ VerifyEmpty(p) \/ RemoveOwn(p)
      BY <3>7, ControlType DEF StartRelease, DropMarker, VerifyEmpty, RemoveOwn
    <3>8. CASE ReleaseGivesUp(p) \/ Crash(p)
      BY <3>8, ControlType DEF ReleaseGivesUp, Crash
    <3> QED BY <1>3, <3>1, <3>2, <3>3, <3>4, <3>5, <3>6, <3>7, <3>8 DEF Step
  <2>2. SharedOK'
    <3> USE <1>1 DEF SharedOK, Kinds, fs, hist
    <3>0. Own(p, TRUE) \in Marks /\ Own(p, FALSE) \in Marks
      BY OwnMark
    <3>1. CASE Unlink(p) BY <3>1 DEF Unlink
    <3>2. CASE Audit(p)
      BY <3>2 DEF Audit, Breaker
    <3>3. CASE CreateMarker(p) \/ WriteMarker(p) \/ MarkerFails(p) \/ UndoMarker(p)
      BY <3>3, <3>0 DEF CreateMarker, WriteMarker, MarkerFails, UndoMarker
    <3>4. CASE StartEnter(p) \/ StartUnlock(p) \/ Mkdir(p) \/ UndoMkdir(p)
      BY <3>4 DEF StartEnter, StartUnlock, Mkdir, UndoMkdir
    <3>5. CASE Read(p) \/ Judge(p) \/ Recheck(p) \/ Rmdir(p) \/ StartRelease(p)
      BY <3>5 DEF Read, Judge, Recheck, Rmdir, StartRelease
    <3>6. CASE DropMarker(p) \/ VerifyEmpty(p) \/ RemoveOwn(p) \/ ReleaseGivesUp(p)
      BY <3>6 DEF DropMarker, VerifyEmpty, RemoveOwn, ReleaseGivesUp
    <3>7. CASE Crash(p) BY <3>7 DEF Crash
    <3> QED BY <1>3, <3>1, <3>2, <3>3, <3>4, <3>5, <3>6, <3>7 DEF Step
  <2> QED BY <2>1, <2>2
<1> QED BY <1>2, <1>3 DEF Next
-----------------------------------------------------------------------------
(* An owner that was seen stale is dead. *)
LEMMA StaleIsDead ==
  ASSUME NEW p \in Procs, NEW m, "stale" \in OwnerStates(p, m)
  PROVE  m.full /\ pc[m.by] = "dead"
  BY DEF OwnerStates

(* What a process knows of the owner it is about to remove stays true:     *)
(* the dead do not rise, and audit records are not taken back.             *)
LEMMA InitBreaker == Init => Breaker
<1> SUFFICES ASSUME Init PROVE Breaker
  OBVIOUS
<1>1. \A q \in Procs : pc[q] \in {"idle", "dead"}
  BY DEF Init
<1>2. \A q \in Procs : op[q] = "enter"
  BY DEF Init
<1> QED BY <1>1, <1>2 DEF Breaker

(* A step changes the local variables of one process, which is not dead,  *)
(* and the audit trail only grows.                                        *)
LEMMA StepLocal ==
  ASSUME TypeOK, NEW p \in Procs, Step(p)
  PROVE  /\ \A q \in Procs \ {p} :
               pc'[q] = pc[q] /\ op'[q] = op[q] /\ seen'[q] = seen[q] /\ gen'[q] = gen[q]
         /\ pc[p] # "dead"
         /\ audited \subseteq audited'
<1> USE DEF fs, hist
<1> DEFINE Others == \A q \in Procs \ {p} :
              pc'[q] = pc[q] /\ op'[q] = op[q] /\ seen'[q] = seen[q] /\ gen'[q] = gen[q]
<1>0. pc \in [Procs -> Labels] /\ op \in [Procs -> Ops] /\ gen \in [Procs -> 0 .. MaxCalls]
      /\ seen \in [Procs -> Marks \cup {NoMark}]
  BY DEF TypeOK
<1>1. \A l : Goto(p, l) => Others
  BY <1>0 DEF Goto
<1>2. \A l : Forget(p, l) => Others
  BY <1>0 DEF Forget
<1>3. Stop(p) => Others
  BY <1>2 DEF Stop
<1>4. Retry(p) => Others
  BY <1>0, <1>3 DEF Retry
<1>5. \A b : RetryIf(p, b) => Others
  BY <1>3, <1>4 DEF RetryIf
<1>6. Others
  <2> HIDE DEF Others
  <2>1. CASE StartEnter(p) \/ StartUnlock(p)
    BY <2>1, <1>0 DEF StartEnter, StartUnlock, Others
  <2>2. CASE Read(p)
    <3>1. CASE Stop(p) BY <3>1, <1>3
    <3>2. CASE ~Stop(p) BY <3>2, <2>2, <1>0 DEF Read, Others
    <3> QED BY <3>1, <3>2
  <2>3. CASE Mkdir(p) \/ CreateMarker(p) \/ WriteMarker(p) \/ MarkerFails(p)
    BY <2>3, <1>1, <1>2 DEF Mkdir, CreateMarker, WriteMarker, MarkerFails
  <2>4. CASE UndoMarker(p) \/ UndoMkdir(p) \/ Judge(p) \/ Audit(p)
    BY <2>4, <1>1, <1>3, <1>4 DEF UndoMarker, UndoMkdir, Judge, Audit
  <2>5. CASE Recheck(p) \/ Unlink(p) \/ Rmdir(p)
    BY <2>5, <1>1, <1>3, <1>5 DEF Recheck, Unlink, Rmdir
  <2>6. CASE StartRelease(p) \/ DropMarker(p) \/ VerifyEmpty(p) \/ RemoveOwn(p)
    BY <2>6, <1>1, <1>3 DEF StartRelease, DropMarker, VerifyEmpty, RemoveOwn
  <2>7. CASE ReleaseGivesUp(p) \/ Crash(p)
    BY <2>7, <1>2, <1>3 DEF ReleaseGivesUp, Crash
  <2> QED BY <2>1, <2>2, <2>3, <2>4, <2>5, <2>6, <2>7 DEF Step
<1>7. pc[p] # "dead" /\ audited \subseteq audited'
  <2> USE DEF Step
  <2>1. CASE Audit(p) BY <2>1 DEF Audit
  <2>2. CASE Unlink(p) BY <2>2 DEF Unlink
  <2>3. CASE StartEnter(p) \/ StartUnlock(p) \/ Read(p) \/ Judge(p) \/ Recheck(p)
    BY <2>3 DEF StartEnter, StartUnlock, Read, Judge, Recheck
  <2>4. CASE Mkdir(p) \/ CreateMarker(p) \/ WriteMarker(p) \/ MarkerFails(p)
    BY <2>4 DEF Mkdir, CreateMarker, WriteMarker, MarkerFails
  <2>5. CASE UndoMarker(p) \/ UndoMkdir(p) \/ Rmdir(p) \/ StartRelease(p)
    BY <2>5 DEF UndoMarker, UndoMkdir, Rmdir, StartRelease
  <2>6. CASE DropMarker(p) \/ VerifyEmpty(p) \/ RemoveOwn(p)
             \/ ReleaseGivesUp(p) \/ Crash(p)
    BY <2>6 DEF DropMarker, VerifyEmpty, RemoveOwn, ReleaseGivesUp, Crash
  <2> QED BY <2>1, <2>2, <2>3, <2>4, <2>5, <2>6
<1> QED BY <1>6, <1>7

(* Only clear_run_lock is anything but an acquisition.                     *)
LEMMA OpKept ==
  ASSUME TypeOK, NEW p \in Procs, Step(p), ~StartUnlock(p)
  PROVE  op'[p] \in {op[p], "enter"}
<1> DEFINE Kept == op'[p] \in {op[p], "enter"}
<1>0. op \in [Procs -> Ops]
  BY DEF TypeOK
<1>1. \A l : Goto(p, l) => Kept
  BY <1>0 DEF Goto
<1>2. \A l : Forget(p, l) => Kept
  BY <1>0 DEF Forget
<1>3. Stop(p) => Kept
  BY <1>2 DEF Stop
<1>4. Retry(p) => Kept
  BY <1>0, <1>3 DEF Retry
<1>5. \A b : RetryIf(p, b) => Kept
  BY <1>3, <1>4 DEF RetryIf
<1>6. StartEnter(p) => Kept
  BY <1>0 DEF StartEnter
<1>7. Read(p) => Kept
  BY <1>0, <1>3 DEF Read
<1> SUFFICES Kept
  OBVIOUS
<1> HIDE DEF Kept
<1>8. CASE Mkdir(p) \/ CreateMarker(p) \/ WriteMarker(p) \/ MarkerFails(p)
  BY <1>8, <1>1, <1>2 DEF Mkdir, CreateMarker, WriteMarker, MarkerFails
<1>9. CASE UndoMarker(p) \/ UndoMkdir(p) \/ Judge(p) \/ Audit(p)
  BY <1>9, <1>1, <1>3, <1>4 DEF UndoMarker, UndoMkdir, Judge, Audit
<1>10. CASE Recheck(p) \/ Unlink(p) \/ Rmdir(p)
  BY <1>10, <1>1, <1>3, <1>5 DEF Recheck, Unlink, Rmdir
<1>11. CASE StartRelease(p) \/ DropMarker(p) \/ VerifyEmpty(p) \/ RemoveOwn(p)
  BY <1>11, <1>1, <1>3 DEF StartRelease, DropMarker, VerifyEmpty, RemoveOwn
<1>12. CASE ReleaseGivesUp(p) \/ Crash(p)
  BY <1>12, <1>2, <1>3 DEF ReleaseGivesUp, Crash
<1> QED BY <1>6, <1>7, <1>8, <1>9, <1>10, <1>11, <1>12 DEF Step

(* Every step keeps what a process on its way to a removal knows.        *)
LEMMA NextBreaker == TypeOK /\ Breaker /\ [Next]_vars => Breaker'
<1> SUFFICES ASSUME TypeOK, Breaker, [Next]_vars PROVE Breaker'
  OBVIOUS
<1>1. CASE UNCHANGED vars
  BY <1>1 DEF vars, Breaker
<1>2. ASSUME NEW p \in Procs, Step(p) PROVE Breaker'
  <2> SUFFICES ASSUME NEW q \in Procs
      PROVE  /\ pc'[q] \in {"judge", "audit", "recheck", "unlink"} => seen'[q] \in Marks
             /\ pc'[q] = "unlink" => seen'[q].full
             /\ op'[q] # "enter" => q \in Operators
             /\ pc'[q] = "audit" =>
                   op'[q] # "enter" /\ (FileLock(seen'[q]) => seen'[q].full)
             /\ pc'[q] \in {"audit", "recheck", "unlink"} /\ op'[q] # "force"
                   => pc'[seen'[q].by] = "dead"
             /\ pc'[q] = "recheck" /\ op'[q] # "enter" /\ ~FileLock(seen'[q])
                   => seen'[q] \in audited'
             /\ pc'[q] = "unlink" /\ op'[q] # "enter" => seen'[q] \in audited'
    BY DEF Breaker, FileLock
  <2>1. pc \in [Procs -> Labels] /\ op \in [Procs -> Ops]
        /\ seen \in [Procs -> Marks \cup {NoMark}]
        /\ content \subseteq Marks
    BY DEF TypeOK
  <2>2. /\ audited \subseteq audited'
        /\ \A r : pc[r] = "dead" /\ r \in Procs => pc'[r] = "dead"
    BY <1>2, StepLocal
  <2>3. \A m \in Marks : m.by \in Procs
    BY DEF Marks
  <2>4. CASE q # p
    <3>1. pc'[q] = pc[q] /\ op'[q] = op[q] /\ seen'[q] = seen[q]
      BY <1>2, <2>4, StepLocal
    <3> QED BY <3>1, <2>2, <2>3 DEF Breaker
  <2>5. CASE q = p
    <3> USE <2>5
    <3>0. op'[p] # "enter" => p \in Operators
      <4>1. StartUnlock(p) => p \in Operators
        BY DEF StartUnlock
      <4>2. ~StartUnlock(p) => op'[p] \in {op[p], "enter"}
        BY <1>2, OpKept
      <4> QED BY <1>2, <4>1, <4>2 DEF Breaker
    <3>1. CASE pc'[p] \notin {"judge", "audit", "recheck", "unlink"}
      BY <3>0, <3>1
    <3>2. CASE Read(p) /\ pc'[p] = "judge"
      <4>1. ~Stop(p)
        BY <3>2, <2>1 DEF Stop, Forget
      <4> QED BY <4>1, <3>0, <3>2, <2>1 DEF Read
    <3>3. CASE Judge(p) /\ pc'[p] = "audit"
      <4>1. Goto(p, "audit") /\ op[p] \in {"force", "unlock"} /\ ~FileLock(seen[p])
            /\ (op[p] = "unlock" => "stale" \in OwnerStates(p, seen[p]))
        BY <3>3, <2>1 DEF Judge, Goto, Stop, Forget, Ops
      <4>2. op[p] = "unlock" => pc[seen[p].by] = "dead"
        BY <4>1, StaleIsDead
      <4>3. seen[p] \in Marks
        BY <3>3 DEF Judge, Breaker
      <4> QED BY <4>1, <4>2, <4>3, <3>0, <2>1, <2>2, <2>3 DEF Goto
    <3>4. CASE Judge(p) /\ pc'[p] = "recheck"
      <4>1. Goto(p, "recheck") /\ (op[p] = "enter" \/ FileLock(seen[p]))
            /\ (op[p] # "force" => "stale" \in OwnerStates(p, seen[p]))
        BY <3>4, <2>1 DEF Judge, Goto, Stop, Forget
      <4>2. op[p] # "force" => pc[seen[p].by] = "dead"
        BY <4>1, StaleIsDead
      <4>3. seen[p] \in Marks
        BY <3>4 DEF Judge, Breaker
      <4> QED BY <4>1, <4>2, <4>3, <3>0, <2>1, <2>2, <2>3 DEF Goto
    <3>5. CASE Audit(p)
      BY <3>5, <2>1, <2>2, <2>3 DEF Audit, Goto, Breaker
    <3>6. CASE Recheck(p) /\ pc'[p] \in {"audit", "unlink"}
      <4>1. /\ Goto(p, pc'[p]) /\ seen[p].full
            /\ pc'[p] = "audit" <=> op[p] # "enter" /\ FileLock(seen[p])
        BY <3>6, <2>1 DEF Recheck, Goto, RetryIf, Retry, Stop, Forget
      <4> QED BY <4>1, <3>0, <3>6, <2>1, <2>2, <2>3 DEF Recheck, Goto, Breaker
    <3>7. \/ pc'[p] \notin {"judge", "audit", "recheck", "unlink"}
          \/ Read(p) /\ pc'[p] = "judge"
          \/ Judge(p) /\ pc'[p] \in {"audit", "recheck"}
          \/ Audit(p)
          \/ Recheck(p) /\ pc'[p] \in {"audit", "unlink"}
      <4> USE <2>1 DEF Goto, Stop, Forget, Retry, RetryIf
      <4>1. CASE Read(p) BY <4>1 DEF Read
      <4>2. CASE Judge(p) BY <4>2 DEF Judge
      <4>3. CASE Recheck(p) BY <4>3 DEF Recheck
      <4>4. CASE Unlink(p) BY <4>4 DEF Unlink
      <4>5. CASE StartEnter(p) \/ StartUnlock(p) \/ Mkdir(p) \/ CreateMarker(p)
        BY <4>5 DEF StartEnter, StartUnlock, Mkdir, CreateMarker
      <4>6. CASE WriteMarker(p) \/ MarkerFails(p) \/ UndoMarker(p) \/ UndoMkdir(p)
        BY <4>6 DEF WriteMarker, MarkerFails, UndoMarker, UndoMkdir
      <4>7. CASE Rmdir(p) \/ StartRelease(p) \/ DropMarker(p) \/ VerifyEmpty(p)
        BY <4>7 DEF Rmdir, StartRelease, DropMarker, VerifyEmpty
      <4>8. CASE RemoveOwn(p) \/ ReleaseGivesUp(p) \/ Crash(p)
        BY <4>8 DEF RemoveOwn, ReleaseGivesUp, Crash
      <4> QED BY <1>2, <4>1, <4>2, <4>3, <4>4, <4>5, <4>6, <4>7, <4>8 DEF Step
    <3> QED BY <3>0, <3>1, <3>2, <3>3, <3>4, <3>5, <3>6, <3>7
  <2> QED BY <2>4, <2>5
<1> QED BY <1>1, <1>2 DEF Next
-----------------------------------------------------------------------------
(* A marker that an operator unlinks was audited two steps before.       *)
LEMMA NextAuditFirst == Breaker /\ AuditFirst /\ [Next]_vars => AuditFirst'
<1> SUFFICES ASSUME Breaker, AuditFirst, [Next]_vars PROVE AuditFirst'
  OBVIOUS
<1> USE DEF AuditFirst, fs, hist
<1>1. CASE UNCHANGED vars
  BY <1>1 DEF vars
<1>2. ASSUME NEW p \in Procs, Step(p) PROVE AuditFirst'
  <2>1. CASE Unlink(p) BY <2>1 DEF Unlink, Breaker
  <2>2. CASE Audit(p) BY <2>2 DEF Audit
  <2>3. CASE UNCHANGED <<audited, cleared>> BY <2>3
  <2>4. Step(p) => Unlink(p) \/ Audit(p) \/ UNCHANGED <<audited, cleared>>
    BY DEF Step, StartEnter, StartUnlock, Mkdir, CreateMarker, WriteMarker, MarkerFails,
           UndoMarker, UndoMkdir, Read, Judge, Recheck, Rmdir, StartRelease, DropMarker,
           VerifyEmpty, RemoveOwn, ReleaseGivesUp, Crash
  <2> QED BY <1>2, <2>1, <2>2, <2>3, <2>4
<1> QED BY <1>1, <1>2 DEF Next

(* Custody, said of one process and its view of the directory.             *)
Building == {"made", "abort", "rmdir", "verify", "rmown"}

Holding(p) ==
    /\ pc[p] \in Building => content = {}
    /\ pc[p] = "marked" => content = {Own(p, FALSE)}
    /\ pc[p] = "undo" => content \subseteq {Own(p, FALSE), Own(p, TRUE)}
    /\ pc[p] \in {"held", "drop"} => Own(p, TRUE) \in content \/ Own(p, TRUE) \in cleared

(* Nobody is at work on the directory at the start.                      *)
LEMMA InitCustody == Init => Custody
<1> SUFFICES ASSUME Init PROVE Custody
  OBVIOUS
<1>1. \A q \in Procs : pc[q] \in {"idle", "dead"}
  BY DEF Init
<1>2. (\A m, n \in content : m = n) /\ (kind = "none" => content = {})
  BY DEF Init
<1> QED BY <1>1, <1>2 DEF Custody, Custodian

(* Steps that leave the directory and its clearings alone, and take the    *)
(* process out of custody or leave it there.                               *)
LEMMA QuietStep ==
  ASSUME TypeOK, Custody, NEW p \in Procs, Step(p),
         UNCHANGED <<kind, content, cleared>>,
         \/ pc'[p] \notin Building \cup {"marked", "undo", "held", "drop"}
         \/ Custodian(p) /\ pc'[p] \in Building /\ content = {}
         \/ Custodian(p) /\ pc'[p] = "undo" /\ gen'[p] = gen[p]
            /\ content \subseteq {Own(p, FALSE), Own(p, TRUE)}
         \/ pc[p] = "held" /\ pc'[p] = "drop" /\ gen'[p] = gen[p]
  PROVE  Custody'
<1>1. \A q \in Procs \ {p} :
         /\ pc'[q] = pc[q]
         /\ Own(q, TRUE)' = Own(q, TRUE) /\ Own(q, FALSE)' = Own(q, FALSE)
  BY StepLocal DEF Own
<1>2. \A q \in Procs : Custodian(q)' => Custodian(q)
  BY <1>1 DEF Custodian, Building, Own
<1>3. \A q \in Procs : Holding(q)'
  <2>1. \A q \in Procs \ {p} : Holding(q)'
    BY <1>1 DEF Custody, Holding, Building
  <2>2. Holding(p)'
    BY DEF Custody, Holding, Building, Own
  <2> QED BY <2>1, <2>2
<1> QED BY <1>2, <1>3 DEF Custody, Holding, Building

(* A step after which nobody but its process can be the custodian.         *)
LEMMA SoleStep ==
  ASSUME TypeOK, NEW p \in Procs, Step(p),
         \A q \in Procs \ {p} : ~Custodian(q)',
         \A q \in Procs \ {p} : pc[q] \in {"held", "drop"} => Own(q, TRUE) \in cleared',
         \A m, n \in content' : m = n,
         kind' = "none" => content' = {},
         Custodian(p)' => kind' = "dir",
         Holding(p)'
  PROVE  Custody'
<1>1. \A q \in Procs \ {p} :
         pc'[q] = pc[q] /\ Own(q, TRUE)' = Own(q, TRUE)
  BY StepLocal DEF Own
<1>2. \A q \in Procs : Holding(q)'
  BY <1>1 DEF Holding, Building, Custodian
<1> QED BY <1>2 DEF Custody, Holding, Building

(* A custodian that only drops markers, or writes its own, stays the only *)
(* one, and the other holders are those that an operator cleared.          *)
LEMMA CustodianAlone ==
  ASSUME TypeOK, Custody, NEW p \in Procs, Step(p),
         \/ Custodian(p)
         \/ kind = "none",
         content' \subseteq content \cup {Own(p, TRUE), Own(p, FALSE)},
         cleared \subseteq cleared'
  PROVE  /\ \A q \in Procs \ {p} : ~Custodian(q)'
         /\ \A q \in Procs \ {p} : pc[q] \in {"held", "drop"} => Own(q, TRUE) \in cleared'
<1> SUFFICES ASSUME NEW q \in Procs \ {p}
    PROVE  ~Custodian(q)' /\ (pc[q] \in {"held", "drop"} => Own(q, TRUE) \in cleared')
  OBVIOUS
<1>1. pc'[q] = pc[q] /\ Own(q, TRUE)' = Own(q, TRUE)
  BY StepLocal DEF Own
<1>2. ~Custodian(q)
  BY DEF Custody
<1>3. Own(q, TRUE) # Own(p, TRUE) /\ Own(q, TRUE) # Own(p, FALSE)
  BY OwnMark
<1>4. ~Custodian(q)'
  BY <1>1, <1>2, <1>3 DEF Custodian
<1>5. pc[q] \in {"held", "drop"} => Own(q, TRUE) \in cleared'
  BY <1>2 DEF Custody, Custodian
<1> QED BY <1>4, <1>5

(* Unless the owner was rolling its acquisition back, clearing a complete  *)
(* marker takes the custody of the directory from its owner.               *)
LEMMA UnlinkAlone ==
  ASSUME TypeOK, Breaker, Custody, ~crossed', NEW p \in Procs, Unlink(p),
         seen[p] \in content, kind = "dir"
  PROVE  /\ content' = {}
         /\ \A q \in Procs \ {p} : ~Custodian(q)'
         /\ \A q \in Procs \ {p} : pc[q] \in {"held", "drop"} => Own(q, TRUE) \in cleared'
<1>1. content' = {} /\ pc[p] = "unlink" /\ seen[p].full
  BY DEF Unlink, Custody, Breaker
<1>2. cleared' = IF op[p] = "enter" THEN cleared ELSE cleared \cup {seen[p]}
  BY DEF Unlink
<1>3. pc[seen[p].by] # "undo"
  BY DEF Unlink
<1>4. op[p] = "enter" => pc[seen[p].by] = "dead"
  BY <1>1 DEF Breaker
<1> SUFFICES ASSUME NEW q \in Procs \ {p}
    PROVE  ~Custodian(q)' /\ (pc[q] \in {"held", "drop"} => Own(q, TRUE) \in cleared')
  BY <1>1
<1>5. pc'[q] = pc[q] /\ Own(q, TRUE)' = Own(q, TRUE)
  BY StepLocal DEF Own, Step
<1>6. /\ Own(q, TRUE).by = q /\ Own(q, FALSE).by = q /\ ~Own(q, FALSE).full
  BY OwnMark
<1>7. pc[q] \notin {"made", "marked", "abort", "rmdir", "verify", "rmown"}
  BY <1>1, <1>6 DEF Custody
<1>8. pc[q] # "undo"
  <2>1. pc[q] = "undo" => seen[p] \in {Own(q, FALSE), Own(q, TRUE)}
    BY DEF Custody
  <2> QED BY <2>1, <1>3, <1>6
<1>9. ~Custodian(q)'
  BY <1>1, <1>5, <1>7, <1>8 DEF Custodian
<1>10. pc[q] \in {"held", "drop"} => Own(q, TRUE) \in cleared'
  <2> SUFFICES ASSUME pc[q] \in {"held", "drop"} PROVE Own(q, TRUE) \in cleared'
    OBVIOUS
  <2>1. CASE Own(q, TRUE) \in cleared BY <2>1, <1>2
  <2>2. CASE Own(q, TRUE) \in content
    <3>1. seen[p] = Own(q, TRUE)
      BY <2>2 DEF Custody
    <3>2. op[p] # "enter"
      BY <3>1, <1>4, <1>6
    <3> QED BY <3>1, <3>2, <1>2
  <2> QED BY <2>1, <2>2 DEF Custody
<1> QED BY <1>9, <1>10

(* Every step keeps custody of the directory with one process.             *)
LEMMA NextCustody ==
  TypeOK /\ Breaker /\ Custody /\ ~crossed' /\ [Next]_vars => Custody'
<1> SUFFICES ASSUME TypeOK, Breaker, Custody, ~crossed', [Next]_vars
    PROVE  Custody'
  OBVIOUS
<1>1. CASE UNCHANGED vars
  BY <1>1 DEF vars, Custody, Custodian, Own
<1>2. ASSUME NEW p \in Procs, Step(p) PROVE Custody'
  <2> USE <1>2 DEF fs, hist, Building
  <2>0. pc \in [Procs -> Labels] /\ gen \in [Procs -> 0 .. MaxCalls]
    BY DEF TypeOK
  <2>g. \A l : Goto(p, l) => pc'[p] = l /\ gen'[p] = gen[p]
    BY <2>0 DEF Goto
  <2>f. \A l : Forget(p, l) => pc'[p] = l /\ gen'[p] = gen[p]
    BY <2>0 DEF Forget
  <2>s. Stop(p) => pc'[p] = "idle"
    BY <2>f DEF Stop
  <2>r. /\ Retry(p) => pc'[p] \in {"idle", "mkdir"}
        /\ \A b : RetryIf(p, b) => pc'[p] \in {"idle", "mkdir"}
    BY <2>0, <2>s DEF Retry, RetryIf
  <2>o. gen'[p] = gen[p] => Own(p, TRUE)' = Own(p, TRUE) /\ Own(p, FALSE)' = Own(p, FALSE)
    BY DEF Own
  <2>1. CASE StartEnter(p) \/ StartUnlock(p)
    BY <2>0, <2>1, QuietStep DEF StartEnter, StartUnlock
  <2>2. CASE Read(p)
    <3>1. CASE Stop(p) BY <2>2, <3>1, <2>s, QuietStep DEF Read
    <3>2. CASE ~Stop(p) BY <2>2, <3>2, <2>0, QuietStep DEF Read
    <3> QED BY <3>1, <3>2
  <2>3. CASE Judge(p) \/ Audit(p) \/ Recheck(p)
    <3>1. UNCHANGED <<kind, content, cleared>>
      BY <2>3 DEF Judge, Audit, Recheck
    <3>2. pc'[p] \in {"audit", "recheck", "unlink", "idle", "mkdir"}
      BY <2>3, <2>g, <2>s, <2>r DEF Judge, Audit, Recheck
    <3> QED BY <3>1, <3>2, QuietStep
  <2>4. CASE StartRelease(p)
    BY <2>4, <2>g, QuietStep DEF StartRelease
  <2>5. CASE VerifyEmpty(p)
    BY <2>5, <2>g, <2>s, QuietStep DEF VerifyEmpty, Custodian
  <2>6. CASE ReleaseGivesUp(p) \/ Crash(p)
    <3>1. UNCHANGED <<kind, content, cleared>> /\ pc'[p] \in {"idle", "dead"}
      BY <2>6, <2>f, <2>s DEF ReleaseGivesUp, Crash
    <3> QED BY <3>1, QuietStep
  <2>7. CASE Mkdir(p)
    <3>1. CASE kind = "none"
      <4>1. kind' = "dir" /\ content = {} /\ content' = {} /\ cleared' = cleared
            /\ pc'[p] = "made"
        BY <2>7, <3>1, <2>g DEF Mkdir, Custody
      <4> QED BY <4>1, <3>1, CustodianAlone, SoleStep DEF Holding
    <3>2. CASE kind # "none"
      <4>1. UNCHANGED <<kind, content, cleared>> /\ pc'[p] = "read"
        BY <2>7, <3>2, <2>g DEF Mkdir
      <4> QED BY <4>1, QuietStep
    <3> QED BY <3>1, <3>2
  <2>8. CASE CreateMarker(p)
    <3>1. pc[p] = "made" /\ Custodian(p) /\ kind = "dir" /\ content = {}
      BY <2>8 DEF CreateMarker, Custodian, Custody
    <3>2. content' = {Own(p, FALSE)} /\ pc'[p] = "marked" /\ gen'[p] = gen[p]
          /\ kind' = "dir" /\ cleared' = cleared
      BY <2>8, <3>1, <2>g DEF CreateMarker
    <3>3. Holding(p)'
      BY <3>2, <2>o DEF Holding
    <3> QED BY <3>1, <3>2, <3>3, CustodianAlone, SoleStep
  <2>9. CASE WriteMarker(p)
    <3>1. Custodian(p) /\ kind = "dir" /\ content = {Own(p, FALSE)}
      BY <2>9 DEF WriteMarker, Custodian, Custody
    <3>2. content' = {Own(p, TRUE)} /\ pc'[p] = "held" /\ gen'[p] = gen[p]
          /\ kind' = "dir" /\ cleared' = cleared
      BY <2>9, <3>1, <2>f DEF WriteMarker
    <3>3. Holding(p)'
      BY <3>2, <2>o DEF Holding
    <3> QED BY <3>1, <3>2, <3>3, CustodianAlone, SoleStep
  <2>10. CASE MarkerFails(p)
    <3>1. Custodian(p) /\ kind = "dir"
      BY <2>10 DEF MarkerFails, Custodian, Custody
    <3>2. pc'[p] = "undo" /\ gen'[p] = gen[p] /\ kind' = "dir" /\ cleared' = cleared
      BY <2>10, <3>1, <2>g DEF MarkerFails
    <3>3. \/ content' = {}
          \/ content' = {Own(p, FALSE)}
          \/ content' = {Own(p, TRUE)}
      BY <2>10 DEF MarkerFails, Custody
    <3>4. Holding(p)'
      BY <3>2, <3>3, <2>o DEF Holding
    <3> QED BY <3>1, <3>2, <3>3, <3>4, CustodianAlone, SoleStep
  <2>11. CASE UndoMarker(p)
    <3>1. Custodian(p) /\ kind = "dir"
      BY <2>11 DEF UndoMarker, Custodian, Custody
    <3>2. content' = {} /\ pc'[p] = "abort" /\ kind' = "dir" /\ cleared' = cleared
      BY <2>11, <3>1, <2>g DEF UndoMarker, Custody
    <3> QED BY <3>1, <3>2, CustodianAlone, SoleStep DEF Holding
  <2>12. CASE UndoMkdir(p) \/ Rmdir(p) \/ RemoveOwn(p)
    <3>1. pc[p] \in {"abort", "rmdir", "rmown"}
      BY <2>12 DEF UndoMkdir, Rmdir, RemoveOwn
    <3>2. Custodian(p) /\ kind = "dir" /\ content = {}
      BY <3>1 DEF Custodian, Custody
    <3>3. content' = {} /\ kind' = "none" /\ cleared' = cleared
      BY <2>12, <3>2 DEF UndoMkdir, Rmdir, RemoveOwn
    <3>4. pc'[p] \in {"idle", "mkdir"}
      BY <2>12, <2>r, <2>s DEF UndoMkdir, Rmdir, RemoveOwn
    <3>5. ~Custodian(p)' /\ Holding(p)'
      BY <3>4 DEF Custodian, Holding
    <3> QED BY <3>2, <3>3, <3>5, CustodianAlone, SoleStep
  <2>13. CASE DropMarker(p)
    <3>1. CASE Own(p, TRUE) \in content
      <4>1. Custodian(p) /\ kind = "dir" /\ content = {Own(p, TRUE)}
        BY <2>13, <3>1 DEF DropMarker, Custodian, Custody
      <4>2. content' = {} /\ kind' = "dir" /\ cleared' = cleared /\ pc'[p] = "verify"
        BY <2>13, <3>1, <4>1, <2>g DEF DropMarker
      <4> QED BY <4>1, <4>2, CustodianAlone, SoleStep DEF Holding
    <3>2. CASE Own(p, TRUE) \notin content
      BY <2>13, <3>2, <2>s, QuietStep DEF DropMarker
    <3> QED BY <3>1, <3>2
  <2>14. CASE Unlink(p)
    <3>1. CASE seen[p] \notin content
      BY <2>14, <3>1, <2>r, QuietStep DEF Unlink
    <3>2. CASE seen[p] \in content /\ kind = "dir"
      <4>1. kind' = "dir" /\ pc'[p] = "rmdir"
        BY <2>14, <3>2, <2>g DEF Unlink
      <4>2. content' = {} /\ Holding(p)'
        BY <2>14, <3>2, <4>1, UnlinkAlone DEF Holding
      <4> QED BY <2>14, <3>2, <4>1, <4>2, UnlinkAlone, SoleStep
    <3>3. CASE seen[p] \in content /\ kind # "dir"
      <4>1. content' = {} /\ kind' = "none" /\ cleared \subseteq cleared'
            /\ pc'[p] \in {"idle", "mkdir"}
        BY <2>14, <3>3, <2>r DEF Unlink, Custody, TypeOK, Kinds
      <4>2. ~Custodian(p)' /\ Holding(p)'
        BY <4>1 DEF Custodian, Holding
      <4>3. \A q \in Procs \ {p} :
              ~Custodian(q)' /\ (pc[q] \in {"held", "drop"} => Own(q, TRUE) \in cleared')
        <5> SUFFICES ASSUME NEW q \in Procs \ {p}
            PROVE  ~Custodian(q)' /\ (pc[q] \in {"held", "drop"} => Own(q, TRUE) \in cleared')
          OBVIOUS
        <5>1. pc'[q] = pc[q] /\ ~Custodian(q)
          BY <3>3, StepLocal DEF Custody
        <5>2. ~Custodian(q)'
          BY <4>1, <5>1 DEF Custodian
        <5>3. pc[q] \in {"held", "drop"} => Own(q, TRUE) \in cleared'
          BY <4>1, <5>1 DEF Custodian, Custody
        <5> QED BY <5>2, <5>3
      <4> QED BY <4>1, <4>2, <4>3, SoleStep
    <3> QED BY <3>1, <3>2, <3>3
  <2> QED BY <2>1, <2>2, <2>3, <2>4, <2>5, <2>6, <2>7, <2>8, <2>9, <2>10, <2>11, <2>12,
             <2>13, <2>14 DEF Step
<1> QED BY <1>1, <1>2 DEF Next
-----------------------------------------------------------------------------
(* The strengthening is inductive: custody as long as nothing crossed.   *)
LEMMA Inductive == IInv /\ [Next]_vars => IInv'
<1> SUFFICES ASSUME IInv, [Next]_vars PROVE IInv'
  OBVIOUS
<1>1. TypeOK' /\ Breaker' /\ AuditFirst'
  BY NextType, NextBreaker, NextAuditFirst DEF IInv
<1>2. crossed => crossed'
  BY DEF Next, Step, vars, hist, StartEnter, StartUnlock, Mkdir, CreateMarker, WriteMarker,
         MarkerFails, UndoMarker, UndoMkdir, Read, Judge, Audit, Recheck, Unlink, Rmdir,
         StartRelease, DropMarker, VerifyEmpty, RemoveOwn, ReleaseGivesUp, Crash
<1>3. ~crossed' => Custody'
  BY <1>2, NextCustody DEF IInv
<1> QED BY <1>1, <1>3 DEF IInv

(* The inductive invariant holds in every reachable state.                 *)
THEOREM Invariance == Spec => []IInv
<1>1. Init => IInv
  BY InitType, InitBreaker, InitCustody DEF IInv, AuditFirst, Init
<1> QED BY <1>1, Inductive, PTL DEF Spec

(* Every variable keeps its type.                                          *)
THEOREM TypeCorrect == Spec => []TypeOK
<1>1. IInv => TypeOK
  BY DEF IInv
<1> QED BY <1>1, Invariance, PTL

(* Two processes are inside `with RunLock` of one run only when an operator *)
(* forced the lock of one of them, whatever crashes and interleavings.     *)
THEOREM LockExcludes == Spec => []Exclusion
<1>1. IInv => Exclusion
  <2> SUFFICES ASSUME IInv, ~crossed, NEW p \in Procs, NEW q \in Procs,
                      p # q, pc[p] = "held", pc[q] = "held"
      PROVE  Lost(p) \/ Lost(q)
    BY DEF Exclusion
  <2>1. Custody
    BY DEF IInv
  <2>2. ~(Own(p, TRUE) \in content /\ Own(q, TRUE) \in content)
    BY <2>1 DEF Custody, Custodian
  <2> QED BY <2>1, <2>2 DEF Custody, Lost
<1> QED BY <1>1, Invariance, PTL

(* The directory never has two custodians.                                 *)
THEOREM OneCustodian == Spec => []SoleCustodian
<1>1. IInv => SoleCustodian
  BY DEF IInv, Custody, SoleCustodian
<1> QED BY <1>1, Invariance, PTL

(* No lock is cleared before the audit record that names its owner.        *)
THEOREM AuditedBeforeCleared == Spec => []AuditFirst
<1>1. IInv => AuditFirst
  BY DEF IInv
<1> QED BY <1>1, Invariance, PTL

(* A complete marker is removed only from a dead owner, by its owner, or   *)
(* after an audit record.                                                  *)
THEOREM RemovalsJustified == Spec => RemovalJustified
<1> DEFINE Justified ==
      \A m \in content \ content' :
          m.full => \/ pc[m.by] = "dead"
                    \/ pc[m.by] \in {"drop", "undo"} /\ pc'[m.by] # pc[m.by]
                    \/ m \in audited
<1>1. IInv /\ [Next]_vars => [Justified]_vars
  <2> SUFFICES ASSUME IInv, NEW p \in Procs, Step(p) PROVE Justified
    BY DEF Next
  <2> USE DEF fs, hist, IInv
  <2>0. Own(p, TRUE).by = p /\ Own(p, FALSE).by = p /\ ~Own(p, FALSE).full
    BY OwnMark
  <2>1. CASE Unlink(p)
    BY <2>1 DEF Unlink, Breaker
  <2>2. CASE UndoMarker(p)
    BY <2>0, <2>2 DEF UndoMarker, Goto, TypeOK
  <2>3. CASE DropMarker(p)
    <3>1. CASE Own(p, TRUE) \in content
      <4>1. pc[p] = "drop" /\ pc'[p] = "verify" /\ content' = content \ {Own(p, TRUE)}
        BY <2>3, <3>1 DEF DropMarker, Goto, TypeOK
      <4> QED BY <4>1, <2>0
    <3>2. CASE Own(p, TRUE) \notin content
      BY <2>3, <3>2 DEF DropMarker
    <3> QED BY <3>1, <3>2
  <2>4. CASE WriteMarker(p) \/ MarkerFails(p) \/ CreateMarker(p)
    BY <2>0, <2>4 DEF WriteMarker, MarkerFails, CreateMarker
  <2>5. CASE UNCHANGED content
    BY <2>5
  <2>6. \/ Unlink(p) \/ UndoMarker(p) \/ DropMarker(p)
        \/ WriteMarker(p) \/ MarkerFails(p) \/ CreateMarker(p)
        \/ UNCHANGED content
    BY DEF Step, StartEnter, StartUnlock, Mkdir, UndoMkdir, Read, Judge, Audit, Recheck,
           Rmdir, StartRelease, VerifyEmpty, RemoveOwn, ReleaseGivesUp, Crash
  <2> QED BY <2>1, <2>2, <2>3, <2>4, <2>5, <2>6
<1> QED BY <1>1, Invariance, PTL DEF Spec, RemovalJustified
-----------------------------------------------------------------------------
(* The refinement of CrashLock.                                            *)
AtWork == {"made", "marked", "undo", "abort", "rmdir", "verify", "rmown"}

(* The signer that CrashLock sees is the owner of the complete marker.   *)
LEMMA SignerOf ==
  /\ content = {} => signer = {}
  /\ \A m : content = {m} => signer = IF m.full THEN {m.by} ELSE {}
<1>1. content = {} => signer = {}
  BY DEF signer
<1>2. ASSUME NEW m, content = {m}
      PROVE  signer = IF m.full THEN {m.by} ELSE {}
  BY <1>2 DEF signer
<1> QED BY <1>1, <1>2

(* The same of the next state.                                           *)
LEMMA SignerNext ==
  /\ content' = {} => signer' = {}
  /\ \A m : content' = {m} => signer' = IF m.full THEN {m.by} ELSE {}
<1>1. content' = {} => signer' = {}
  BY DEF signer
<1>2. ASSUME NEW m, content' = {m}
      PROVE  signer' = IF m.full THEN {m.by} ELSE {}
  BY <1>2 DEF signer
<1> QED BY <1>1, <1>2

(* The hand that CrashLock sees is the custodian of an unsigned directory. *)
LEMMA HandOf ==
  ASSUME Custody
  PROVE  /\ signer # {} => hand = {}
         /\ \A p \in Procs : pc[p] \in AtWork /\ signer = {} => hand = {p}
         /\ kind = "none" => signer = {} /\ hand = {}
<1>1. \A p, q \in Procs : pc[p] \in AtWork /\ pc[q] \in AtWork => p = q
  BY DEF Custody, Custodian, AtWork
<1>2. kind = "none" => \A p \in Procs : pc[p] \notin AtWork
  BY DEF Custody, Custodian, AtWork
<1>3. kind = "none" => signer = {}
  BY SignerOf DEF Custody
<1> QED BY <1>1, <1>2, <1>3 DEF hand, AtWork

(* The same of the next state.                                           *)
LEMMA HandNext ==
  ASSUME Custody'
  PROVE  /\ signer' # {} => hand' = {}
         /\ \A p \in Procs : pc'[p] \in AtWork /\ signer' = {} => hand' = {p}
         /\ kind' = "none" => signer' = {} /\ hand' = {}
<1>1. \A p, q \in Procs : pc'[p] \in AtWork /\ pc'[q] \in AtWork => p = q
  BY DEF Custody, Custodian, AtWork
<1>2. kind' = "none" => \A p \in Procs : pc'[p] \notin AtWork
  BY DEF Custody, Custodian, AtWork
<1>3. kind' = "none" => signer' = {}
  BY SignerNext DEF Custody
<1> QED BY <1>1, <1>2, <1>3 DEF hand, AtWork

(* Each step of a process is a step of CrashLock, or changes nothing in it. *)
LEMMA StepRefines ==
  ASSUME TypeOK, Breaker, Custody, Custody', ~crossed', NEW p \in Procs, Step(p)
  PROVE  Lock!Next \/ UNCHANGED Lock!vars
<1> DEFINE Dead == {q \in Procs : pc[q] = "dead"}
           Present == kind # "none"
<1> USE DEF fs, hist
<1>0. pc \in [Procs -> Labels] /\ content \subseteq Marks /\ kind \in Kinds
  BY DEF TypeOK
<1>1. \A q \in Procs \ {p} : pc'[q] = pc[q]
  BY StepLocal
<1>g. \A l : Goto(p, l) => pc'[p] = l
  BY <1>0 DEF Goto
<1>f. \A l : Forget(p, l) => pc'[p] = l
  BY <1>0 DEF Forget
<1>s. Stop(p) => pc'[p] = "idle"
  BY <1>f DEF Stop
<1>r. /\ Retry(p) => pc'[p] \in {"idle", "mkdir"}
      /\ \A b : RetryIf(p, b) => pc'[p] \in {"idle", "mkdir"}
  BY <1>0, <1>s DEF Retry, RetryIf
<1>d. pc'[p] # "dead" => Dead' = Dead
  BY <1>1, StepLocal
<1>e. pc'[p] = "dead" => Dead' = Dead \cup {p}
  BY <1>1, StepLocal
<1>w. /\ UNCHANGED content => signer' = signer
      /\ UNCHANGED content /\ (pc[p] \in AtWork <=> pc'[p] \in AtWork) => hand' = hand
      /\ UNCHANGED content /\ pc'[p] \notin AtWork => hand' = hand \ {p}
  BY <1>1 DEF hand, signer, AtWork
<1>v. Present' = Present /\ signer' = signer /\ hand' = hand /\ Dead' = Dead
        => UNCHANGED Lock!vars
  BY DEF Lock!vars
<1> HIDE DEF Dead, Present
<1>2. CASE UNCHANGED <<kind, content>> /\ pc'[p] \notin AtWork /\ pc'[p] # "dead"
  <2>1. Present' = Present /\ signer' = signer /\ hand' = hand \ {p} /\ Dead' = Dead
    BY <1>2, <1>w, <1>d DEF Present
  <2>2. CASE hand = {p}
    <3>1. Lock!Abandon(p)
      BY <2>1, <2>2 DEF Lock!Abandon, Present, Dead
    <3> QED BY <3>1 DEF Lock!Next
  <2>3. CASE hand # {p}
    <3>1. p \notin hand
      BY <2>3, HandOf DEF hand, AtWork
    <3> QED BY <2>1, <3>1, <1>v
  <2> QED BY <2>2, <2>3
<1>3. CASE UNCHANGED <<kind, content>> /\ (pc[p] \in AtWork <=> pc'[p] \in AtWork)
           /\ pc'[p] # "dead"
  <2>1. Present' = Present /\ signer' = signer /\ hand' = hand /\ Dead' = Dead
    BY <1>3, <1>w, <1>d DEF Present
  <2> QED BY <2>1, <1>v
<1>4. CASE UNCHANGED <<kind, content>> /\ pc'[p] = "dead"
  <2>1. Lock!Die(p)
    BY <1>4, <1>w, <1>e DEF Lock!Die, Dead, AtWork
  <2> QED BY <2>1 DEF Lock!Next
<1>5. CASE StartEnter(p) \/ StartUnlock(p)
  <2>1. pc'[p] \in {"mkdir", "read"} /\ UNCHANGED <<kind, content>>
    BY <1>5, <1>0 DEF StartEnter, StartUnlock
  <2> QED BY <2>1, <1>2 DEF AtWork
<1>6. CASE Read(p)
  <2>1. CASE Stop(p) BY <1>6, <2>1, <1>s, <1>2 DEF Read, AtWork
  <2>2. CASE ~Stop(p)
    <3>1. pc'[p] = "judge" /\ UNCHANGED <<kind, content>>
      BY <1>6, <2>2, <1>0 DEF Read
    <3> QED BY <3>1, <1>2 DEF AtWork
  <2> QED BY <2>1, <2>2
<1>7. CASE Judge(p) \/ Audit(p) \/ Recheck(p) \/ StartRelease(p) \/ ReleaseGivesUp(p)
  <2>1. UNCHANGED <<kind, content>>
    BY <1>7 DEF Judge, Audit, Recheck, StartRelease, ReleaseGivesUp
  <2>2. pc'[p] \in {"recheck", "audit", "unlink", "idle", "mkdir", "drop"}
    BY <1>7, <1>g, <1>s, <1>r DEF Judge, Audit, Recheck, StartRelease, ReleaseGivesUp
  <2> QED BY <2>1, <2>2, <1>2 DEF AtWork
<1>8. CASE VerifyEmpty(p)
  <2>1. UNCHANGED <<kind, content>>
    BY <1>8 DEF VerifyEmpty
  <2>2. pc[p] \in AtWork /\ pc'[p] \in {"rmown", "idle"}
    BY <1>8, <1>g, <1>s DEF VerifyEmpty, AtWork
  <2> QED BY <2>1, <2>2, <1>2, <1>3 DEF AtWork
<1>9. CASE Crash(p)
  <2>1. UNCHANGED <<kind, content>> /\ pc'[p] = "dead"
    BY <1>9, <1>f DEF Crash
  <2> QED BY <2>1, <1>4
<1>10. CASE Mkdir(p)
  <2>1. CASE kind = "none"
    <3>1. kind' = "dir" /\ content' = {} /\ content = {} /\ pc'[p] = "made"
      BY <1>10, <2>1, <1>g DEF Mkdir, Custody
    <3>2. signer = {} /\ signer' = {} /\ hand' = {p} /\ Dead' = Dead
      BY <3>1, <1>d, SignerOf, SignerNext, HandNext DEF AtWork
    <3>3. Lock!Claim(p)
      BY <2>1, <3>1, <3>2 DEF Lock!Claim, Dead
    <3> QED BY <3>3 DEF Lock!Next
  <2>2. CASE kind # "none"
    <3>1. UNCHANGED <<kind, content>> /\ pc'[p] = "read"
      BY <1>10, <2>2, <1>g DEF Mkdir
    <3> QED BY <3>1, <1>2 DEF AtWork
  <2> QED BY <2>1, <2>2
<1>11. CASE CreateMarker(p)
  <2>1. pc[p] = "made" /\ kind = "dir" /\ content = {}
    BY <1>11 DEF CreateMarker, Custodian, Custody
  <2>2. content' = {Own(p, FALSE)} /\ pc'[p] = "marked" /\ kind' = kind
    BY <1>11, <2>1, <1>g DEF CreateMarker
  <2>3. signer = {} /\ signer' = {} /\ hand = {p} /\ hand' = {p}
    BY <2>1, <2>2, OwnMark, SignerOf, SignerNext, HandOf, HandNext DEF AtWork
  <2>4. Present' = Present /\ Dead' = Dead
    BY <2>2, <1>d DEF Present
  <2> QED BY <2>3, <2>4, <1>v
<1>12. CASE WriteMarker(p)
  <2>1. pc[p] = "marked" /\ content = {Own(p, FALSE)}
    BY <1>12 DEF WriteMarker, Custodian, Custody
  <2>2. content' = {Own(p, TRUE)} /\ pc'[p] = "held" /\ kind' = kind
    BY <1>12, <2>1, <1>f DEF WriteMarker
  <2>3. signer = {} /\ signer' = {p} /\ hand = {p} /\ hand' = {}
    <3>1. signer = {}
      BY <2>1, OwnMark, SignerOf
    <3>2. signer' = {p}
      BY <2>2, OwnMark, SignerNext
    <3> QED BY <2>1, <3>1, <3>2, HandOf, HandNext DEF AtWork
  <2>4. Lock!Sign(p)
    BY <2>2, <2>3, <1>d DEF Lock!Sign, Dead
  <2> QED BY <2>4 DEF Lock!Next
<1>13. CASE MarkerFails(p)
  <2>1. pc[p] \in {"made", "marked"} /\ pc'[p] = "undo" /\ kind' = kind
        /\ (content = {} \/ content = {Own(p, FALSE)})
    BY <1>13, <1>g DEF MarkerFails, Custody
  <2>2. content' = content \/ content' = {Own(p, TRUE)}
    BY <1>13 DEF MarkerFails, Custody
  <2>3. signer = {} /\ hand = {p}
    BY <2>1, OwnMark, SignerOf, HandOf DEF AtWork
  <2>4. CASE content' = content
    BY <2>1, <2>4, <1>3 DEF AtWork
  <2>5. CASE content' = {Own(p, TRUE)}
    <3>1. signer' = {p} /\ hand' = {}
      BY <2>5, OwnMark, SignerNext, HandNext
    <3>2. Lock!Sign(p)
      BY <2>1, <2>3, <3>1, <1>d DEF Lock!Sign, Dead
    <3> QED BY <3>2 DEF Lock!Next
  <2> QED BY <2>2, <2>4, <2>5
<1>14. CASE UndoMarker(p)
  <2>1. pc[p] = "undo" /\ pc'[p] = "abort" /\ kind' = kind /\ content' = {}
    BY <1>14, <1>g DEF UndoMarker, Custody
  <2>2. signer' = {} /\ hand' = {p}
    BY <2>1, SignerNext, HandNext DEF AtWork
  <2>3. CASE signer = {}
    <3>1. hand = {p}
      BY <2>1, <2>3, HandOf DEF AtWork
    <3>2. Present' = Present /\ Dead' = Dead
      BY <2>1, <1>d DEF Present
    <3> QED BY <2>2, <2>3, <3>1, <3>2, <1>v
  <2>4. CASE signer # {}
    <3>1. \A m, n \in content : m = n
      BY DEF Custody
    <3>2. content = {} \/ content = {Own(p, FALSE)} \/ content = {Own(p, TRUE)}
      BY <2>1, <3>1 DEF Custody
    <3>3. signer = {p}
      BY <2>4, <3>2, OwnMark, SignerOf
    <3>4. Lock!Erase(p, p)
      BY <2>1, <2>2, <3>3, <1>d DEF Lock!Erase, Dead
    <3> QED BY <3>4 DEF Lock!Next
  <2> QED BY <2>3, <2>4
<1>15. CASE UndoMkdir(p) \/ Rmdir(p) \/ RemoveOwn(p)
  <2>1. pc[p] \in {"abort", "rmdir", "rmown"}
    BY <1>15 DEF UndoMkdir, Rmdir, RemoveOwn
  <2>2. kind = "dir" /\ content = {}
    BY <2>1 DEF Custodian, Custody
  <2>3. content' = {} /\ kind' = "none" /\ pc'[p] \in {"idle", "mkdir"}
    BY <1>15, <2>2, <1>r, <1>s DEF UndoMkdir, Rmdir, RemoveOwn
  <2>4. signer = {} /\ hand = {p} /\ signer' = {} /\ hand' = {}
    BY <2>1, <2>2, <2>3, SignerOf, HandOf, HandNext DEF AtWork
  <2>5. Lock!Discard(p)
    BY <2>3, <2>4, <1>d DEF Lock!Discard, Dead
  <2> QED BY <2>5 DEF Lock!Next
<1>16. CASE DropMarker(p)
  <2>1. CASE Own(p, TRUE) \in content
    <3>1. content = {Own(p, TRUE)}
      BY <2>1 DEF Custody
    <3>2. content' = {} /\ kind' = kind /\ pc'[p] = "verify"
      BY <1>16, <2>1, <3>1, <1>g DEF DropMarker
    <3>3. signer = {p} /\ signer' = {} /\ hand' = {p}
      <4>1. signer = {p}
        BY <3>1, OwnMark, SignerOf
      <4>2. signer' = {}
        BY <3>2, SignerNext
      <4> QED BY <3>2, <4>1, <4>2, HandNext DEF AtWork
    <3>4. Lock!Erase(p, p)
      BY <3>2, <3>3, <1>d DEF Lock!Erase, Dead
    <3> QED BY <3>4 DEF Lock!Next
  <2>2. CASE Own(p, TRUE) \notin content
    <3>1. UNCHANGED <<kind, content>> /\ pc'[p] = "idle"
      BY <1>16, <2>2, <1>s DEF DropMarker
    <3> QED BY <3>1, <1>2 DEF AtWork
  <2> QED BY <2>1, <2>2
<1>17. CASE Unlink(p)
  <2>1. CASE seen[p] \notin content
    <3>1. UNCHANGED <<kind, content>> /\ pc'[p] \in {"idle", "mkdir"}
      BY <1>17, <2>1, <1>r DEF Unlink
    <3> QED BY <3>1, <1>2 DEF AtWork
  <2>2. CASE seen[p] \in content
    <3> DEFINE q == seen[p].by
    <3>1. pc[p] = "unlink" /\ seen[p].full /\ content = {seen[p]} /\ content' = {}
      BY <1>17, <2>2 DEF Unlink, Breaker, Custody
    <3>2. q \in Procs
      BY <2>2, <1>0 DEF Marks
    <3>3. signer = {q} /\ signer' = {}
      BY <3>1, SignerOf, SignerNext
    <3>4. q \in Dead \/ p \in Operators
      <4>1. op[p] = "enter" => pc[q] = "dead"
        BY <3>1 DEF Breaker
      <4>2. op[p] # "enter" => p \in Operators
        BY DEF Breaker
      <4> QED BY <4>1, <4>2, <3>2 DEF Dead
    <3>5. CASE kind = "file"
      <4>1. kind' = "none" /\ pc'[p] \in {"idle", "mkdir"}
        BY <1>17, <2>2, <3>5, <1>r DEF Unlink
      <4>2. hand' = {} /\ Dead' = Dead
        BY <4>1, <1>d, HandNext
      <4>3. Lock!EraseFile(p, q)
        BY <3>3, <3>4, <4>1, <4>2 DEF Lock!EraseFile, Dead
      <4> QED BY <4>3, <3>2 DEF Lock!Next
    <3>6. CASE kind # "file"
      <4>1. kind' = kind /\ pc'[p] = "rmdir"
        BY <1>17, <2>2, <3>6, <1>g DEF Unlink
      <4>2. hand' = {p} /\ Dead' = Dead
        BY <3>3, <4>1, <1>d, HandNext DEF AtWork
      <4>3. Lock!Erase(p, q)
        BY <3>3, <3>4, <4>1, <4>2 DEF Lock!Erase, Dead
      <4> QED BY <4>3, <3>2 DEF Lock!Next
    <3> QED BY <3>5, <3>6
  <2> QED BY <2>1, <2>2
<1> QED BY <1>5, <1>6, <1>7, <1>8, <1>9, <1>10, <1>11, <1>12, <1>13, <1>14, <1>15, <1>16,
           <1>17 DEF Step

(* The initial states are initial states of CrashLock.                   *)
LEMMA InitRefines == Init => Lock!Init
<1> SUFFICES ASSUME Init PROVE Lock!Init
  OBVIOUS
<1>1. hand = {}
  BY DEF Init, hand
<1>2. CASE kind = "none" /\ content = {} /\ pc = [p \in Procs |-> "idle"]
  <2>1. signer = {} /\ {p \in Procs : pc[p] = "dead"} = {}
    BY <1>2, SignerOf
  <2> QED BY <1>1, <1>2, <2>1 DEF Lock!Init
<1>3. ASSUME NEW o \in Procs, kind = "file",
             content = {[by |-> o, gen |-> 0, full |-> TRUE]},
             pc = [p \in Procs |-> IF p = o THEN "dead" ELSE "idle"]
      PROVE  Lock!Init
  <2> DEFINE m == [by |-> o, gen |-> 0, full |-> TRUE]
  <2>0. content = {m} /\ m.full /\ m.by = o
    BY <1>3
  <2> HIDE DEF m
  <2>1. signer = {o}
    BY <2>0, SignerOf
  <2>2. {p \in Procs : pc[p] = "dead"} = {o}
    BY <1>3
  <2> QED BY <1>1, <1>3, <2>1, <2>2 DEF Lock!Init
<1> QED BY <1>2, <1>3 DEF Init

(* The directory protocol implements CrashLock, the lock that the lease    *)
(* protocol of the store is built on.                                      *)
THEOREM Refinement == Spec => ImplementsCrashLock
<1>1. IInv /\ IInv' /\ [Next]_vars => [crossed' \/ Lock!Next]_(Lock!vars)
  <2> SUFFICES ASSUME IInv, IInv', [Next]_vars, ~crossed'
      PROVE  Lock!Next \/ UNCHANGED Lock!vars
    OBVIOUS
  <2>1. CASE UNCHANGED vars
    BY <2>1 DEF vars, Lock!vars, signer, hand
  <2>2. ASSUME NEW p \in Procs, Step(p)
        PROVE  Lock!Next \/ UNCHANGED Lock!vars
    <3>1. ~crossed
      BY <2>2 DEF Step, hist, StartEnter, StartUnlock, Mkdir, CreateMarker, WriteMarker,
         MarkerFails, UndoMarker, UndoMkdir, Read, Judge, Audit, Recheck, Unlink, Rmdir,
         StartRelease, DropMarker, VerifyEmpty, RemoveOwn, ReleaseGivesUp, Crash
    <3> QED BY <2>2, <3>1, StepRefines DEF IInv
  <2> QED BY <2>1, <2>2 DEF Next
<1> QED BY <1>1, InitRefines, Invariance, PTL DEF Spec, ImplementsCrashLock
=============================================================================
