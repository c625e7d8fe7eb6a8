------------------------------- MODULE RunLock -------------------------------
(***************************************************************************)
(* The nonce-marker directory lock of src/simcairn/journal.py: RunLock and *)
(* clear_run_lock, as a protocol of file-system calls between processes    *)
(* that may die between any two of them.                                   *)
(*                                                                         *)
(* The lock is the directory run.lock with one marker file owner-<nonce>   *)
(* in it.  mkdir and unlink are the only atomic arbiters: a process that   *)
(* made the directory, or that unlinked its marker, is the only one to     *)
(* touch the directory until it has written a marker or removed it.        *)
(***************************************************************************)
EXTENDS Integers, FiniteSets

CONSTANTS
    Lockers,    \* process incarnations that take the lock, and those that
    Operators,  \* run `simcairn unlock`; a restarted process is another one
    Host,       \* the host each process runs on
    Identified, \* the processes whose start marker the OS could report
    MaxTries,   \* attempts of one RunLock.__enter__ (3 in the code)
    MaxCalls    \* bound: the calls one process makes

ASSUME TriesAssumption == MaxTries \in Nat \ {0}
ASSUME CallsAssumption == MaxCalls \in Nat

Procs == Lockers \cup Operators

VARIABLES
    kind,    \* what run.lock is: "none", "dir", or a pre-directory "file"
    content, \* the owner markers in it
    pc, op, tries, seen, gen,   \* per process; gen counts its calls
    audited, \* owners named in unlock-audit.jsonl
    cleared, \* history: markers removed by clear_run_lock
    crossed  \* history: a forced unlock hit an acquisition being rolled back

fs   == <<kind, content>>
hist == <<audited, cleared, crossed>>
vars == <<kind, content, pc, op, tries, seen, gen, audited, cleared, crossed>>

Kinds == {"none", "dir", "file"}
Ops   == {"enter", "unlock", "force"}

(* Owner markers.  gen stands for the nonce; full says that the JSON was  *)
(* written, a marker that is not full is an empty file.  Generation 0 is  *)
(* the owner in a lock file left by a release without directory locks.    *)
Marks  == [by : Procs, gen : Nat, full : BOOLEAN]
NoMark == [by |-> "nobody", gen |-> 0, full |-> FALSE]
Own(p, full) == [by |-> p, gen |-> gen[p], full |-> full]

Labels == {"idle", "mkdir", "made", "marked", "held", "undo", "abort",
           "read", "judge", "audit", "recheck", "unlink", "rmdir",
           "drop", "verify", "rmown", "dead"}

(* Mutant: a PID of another host is looked up on this one *)
OwnerStatesAnyHost(p, m) ==
    IF ~m.full \/ m.by \notin Identified THEN {"unknown"}
    ELSE IF pc[m.by] = "dead" \/ Host[m.by] # Host[p] THEN {"stale"} ELSE {"alive"}

(* journal._owner_state.  The process probe may fail, but it never takes  *)
(* a live process for a dead one: a reused PID has another start marker.  *)
OwnerStates(p, m) ==
    IF ~m.full THEN {"unknown"}
    ELSE IF Host[m.by] # Host[p] THEN {"foreign"}
    ELSE IF m.by \notin Identified THEN {"unknown"}
    ELSE IF pc[m.by] = "dead" THEN {"stale", "unknown"} ELSE {"alive", "unknown"}
-----------------------------------------------------------------------------
Init ==
    /\ \/ kind = "none" /\ content = {} /\ pc = [p \in Procs |-> "idle"]
       \/ \E o \in Procs :
             /\ kind = "file"
             /\ content = {[by |-> o, gen |-> 0, full |-> TRUE]}
             /\ pc = [p \in Procs |-> IF p = o THEN "dead" ELSE "idle"]
    /\ op = [p \in Procs |-> "enter"]
    /\ tries = [p \in Procs |-> 0]
    /\ seen = [p \in Procs |-> NoMark]
    /\ gen = [p \in Procs |-> 0]
    /\ audited = {} /\ cleared = {} /\ crossed = FALSE

Goto(p, l) == /\ pc' = [pc EXCEPT ![p] = l]
              /\ UNCHANGED <<op, tries, seen, gen>>

(* The local variables of a call go when it returns, raises or dies.      *)
Forget(p, l) == /\ pc' = [pc EXCEPT ![p] = l]
                /\ op' = [op EXCEPT ![p] = "enter"]
                /\ tries' = [tries EXCEPT ![p] = 0]
                /\ seen' = [seen EXCEPT ![p] = NoMark]
                /\ UNCHANGED gen

Stop(p) == Forget(p, "idle")

(* Mutant: one attempt too many *)
RetryOnceMore(p) == IF tries[p] < MaxTries
                    THEN /\ pc' = [pc EXCEPT ![p] = "mkdir"]
                         /\ tries' = [tries EXCEPT ![p] = @ + 1]
                         /\ seen' = [seen EXCEPT ![p] = NoMark]
                         /\ UNCHANGED <<op, gen>>
                    ELSE Stop(p)

(* `continue` in the attempt loop, which gives up after MaxTries. *)
Retry(p) == IF tries[p] + 1 < MaxTries
            THEN /\ pc' = [pc EXCEPT ![p] = "mkdir"]
                 /\ tries' = [tries EXCEPT ![p] = @ + 1]
                 /\ seen' = [seen EXCEPT ![p] = NoMark]
                 /\ UNCHANGED <<op, gen>>
            ELSE Stop(p)

RetryIf(p, again) == IF again THEN Retry(p) ELSE Stop(p)
-----------------------------------------------------------------------------
(* RunLock.__enter__: a fresh nonce, then up to MaxTries attempts. *)
StartEnter(p) ==
    /\ p \in Lockers /\ pc[p] = "idle" /\ gen[p] < MaxCalls
    /\ pc' = [pc EXCEPT ![p] = "mkdir"]
    /\ gen' = [gen EXCEPT ![p] = @ + 1]
    /\ UNCHANGED <<fs, op, tries, seen, hist>>

(* clear_run_lock, with and without --force. *)
StartUnlock(p) ==
    /\ p \in Operators /\ pc[p] = "idle" /\ gen[p] < MaxCalls
    /\ \E o \in {"unlock", "force"} : op' = [op EXCEPT ![p] = o]
    /\ pc' = [pc EXCEPT ![p] = "read"]
    /\ gen' = [gen EXCEPT ![p] = @ + 1]
    /\ UNCHANGED <<fs, tries, seen, hist>>

(* Mutant: mkdir(exist_ok=True) *)
MkdirExistOk(p) ==
    /\ pc[p] = "mkdir"
    /\ IF kind # "file"
       THEN kind' = "dir" /\ UNCHANGED content /\ Goto(p, "made")
       ELSE UNCHANGED fs /\ Goto(p, "read")
    /\ UNCHANGED hist

Mkdir(p) ==
    /\ pc[p] = "mkdir"
    /\ IF kind = "none"
       THEN kind' = "dir" /\ UNCHANGED content /\ Goto(p, "made")
       ELSE UNCHANGED fs /\ Goto(p, "read")
    /\ UNCHANGED hist

(* marker.open("xb") creates an empty file in whatever directory is there *)
CreateMarker(p) ==
    /\ pc[p] = "made"
    /\ IF kind = "dir"
       THEN content' = content \cup {Own(p, FALSE)} /\ Goto(p, "marked")
       ELSE UNCHANGED content /\ Goto(p, "undo")
    /\ UNCHANGED <<kind, hist>>

WriteMarker(p) ==
    /\ pc[p] = "marked"
    /\ content' = (content \ {Own(p, FALSE)}) \cup {Own(p, TRUE)}
    /\ Forget(p, "held")
    /\ UNCHANGED <<kind, hist>>

(* An OSError of open, write or fsync; fsync fails after the bytes are out *)
MarkerFails(p) ==
    /\ \/ pc[p] = "made" /\ UNCHANGED content
       \/ pc[p] = "marked" /\ UNCHANGED content
       \/ pc[p] = "marked" /\ content' = (content \ {Own(p, FALSE)}) \cup {Own(p, TRUE)}
    /\ Goto(p, "undo")
    /\ UNCHANGED <<kind, hist>>

(* marker.unlink(missing_ok=True), then rmdir with its errors suppressed *)
UndoMarker(p) ==
    /\ pc[p] = "undo"
    /\ content' = content \ {Own(p, FALSE), Own(p, TRUE)}
    /\ Goto(p, "abort")
    /\ UNCHANGED <<kind, hist>>

UndoMkdir(p) ==
    /\ pc[p] = "abort"
    /\ kind' = IF kind = "dir" /\ content = {} THEN "none" ELSE kind
    /\ Retry(p)
    /\ UNCHANGED <<content, hist>>
-----------------------------------------------------------------------------
(* _directory_owner or _read_owner: anything but exactly one marker is an *)
(* unknown owner, which neither a contender nor an operator may remove.   *)
Read(p) ==
    /\ pc[p] = "read"
    /\ \/ \E m \in content :
             /\ content = {m}
             /\ seen' = [seen EXCEPT ![p] = m]
             /\ pc' = [pc EXCEPT ![p] = "judge"]
             /\ UNCHANGED <<op, tries, gen>>
       \/ Cardinality(content) # 1 /\ Stop(p)
    /\ UNCHANGED <<fs, hist>>

(* _owner_state probes the owner that was read a moment ago.  An operator *)
(* audits before the second reading of a marker, after that of a file.     *)
FileLock(m) == m.gen = 0

(* Mutant: an operator's audit record is not written *)
JudgeUnaudited(p) ==
    /\ pc[p] = "judge"
    /\ \E state \in OwnerStates(p, seen[p]) :
          IF state = "stale" \/ op[p] = "force" THEN Goto(p, "recheck") ELSE Stop(p)
    /\ UNCHANGED <<fs, hist>>

(* Mutant: an owner that cannot be identified passes for a stale one *)
JudgeUncertain(p) ==
    /\ pc[p] = "judge"
    /\ \E state \in OwnerStates(p, seen[p]) :
          IF state # "alive" \/ op[p] = "force"
          THEN Goto(p, IF op[p] = "enter" \/ FileLock(seen[p]) THEN "recheck" ELSE "audit")
          ELSE Stop(p)
    /\ UNCHANGED <<fs, hist>>

Judge(p) ==
    /\ pc[p] = "judge"
    /\ \E state \in OwnerStates(p, seen[p]) :
          IF state = "stale" \/ op[p] = "force"
          THEN Goto(p, IF op[p] = "enter" \/ FileLock(seen[p]) THEN "recheck" ELSE "audit")
          ELSE Stop(p)
    /\ UNCHANGED <<fs, hist>>

(* The fsynced line of unlock-audit.jsonl *)
Audit(p) ==
    /\ pc[p] = "audit"
    /\ audited' = audited \cup {seen[p]}
    /\ Goto(p, IF FileLock(seen[p]) THEN "unlink" ELSE "recheck")
    /\ UNCHANGED <<fs, cleared, crossed>>

(* The bytes are read again, and must not be empty *)
Recheck(p) ==
    /\ pc[p] = "recheck"
    /\ IF seen[p] \in content /\ seen[p].full
       THEN Goto(p, IF op[p] # "enter" /\ FileLock(seen[p]) THEN "audit" ELSE "unlink")
       ELSE RetryIf(p, op[p] = "enter" /\ (FileLock(seen[p]) => kind # "dir"))
    /\ UNCHANGED <<fs, hist>>

(* A marker leaves the empty directory behind; a lock file is gone at once *)
Unlink(p) ==
    /\ pc[p] = "unlink"
    /\ IF seen[p] \in content
       THEN /\ content' = content \ {seen[p]}
            /\ cleared' = IF op[p] = "enter" THEN cleared ELSE cleared \cup {seen[p]}
            /\ crossed' = (crossed \/ pc[seen[p].by] = "undo")
            /\ IF kind = "file"
               THEN kind' = "none" /\ RetryIf(p, op[p] = "enter")
               ELSE UNCHANGED kind /\ Goto(p, "rmdir")
       ELSE /\ UNCHANGED <<fs, cleared, crossed>>
            /\ RetryIf(p, op[p] = "enter" /\ FileLock(seen[p]) /\ kind = "none")
    /\ UNCHANGED audited

Rmdir(p) ==
    /\ pc[p] = "rmdir"
    /\ IF kind = "dir" /\ content = {}
       THEN kind' = "none" /\ RetryIf(p, op[p] = "enter")
       ELSE UNCHANGED kind /\ Stop(p)
    /\ UNCHANGED <<content, hist>>
-----------------------------------------------------------------------------
(* RunLock.__exit__.  _rmdir_owned_empty_lock also compares the inode of  *)
(* the directory with the one seen first; that test can only refuse a     *)
(* removal, and exclusion is shown to hold without it.                    *)
StartRelease(p) ==
    /\ pc[p] = "held"
    /\ Goto(p, "drop")
    /\ UNCHANGED <<fs, hist>>

(* Mutant: the release goes on although its marker is gone *)
DropMarkerOrNot(p) ==
    /\ pc[p] = "drop"
    /\ content' = content \ {Own(p, TRUE)} /\ Goto(p, "verify")
    /\ UNCHANGED <<kind, hist>>

(* _unlink_owned_marker: false, and nothing more to do, when it is gone *)
DropMarker(p) ==
    /\ pc[p] = "drop"
    /\ IF Own(p, TRUE) \in content
       THEN content' = content \ {Own(p, TRUE)} /\ Goto(p, "verify")
       ELSE UNCHANGED content /\ Stop(p)
    /\ UNCHANGED <<kind, hist>>

VerifyEmpty(p) ==
    /\ pc[p] = "verify"
    /\ IF kind = "dir" /\ content = {} THEN Goto(p, "rmown") ELSE Stop(p)
    /\ UNCHANGED <<fs, hist>>

RemoveOwn(p) ==
    /\ pc[p] = "rmown"
    /\ kind' = IF kind = "dir" /\ content = {} THEN "none" ELSE kind
    /\ Stop(p)
    /\ UNCHANGED <<content, hist>>

(* The marker or the directory stays busy for two seconds: JournalError *)
ReleaseGivesUp(p) ==
    /\ pc[p] \in {"drop", "verify", "rmown"}
    /\ Stop(p)
    /\ UNCHANGED <<fs, hist>>

Crash(p) ==
    /\ pc[p] # "dead"
    /\ Forget(p, "dead")
    /\ UNCHANGED <<fs, hist>>

Step(p) == \/ StartEnter(p) \/ StartUnlock(p)
           \/ Mkdir(p) \/ CreateMarker(p) \/ WriteMarker(p)
           \/ MarkerFails(p) \/ UndoMarker(p) \/ UndoMkdir(p)
           \/ Read(p) \/ Judge(p) \/ Audit(p)
           \/ Recheck(p) \/ Unlink(p) \/ Rmdir(p)
           \/ StartRelease(p) \/ DropMarker(p) \/ VerifyEmpty(p) \/ RemoveOwn(p)
           \/ ReleaseGivesUp(p) \/ Crash(p)

Next == \E p \in Procs : Step(p)

Spec == Init /\ [][Next]_vars
-----------------------------------------------------------------------------
(* Every variable has its type; attempts stay below MaxTries.            *)
TypeOK ==
    /\ kind \in Kinds
    /\ content \subseteq Marks
    /\ pc \in [Procs -> Labels]
    /\ op \in [Procs -> Ops]
    /\ tries \in [Procs -> 0 .. MaxTries - 1]
    /\ seen \in [Procs -> Marks \cup {NoMark}]
    /\ gen \in [Procs -> 0 .. MaxCalls]
    /\ audited \subseteq Marks
    /\ cleared \subseteq Marks
    /\ crossed \in BOOLEAN

Lost(p) == Own(p, TRUE) \in cleared

(* The process whose next steps decide what becomes of the directory.     *)
Custodian(p) ==
    \/ pc[p] \in {"made", "marked", "undo", "abort", "rmdir", "verify", "rmown"}
    \/ pc[p] \in {"held", "drop"} /\ Own(p, TRUE) \in content

(* RunLock is single-writer: two processes are inside `with RunLock` at   *)
(* once only when an operator cleared the lock of one of them by force.   *)
Exclusion ==
    ~crossed => \A p, q \in Procs :
        p # q /\ pc[p] = "held" /\ pc[q] = "held" => Lost(p) \/ Lost(q)

(* Never two processes that would both write to or remove the directory:  *)
(* a contender breaking a stale lock, a holder leaving, an acquisition    *)
(* half done and an operator clearing the lock exclude one another.  The  *)
(* one exception is a forced unlock of an acquisition whose fsync failed. *)
SoleCustodian ==
    ~crossed => \A p, q \in Procs : Custodian(p) /\ Custodian(q) => p = q

(* "append an fsync-backed audit record before removing the lock": also    *)
(* when the operator's process dies between the two.                       *)
AuditFirst == cleared \subseteq audited

(* A complete owner marker leaves the directory only because its owner is *)
(* dead, by its owner's own hand, or after an operator's audit record.    *)
(* What a contender read before does not matter if it changed since.      *)
RemovalJustified ==
    [][\A m \in content \ content' :
          m.full => \/ pc[m.by] = "dead"
                    \/ pc[m.by] \in {"drop", "undo"} /\ pc'[m.by] # pc[m.by]
                    \/ m \in audited]_vars
-----------------------------------------------------------------------------
(* What CrashLock shows of the directory, the marker and the processes.    *)
signer == {m.by : m \in {n \in content : n.full}}
hand   == {p \in Procs : /\ signer = {}
                         /\ pc[p] \in {"made", "marked", "undo", "abort",
                                       "rmdir", "verify", "rmown"}}

Lock == INSTANCE CrashLock
            WITH present <- kind # "none", signer <- signer, hand <- hand,
                 dead <- {p \in Procs : pc[p] = "dead"}

(* The file-system protocol implements CrashLock: its calls look to the   *)
(* others like Claim, Sign, Erase and Discard in that order, by one        *)
(* process at a time (as long as no forced unlock hit a rollback).         *)
ImplementsCrashLock == Lock!Init /\ [][crossed' \/ Lock!Next]_(Lock!vars)
=============================================================================
