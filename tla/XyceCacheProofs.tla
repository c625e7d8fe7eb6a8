--------------------------- MODULE XyceCacheProofs ---------------------------
(***************************************************************************)
(* Proofs about XyceCache for any number of calls, executions and changes  *)
(* by others: one inductive invariant, which says what the label of a call *)
(* implies about its claim, its directory and what it has executed.        *)
(***************************************************************************)
EXTENDS XyceCache, TLAPS

Temporary == (Working \ {"second", "temp", "release"}) \cup {"dead"}
Counting  == {"check", "write", "launch", "running", "after", "judge", "strip"}
Early     == {"idle", "open", "identify", "probe", "look", "acquire", "refused", "second", "temp"}
Bound     == {"check", "write", "launch", "judge", "strip", "report", "manifest", "publish"}
Executed  == {"running", "after", "judge", "strip", "report", "manifest", "publish"}
Answered  == {"cleanup", "release", "ended", "dead"}

(* What a call has done so far, by its label.  While its child runs and    *)
(* until the command is compared, the command of the key may be another;   *)
(* if it comes back to be the one of the key, the call is in doubt.        *)
Work(p) ==
    /\ at[p] \in Working => claim[key[p]] = p
    /\ temp[p] => at[p] \in Temporary
    /\ at[p] \in Counting => left[p] >= 1
    /\ at[p] \in Early => used[p] = {}
    /\ at[p] \in Bound => used[p] \subseteq {key[p].tool} \/ p \in doubt
    /\ at[p] \in {"running", "after"} /\ key[p].tool = command =>
          used[p] \subseteq {key[p].tool} \/ p \in doubt
    /\ at[p] \in Executed => used[p] # {}

(* What it knows of the entry under its key *)
Known(p) ==
    /\ at[p] \in {"verify", "output", "reread", "deliver"} => entry[key[p]] # None
    /\ at[p] \in Working \ {"second"} /\ entry[key[p]] # None
          => entry[key[p]].report.by \in {p, "outside"}
    /\ answer[p] # None => /\ at[p] \in Answered
                           /\ entry[key[p]] # None /\ answer[p] = entry[key[p]].report

Claims == \A k \in Keys, p \in Procs :
            claim[k] = p => k = key[p] /\ at[p] \in Working \cup {"dead"}

IInv == /\ TypeOK /\ Claims /\ EvidenceBound
        /\ \A p \in Procs : Work(p) /\ Known(p)

(* Every step of a call keeps the types. *)
LEMMA StepTypes ==
    ASSUME NEW p \in Procs, IInv, Step(p), UNCHANGED disk
    PROVE  TypeOK'
<1>s. Step(p) /\ UNCHANGED disk /\ TypeOK /\ Work(p) /\ Known(p)
  BY DEF IInv
<1>1. CASE Plan(p)
  BY <1>1, <1>s DEF Plan, Goto, TypeOK, disk, Labels, Working, Keys
<1>2. CASE OpenCache(p)
  BY <1>2, <1>s DEF OpenCache, Move, Goto, Quiet, TypeOK, disk, Labels, Working
<1>3. CASE Identify(p)
  <2>1. [key[p] EXCEPT !.tool = command] \in Keys
    BY <1>s DEF TypeOK, Keys
  <2>2. key' \in [Procs -> Keys]
    BY <1>3, <1>s, <2>1 DEF Identify, TypeOK
  <2> QED
    BY <1>3, <1>s, <2>2 DEF Identify, Goto, TypeOK, disk, Labels, Working
<1>4. CASE Probe(p)
  BY <1>4, <1>s DEF Probe, Move, Goto, Quiet, TypeOK, disk, Labels, Working
<1>5. CASE Look(p)
  BY <1>5, <1>s DEF Look, Move, Goto, Quiet, TypeOK, disk, Labels, Working
<1>6. CASE LookAgain(p)
  BY <1>6, <1>s DEF LookAgain, Move, Goto, Quiet, TypeOK, disk, Labels, Working
<1>7. CASE Acquire(p)
  BY <1>7, <1>s DEF Acquire, SetClaim, Goto, TypeOK, disk, Labels, Working
<1>8. CASE Refused(p)
  BY <1>8, <1>s DEF Refused, Move, Goto, Quiet, TypeOK, disk, Labels, Working
<1>9. CASE LookRefused(p)
  BY <1>9, <1>s DEF LookRefused, Move, Goto, Quiet, TypeOK, disk, Labels, Working
<1>10. CASE SecondLook(p)
  BY <1>10, <1>s DEF SecondLook, SetClaim, Move, Goto, Quiet, TypeOK, disk, Labels, Working
<1>11. CASE VerifyEntry(p)
  BY <1>11, <1>s DEF VerifyEntry, Move, Goto, Quiet, TypeOK, disk, Labels, Working
<1>12. CASE Deliver(p, "output", "ended")
  BY <1>12, <1>s, CacheAssumption DEF Deliver, Goto, TypeOK, disk, Labels, Working, Known, Entries
<1>13. CASE MakeTemp(p)
  BY <1>13, <1>s, CacheAssumption DEF MakeTemp, Goto, TypeOK, disk, Labels, Working
<1>14. CASE MakeTempFails(p)
  BY <1>14, <1>s DEF MakeTempFails, SetClaim, Goto, TypeOK, disk, Labels, Working
<1>15. CASE Check(p)
  BY <1>15, <1>s DEF Check, Fail, Move, Goto, Quiet, TypeOK, disk, Labels, Working
<1>16. CASE Materialize(p)
  BY <1>16, <1>s DEF Materialize, Fail, Move, Goto, Quiet, TypeOK, disk, Labels, Working
<1>17. CASE Launch(p)
  BY <1>17, <1>s DEF Launch, Goto, TypeOK, disk, Labels, Working, Versions
<1>18. CASE Returned(p)
  BY <1>18, <1>s DEF Returned, Fail, Move, Goto, Quiet, TypeOK, disk, Labels, Working
<1>19. CASE Compare(p)
  BY <1>19, <1>s DEF Compare, Fail, Move, Goto, Quiet, TypeOK, disk, Labels, Working
<1>20. CASE Judge(p)
  BY <1>20, <1>s DEF Judge, Fail, Move, Goto, Quiet, TypeOK, disk, Labels, Working
<1>21. CASE Strip(p)
  <2>1. at[p] = "strip"
    BY <1>21 DEF Strip, Fail, Move
  <2>2. left[p] - 1 \in 0 .. Executions
    BY <1>s, <2>1, CacheAssumption DEF Work, Counting, TypeOK
  <2>3. left' \in [Procs -> 0 .. Executions]
    BY <1>21, <1>s, <2>2 DEF Strip, Fail, Move, Quiet, TypeOK
  <2> QED
    BY <1>21, <1>s, <2>3 DEF Strip, Fail, Move, Goto, Quiet, TypeOK, disk, Labels, Working
<1>22. CASE Report(p)
  BY <1>22, <1>s DEF Report, Fail, Move, Goto, Quiet, TypeOK, disk, Labels, Working
<1>23. CASE Manifest(p)
  BY <1>23, <1>s DEF Manifest, Fail, Move, Goto, Quiet, TypeOK, disk, Labels, Working
<1>24. CASE Publish(p)
  BY <1>24, <1>s DEF Publish, Goto, TypeOK, disk, Labels, Working, Entries, Reports, Mine
<1>25. CASE PublishExists(p)
  BY <1>25, <1>s DEF PublishExists, Move, Goto, Quiet, TypeOK, disk, Labels, Working
<1>26. CASE PublishFails(p)
  BY <1>26, <1>s DEF PublishFails, Fail, Move, Goto, Quiet, TypeOK, disk, Labels, Working
<1>27. CASE Reread(p)
  BY <1>27, <1>s DEF Reread, Fail, Move, Goto, Quiet, TypeOK, disk, Labels, Working
<1>28. CASE Deliver(p, "deliver", "cleanup")
  BY <1>28, <1>s, CacheAssumption DEF Deliver, Goto, TypeOK, disk, Labels, Working, Known, Entries
<1>29. CASE Cleanup(p)
  BY <1>29, <1>s DEF Cleanup, Goto, TypeOK, disk, Labels, Working
<1>30. CASE Release(p)
  BY <1>30, <1>s DEF Release, SetClaim, Goto, TypeOK, disk, Labels, Working
<1>31. CASE Crash(p)
  BY <1>31, <1>s DEF Crash, SetClaim, Goto, TypeOK, disk, Labels, Working
<1> QED  BY <1>1, <1>2, <1>3, <1>4, <1>5, <1>6, <1>7, <1>8, <1>9, <1>10,
    <1>11, <1>12, <1>13, <1>14, <1>15, <1>16, <1>17, <1>18, <1>19, <1>20, <1>21,
    <1>22, <1>23, <1>24, <1>25, <1>26, <1>27, <1>28, <1>29, <1>30, <1>31, <1>s DEF Step

(* A step of a call keeps what its own label says of its work. *)
LEMMA StepWork ==
    ASSUME NEW p \in Procs, IInv, Step(p), UNCHANGED disk
    PROVE  Work(p)'
<1>s. Step(p) /\ UNCHANGED disk /\ TypeOK /\ Work(p)
  BY DEF IInv
<1>1. CASE Plan(p)
  BY <1>1, <1>s, CacheAssumption DEF Plan, Goto, TypeOK, disk, Work, Keys, Versions, Working, Temporary, Counting, Early, Bound, Executed
<1>2. CASE OpenCache(p)
  BY <1>2, <1>s, CacheAssumption DEF OpenCache, Move, Goto, Quiet, TypeOK, disk, Work, Keys, Versions, Working, Temporary, Counting, Early, Bound, Executed
<1>3. CASE Identify(p)
  BY <1>3, <1>s, CacheAssumption DEF Identify, Goto, TypeOK, disk, Work, Keys, Versions, Working, Temporary, Counting, Early, Bound, Executed
<1>4. CASE Probe(p)
  BY <1>4, <1>s, CacheAssumption DEF Probe, Move, Goto, Quiet, TypeOK, disk, Work, Keys, Versions, Working, Temporary, Counting, Early, Bound, Executed
<1>5. CASE Look(p)
  BY <1>5, <1>s, CacheAssumption DEF Look, Present, Move, Goto, Quiet, TypeOK, disk, Work, Keys, Versions, Working, Temporary, Counting, Early, Bound, Executed
<1>6. CASE LookAgain(p)
  BY <1>6, <1>s, CacheAssumption DEF LookAgain, Present, Move, Goto, Quiet, TypeOK, disk, Work, Keys, Versions, Working, Temporary, Counting, Early, Bound, Executed
<1>7. CASE Acquire(p)
  BY <1>7, <1>s, CacheAssumption DEF Acquire, SetClaim, Goto, TypeOK, disk, Work, Keys, Versions, Working, Temporary, Counting, Early, Bound, Executed
<1>8. CASE Refused(p)
  BY <1>8, <1>s, CacheAssumption DEF Refused, Move, Goto, Quiet, TypeOK, disk, Work, Keys, Versions, Working, Temporary, Counting, Early, Bound, Executed
<1>9. CASE LookRefused(p)
  BY <1>9, <1>s, CacheAssumption DEF LookRefused, Present, Move, Goto, Quiet, TypeOK, disk, Work, Keys, Versions, Working, Temporary, Counting, Early, Bound, Executed
<1>10. CASE SecondLook(p)
  BY <1>10, <1>s, CacheAssumption DEF SecondLook, Present, SetClaim, Move, Goto, Quiet, TypeOK, disk, Work, Keys, Versions, Working, Temporary, Counting, Early, Bound, Executed
<1>11. CASE VerifyEntry(p)
  BY <1>11, <1>s, CacheAssumption DEF VerifyEntry, Move, Goto, Quiet, TypeOK, disk, Work, Keys, Versions, Working, Temporary, Counting, Early, Bound, Executed
<1>12. CASE Deliver(p, "output", "ended")
  BY <1>12, <1>s, CacheAssumption DEF Deliver, Goto, TypeOK, disk, Work, Keys, Versions, Working, Temporary, Counting, Early, Bound, Executed
<1>13. CASE MakeTemp(p)
  BY <1>13, <1>s, CacheAssumption DEF MakeTemp, Goto, TypeOK, disk, Work, Keys, Versions, Working, Temporary, Counting, Early, Bound, Executed
<1>14. CASE MakeTempFails(p)
  BY <1>14, <1>s, CacheAssumption DEF MakeTempFails, SetClaim, Goto, TypeOK, disk, Work, Keys, Versions, Working, Temporary, Counting, Early, Bound, Executed
<1>15. CASE Check(p)
  BY <1>15, <1>s, CacheAssumption DEF Check, Fail, Move, Goto, Quiet, TypeOK, disk, Work, Keys, Versions, Working, Temporary, Counting, Early, Bound, Executed
<1>16. CASE Materialize(p)
  BY <1>16, <1>s, CacheAssumption DEF Materialize, Fail, Move, Goto, Quiet, TypeOK, disk, Work, Keys, Versions, Working, Temporary, Counting, Early, Bound, Executed
<1>17. CASE Launch(p)
  BY <1>17, <1>s, CacheAssumption DEF Launch, Goto, TypeOK, disk, Work, Keys, Versions, Working, Temporary, Counting, Early, Bound, Executed
<1>18. CASE Returned(p)
  BY <1>18, <1>s, CacheAssumption DEF Returned, Fail, Move, Goto, Quiet, TypeOK, disk, Work, Keys, Versions, Working, Temporary, Counting, Early, Bound, Executed
<1>19. CASE Compare(p)
  BY <1>19, <1>s, CacheAssumption DEF Compare, CommandUnchanged, Fail, Move, Goto, Quiet, TypeOK, disk, Work, Keys, Versions, Working, Temporary, Counting, Early, Bound, Executed
<1>20. CASE Judge(p)
  BY <1>20, <1>s, CacheAssumption DEF Judge, Fail, Move, Goto, Quiet, TypeOK, disk, Work, Keys, Versions, Working, Temporary, Counting, Early, Bound, Executed
<1>21. CASE Strip(p)
  BY <1>21, <1>s, CacheAssumption DEF Strip, Fail, Move, Goto, Quiet, TypeOK, disk, Work, Keys, Versions, Working, Temporary, Counting, Early, Bound, Executed
<1>22. CASE Report(p)
  BY <1>22, <1>s, CacheAssumption DEF Report, Fail, Move, Goto, Quiet, TypeOK, disk, Work, Keys, Versions, Working, Temporary, Counting, Early, Bound, Executed
<1>23. CASE Manifest(p)
  BY <1>23, <1>s, CacheAssumption DEF Manifest, Fail, Move, Goto, Quiet, TypeOK, disk, Work, Keys, Versions, Working, Temporary, Counting, Early, Bound, Executed
<1>24. CASE Publish(p)
  BY <1>24, <1>s, CacheAssumption DEF Publish, Present, Mine, Goto, TypeOK, disk, Work, Keys, Versions, Working, Temporary, Counting, Early, Bound, Executed
<1>25. CASE PublishExists(p)
  BY <1>25, <1>s, CacheAssumption DEF PublishExists, Present, Move, Goto, Quiet, TypeOK, disk, Work, Keys, Versions, Working, Temporary, Counting, Early, Bound, Executed
<1>26. CASE PublishFails(p)
  BY <1>26, <1>s, CacheAssumption DEF PublishFails, Fail, Move, Goto, Quiet, TypeOK, disk, Work, Keys, Versions, Working, Temporary, Counting, Early, Bound, Executed
<1>27. CASE Reread(p)
  BY <1>27, <1>s, CacheAssumption DEF Reread, Fail, Move, Goto, Quiet, TypeOK, disk, Work, Keys, Versions, Working, Temporary, Counting, Early, Bound, Executed
<1>28. CASE Deliver(p, "deliver", "cleanup")
  BY <1>28, <1>s, CacheAssumption DEF Deliver, Goto, TypeOK, disk, Work, Keys, Versions, Working, Temporary, Counting, Early, Bound, Executed
<1>29. CASE Cleanup(p)
  BY <1>29, <1>s, CacheAssumption DEF Cleanup, Goto, TypeOK, disk, Work, Keys, Versions, Working, Temporary, Counting, Early, Bound, Executed
<1>30. CASE Release(p)
  BY <1>30, <1>s, CacheAssumption DEF Release, SetClaim, Goto, TypeOK, disk, Work, Keys, Versions, Working, Temporary, Counting, Early, Bound, Executed
<1>31. CASE Crash(p)
  BY <1>31, <1>s, CacheAssumption DEF Crash, SetClaim, Goto, TypeOK, disk, Work, Keys, Versions, Working, Temporary, Counting, Early, Bound, Executed
<1> QED  BY <1>1, <1>2, <1>3, <1>4, <1>5, <1>6, <1>7, <1>8, <1>9, <1>10,
    <1>11, <1>12, <1>13, <1>14, <1>15, <1>16, <1>17, <1>18, <1>19, <1>20, <1>21,
    <1>22, <1>23, <1>24, <1>25, <1>26, <1>27, <1>28, <1>29, <1>30, <1>31, <1>s DEF Step

(* A step of a call keeps what its own label says of the entry. *)
LEMMA StepKnown ==
    ASSUME NEW p \in Procs, IInv, Step(p), UNCHANGED disk
    PROVE  Known(p)'
<1>s. Step(p) /\ TypeOK /\ Known(p)
  BY DEF IInv
<1>1. CASE Plan(p)
  BY <1>1, <1>s, CacheAssumption DEF Plan, Goto, TypeOK, Known, Keys, Entries, Reports, Working, Answered, Labels
<1>2. CASE OpenCache(p)
  BY <1>2, <1>s, CacheAssumption DEF OpenCache, Move, Goto, Quiet, TypeOK, Known, Keys, Entries, Reports, Working, Answered, Labels
<1>3. CASE Identify(p)
  BY <1>3, <1>s, CacheAssumption DEF Identify, Goto, TypeOK, Known, Keys, Entries, Reports, Working, Answered, Labels
<1>4. CASE Probe(p)
  BY <1>4, <1>s, CacheAssumption DEF Probe, Move, Goto, Quiet, TypeOK, Known, Keys, Entries, Reports, Working, Answered, Labels
<1>5. CASE Look(p)
  BY <1>5, <1>s, CacheAssumption DEF Look, Present, Move, Goto, Quiet, TypeOK, Known, Keys, Entries, Reports, Working, Answered, Labels
<1>6. CASE LookAgain(p)
  BY <1>6, <1>s, CacheAssumption DEF LookAgain, Present, Move, Goto, Quiet, TypeOK, Known, Keys, Entries, Reports, Working, Answered, Labels
<1>7. CASE Acquire(p)
  BY <1>7, <1>s, CacheAssumption DEF Acquire, SetClaim, Goto, TypeOK, Known, Keys, Entries, Reports, Working, Answered, Labels
<1>8. CASE Refused(p)
  BY <1>8, <1>s, CacheAssumption DEF Refused, Move, Goto, Quiet, TypeOK, Known, Keys, Entries, Reports, Working, Answered, Labels
<1>9. CASE LookRefused(p)
  BY <1>9, <1>s, CacheAssumption DEF LookRefused, Present, Move, Goto, Quiet, TypeOK, Known, Keys, Entries, Reports, Working, Answered, Labels
<1>10. CASE SecondLook(p)
  BY <1>10, <1>s, CacheAssumption DEF SecondLook, Present, SetClaim, Move, Goto, Quiet, TypeOK, Known, Keys, Entries, Reports, Working, Answered, Labels
<1>11. CASE VerifyEntry(p)
  BY <1>11, <1>s, CacheAssumption DEF VerifyEntry, Move, Goto, Quiet, TypeOK, Known, Keys, Entries, Reports, Working, Answered, Labels
<1>12. CASE Deliver(p, "output", "ended")
  BY <1>12, <1>s, CacheAssumption DEF Deliver, Goto, TypeOK, Known, Keys, Entries, Reports, Working, Answered, Labels
<1>13. CASE MakeTemp(p)
  BY <1>13, <1>s, CacheAssumption DEF MakeTemp, Goto, TypeOK, Known, Keys, Entries, Reports, Working, Answered, Labels
<1>14. CASE MakeTempFails(p)
  BY <1>14, <1>s, CacheAssumption DEF MakeTempFails, SetClaim, Goto, TypeOK, Known, Keys, Entries, Reports, Working, Answered, Labels
<1>15. CASE Check(p)
  BY <1>15, <1>s, CacheAssumption DEF Check, Fail, Move, Goto, Quiet, TypeOK, Known, Keys, Entries, Reports, Working, Answered, Labels
<1>16. CASE Materialize(p)
  BY <1>16, <1>s, CacheAssumption DEF Materialize, Fail, Move, Goto, Quiet, TypeOK, Known, Keys, Entries, Reports, Working, Answered, Labels
<1>17. CASE Launch(p)
  BY <1>17, <1>s, CacheAssumption DEF Launch, Goto, TypeOK, Known, Keys, Entries, Reports, Working, Answered, Labels
<1>18. CASE Returned(p)
  BY <1>18, <1>s, CacheAssumption DEF Returned, Fail, Move, Goto, Quiet, TypeOK, Known, Keys, Entries, Reports, Working, Answered, Labels
<1>19. CASE Compare(p)
  BY <1>19, <1>s, CacheAssumption DEF Compare, CommandUnchanged, Fail, Move, Goto, Quiet, TypeOK, Known, Keys, Entries, Reports, Working, Answered, Labels
<1>20. CASE Judge(p)
  BY <1>20, <1>s, CacheAssumption DEF Judge, Fail, Move, Goto, Quiet, TypeOK, Known, Keys, Entries, Reports, Working, Answered, Labels
<1>21. CASE Strip(p)
  BY <1>21, <1>s, CacheAssumption DEF Strip, Fail, Move, Goto, Quiet, TypeOK, Known, Keys, Entries, Reports, Working, Answered, Labels
<1>22. CASE Report(p)
  BY <1>22, <1>s, CacheAssumption DEF Report, Fail, Move, Goto, Quiet, TypeOK, Known, Keys, Entries, Reports, Working, Answered, Labels
<1>23. CASE Manifest(p)
  BY <1>23, <1>s, CacheAssumption DEF Manifest, Fail, Move, Goto, Quiet, TypeOK, Known, Keys, Entries, Reports, Working, Answered, Labels
<1>24. CASE Publish(p)
  <2>1. key[p] \in Keys /\ key'[p] = key[p] /\ answer'[p] = answer[p] /\ at'[p] = "reread"
    BY <1>24, <1>s DEF Publish, Goto, TypeOK
  <2>2. entry'[key[p]] = [report |-> Mine(p), whole |-> TRUE]
    BY <1>24, <1>s, <2>1 DEF Publish, TypeOK
  <2>3. entry'[key[p]].report.by = p
    BY <2>2 DEF Mine
  <2>4. entry'[key[p]] # None
    <3>1. entry'[key[p]] \in Entries
      BY <2>2, <1>s DEF Mine, TypeOK, Entries, Reports
    <3> QED  BY <3>1, CacheAssumption
  <2>5. answer[p] = None
    BY <1>24, <1>s DEF Publish, Known, Answered
  <2> QED
    BY <2>1, <2>3, <2>4, <2>5 DEF Known
<1>25. CASE PublishExists(p)
  BY <1>25, <1>s, CacheAssumption DEF PublishExists, Present, Move, Goto, Quiet, TypeOK, Known, Keys, Entries, Reports, Working, Answered, Labels
<1>26. CASE PublishFails(p)
  BY <1>26, <1>s, CacheAssumption DEF PublishFails, Fail, Move, Goto, Quiet, TypeOK, Known, Keys, Entries, Reports, Working, Answered, Labels
<1>27. CASE Reread(p)
  BY <1>27, <1>s, CacheAssumption DEF Reread, Fail, Move, Goto, Quiet, TypeOK, Known, Keys, Entries, Reports, Working, Answered, Labels
<1>28. CASE Deliver(p, "deliver", "cleanup")
  BY <1>28, <1>s, CacheAssumption DEF Deliver, Goto, TypeOK, Known, Keys, Entries, Reports, Working, Answered, Labels
<1>29. CASE Cleanup(p)
  BY <1>29, <1>s, CacheAssumption DEF Cleanup, Goto, TypeOK, Known, Keys, Entries, Reports, Working, Answered, Labels
<1>30. CASE Release(p)
  BY <1>30, <1>s, CacheAssumption DEF Release, SetClaim, Goto, TypeOK, Known, Keys, Entries, Reports, Working, Answered, Labels
<1>31. CASE Crash(p)
  BY <1>31, <1>s, CacheAssumption DEF Crash, SetClaim, Goto, TypeOK, Known, Keys, Entries, Reports, Working, Answered, Labels
<1> QED  BY <1>1, <1>2, <1>3, <1>4, <1>5, <1>6, <1>7, <1>8, <1>9, <1>10,
    <1>11, <1>12, <1>13, <1>14, <1>15, <1>16, <1>17, <1>18, <1>19, <1>20, <1>21,
    <1>22, <1>23, <1>24, <1>25, <1>26, <1>27, <1>28, <1>29, <1>30, <1>31, <1>s DEF Step

(* What one step of a call may do to the rest: the labels and the books of *)
(* the others stay, a claim changes hands only under its own key and if    *)
(* nobody living holds it, and an entry appears only by publication.       *)
Frame(p) ==
    /\ \A q \in Procs \ {p} :
          /\ at'[q] = at[q] /\ key'[q] = key[q] /\ left'[q] = left[q]
          /\ used'[q] = used[q] /\ temp'[q] = temp[q] /\ answer'[q] = answer[q]
    /\ \A k \in Keys : \/ claim'[k] = claim[k]
                       \/ /\ k = key[p] /\ claim'[k] \in {p, "free", "bare"}
                          /\ claim[k] \in {p, "free"} \/ Stale(claim[k])
    /\ \A k \in Keys : \/ entry'[k] = entry[k]
                       \/ /\ k = key[p] /\ at[p] = "publish" /\ entry[k] = None
                          /\ entry'[k] = [report |-> Mine(p), whole |-> TRUE]

(* Every step of a call stays within that frame. *)
LEMMA StepFrame ==
    ASSUME NEW p \in Procs, IInv, Step(p), UNCHANGED disk
    PROVE  Frame(p)
<1>s. Step(p) /\ TypeOK /\ (at[p] \in Working => claim[key[p]] = p)
  BY DEF IInv, Work
<1>1. CASE Plan(p)
  BY <1>1, <1>s DEF Plan, Goto, Frame, TypeOK, Working
<1>2. CASE OpenCache(p)
  BY <1>2, <1>s DEF OpenCache, Move, Goto, Quiet, Frame, TypeOK, Working
<1>3. CASE Identify(p)
  BY <1>3, <1>s DEF Identify, Goto, Frame, TypeOK, Working
<1>4. CASE Probe(p)
  BY <1>4, <1>s DEF Probe, Move, Goto, Quiet, Frame, TypeOK, Working
<1>5. CASE Look(p)
  BY <1>5, <1>s DEF Look, Present, Move, Goto, Quiet, Frame, TypeOK, Working
<1>6. CASE LookAgain(p)
  BY <1>6, <1>s DEF LookAgain, Present, Move, Goto, Quiet, Frame, TypeOK, Working
<1>7. CASE Acquire(p)
  BY <1>7, <1>s DEF Acquire, SetClaim, Goto, Frame, TypeOK, Working
<1>8. CASE Refused(p)
  BY <1>8, <1>s DEF Refused, Move, Goto, Quiet, Frame, TypeOK, Working
<1>9. CASE LookRefused(p)
  BY <1>9, <1>s DEF LookRefused, Present, Move, Goto, Quiet, Frame, TypeOK, Working
<1>10. CASE SecondLook(p)
  BY <1>10, <1>s DEF SecondLook, Present, SetClaim, Move, Goto, Quiet, Frame, TypeOK, Working
<1>11. CASE VerifyEntry(p)
  BY <1>11, <1>s DEF VerifyEntry, Move, Goto, Quiet, Frame, TypeOK, Working
<1>12. CASE Deliver(p, "output", "ended")
  BY <1>12, <1>s DEF Deliver, Goto, Frame, TypeOK, Working
<1>13. CASE MakeTemp(p)
  BY <1>13, <1>s DEF MakeTemp, Goto, Frame, TypeOK, Working
<1>14. CASE MakeTempFails(p)
  BY <1>14, <1>s DEF MakeTempFails, SetClaim, Goto, Frame, TypeOK, Working
<1>15. CASE Check(p)
  BY <1>15, <1>s DEF Check, Fail, Move, Goto, Quiet, Frame, TypeOK, Working
<1>16. CASE Materialize(p)
  BY <1>16, <1>s DEF Materialize, Fail, Move, Goto, Quiet, Frame, TypeOK, Working
<1>17. CASE Launch(p)
  BY <1>17, <1>s DEF Launch, Goto, Frame, TypeOK, Working
<1>18. CASE Returned(p)
  BY <1>18, <1>s DEF Returned, Fail, Move, Goto, Quiet, Frame, TypeOK, Working
<1>19. CASE Compare(p)
  BY <1>19, <1>s DEF Compare, CommandUnchanged, Fail, Move, Goto, Quiet, Frame, TypeOK, Working
<1>20. CASE Judge(p)
  BY <1>20, <1>s DEF Judge, Fail, Move, Goto, Quiet, Frame, TypeOK, Working
<1>21. CASE Strip(p)
  BY <1>21, <1>s DEF Strip, Fail, Move, Goto, Quiet, Frame, TypeOK, Working
<1>22. CASE Report(p)
  BY <1>22, <1>s DEF Report, Fail, Move, Goto, Quiet, Frame, TypeOK, Working
<1>23. CASE Manifest(p)
  BY <1>23, <1>s DEF Manifest, Fail, Move, Goto, Quiet, Frame, TypeOK, Working
<1>24. CASE Publish(p)
  BY <1>24, <1>s DEF Publish, Present, Mine, Goto, Frame, TypeOK, Working
<1>25. CASE PublishExists(p)
  BY <1>25, <1>s DEF PublishExists, Present, Move, Goto, Quiet, Frame, TypeOK, Working
<1>26. CASE PublishFails(p)
  BY <1>26, <1>s DEF PublishFails, Fail, Move, Goto, Quiet, Frame, TypeOK, Working
<1>27. CASE Reread(p)
  BY <1>27, <1>s DEF Reread, Fail, Move, Goto, Quiet, Frame, TypeOK, Working
<1>28. CASE Deliver(p, "deliver", "cleanup")
  BY <1>28, <1>s DEF Deliver, Goto, Frame, TypeOK, Working
<1>29. CASE Cleanup(p)
  BY <1>29, <1>s DEF Cleanup, Goto, Frame, TypeOK, Working
<1>30. CASE Release(p)
  BY <1>30, <1>s DEF Release, SetClaim, Goto, Frame, TypeOK, Working
<1>31. CASE Crash(p)
  BY <1>31, <1>s DEF Crash, SetClaim, Goto, Frame, TypeOK, Working
<1> QED  BY <1>1, <1>2, <1>3, <1>4, <1>5, <1>6, <1>7, <1>8, <1>9, <1>10,
    <1>11, <1>12, <1>13, <1>14, <1>15, <1>16, <1>17, <1>18, <1>19, <1>20, <1>21,
    <1>22, <1>23, <1>24, <1>25, <1>26, <1>27, <1>28, <1>29, <1>30, <1>31, <1>s DEF Step

(* A call that signs a claim signs the one of its key, and gives it back   *)
(* before it ends.                                                         *)
LEMMA StepOwn ==
    ASSUME NEW p \in Procs, IInv, Step(p), UNCHANGED disk
    PROVE  \A k \in Keys : claim'[k] = p => k = key'[p] /\ at'[p] \in Working \cup {"dead"}
<1>s. /\ Step(p) /\ TypeOK /\ CacheAssumption
      /\ \A k \in Keys : claim[k] = p => k = key[p] /\ at[p] \in Working \cup {"dead"}
  BY CacheAssumption DEF IInv, Claims
<1>1. CASE Plan(p)
  BY <1>1, <1>s DEF Plan, Goto, TypeOK, Working, CacheAssumption
<1>2. CASE OpenCache(p)
  BY <1>2, <1>s DEF OpenCache, Move, Goto, Quiet, TypeOK, Working, CacheAssumption
<1>3. CASE Identify(p)
  BY <1>3, <1>s DEF Identify, Goto, TypeOK, Working, CacheAssumption
<1>4. CASE Probe(p)
  BY <1>4, <1>s DEF Probe, Move, Goto, Quiet, TypeOK, Working, CacheAssumption
<1>5. CASE Look(p)
  BY <1>5, <1>s DEF Look, Present, Move, Goto, Quiet, TypeOK, Working, CacheAssumption
<1>6. CASE LookAgain(p)
  BY <1>6, <1>s DEF LookAgain, Present, Move, Goto, Quiet, TypeOK, Working, CacheAssumption
<1>7. CASE Acquire(p)
  BY <1>7, <1>s DEF Acquire, SetClaim, Goto, TypeOK, Working, CacheAssumption
<1>8. CASE Refused(p)
  BY <1>8, <1>s DEF Refused, Move, Goto, Quiet, TypeOK, Working, CacheAssumption
<1>9. CASE LookRefused(p)
  BY <1>9, <1>s DEF LookRefused, Present, Move, Goto, Quiet, TypeOK, Working, CacheAssumption
<1>10. CASE SecondLook(p)
  BY <1>10, <1>s DEF SecondLook, Present, SetClaim, Move, Goto, Quiet, TypeOK, Working, CacheAssumption
<1>11. CASE VerifyEntry(p)
  BY <1>11, <1>s DEF VerifyEntry, Move, Goto, Quiet, TypeOK, Working, CacheAssumption
<1>12. CASE Deliver(p, "output", "ended")
  BY <1>12, <1>s DEF Deliver, Goto, TypeOK, Working, CacheAssumption
<1>13. CASE MakeTemp(p)
  BY <1>13, <1>s DEF MakeTemp, Goto, TypeOK, Working, CacheAssumption
<1>14. CASE MakeTempFails(p)
  BY <1>14, <1>s DEF MakeTempFails, SetClaim, Goto, TypeOK, Working, CacheAssumption
<1>15. CASE Check(p)
  BY <1>15, <1>s DEF Check, Fail, Move, Goto, Quiet, TypeOK, Working, CacheAssumption
<1>16. CASE Materialize(p)
  BY <1>16, <1>s DEF Materialize, Fail, Move, Goto, Quiet, TypeOK, Working, CacheAssumption
<1>17. CASE Launch(p)
  BY <1>17, <1>s DEF Launch, Goto, TypeOK, Working, CacheAssumption
<1>18. CASE Returned(p)
  BY <1>18, <1>s DEF Returned, Fail, Move, Goto, Quiet, TypeOK, Working, CacheAssumption
<1>19. CASE Compare(p)
  BY <1>19, <1>s DEF Compare, CommandUnchanged, Fail, Move, Goto, Quiet, TypeOK, Working, CacheAssumption
<1>20. CASE Judge(p)
  BY <1>20, <1>s DEF Judge, Fail, Move, Goto, Quiet, TypeOK, Working, CacheAssumption
<1>21. CASE Strip(p)
  BY <1>21, <1>s DEF Strip, Fail, Move, Goto, Quiet, TypeOK, Working, CacheAssumption
<1>22. CASE Report(p)
  BY <1>22, <1>s DEF Report, Fail, Move, Goto, Quiet, TypeOK, Working, CacheAssumption
<1>23. CASE Manifest(p)
  BY <1>23, <1>s DEF Manifest, Fail, Move, Goto, Quiet, TypeOK, Working, CacheAssumption
<1>24. CASE Publish(p)
  BY <1>24, <1>s DEF Publish, Present, Mine, Goto, TypeOK, Working, CacheAssumption
<1>25. CASE PublishExists(p)
  BY <1>25, <1>s DEF PublishExists, Present, Move, Goto, Quiet, TypeOK, Working, CacheAssumption
<1>26. CASE PublishFails(p)
  BY <1>26, <1>s DEF PublishFails, Fail, Move, Goto, Quiet, TypeOK, Working, CacheAssumption
<1>27. CASE Reread(p)
  BY <1>27, <1>s DEF Reread, Fail, Move, Goto, Quiet, TypeOK, Working, CacheAssumption
<1>28. CASE Deliver(p, "deliver", "cleanup")
  BY <1>28, <1>s DEF Deliver, Goto, TypeOK, Working, CacheAssumption
<1>29. CASE Cleanup(p)
  BY <1>29, <1>s DEF Cleanup, Goto, TypeOK, Working, CacheAssumption
<1>30. CASE Release(p)
  BY <1>30, <1>s DEF Release, SetClaim, Goto, TypeOK, Working, CacheAssumption
<1>31. CASE Crash(p)
  BY <1>31, <1>s DEF Crash, SetClaim, Goto, TypeOK, Working, CacheAssumption
<1> QED  BY <1>1, <1>2, <1>3, <1>4, <1>5, <1>6, <1>7, <1>8, <1>9, <1>10,
    <1>11, <1>12, <1>13, <1>14, <1>15, <1>16, <1>17, <1>18, <1>19, <1>20, <1>21,
    <1>22, <1>23, <1>24, <1>25, <1>26, <1>27, <1>28, <1>29, <1>30, <1>31, <1>s DEF Step

(* A step of one call keeps what the label of another says of its work. *)
LEMMA StepOtherWork ==
    ASSUME NEW p \in Procs, NEW q \in Procs \ {p}, IInv, Frame(p), UNCHANGED disk
    PROVE  Work(q)'
<1>s. /\ TypeOK /\ Work(q) /\ CacheAssumption /\ command' = command /\ doubt' = doubt
      /\ at'[q] = at[q] /\ key'[q] = key[q] /\ left'[q] = left[q]
      /\ used'[q] = used[q] /\ temp'[q] = temp[q]
  BY CacheAssumption DEF IInv, Frame, disk
<1>1. at[q] \in Working => claim'[key[q]] = q
  <2>1. at[q] \in Working => claim[key[q]] = q /\ key[q] \in Keys
    BY <1>s DEF Work, TypeOK
  <2>2. at[q] \in Working => ~Stale(claim[key[q]])
    BY <2>1 DEF Stale, Working
  <2> QED
    BY <2>1, <2>2, <1>s DEF Frame, CacheAssumption
<1> QED
  BY <1>1, <1>s DEF Work

(* A step of one call keeps what the label of another says of the entry:   *)
(* an entry that appears is that of the call that holds the claim.         *)
LEMMA StepOtherKnown ==
    ASSUME NEW p \in Procs, NEW q \in Procs \ {p}, IInv, Frame(p), UNCHANGED disk
    PROVE  Known(q)'
<1>s. /\ TypeOK /\ Known(q) /\ key[q] \in Keys
      /\ at'[q] = at[q] /\ key'[q] = key[q] /\ answer'[q] = answer[q]
  BY DEF IInv, Frame, TypeOK
<1>1. CASE entry'[key[q]] = entry[key[q]]
  BY <1>1, <1>s DEF Known
<1>2. CASE /\ key[q] = key[p] /\ at[p] = "publish" /\ entry[key[q]] = None
           /\ entry'[key[q]] = [report |-> Mine(p), whole |-> TRUE]
  <2>1. at[q] \notin Working
    BY <1>2 DEF IInv, Work, Working
  <2>2. at[q] \notin {"verify", "output", "reread", "deliver"} /\ answer[q] = None
    BY <1>2, <1>s DEF Known
  <2> QED
    BY <2>1, <2>2, <1>s DEF Known
<1> QED
  BY <1>1, <1>2, <1>s DEF Frame

(* A step of one call keeps who signs which claim. *)
LEMMA StepClaims ==
    ASSUME NEW p \in Procs, IInv, Step(p), UNCHANGED disk, Frame(p)
    PROVE  Claims'
<1>1. SUFFICES ASSUME NEW k \in Keys, NEW q \in Procs, claim'[k] = q
               PROVE  k = key'[q] /\ at'[q] \in Working \cup {"dead"}
  BY DEF Claims, Keys, Versions, Working
<1>2. CASE q = p
  BY <1>1, <1>2, StepOwn
<1>3. CASE q # p
  <2>1. claim[k] = q
    BY <1>1, <1>3, CacheAssumption DEF Frame
  <2> QED
    BY <1>3, <2>1 DEF Frame, IInv, Claims
<1> QED
  BY <1>2, <1>3

(* A step of a call keeps the evidence bound: what it publishes was        *)
(* produced by the command of its key, and by no other, or it is in doubt. *)
LEMMA StepEvidence ==
    ASSUME NEW p \in Procs, IInv, Frame(p), UNCHANGED disk
    PROVE  EvidenceBound'
<1>1. SUFFICES ASSUME NEW k \in Keys, entry'[k] # None
               PROVE  entry'[k].report.used = {k.tool} \/ entry'[k].report.by \in doubt
  BY DEF EvidenceBound, disk
<1>2. CASE entry'[k] = entry[k]
  BY <1>1, <1>2 DEF IInv, EvidenceBound
<1>3. CASE /\ k = key[p] /\ at[p] = "publish"
           /\ entry'[k] = [report |-> Mine(p), whole |-> TRUE]
  <2>1. (used[p] \subseteq {key[p].tool} \/ p \in doubt) /\ used[p] # {}
    BY <1>3 DEF IInv, Work, Bound, Executed
  <2>2. entry'[k].report.used = used[p] /\ entry'[k].report.by = p
    BY <1>3 DEF Mine
  <2> QED
    BY <2>1, <2>2, <1>3
<1> QED
  BY <1>2, <1>3 DEF Frame

(* A step of a call keeps the invariant. *)
LEMMA CallKeeps ==
    ASSUME NEW p \in Procs, IInv, Step(p), UNCHANGED disk
    PROVE  IInv'
<1>1. Frame(p)
  BY StepFrame
<1>2. TypeOK'
  BY StepTypes
<1>3. Claims'
  BY <1>1, StepClaims
<1>4. EvidenceBound'
  BY <1>1, StepEvidence
<1>5. ASSUME NEW q \in Procs PROVE Work(q)' /\ Known(q)'
  <2>1. CASE q = p
    BY <2>1, StepWork, StepKnown
  <2>2. CASE q # p
    BY <2>2, <1>1, StepOtherWork, StepOtherKnown
  <2> QED
    BY <2>1, <2>2
<1> QED
  BY <1>2, <1>3, <1>4, <1>5 DEF IInv

(* Changing the sources disturbs no call: the versions of a key are its    *)
(* own copies.                                                             *)
LEMMA EditKeeps ==
    ASSUME IInv, EditSources
    PROVE  IInv'
<1>1. /\ UNCHANGED <<command, outside, replaced, doubt, at, entry, claim, key, left, used, temp, answer>>
      /\ sources' \in Versions
  BY DEF EditSources, Quiet, Versions
<1>2. TypeOK'
  BY <1>1 DEF IInv, TypeOK, Labels, Working
<1>3. Claims' /\ EvidenceBound'
  BY <1>1 DEF IInv, Claims, EvidenceBound, Working
<1>4. ASSUME NEW p \in Procs PROVE Work(p)' /\ Known(p)'
  BY <1>1 DEF IInv, Work, Known
<1> QED
  BY <1>2, <1>3, <1>4 DEF IInv

(* Replacing the command and putting it back keep the invariant: a call    *)
(* whose child has run while the command of its key comes back is in doubt *)
(* from then on.                                                           *)
LEMMA ReplaceKeeps ==
    ASSUME IInv, ReplaceCommand
    PROVE  IInv'
<1>1. /\ UNCHANGED <<sources, outside, at, entry, claim, key, left, used, temp, answer>>
      /\ command' = 1 - command /\ command \in {0, 1} /\ replaced' \in 0 .. MaxReplaced
      /\ doubt \subseteq doubt' /\ doubt' \subseteq Procs
      /\ \A p \in Procs : at[p] \in {"running", "after"} /\ key[p].tool = command' => p \in doubt'
  BY CacheAssumption DEF ReplaceCommand, Quiet, IInv, TypeOK, Versions
<1>2. TypeOK'
  BY <1>1 DEF IInv, TypeOK, Labels, Working, Versions
<1>3. Claims'
  BY <1>1 DEF IInv, Claims, Working
<1>4. EvidenceBound'
  BY <1>1 DEF IInv, EvidenceBound
<1>5. ASSUME NEW p \in Procs PROVE Work(p)' /\ Known(p)'
  <2>1. Work(p) /\ Known(p)
    BY DEF IInv
  <2>2. Work(p)'
    BY <2>1, <1>1 DEF Work
  <2> QED
    BY <2>1, <2>2, <1>1 DEF Known
<1> QED
  BY <1>2, <1>3, <1>4, <1>5 DEF IInv

(* What others put under a free key or spoil changes no report that was    *)
(* published.                                                              *)
LEMMA MeddleKeeps ==
    ASSUME IInv, Meddle
    PROVE  IInv'
<1>s. /\ TypeOK /\ UNCHANGED <<sources, command, replaced, doubt, claim, at, key, left, used, temp, answer>>
      /\ outside' \in 0 .. MaxOutside
  BY CacheAssumption DEF IInv, Meddle, TypeOK
<1>1. PICK k \in Keys :
         \/ /\ entry[k] = None
            /\ \E w \in BOOLEAN :
                 entry' = [entry EXCEPT ![k] =
                             [report |-> [by |-> "outside", used |-> {k.tool}], whole |-> w]]
         \/ /\ entry[k] # None
            /\ entry' = [entry EXCEPT ![k].whole = FALSE]
  BY DEF Meddle
<1>2. /\ entry'[k] \in Entries
      /\ entry[k] = None => /\ entry'[k].report.by = "outside"
                            /\ entry'[k].report.used = {k.tool}
      /\ entry[k] # None => entry'[k].report = entry[k].report
  <2>1. CASE entry[k] = None
    <3>1. PICK w \in BOOLEAN : entry' = [entry EXCEPT ![k] =
                      [report |-> [by |-> "outside", used |-> {k.tool}], whole |-> w]]
      BY <1>1, <2>1
    <3>2. k.tool \in Versions
      BY DEF Keys
    <3>3. entry'[k] = [report |-> [by |-> "outside", used |-> {k.tool}], whole |-> w]
      BY <3>1, <1>s DEF TypeOK
    <3>4. [by |-> "outside", used |-> {k.tool}] \in Reports
      BY <3>2 DEF Reports
    <3>5. entry'[k] \in Entries
      BY <3>3, <3>4 DEF Entries
    <3> QED
      BY <2>1, <3>3, <3>5
  <2>2. CASE entry[k] # None
    <3>1. entry' = [entry EXCEPT ![k].whole = FALSE]
      BY <1>1, <2>2
    <3>2. entry[k] \in Entries
      BY <2>2, <1>s DEF TypeOK
    <3>3. entry'[k] = [entry[k] EXCEPT !.whole = FALSE]
      BY <3>1, <1>s DEF TypeOK
    <3>4. entry'[k] \in Entries /\ entry'[k].report = entry[k].report
      BY <3>2, <3>3 DEF Entries
    <3> QED
      BY <2>2, <3>4
  <2> QED
    BY <2>1, <2>2
<1>3. \A l \in Keys \ {k} : entry'[l] = entry[l]
  BY <1>1, <1>s DEF TypeOK
<1>4. entry'[k] # None
  BY <1>2, CacheAssumption
<1>5. entry' \in [Keys -> Entries \cup {None}]
  BY <1>1, <1>2, <1>3, <1>s DEF TypeOK
<1>6. TypeOK'
  BY <1>5, <1>s DEF TypeOK, Labels, Working
<1>7. Claims'
  BY <1>s DEF IInv, Claims, Working
<1>8. EvidenceBound'
  <2>1. doubt' = doubt
    BY <1>s
  <2>2. \A l \in Keys : entry[l] # None => \/ entry[l].report.used = {l.tool}
                                          \/ entry[l].report.by \in doubt
    BY DEF IInv, EvidenceBound
  <2> QED
    BY <1>2, <1>3, <2>1, <2>2 DEF EvidenceBound
<1>9. ASSUME NEW p \in Procs PROVE Work(p)' /\ Known(p)'
  <2>1. Work(p)'
    BY <1>s DEF IInv, Work
  <2>2. /\ key[p] \in Keys /\ Known(p)
        /\ at'[p] = at[p] /\ key'[p] = key[p] /\ answer'[p] = answer[p]
    BY <1>s DEF IInv, TypeOK
  <2>3. CASE key[p] = k
    <3>1. /\ entry'[key[p]] # None
          /\ entry[key[p]] = None => entry'[key[p]].report.by = "outside"
          /\ entry[key[p]] # None => entry'[key[p]].report = entry[key[p]].report
      BY <2>3, <1>2, <1>4
    <3> QED
      BY <2>1, <2>2, <3>1 DEF Known
  <2>4. CASE key[p] # k
    <3>1. entry'[key[p]] = entry[key[p]]
      BY <2>2, <2>4, <1>3
    <3> QED
      BY <2>1, <2>2, <3>1 DEF Known
  <2> QED
    BY <2>3, <2>4
<1> QED
  BY <1>6, <1>7, <1>8, <1>9 DEF IInv

(* No call has begun: the invariant holds at the start. *)
LEMMA InitKeeps ==
    ASSUME Init
    PROVE  IInv
<1>1. TypeOK
  BY CacheAssumption DEF Init, TypeOK, Versions, Keys, Labels
<1>2. Claims
  BY CacheAssumption DEF Init, Claims
<1>3. EvidenceBound
  BY DEF Init, EvidenceBound
<1>4. ASSUME NEW p \in Procs PROVE Work(p) /\ Known(p)
  BY <1>4 DEF Init, Work, Known, Working, Temporary, Counting, Early, Bound, Executed
<1> QED
  BY <1>1, <1>2, <1>3, <1>4 DEF IInv

(* The invariant holds throughout, whatever the calls and the rest of the  *)
(* machine do.                                                             *)
THEOREM Invariance == Spec => []IInv
<1>1. Init => IInv
  BY InitKeeps
<1>2. IInv /\ [Next]_vars => IInv'
  <2> SUFFICES ASSUME IInv, [Next]_vars PROVE IInv'
    OBVIOUS
  <2>1. ASSUME NEW p \in Procs, Step(p), UNCHANGED disk PROVE IInv'
    BY <2>1, CallKeeps
  <2>2. CASE EditSources
    BY <2>2, EditKeeps
  <2>3. CASE ReplaceCommand
    BY <2>3, ReplaceKeeps
  <2>4. CASE Meddle
    BY <2>4, MeddleKeeps
  <2>5. CASE UNCHANGED vars
    <3>1. UNCHANGED <<sources, command, entry, claim, at, key, left, used, temp, answer, outside,
                      replaced, doubt>>
      BY <2>5 DEF vars
    <3>2. TypeOK'
      BY <3>1 DEF IInv, TypeOK, Labels, Working
    <3>3. Claims' /\ EvidenceBound'
      BY <3>1 DEF IInv, Claims, EvidenceBound, Working
    <3>4. ASSUME NEW p \in Procs PROVE Work(p)' /\ Known(p)'
      BY <3>1 DEF IInv, Work, Known
    <3> QED
      BY <3>2, <3>3, <3>4 DEF IInv
  <2> QED
    BY <2>1, <2>2, <2>3, <2>4, <2>5 DEF Next
<1> QED
  BY <1>1, <1>2, PTL DEF Spec

(* The variables of the calls, the cache and the claims keep their types. *)
THEOREM CacheTypes == Spec => []TypeOK
<1>1. IInv => TypeOK
  BY DEF IInv
<1> QED
  BY <1>1, Invariance, PTL

(* Two calls never execute what one of them has published: a call past its *)
(* second look finds under its key nothing, its own entry or one that was  *)
(* put there by hand (_try_claim and the second look of                    *)
(* characterize_xyce_async).                                               *)
THEOREM ExecutesOnce == Spec => []ExecutedOnce
<1>1. IInv => ExecutedOnce
  BY DEF IInv, ExecutedOnce, Known
<1> QED
  BY <1>1, Invariance, PTL

(* Evidence is bound to the command its key names, for any number of       *)
(* executions and replacements and however often calls are repeated,       *)
(* unless the command was put back while a child of its publisher ran.     *)
THEOREM EvidenceIsBound == Spec => []EvidenceBound
<1>1. IInv => EvidenceBound
  BY DEF IInv
<1> QED
  BY <1>1, Invariance, PTL

(* Calls with one key that succeed agree on the report.                    *)
THEOREM CallsAgree == Spec => []AnswersAgree
<1>1. IInv => AnswersAgree
  BY DEF IInv, AnswersAgree, Known
<1> QED
  BY <1>1, Invariance, PTL

(* A call that ends leaves neither its claim nor its directory.            *)
THEOREM CallsEndClean == Spec => []EndedClean
<1>1. IInv => EndedClean
  BY DEF IInv, EndedClean, Work, Claims, Working, Temporary
<1> QED
  BY <1>1, Invariance, PTL
=============================================================================
