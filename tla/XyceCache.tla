----------------------------- MODULE XyceCache ------------------------------
(***************************************************************************)
(* characterize_xyce_async in src/simcairn/xyce.py: processes characterize *)
(* the same plan into one cache.  A call snapshots the sources, identifies *)
(* the simulator by a probe, and then either verifies and returns what the *)
(* cache has under its key or, holding the claim of that key, executes     *)
(* every corner and publishes the evidence with a rename that replaces     *)
(* nothing.                                                                *)
(*                                                                         *)
(* Meanwhile the sources may change on disk, the simulator may be replaced *)
(* and put back, an entry may be put under a key or damaged by others, and *)
(* a process may die.                                                      *)
(* A claim is the lock of CrashLock; a supervised child answers as in      *)
(* BoundedCall.                                                            *)
(***************************************************************************)
EXTENDS Naturals

CONSTANTS
    Procs,      \* incarnations of processes, one call each
    Executions, \* corners times analyses
    MaxOutside, \* bound: what others do to the cache
    MaxReplaced, \* bound: how often the simulator on disk is another
    None

Versions == {0, 1}                          \* of the sources and of the simulator
(* What the fingerprint tells apart; tool is the digest of the command.    *)
Keys == [plan : Versions, tool : Versions]
Reports == [by : Procs \cup {"outside"}, used : SUBSET Versions]
Entries == [report : Reports, whole : BOOLEAN]

ASSUME CacheAssumption == /\ Executions \in Nat \ {0} /\ MaxOutside \in Nat /\ MaxReplaced \in Nat
                          /\ {"free", "bare", "outside"} \cap Procs = {}
                          /\ None \notin Entries \cup Reports

VARIABLES
    sources, command, \* the versions on disk
    entry,   \* keys to what the cache has under them
    claim,   \* keys to "free", the process that signed the claim, or "bare"
    at,      \* the label of each process
    key,     \* its cache key; its members are known once identified
    left,    \* executions it has still to do
    used,    \* the simulators it has executed
    temp,    \* its temporary directory exists
    answer,  \* what the call returned: a report, or None if it failed
    outside, replaced, \* what others did so far
    doubt    \* the calls that cannot tell what their child was: their simulator was
             \* put back while it ran

vars == <<sources, command, entry, claim, at, key, left, used, temp, answer, outside, replaced,
          doubt>>
disk == <<sources, command, outside, replaced, doubt>>

(* between taking the claim and giving it back *)
Working == {"second", "temp", "check", "write", "launch", "running", "after", "judge",
            "strip", "report", "manifest", "publish", "reread", "deliver", "cleanup", "release"}
Labels == Working \cup {"idle", "open", "identify", "probe", "look", "acquire", "refused",
                        "verify", "output", "ended", "dead"}
Stale(c) == c \in Procs /\ at[c] = "dead"

TypeOK ==
    /\ sources \in Versions /\ command \in Versions
    /\ entry \in [Keys -> Entries \cup {None}]
    /\ claim \in [Keys -> Procs \cup {"free", "bare"}]
    /\ at \in [Procs -> Labels]
    /\ key \in [Procs -> Keys]
    /\ left \in [Procs -> 0 .. Executions]
    /\ used \in [Procs -> SUBSET Versions]
    /\ temp \in [Procs -> BOOLEAN]
    /\ answer \in [Procs -> Reports \cup {None}]
    /\ outside \in 0 .. MaxOutside /\ replaced \in 0 .. MaxReplaced /\ doubt \subseteq Procs

Init ==
    /\ sources = 0 /\ command = 0 /\ outside = 0 /\ replaced = 0 /\ doubt = {}
    /\ entry = [k \in Keys |-> None]
    /\ claim = [k \in Keys |-> "free"]
    /\ at = [p \in Procs |-> "idle"]
    /\ key = [p \in Procs |-> [plan |-> 0, tool |-> 0]]
    /\ left = [p \in Procs |-> 0]
    /\ used = [p \in Procs |-> {}]
    /\ temp = [p \in Procs |-> FALSE]
    /\ answer = [p \in Procs |-> None]

Goto(p, l) == at' = [at EXCEPT ![p] = l]
Holds(p) == claim[key[p]] = p
SetClaim(p, c) == claim' = [claim EXCEPT ![key[p]] = c]
Quiet == UNCHANGED <<entry, claim, key, left, used, temp, answer>>

(* A step that changes nothing else than where p is *)
Move(p, l, m) == at[p] = l /\ Goto(p, m) /\ Quiet

-----------------------------------------------------------------------------
(* The plan and its key *)

(* The snapshots of the deck and the inputs are taken *)
Plan(p) ==
    /\ at[p] = "idle" /\ Goto(p, "open")
    /\ key' = [key EXCEPT ![p].plan = sources]
    /\ UNCHANGED <<entry, claim, left, used, temp, answer>>

SourcesUnchanged(p) == key[p].plan = sources
CommandUnchanged(p) == key[p].tool = command

(* The sources are compared and the cache root is made *)
OpenCache(p) == \/ SourcesUnchanged(p) /\ Move(p, "open", "identify")
                \/ Move(p, "open", "ended")

(* The command is resolved and hashed in a sandbox with a controlled environment *)
Identify(p) ==
    /\ at[p] = "identify"
    /\ Goto(p, "probe") \/ Goto(p, "ended")
    /\ key' = [key EXCEPT ![p].tool = command]
    /\ UNCHANGED <<entry, claim, left, used, temp, answer>>

(* The probe's answer counts if the command still is what was hashed; it may be cancelled *)
Probe(p) == \/ CommandUnchanged(p) /\ Move(p, "probe", "look")
            \/ Move(p, "probe", "ended")

-----------------------------------------------------------------------------
(* Entries and claims *)

Present(p) == entry[key[p]] # None

Look(p) == Move(p, "look", IF Present(p) THEN "verify" ELSE "acquire")

(* Another look, after the claim directory was made or could not be *)
LookAgain(p) == \/ Present(p) /\ Move(p, "acquire", "verify")
                \/ Move(p, "acquire", "ended")

Acquire(p) ==
    /\ at[p] = "acquire"
    /\ claim[key[p]] = "free" \/ Stale(claim[key[p]])
    /\ SetClaim(p, p) /\ Goto(p, "second")
    /\ UNCHANGED <<entry, key, left, used, temp, answer>>

(* Owned by a live process, or by nobody one can judge *)
Refused(p) == /\ claim[key[p]] # "free" /\ ~Stale(claim[key[p]])
              /\ Move(p, "acquire", "refused")

LookRefused(p) == Move(p, "refused", IF Present(p) THEN "verify" ELSE "ended")

(* Mutant: holding the claim is enough *)
SecondLookNot(p) == Move(p, "second", "temp")

(* A peer may have published between the first look and the claim *)
SecondLook(p) ==
    \/ ~Present(p) /\ Move(p, "second", "temp")
    \/ /\ Present(p)
       /\ at[p] = "second" /\ Goto(p, "verify") /\ SetClaim(p, "free")
       /\ UNCHANGED <<entry, key, left, used, temp, answer>>

Verified(e) == e.whole

VerifyEntry(p) ==
    \/ Move(p, "verify", "output") /\ Verified(entry[key[p]])
    \/ Move(p, "verify", "ended") /\ ~Verified(entry[key[p]])

(* The report is returned, unless an output is asked for that exists or cannot be written *)
Deliver(p, l, m) ==
    /\ at[p] = l /\ Goto(p, m)
    /\ \/ answer' = [answer EXCEPT ![p] = entry[key[p]].report]
       \/ UNCHANGED answer
    /\ UNCHANGED <<entry, claim, key, left, used, temp>>

-----------------------------------------------------------------------------
(* The executions *)

MakeTemp(p) ==
    /\ at[p] = "temp" /\ Goto(p, "check")
    /\ temp' = [temp EXCEPT ![p] = TRUE]
    /\ left' = [left EXCEPT ![p] = Executions]
    /\ UNCHANGED <<entry, claim, key, used, answer>>

(* Mutant: the claim is not given back *)
MakeTempFailsHolding(p) == Move(p, "temp", "ended")

MakeTempFails(p) ==
    /\ at[p] = "temp" /\ Goto(p, "ended")
    /\ SetClaim(p, "free")
    /\ UNCHANGED <<entry, key, left, used, temp, answer>>

Fail(p, l) == Move(p, l, "cleanup")

(* The command, the deck and the sources are what the key was made of *)
Check(p) == \/ CommandUnchanged(p) /\ SourcesUnchanged(p) /\ Move(p, "check", "write")
            \/ Fail(p, "check")

(* The deck and the snapshots of the inputs are written into the directory *)
Materialize(p) == Move(p, "write", "launch") \/ Fail(p, "write")

Launch(p) ==
    /\ at[p] = "launch" /\ Goto(p, "running")
    /\ used' = [used EXCEPT ![p] = @ \cup {command}]
    /\ UNCHANGED <<entry, claim, key, left, temp, answer>>

(* The child's result, or a refusal, a time-out or a cancellation *)
Returned(p) == Move(p, "running", "after") \/ Fail(p, "running")

(* Mutant: the command is not compared again *)
CompareBlind(p) == Move(p, "after", "judge") \/ Fail(p, "after")

Compare(p) == \/ CommandUnchanged(p) /\ Move(p, "after", "judge")
              \/ ~CommandUnchanged(p) /\ Fail(p, "after")

(* The exit status, the log, the deck and the result table are judged *)
Judge(p) == Move(p, "judge", "strip") \/ Fail(p, "judge")

(* The inputs are removed if they are as they were, and nothing else may be left *)
Strip(p) ==
    \/ /\ at[p] = "strip" /\ Goto(p, IF left[p] = 1 THEN "report" ELSE "check")
       /\ left' = [left EXCEPT ![p] = @ - 1]
       /\ UNCHANGED <<entry, claim, key, used, temp, answer>>
    \/ Fail(p, "strip")

-----------------------------------------------------------------------------
(* Publication *)

(* The sources are compared a last time *)
Report(p) == \/ SourcesUnchanged(p) /\ Move(p, "report", "manifest")
             \/ Fail(p, "report")

Manifest(p) == Move(p, "manifest", "publish") \/ Fail(p, "manifest")

Mine(p) == [by |-> p, used |-> used[p]]

Publish(p) ==
    /\ at[p] = "publish" /\ ~Present(p) /\ Goto(p, "reread")
    /\ entry' = [entry EXCEPT ![key[p]] = [report |-> Mine(p), whole |-> TRUE]]
    /\ temp' = [temp EXCEPT ![p] = FALSE]
    /\ UNCHANGED <<claim, key, left, used, answer>>

(* Mutant: a report of one's own is good enough *)
PublishExistsMine(p) ==
    /\ Present(p) /\ at[p] = "publish" /\ Goto(p, "cleanup")
    /\ answer' = [answer EXCEPT ![p] = Mine(p)]
    /\ UNCHANGED <<entry, claim, key, left, used, temp>>

(* What stands under the key stays; it is what the call returns *)
PublishExists(p) == Present(p) /\ Move(p, "publish", "reread")

PublishFails(p) == Fail(p, "publish")

Reread(p) ==
    \/ Move(p, "reread", "deliver") /\ Verified(entry[key[p]])
    \/ Fail(p, "reread") /\ ~Verified(entry[key[p]])

Cleanup(p) ==
    /\ at[p] = "cleanup" /\ Goto(p, "release")
    /\ temp' = [temp EXCEPT ![p] = FALSE]
    /\ UNCHANGED <<entry, claim, key, left, used, answer>>

Release(p) ==
    /\ at[p] = "release" /\ Goto(p, "ended")
    /\ SetClaim(p, "free")
    /\ UNCHANGED <<entry, key, left, used, temp, answer>>

-----------------------------------------------------------------------------
(* Deaths, and the rest of the machine *)

(* Inside the two steps that take or give back a claim it is left unsigned *)
Crash(p) ==
    /\ at[p] \notin {"idle", "ended", "dead"} /\ Goto(p, "dead")
    /\ \/ UNCHANGED claim
       \/ at[p] = "acquire" /\ claim[key[p]] = "free" /\ SetClaim(p, "bare")
       \/ at[p] = "release" /\ SetClaim(p, "bare")
    /\ UNCHANGED <<entry, key, left, used, temp, answer>>

EditSources == /\ sources = 0 /\ sources' = 1
               /\ UNCHANGED <<command, outside, replaced, doubt, at>> /\ Quiet

(* The simulator is replaced, or put back.  A call compares its digest     *)
(* before and after an execution, not while the child runs.                *)
ReplaceCommand ==
    /\ replaced < MaxReplaced /\ replaced' = replaced + 1
    /\ command' = 1 - command
    /\ doubt' = doubt \cup {p \in Procs : /\ at[p] \in {"running", "after"}
                                         /\ key[p].tool = 1 - command}
    /\ UNCHANGED <<sources, outside, at>> /\ Quiet

(* Somebody restores an entry from elsewhere, or spoils one *)
Meddle == /\ outside < MaxOutside /\ outside' = outside + 1
          /\ \E k \in Keys :
                \/ /\ entry[k] = None
                   /\ \E w \in BOOLEAN :
                        entry' = [entry EXCEPT ![k] =
                                    [report |-> [by |-> "outside", used |-> {k.tool}], whole |-> w]]
                \/ /\ entry[k] # None
                   /\ entry' = [entry EXCEPT ![k].whole = FALSE]
          /\ UNCHANGED <<sources, command, replaced, doubt, claim, at, key, left, used, temp, answer>>

Step(p) ==
    \/ Plan(p) \/ OpenCache(p) \/ Identify(p) \/ Probe(p)
    \/ Look(p) \/ LookAgain(p) \/ Acquire(p) \/ Refused(p) \/ LookRefused(p)
    \/ SecondLook(p) \/ VerifyEntry(p) \/ Deliver(p, "output", "ended")
    \/ MakeTemp(p) \/ MakeTempFails(p) \/ Check(p) \/ Materialize(p)
    \/ Launch(p) \/ Returned(p) \/ Compare(p) \/ Judge(p) \/ Strip(p)
    \/ Report(p) \/ Manifest(p) \/ Publish(p) \/ PublishExists(p) \/ PublishFails(p)
    \/ Reread(p) \/ Deliver(p, "deliver", "cleanup") \/ Cleanup(p) \/ Release(p) \/ Crash(p)

Next == \/ \E p \in Procs : Step(p) /\ UNCHANGED disk
        \/ EditSources \/ ReplaceCommand \/ Meddle

Spec == Init /\ [][Next]_vars

-----------------------------------------------------------------------------
(***************************************************************************)
(* What a process has published under a key is not executed again: no      *)
(* other process is past its second look while the entry stands there,     *)
(* whatever the first had seen and whoever died.                           *)
(***************************************************************************)
ExecutedOnce ==
    \A p \in Procs :
        at[p] \in Working \ {"second"} /\ entry[key[p]] # None =>
            entry[key[p]].report.by \in {p, "outside"}

(***************************************************************************)
(* The evidence under a key was produced by the simulator the key names    *)
(* alone, although it may be replaced on disk before, during or after any  *)
(* execution; unless it was put back while a child of the publisher ran,   *)
(* which no comparison of the code can notice.                             *)
(***************************************************************************)
EvidenceBound ==
    \A k \in Keys : entry[k] # None => \/ entry[k].report.used = {k.tool}
                                      \/ entry[k].report.by \in doubt

(***************************************************************************)
(* Calls with the same key that succeed return the same report: a call     *)
(* that finds the key taken when it publishes returns what stands there.   *)
(***************************************************************************)
AnswersAgree ==
    \A p, q \in Procs :
        answer[p] # None /\ answer[q] # None /\ key[p] = key[q] => answer[p] = answer[q]

(***************************************************************************)
(* A call that has ended, by an error of any of its steps too, has given   *)
(* back its claim and removed its temporary directory.                     *)
(***************************************************************************)
EndedClean ==
    \A p \in Procs : at[p] = "ended" => ~temp[p] /\ \A k \in Keys : claim[k] # p
=============================================================================
