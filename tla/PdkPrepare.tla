----------------------------- MODULE PdkPrepare -----------------------------
(***************************************************************************)
(* prepare_ciel_family in src/simcairn/pdk_replay.py: processes that may   *)
(* share their output paths each download the assets of a family, extract  *)
(* them with a zstd child under a watchdog, download the decision, publish *)
(* the tree and write the evidence, none of them over anything that is     *)
(* there; on any failure a process removes what it has made itself, which  *)
(* it knows by the identity (device, inode, mode) of the file.             *)
(*                                                                         *)
(* A file system gives the inode of a removed file to a new one as it      *)
(* likes: a file made where somebody has tidied one away may be its twin,  *)
(* of the same identity. Comparing the identity of a file and removing it  *)
(* are one step here, and a removal removes.                               *)
(***************************************************************************)
EXTENDS Naturals

CONSTANTS
    Preparers, \* processes
    Assets,    \* how many assets the family has
    None

ASSUME PrepareAssumption == /\ Assets \in Nat \ {0}
                            /\ None \notin [by : Preparers, whole : BOOLEAN, twin : BOOLEAN]

Archive(i) == <<"archive", i>>
Target == <<"target", 0>>
Decision == <<"decision", 0>>
Evidence == <<"evidence", 0>>
Paths == {Archive(i) : i \in 1 .. Assets} \cup {Target, Decision, Evidence}

VARIABLES
    files,  \* paths to None or [by, whole, twin]: twin has the identity of the one tidied away
    tidied, \* the paths somebody else has emptied: at most one
    at,     \* the label of each process
    asset,  \* the asset it is at; Assets + 1 for the decision
    mine,   \* the paths whose identities it remembers
    result, \* "none", "ok" or "failed"
    zstd,   \* the child: "none", "running", "ok", "bad", "killed"
    out,    \* its output: "open", "whole", "short" at its end
    dog,    \* the watchdog: "off", "armed", "expired" (about to kill), "done"
    stop,   \* watchdog_stop
    expired \* watchdog_expired

vars == <<files, tidied, at, asset, mine, result, zstd, out, dog, stop, expired>>
child == <<zstd, out, dog, stop, expired>>

ChildLabels == {"stream", "wait", "join", "kill", "reap", "joinfailed"}
Labels == ChildLabels \cup
    {"idle", "observe", "fetch", "follow", "body", "unlink", "start", "extract", "load",
     "merge", "publish", "copy", "write", "close", "rollback", "undecide", "drop", "ended", "dead"}

TypeOK ==
    /\ files \in [Paths -> [by : Preparers, whole : BOOLEAN, twin : BOOLEAN] \cup {None}]
    /\ tidied \subseteq Paths
    /\ at \in [Preparers -> Labels]
    /\ asset \in [Preparers -> 1 .. Assets + 1]
    /\ mine \in [Preparers -> SUBSET Paths]
    /\ result \in [Preparers -> {"none", "ok", "failed"}]
    /\ zstd \in [Preparers -> {"none", "running", "ok", "bad", "killed"}]
    /\ out \in [Preparers -> {"open", "whole", "short"}]
    /\ dog \in [Preparers -> {"off", "armed", "expired", "done"}]
    /\ stop \in [Preparers -> BOOLEAN] /\ expired \in [Preparers -> BOOLEAN]

Init ==
    /\ files = [f \in Paths |-> None]
    /\ tidied = {}
    /\ at = [p \in Preparers |-> "idle"]
    /\ asset = [p \in Preparers |-> 1]
    /\ mine = [p \in Preparers |-> {}]
    /\ result = [p \in Preparers |-> "none"]
    /\ zstd = [p \in Preparers |-> "none"]
    /\ out = [p \in Preparers |-> "open"]
    /\ dog = [p \in Preparers |-> "off"]
    /\ stop = [p \in Preparers |-> FALSE]
    /\ expired = [p \in Preparers |-> FALSE]

Goto(p, l) == at' = [at EXCEPT ![p] = l]
Move(p, l, m) == at[p] = l /\ Goto(p, m)
(* An error before the clean-up is due, and one after *)
Refuse(p, l) == Move(p, l, "ended") /\ result' = [result EXCEPT ![p] = "failed"]
Fail(p, l) == Move(p, l, "rollback") /\ result' = [result EXCEPT ![p] = "failed"]

Free(f) == files[f] = None
(* Exclusive creation: a link, mkdir or open "x" that fails if the name exists *)
Create(p, f, w) ==
    /\ Free(f)
    /\ \E t \in BOOLEAN : /\ t => f \in tidied
                          /\ files' = [files EXCEPT ![f] = [by |-> p, whole |-> w, twin |-> t]]
    /\ mine' = [mine EXCEPT ![p] = @ \cup {f}]
By(f, p) == files[f] # None /\ files[f].by = p
(* Through the directory or the handle that is open: the identity is not asked *)
Finish(f) == files' = [files EXCEPT ![f] = [by |-> @.by, whole |-> TRUE, twin |-> @.twin]]

(* What is there has the identity of what the process made there *)
Owned(p, f) == f \in mine[p] /\ files[f] # None /\ (files[f].by = p \/ files[f].twin)
(* Mutant: the path is enough *)
RemoveOwnedByPath(p, S) ==
    files' = [f \in Paths |-> IF f \in S /\ files[f] # None THEN None ELSE files[f]]
RemoveOwned(p, S) == files' = [f \in Paths |-> IF f \in S /\ Owned(p, f) THEN None ELSE files[f]]

-----------------------------------------------------------------------------
(* The inventory, the outputs and the observations *)

(* An output that exists is refused before anything is done *)
Begin(p) ==
    /\ \/ Free(Target) /\ Free(Decision) /\ Free(Evidence)
          /\ Move(p, "idle", "observe") /\ UNCHANGED result
       \/ Refuse(p, "idle")
    /\ UNCHANGED <<files, tidied, asset, mine, child>>

(* The repository and the release as the API shows them; no redirect is followed *)
Observe(p) ==
    /\ \/ Move(p, "observe", "fetch") /\ UNCHANGED result
       \/ Refuse(p, "observe")
    /\ UNCHANGED <<files, tidied, asset, mine, child>>

-----------------------------------------------------------------------------
(* download_exact *)

Fetching(p) == IF asset[p] <= Assets THEN Archive(asset[p]) ELSE Decision
(* Exactly one request, of which a redirect to an allowed host is followed by hand *)
Fetch(p) ==
    /\ \/ /\ Free(Fetching(p))
          /\ Move(p, "fetch", "follow") \/ Move(p, "fetch", "body")
          /\ UNCHANGED result
       \/ Fail(p, "fetch")
    /\ UNCHANGED <<files, tidied, asset, mine, child>>

Follow(p) ==
    /\ \/ Move(p, "follow", "body") /\ UNCHANGED result
       \/ Fail(p, "follow")
    /\ UNCHANGED <<files, tidied, asset, mine, child>>

(* The body, of the locked size and digest, gets its name by a link from a staging file *)
Body(p) ==
    /\ \/ Create(p, Fetching(p), TRUE) /\ Move(p, "body", "unlink") /\ UNCHANGED result
       \/ Fail(p, "body") /\ UNCHANGED <<files, mine>>
    /\ UNCHANGED <<tidied, asset, child>>

(* If the staging file cannot be removed the download is taken back *)
Unlink(p) ==
    /\ \/ /\ Move(p, "unlink", IF asset[p] <= Assets THEN "start" ELSE "load")
          /\ UNCHANGED <<files, mine, result>>
       \/ /\ Fail(p, "unlink")
          /\ RemoveOwned(p, {Fetching(p)})
          /\ mine' = [mine EXCEPT ![p] = @ \ {Fetching(p)}]
    /\ UNCHANGED <<tidied, asset, child>>

-----------------------------------------------------------------------------
(* _extract_zstd_archive: the child, the watchdog and the process *)

Files == <<files, tidied, asset, mine>>

StartZstd(p) ==
    /\ \/ /\ Move(p, "start", "stream") /\ UNCHANGED result
          /\ zstd' = [zstd EXCEPT ![p] = "running"]
          /\ out' = [out EXCEPT ![p] = "open"]
          /\ dog' = [dog EXCEPT ![p] = "armed"]
          /\ stop' = [stop EXCEPT ![p] = FALSE]
          /\ expired' = [expired EXCEPT ![p] = FALSE]
       \/ Fail(p, "start") /\ UNCHANGED child
    /\ UNCHANGED Files

(* A child that has ended, and its watchdog, are of no interest any more *)
ForgetChild(p) ==
    /\ zstd' = [zstd EXCEPT ![p] = IF @ = "running" THEN @ ELSE "none"]
    /\ out' = [out EXCEPT ![p] = "open"]
    /\ dog' = [dog EXCEPT ![p] = "off"]
    /\ stop' = [stop EXCEPT ![p] = FALSE]
    /\ expired' = [expired EXCEPT ![p] = FALSE]

(* The child may stall for ever, close its output early, and exit as it likes *)
ChildCloses(p) ==
    /\ zstd[p] = "running" /\ out[p] = "open"
    /\ \E o \in {"whole", "short"} : out' = [out EXCEPT ![p] = o]
    /\ UNCHANGED <<Files, at, result, zstd, dog, stop, expired>>

ChildExits(p) ==
    /\ zstd[p] = "running" /\ out[p] # "open"
    /\ \E how \in {"ok", "bad"} : zstd' = [zstd EXCEPT ![p] = how]
    /\ UNCHANGED <<Files, at, result, out, dog, stop, expired>>

Kill(p) ==
    /\ zstd' = [zstd EXCEPT ![p] = IF @ = "running" THEN "killed" ELSE @]
    /\ out' = [out EXCEPT ![p] = IF @ = "open" /\ zstd[p] = "running" THEN "short" ELSE @]

(* The deadline is over: the watchdog polls the child and marks it before killing it *)
DogBarks(p) ==
    /\ dog[p] = "armed"
    /\ IF zstd[p] = "running"
       THEN /\ dog' = [dog EXCEPT ![p] = "expired"]
            /\ expired' = [expired EXCEPT ![p] = TRUE]
       ELSE dog' = [dog EXCEPT ![p] = "done"] /\ UNCHANGED expired
    /\ UNCHANGED <<Files, at, result, zstd, out, stop>>

(* Mutant: the child is marked, not killed *)
DogBitesNot(p) ==
    /\ dog[p] = "expired"
    /\ dog' = [dog EXCEPT ![p] = "done"]
    /\ UNCHANGED <<Files, at, result, zstd, out, stop, expired>>

DogBites(p) ==
    /\ dog[p] = "expired"
    /\ Kill(p)
    /\ dog' = [dog EXCEPT ![p] = "done"]
    /\ UNCHANGED <<Files, at, result, stop, expired>>

DogStops(p) ==
    /\ dog[p] = "armed" /\ stop[p]
    /\ dog' = [dog EXCEPT ![p] = "done"]
    /\ UNCHANGED <<Files, at, result, zstd, out, stop, expired>>

(* The stream ends with the locked size and digest, or it is wrong *)
Stream(p) ==
    /\ \/ out[p] = "whole" /\ Move(p, "stream", "wait")
       \/ out[p] = "short" /\ Move(p, "stream", "kill")
       \/ out[p] = "open" /\ Move(p, "stream", "kill") \* longer than locked
    /\ UNCHANGED <<Files, result, child>>

(* The child is waited for; after 30 seconds it is marked, killed and reaped *)
WaitZstd(p) ==
    /\ \/ /\ zstd[p] # "running" /\ Move(p, "wait", "join")
          /\ stop' = [stop EXCEPT ![p] = TRUE]
          /\ UNCHANGED <<zstd, out, expired>>
       \/ /\ zstd[p] = "running" /\ Move(p, "wait", "kill")
          /\ expired' = [expired EXCEPT ![p] = TRUE]
          /\ Kill(p)
          /\ UNCHANGED stop
    /\ UNCHANGED <<Files, result, dog>>

(* Mutant: only the exit status is looked at *)
JoinThreadsNot(p) ==
    /\ \/ zstd[p] = "ok" /\ Move(p, "join", "extract")
       \/ zstd[p] # "ok" /\ Move(p, "join", "kill")
    /\ UNCHANGED <<Files, result, child>>

(* Both threads are joined before their marks and the exit status are believed *)
JoinThreads(p) ==
    /\ \/ /\ dog[p] = "done" /\ ~expired[p] /\ zstd[p] = "ok"
          /\ Move(p, "join", "extract")
       \/ Move(p, "join", "kill") \* expired, a bad status or too many diagnostics
    /\ UNCHANGED <<Files, result, child>>

(* The handler of any of these errors *)
KillZstd(p) ==
    /\ Move(p, "kill", "reap")
    /\ Kill(p)
    /\ UNCHANGED <<Files, result, dog, stop, expired>>

Reap(p) ==
    /\ Move(p, "reap", "joinfailed")
    /\ stop' = [stop EXCEPT ![p] = TRUE]
    /\ UNCHANGED <<Files, result, zstd, out, dog, expired>>

JoinFailed(p) ==
    /\ dog[p] = "done"
    /\ Fail(p, "joinfailed")
    /\ ForgetChild(p)
    /\ UNCHANGED Files

(* The tar is scanned, its locked members are written and merged into the staging tree *)
Extract(p) ==
    /\ \/ /\ Move(p, "extract", "fetch") /\ UNCHANGED result
          /\ asset' = [asset EXCEPT ![p] = @ + 1]
       \/ Fail(p, "extract") /\ UNCHANGED asset
    /\ ForgetChild(p)
    /\ UNCHANGED <<files, tidied, mine>>

-----------------------------------------------------------------------------
(* The outputs *)

LoadDecision(p) ==
    /\ \/ Move(p, "load", "merge") /\ UNCHANGED result
       \/ Fail(p, "load")
    /\ UNCHANGED <<Files, child>>

(* The merged files are exactly those of the allowlist *)
Merge(p) ==
    /\ \/ Move(p, "merge", "publish") /\ UNCHANGED result
       \/ Fail(p, "merge")
    /\ UNCHANGED <<Files, child>>

(* Mutant: the evidence comes before the tree is complete *)
PublishTreeEarly(p) ==
    /\ \/ Create(p, Target, FALSE) /\ Move(p, "publish", "write") /\ UNCHANGED result
       \/ Fail(p, "publish") /\ UNCHANGED <<files, mine>>
    /\ UNCHANGED <<tidied, asset, child>>

PublishTree(p) ==
    /\ \/ Create(p, Target, FALSE) /\ Move(p, "publish", "copy") /\ UNCHANGED result
       \/ Fail(p, "publish") /\ UNCHANGED <<files, mine>>
    /\ UNCHANGED <<tidied, asset, child>>

(* The copies are digested again *)
Copy(p) ==
    /\ \/ /\ By(Target, p) /\ Finish(Target)
          /\ Move(p, "copy", "write") /\ UNCHANGED <<mine, result>>
       \/ /\ Fail(p, "copy") /\ RemoveOwned(p, {Target})
          /\ mine' = [mine EXCEPT ![p] = @ \ {Target}]
    /\ UNCHANGED <<tidied, asset, child>>

WriteEvidence(p) ==
    /\ \/ Create(p, Evidence, FALSE) /\ Move(p, "write", "close") /\ UNCHANGED result
       \/ Fail(p, "write") /\ UNCHANGED <<files, mine>>
    /\ UNCHANGED <<tidied, asset, child>>

CloseEvidence(p) ==
    /\ \/ /\ IF By(Evidence, p) THEN Finish(Evidence) ELSE UNCHANGED files
          /\ Move(p, "close", "drop")
          /\ result' = [result EXCEPT ![p] = "ok"] /\ UNCHANGED mine
       \/ /\ Fail(p, "close") /\ RemoveOwned(p, {Evidence})
          /\ mine' = [mine EXCEPT ![p] = @ \ {Evidence}]
    /\ UNCHANGED <<tidied, asset, child>>

-----------------------------------------------------------------------------
(* The clean-up *)

Rollback(p) ==
    /\ Move(p, "rollback", "undecide")
    /\ RemoveOwned(p, {Target})
    /\ UNCHANGED <<tidied, asset, mine, result, child>>

(* Mutant: the decision stays *)
UndecideNot(p) ==
    /\ Move(p, "undecide", "drop")
    /\ RemoveOwned(p, {Evidence})
    /\ UNCHANGED <<tidied, asset, mine, result, child>>

Undecide(p) ==
    /\ Move(p, "undecide", "drop")
    /\ RemoveOwned(p, {Decision, Evidence})
    /\ UNCHANGED <<tidied, asset, mine, result, child>>

Archives == {Archive(i) : i \in 1 .. Assets}
DropArchives(p) ==
    /\ Move(p, "drop", "ended")
    /\ RemoveOwned(p, Archives)
    /\ asset' = [asset EXCEPT ![p] = 1] /\ mine' = [mine EXCEPT ![p] = {}]
    /\ UNCHANGED <<tidied, result, child>>

(* The process dies between two steps, and what it wrote stays; a child without *)
(* a reader ends too. A machine that stops is not meant: copies are not synced   *)
Die(p) ==
    /\ at[p] \notin {"idle", "ended", "dead"}
    /\ Goto(p, "dead")
    /\ zstd' = [zstd EXCEPT ![p] = "none"] /\ out' = [out EXCEPT ![p] = "open"]
    /\ dog' = [dog EXCEPT ![p] = "off"]
    /\ stop' = [stop EXCEPT ![p] = FALSE] /\ expired' = [expired EXCEPT ![p] = FALSE]
    /\ asset' = [asset EXCEPT ![p] = 1] /\ mine' = [mine EXCEPT ![p] = {}]
    /\ UNCHANGED <<files, tidied, result>>

(* Somebody removes a file that stands in the way *)
Tidy(f) ==
    /\ tidied = {} /\ ~Free(f) /\ files[f].whole
    /\ tidied' = {f}
    /\ files' = [files EXCEPT ![f] = None]
    /\ UNCHANGED <<at, asset, mine, result, child>>

Work(p) ==
    \/ Begin(p) \/ Observe(p) \/ Fetch(p) \/ Follow(p) \/ Body(p) \/ Unlink(p)
    \/ StartZstd(p) \/ WaitZstd(p) \/ JoinThreads(p) \/ KillZstd(p) \/ Reap(p) \/ JoinFailed(p)
    \/ Extract(p) \/ LoadDecision(p) \/ Merge(p) \/ PublishTree(p) \/ Copy(p)
    \/ WriteEvidence(p) \/ CloseEvidence(p) \/ Rollback(p) \/ Undecide(p) \/ DropArchives(p)
Watch(p) == DogBarks(p) \/ DogBites(p) \/ DogStops(p)

Next == \/ \E p \in Preparers : \/ Work(p) \/ Stream(p) \/ Watch(p) \/ Die(p)
                                \/ ChildCloses(p) \/ ChildExits(p)
        \/ \E f \in Paths : Tidy(f)

Spec == Init /\ [][Next]_vars

(* The process and its watchdog run, and a read returns when the output has ended; *)
(* the child owes nothing.                                                          *)
FairSpec == /\ Spec
            /\ \A p \in Preparers : /\ WF_vars(Work(p)) /\ WF_vars(Watch(p))
                                    /\ WF_vars(out[p] # "open" /\ Stream(p))

-----------------------------------------------------------------------------
(***************************************************************************)
(* Evidence is whole only beside the whole tree and decision of the same   *)
(* process, whatever failed or died before: it is the last thing written   *)
(* and nothing that was there is written over.                             *)
(***************************************************************************)
EvidenceLast ==
    files[Evidence] # None /\ files[Evidence].whole =>
        \A f \in {Target, Decision} \ tidied :
            By(f, files[Evidence].by) /\ files[f].whole

(***************************************************************************)
(* A process that fails, at whichever step, leaves none of its files.      *)
(***************************************************************************)
FailedLeavesNothing ==
    \A p \in Preparers : at[p] = "ended" /\ result[p] = "failed" =>
        \A f \in Paths : ~By(f, p)

(***************************************************************************)
(* A process removes no file another process made, although it can find    *)
(* one at a path it had made itself before; unless the file is a twin of   *)
(* the one it made, for then device, inode and mode are all the same.      *)
(***************************************************************************)
OthersKept ==
    [][\A f \in Paths :
          files[f] # None /\ ~files[f].twin /\ files'[f] # files[f] /\ tidied' = tidied =>
             at'[files[f].by] # at[files[f].by]]_vars

(***************************************************************************)
(* An archive is extracted only if zstd ended by itself with status 0 and  *)
(* its output was whole; whether the watchdog was about to kill it is      *)
(* known before the output is used.                                        *)
(***************************************************************************)
HonestExtraction ==
    \A p \in Preparers : at[p] = "extract" =>
        zstd[p] = "ok" /\ out[p] = "whole" /\ dog[p] = "done" /\ ~expired[p]

(* A preparation ends, and no zstd with it, however long zstd stalls. *)
PreparationEnds ==
    \A p \in Preparers : at[p] # "idle" ~> at[p] \in {"ended", "dead"} /\ zstd[p] # "running"
=============================================================================
