-------------------------- MODULE PdkPrepareProofs --------------------------
(***************************************************************************)
(* Proofs about PdkPrepare for any number of processes and assets: what a  *)
(* process has made and remembers at each label, and that no step of one   *)
(* touches what another has made.                                          *)
(***************************************************************************)
EXTENDS PdkPrepare, TLAPS

Undisturbed(f, p) == f \notin tidied => By(f, p) /\ files[f].whole

(* What a process has made, by its label, and what it knows of its child *)
Made(p) ==
    /\ at[p] \in {"idle", "observe"} => \A f \in Paths : ~By(f, p)
    /\ at[p] \notin {"ended", "dead"} => \A f \in Paths : By(f, p) => f \in mine[p]
    /\ at[p] = "undecide" => ~By(Target, p)
    /\ at[p] = "drop" /\ result[p] = "failed" => \A f \in {Target, Decision, Evidence} : ~By(f, p)
    /\ at[p] = "ended" /\ result[p] = "failed" => \A f \in Paths : ~By(f, p)

Ready(p) ==
    /\ at[p] \in {"load", "merge", "publish", "copy", "write", "close"} => Undisturbed(Decision, p)
    /\ at[p] = "unlink" /\ asset[p] > Assets => Undisturbed(Decision, p)
    /\ at[p] \in {"write", "close"} => Undisturbed(Target, p)

Child(p) ==
    /\ at[p] \in ChildLabels \cup {"start", "extract"} => asset[p] <= Assets
    /\ at[p] \in {"wait", "join", "extract"} => out[p] = "whole"
    /\ at[p] = "extract" => zstd[p] = "ok" /\ dog[p] = "done" /\ ~expired[p]

(* The author of whole evidence is past everything that could remove it *)
Sealed ==
    files[Evidence] # None /\ files[Evidence].whole =>
        at[files[Evidence].by] \in {"drop", "ended", "dead"}

(* Only where a file was tidied away can another have its identity *)
Twins == \A f \in Paths : files[f] # None /\ files[f].twin => f \in tidied

IInv == /\ TypeOK /\ Sealed /\ EvidenceLast /\ Twins
        /\ \A p \in Preparers : Made(p) /\ Ready(p) /\ Child(p)

(* All a process, its child and its watchdog do *)
Step(p) == Work(p) \/ Stream(p) \/ Watch(p) \/ Die(p) \/ ChildCloses(p) \/ ChildExits(p)

(* The names are different, and a fetch is of one of them.                 *)
LEMMA Names ==
    /\ Target \in Paths /\ Decision \in Paths /\ Evidence \in Paths /\ Archives \subseteq Paths
    /\ Target # Decision /\ Target # Evidence /\ Decision # Evidence
    /\ Target \notin Archives /\ Decision \notin Archives /\ Evidence \notin Archives
    /\ Paths = Archives \cup {Target, Decision, Evidence}
BY DEF Paths, Archives, Archive, Target, Decision, Evidence

(* A process fetches its next archive, or the decision.                    *)
LEMMA Fetches ==
    ASSUME TypeOK, NEW p \in Preparers
    PROVE  /\ Fetching(p) \in Archives \cup {Decision} /\ Fetching(p) \in Paths
           /\ asset[p] > Assets => Fetching(p) = Decision
           /\ asset[p] <= Assets => Fetching(p) \in Archives
BY Names, PrepareAssumption DEF TypeOK, Fetching, Archives

(* Exclusive creation makes one file and remembers it.                     *)
LEMMA Creates ==
    ASSUME TypeOK, NEW p \in Preparers, NEW f \in Paths, NEW w \in BOOLEAN, Create(p, f, w)
    PROVE  /\ files' \in [Paths -> [by : Preparers, whole : BOOLEAN, twin : BOOLEAN] \cup {None}]
           /\ mine' \in [Preparers -> SUBSET Paths]
           /\ files[f] = None /\ f \in mine'[p]
           /\ By(f, p)' /\ files'[f].whole = w /\ (files'[f].twin => f \in tidied)
           /\ \A g \in Paths \ {f} : files'[g] = files[g]
           /\ \A q \in Preparers \ {p} : mine'[q] = mine[q]
           /\ mine[p] \subseteq mine'[p]
<1>1. PICK t \in BOOLEAN : /\ t => f \in tidied
                          /\ files' = [files EXCEPT ![f] = [by |-> p, whole |-> w, twin |-> t]]
  BY DEF Create
<1>2. /\ [by |-> p, whole |-> w, twin |-> t] \in [by : Preparers, whole : BOOLEAN, twin : BOOLEAN]
      /\ mine[p] \cup {f} \in SUBSET Paths
  BY DEF TypeOK
<1>3. files'[f] = [by |-> p, whole |-> w, twin |-> t] /\ files'[f] # None
  BY <1>1, <1>2, PrepareAssumption DEF TypeOK
<1>4. By(f, p)' /\ files'[f].whole = w /\ (files'[f].twin => f \in tidied)
  BY <1>1, <1>3 DEF By
<1>5. /\ files' \in [Paths -> [by : Preparers, whole : BOOLEAN, twin : BOOLEAN] \cup {None}]
      /\ \A g \in Paths \ {f} : files'[g] = files[g]
  BY <1>1, <1>2 DEF TypeOK
<1>6. /\ mine' \in [Preparers -> SUBSET Paths] /\ files[f] = None /\ f \in mine'[p]
      /\ \A q \in Preparers \ {p} : mine'[q] = mine[q]
      /\ mine[p] \subseteq mine'[p]
  BY <1>2 DEF TypeOK, Create, Free
<1> QED
  BY <1>4, <1>5, <1>6

(* A file that is finished keeps its author and its identity.              *)
LEMMA Finishes ==
    ASSUME TypeOK, NEW p \in Preparers, NEW f \in Paths, By(f, p), Finish(f)
    PROVE  /\ files' \in [Paths -> [by : Preparers, whole : BOOLEAN, twin : BOOLEAN] \cup {None}]
           /\ By(f, p)' /\ files'[f].whole /\ files'[f].twin = files[f].twin
           /\ \A g \in Paths \ {f} : files'[g] = files[g]
<1>1. files[f] \in [by : Preparers, whole : BOOLEAN, twin : BOOLEAN] /\ files[f].by = p
  BY DEF TypeOK, By
<1>2. files[f] = [by |-> p, whole |-> files[f].whole, twin |-> files[f].twin] /\ files[f].twin \in BOOLEAN
  BY <1>1
<1>4. files' = [files EXCEPT ![f] = [by |-> p, whole |-> TRUE, twin |-> files[f].twin]]
  BY <1>1 DEF Finish
<1>5. [by |-> p, whole |-> TRUE, twin |-> files[f].twin] \in [by : Preparers, whole : BOOLEAN, twin : BOOLEAN]
  BY <1>2
<1>6. /\ files'[f] = [by |-> p, whole |-> TRUE, twin |-> files[f].twin] /\ files'[f] # None
      /\ files' \in [Paths -> [by : Preparers, whole : BOOLEAN, twin : BOOLEAN] \cup {None}]
      /\ \A g \in Paths \ {f} : files'[g] = files[g]
  BY <1>4, <1>5, PrepareAssumption DEF TypeOK
<1>7. By(f, p)' /\ files'[f].whole /\ files'[f].twin = files[f].twin
  BY <1>6 DEF By
<1> QED
  BY <1>6, <1>7

(* A removal is of a process's own files and of the twins of its own; what *)
(* it remembers and has made itself is gone after it.                      *)
LEMMA Removes ==
    ASSUME TypeOK, NEW p \in Preparers, NEW S, RemoveOwned(p, S),
           \A g \in Paths : By(g, p) => g \in mine[p]
    PROVE  /\ files' \in [Paths -> [by : Preparers, whole : BOOLEAN, twin : BOOLEAN] \cup {None}]
           /\ \A g \in Paths : \/ files'[g] = files[g]
                             \/ /\ g \in S /\ files[g] # None /\ files'[g] = None
                                /\ By(g, p) \/ files[g].twin
           /\ \A g \in Paths \cap S : ~By(g, p)'
<1>1. \A g \in Paths : files'[g] = IF g \in S /\ Owned(p, g) THEN None ELSE files[g]
  BY DEF RemoveOwned
<1>2. files' \in [Paths -> [by : Preparers, whole : BOOLEAN, twin : BOOLEAN] \cup {None}]
  BY DEF RemoveOwned, TypeOK
<1>3. \A g \in Paths : \/ files'[g] = files[g]
                      \/ /\ g \in S /\ files[g] # None /\ files'[g] = None
                         /\ By(g, p) \/ files[g].twin
  BY <1>1 DEF Owned, By
<1>4. ASSUME NEW g \in Paths \cap S PROVE ~By(g, p)'
  BY <1>1 DEF Owned, By
<1> QED
  BY <1>2, <1>3, <1>4

(* What one step of a process may do to the files and to the others: it    *)
(* makes a file where there is none, and finishes its own; what it removes *)
(* is its own or has the identity of a file somebody has tidied away.      *)
Change(p, f) ==
    \/ files'[f] = files[f]
    \/ /\ files[f] = None /\ By(f, p)' /\ f \in mine'[p] /\ at[p] \in {"body", "publish", "write"}
       /\ files'[f].whole => f # Evidence
       /\ files'[f].twin => f \in tidied
    \/ /\ By(f, p) /\ By(f, p)' /\ files'[f].whole /\ files'[f].twin = files[f].twin
       /\ \/ at[p] = "copy" /\ f = Target
          \/ at[p] = "close" /\ f = Evidence /\ at'[p] = "drop"
    \/ /\ files[f] # None /\ files'[f] = None
       /\ \/ files[f].twin
          \/ /\ By(f, p)
             /\ \/ at[p] \in {"unlink", "copy", "rollback", "undecide"}
                \/ at[p] = "close" /\ f = Evidence
                \/ at[p] = "drop" /\ f \in Archives
Frame(p) ==
    /\ tidied' = tidied
    /\ \A q \in Preparers \ {p} :
          /\ at'[q] = at[q] /\ asset'[q] = asset[q] /\ mine'[q] = mine[q] /\ result'[q] = result[q]
          /\ zstd'[q] = zstd[q] /\ out'[q] = out[q] /\ dog'[q] = dog[q] /\ expired'[q] = expired[q]
    /\ at[p] \in {"drop", "ended", "dead"} => at'[p] \in {"drop", "ended", "dead"}
    /\ \A f \in Paths : Change(p, f)
    /\ at'[p] # at[p] \/ \A f \in Paths : files'[f] = files[f]

(* A process begins, or refuses to. *)
LEMMA BeginDoes ==
    ASSUME NEW p \in Preparers, IInv, Begin(p)
    PROVE  TypeOK' /\ Frame(p) /\ Made(p)' /\ Ready(p)' /\ Child(p)'
<1>s. TypeOK /\ Made(p) /\ Ready(p) /\ Child(p) /\ Begin(p)
  BY DEF IInv
<1>1. TypeOK'
  BY <1>s, PrepareAssumption DEF TypeOK, Labels, ChildLabels, Child, Begin, Refuse, Move, Goto, Free, child
<1>2. Frame(p)
  BY <1>s DEF TypeOK, Frame, Change, Begin, Refuse, Move, Goto, Free, child
<1>3. Made(p)'
  BY <1>s DEF TypeOK, Made, By, Begin, Refuse, Move, Goto, Free, child
<1>4. Ready(p)'
  BY <1>s, PrepareAssumption DEF TypeOK, Ready, Undisturbed, By, Child, ChildLabels, Begin, Refuse, Move, Goto, Free, child
<1>5. Child(p)'
  BY <1>s, PrepareAssumption DEF TypeOK, Child, ChildLabels, Begin, Refuse, Move, Goto, Free, child
<1> QED
  BY <1>1, <1>2, <1>3, <1>4, <1>5

(* Nothing is made while the release is observed. *)
LEMMA ObserveDoes ==
    ASSUME NEW p \in Preparers, IInv, Observe(p)
    PROVE  TypeOK' /\ Frame(p) /\ Made(p)' /\ Ready(p)' /\ Child(p)'
<1>s. TypeOK /\ Made(p) /\ Ready(p) /\ Child(p) /\ Observe(p)
  BY DEF IInv
<1>1. TypeOK'
  BY <1>s, PrepareAssumption DEF TypeOK, Labels, ChildLabels, Child, Observe, Refuse, Move, Goto, child
<1>2. Frame(p)
  BY <1>s DEF TypeOK, Frame, Change, Observe, Refuse, Move, Goto, child
<1>3. Made(p)'
  BY <1>s DEF TypeOK, Made, By, Observe, Refuse, Move, Goto, child
<1>4. Ready(p)'
  BY <1>s, PrepareAssumption DEF TypeOK, Ready, Undisturbed, By, Child, ChildLabels, Observe, Refuse, Move, Goto, child
<1>5. Child(p)'
  BY <1>s, PrepareAssumption DEF TypeOK, Child, ChildLabels, Observe, Refuse, Move, Goto, child
<1> QED
  BY <1>1, <1>2, <1>3, <1>4, <1>5

(* A request makes no file. *)
LEMMA FetchDoes ==
    ASSUME NEW p \in Preparers, IInv, Fetch(p)
    PROVE  TypeOK' /\ Frame(p) /\ Made(p)' /\ Ready(p)' /\ Child(p)'
<1>s. TypeOK /\ Made(p) /\ Ready(p) /\ Child(p) /\ Fetch(p)
  BY DEF IInv
<1>1. TypeOK'
  BY <1>s, PrepareAssumption DEF TypeOK, Labels, ChildLabels, Child, Fetch, Fail, Move, Goto, Free, child
<1>2. Frame(p)
  BY <1>s DEF TypeOK, Frame, Change, Fetch, Fail, Move, Goto, Free, child
<1>3. Made(p)'
  BY <1>s DEF TypeOK, Made, By, Fetch, Fail, Move, Goto, Free, child
<1>4. Ready(p)'
  BY <1>s, PrepareAssumption DEF TypeOK, Ready, Undisturbed, By, Child, ChildLabels, Fetch, Fail, Move, Goto, Free, child
<1>5. Child(p)'
  BY <1>s, PrepareAssumption DEF TypeOK, Child, ChildLabels, Fetch, Fail, Move, Goto, Free, child
<1> QED
  BY <1>1, <1>2, <1>3, <1>4, <1>5

(* A redirect makes no file. *)
LEMMA FollowDoes ==
    ASSUME NEW p \in Preparers, IInv, Follow(p)
    PROVE  TypeOK' /\ Frame(p) /\ Made(p)' /\ Ready(p)' /\ Child(p)'
<1>s. TypeOK /\ Made(p) /\ Ready(p) /\ Child(p) /\ Follow(p)
  BY DEF IInv
<1>1. TypeOK'
  BY <1>s, PrepareAssumption DEF TypeOK, Labels, ChildLabels, Child, Follow, Fail, Move, Goto, child
<1>2. Frame(p)
  BY <1>s DEF TypeOK, Frame, Change, Follow, Fail, Move, Goto, child
<1>3. Made(p)'
  BY <1>s DEF TypeOK, Made, By, Follow, Fail, Move, Goto, child
<1>4. Ready(p)'
  BY <1>s, PrepareAssumption DEF TypeOK, Ready, Undisturbed, By, Child, ChildLabels, Follow, Fail, Move, Goto, child
<1>5. Child(p)'
  BY <1>s, PrepareAssumption DEF TypeOK, Child, ChildLabels, Follow, Fail, Move, Goto, child
<1> QED
  BY <1>1, <1>2, <1>3, <1>4, <1>5

(* The child of an archive starts. *)
LEMMA StartZstdDoes ==
    ASSUME NEW p \in Preparers, IInv, StartZstd(p)
    PROVE  TypeOK' /\ Frame(p) /\ Made(p)' /\ Ready(p)' /\ Child(p)'
<1>s. TypeOK /\ Made(p) /\ Ready(p) /\ Child(p) /\ StartZstd(p)
  BY DEF IInv
<1>1. TypeOK'
  BY <1>s, PrepareAssumption DEF TypeOK, Labels, ChildLabels, Child, StartZstd, Fail, Move, Goto, Files, child
<1>2. Frame(p)
  BY <1>s DEF TypeOK, Frame, Change, StartZstd, Fail, Move, Goto, Files, child
<1>3. Made(p)'
  BY <1>s DEF TypeOK, Made, By, StartZstd, Fail, Move, Goto, Files, child
<1>4. Ready(p)'
  BY <1>s, PrepareAssumption DEF TypeOK, Ready, Undisturbed, By, Child, ChildLabels, StartZstd, Fail, Move, Goto, Files, child
<1>5. Child(p)'
  BY <1>s, PrepareAssumption DEF TypeOK, Child, ChildLabels, StartZstd, Fail, Move, Goto, Files, child
<1> QED
  BY <1>1, <1>2, <1>3, <1>4, <1>5

(* The child has ended, or is killed; its output was whole. *)
LEMMA WaitZstdDoes ==
    ASSUME NEW p \in Preparers, IInv, WaitZstd(p)
    PROVE  TypeOK' /\ Frame(p) /\ Made(p)' /\ Ready(p)' /\ Child(p)'
<1>s. TypeOK /\ Made(p) /\ Ready(p) /\ Child(p) /\ WaitZstd(p)
  BY DEF IInv
<1>1. TypeOK'
  BY <1>s, PrepareAssumption DEF TypeOK, Labels, ChildLabels, Child, WaitZstd, Kill, Move, Goto, Files
<1>2. Frame(p)
  BY <1>s DEF TypeOK, Frame, Change, WaitZstd, Kill, Move, Goto, Files
<1>3. Made(p)'
  BY <1>s DEF TypeOK, Made, By, WaitZstd, Kill, Move, Goto, Files
<1>4. Ready(p)'
  BY <1>s, PrepareAssumption DEF TypeOK, Ready, Undisturbed, By, Child, ChildLabels, WaitZstd, Kill, Move, Goto, Files
<1>5. Child(p)'
  BY <1>s, PrepareAssumption DEF TypeOK, Child, ChildLabels, WaitZstd, Kill, Move, Goto, Files
<1> QED
  BY <1>1, <1>2, <1>3, <1>4, <1>5

(* A child is believed once the watchdog has ended. *)
LEMMA JoinThreadsDoes ==
    ASSUME NEW p \in Preparers, IInv, JoinThreads(p)
    PROVE  TypeOK' /\ Frame(p) /\ Made(p)' /\ Ready(p)' /\ Child(p)'
<1>s. TypeOK /\ Made(p) /\ Ready(p) /\ Child(p) /\ JoinThreads(p)
  BY DEF IInv
<1>1. TypeOK'
  BY <1>s, PrepareAssumption DEF TypeOK, Labels, ChildLabels, Child, JoinThreads, Move, Goto, Files, child
<1>2. Frame(p)
  BY <1>s DEF TypeOK, Frame, Change, JoinThreads, Move, Goto, Files, child
<1>3. Made(p)'
  BY <1>s DEF TypeOK, Made, By, JoinThreads, Move, Goto, Files, child
<1>4. Ready(p)'
  BY <1>s, PrepareAssumption DEF TypeOK, Ready, Undisturbed, By, Child, ChildLabels, JoinThreads, Move, Goto, Files, child
<1>5. Child(p)'
  BY <1>s, PrepareAssumption DEF TypeOK, Child, ChildLabels, JoinThreads, Move, Goto, Files, child
<1> QED
  BY <1>1, <1>2, <1>3, <1>4, <1>5

(* The child is killed. *)
LEMMA KillZstdDoes ==
    ASSUME NEW p \in Preparers, IInv, KillZstd(p)
    PROVE  TypeOK' /\ Frame(p) /\ Made(p)' /\ Ready(p)' /\ Child(p)'
<1>s. TypeOK /\ Made(p) /\ Ready(p) /\ Child(p) /\ KillZstd(p)
  BY DEF IInv
<1>1. TypeOK'
  BY <1>s, PrepareAssumption DEF TypeOK, Labels, ChildLabels, Child, KillZstd, Kill, Move, Goto, Files
<1>2. Frame(p)
  BY <1>s DEF TypeOK, Frame, Change, KillZstd, Kill, Move, Goto, Files
<1>3. Made(p)'
  BY <1>s DEF TypeOK, Made, By, KillZstd, Kill, Move, Goto, Files
<1>4. Ready(p)'
  BY <1>s, PrepareAssumption DEF TypeOK, Ready, Undisturbed, By, Child, ChildLabels, KillZstd, Kill, Move, Goto, Files
<1>5. Child(p)'
  BY <1>s, PrepareAssumption DEF TypeOK, Child, ChildLabels, KillZstd, Kill, Move, Goto, Files
<1> QED
  BY <1>1, <1>2, <1>3, <1>4, <1>5

(* The killed child is reaped. *)
LEMMA ReapDoes ==
    ASSUME NEW p \in Preparers, IInv, Reap(p)
    PROVE  TypeOK' /\ Frame(p) /\ Made(p)' /\ Ready(p)' /\ Child(p)'
<1>s. TypeOK /\ Made(p) /\ Ready(p) /\ Child(p) /\ Reap(p)
  BY DEF IInv
<1>1. TypeOK'
  BY <1>s, PrepareAssumption DEF TypeOK, Labels, ChildLabels, Child, Reap, Move, Goto, Files
<1>2. Frame(p)
  BY <1>s DEF TypeOK, Frame, Change, Reap, Move, Goto, Files
<1>3. Made(p)'
  BY <1>s DEF TypeOK, Made, By, Reap, Move, Goto, Files
<1>4. Ready(p)'
  BY <1>s, PrepareAssumption DEF TypeOK, Ready, Undisturbed, By, Child, ChildLabels, Reap, Move, Goto, Files
<1>5. Child(p)'
  BY <1>s, PrepareAssumption DEF TypeOK, Child, ChildLabels, Reap, Move, Goto, Files
<1> QED
  BY <1>1, <1>2, <1>3, <1>4, <1>5

(* The failure goes on to the clean-up. *)
LEMMA JoinFailedDoes ==
    ASSUME NEW p \in Preparers, IInv, JoinFailed(p)
    PROVE  TypeOK' /\ Frame(p) /\ Made(p)' /\ Ready(p)' /\ Child(p)'
<1>s. TypeOK /\ Made(p) /\ Ready(p) /\ Child(p) /\ JoinFailed(p)
  BY DEF IInv
<1>1. TypeOK'
  BY <1>s, PrepareAssumption DEF TypeOK, Labels, ChildLabels, Child, JoinFailed, ForgetChild, Fail, Move, Goto, Files
<1>2. Frame(p)
  BY <1>s DEF TypeOK, Frame, Change, JoinFailed, ForgetChild, Fail, Move, Goto, Files
<1>3. Made(p)'
  BY <1>s DEF TypeOK, Made, By, JoinFailed, ForgetChild, Fail, Move, Goto, Files
<1>4. Ready(p)'
  BY <1>s, PrepareAssumption DEF TypeOK, Ready, Undisturbed, By, Child, ChildLabels, JoinFailed, ForgetChild, Fail, Move, Goto, Files
<1>5. Child(p)'
  BY <1>s, PrepareAssumption DEF TypeOK, Child, ChildLabels, JoinFailed, ForgetChild, Fail, Move, Goto, Files
<1> QED
  BY <1>1, <1>2, <1>3, <1>4, <1>5

(* The next asset, or the clean-up. *)
LEMMA ExtractDoes ==
    ASSUME NEW p \in Preparers, IInv, Extract(p)
    PROVE  TypeOK' /\ Frame(p) /\ Made(p)' /\ Ready(p)' /\ Child(p)'
<1>s. TypeOK /\ Made(p) /\ Ready(p) /\ Child(p) /\ Extract(p)
  BY DEF IInv
<1>1. TypeOK'
  BY <1>s, PrepareAssumption DEF TypeOK, Labels, ChildLabels, Child, Extract, ForgetChild, Fail, Move, Goto
<1>2. Frame(p)
  BY <1>s DEF TypeOK, Frame, Change, Extract, ForgetChild, Fail, Move, Goto
<1>3. Made(p)'
  BY <1>s DEF TypeOK, Made, By, Extract, ForgetChild, Fail, Move, Goto
<1>4. Ready(p)'
  BY <1>s, PrepareAssumption DEF TypeOK, Ready, Undisturbed, By, Child, ChildLabels, Extract, ForgetChild, Fail, Move, Goto
<1>5. Child(p)'
  BY <1>s, PrepareAssumption DEF TypeOK, Child, ChildLabels, Extract, ForgetChild, Fail, Move, Goto
<1> QED
  BY <1>1, <1>2, <1>3, <1>4, <1>5

(* The decision is read. *)
LEMMA LoadDecisionDoes ==
    ASSUME NEW p \in Preparers, IInv, LoadDecision(p)
    PROVE  TypeOK' /\ Frame(p) /\ Made(p)' /\ Ready(p)' /\ Child(p)'
<1>s. TypeOK /\ Made(p) /\ Ready(p) /\ Child(p) /\ LoadDecision(p)
  BY DEF IInv
<1>1. TypeOK'
  BY <1>s, PrepareAssumption DEF TypeOK, Labels, ChildLabels, Child, LoadDecision, Fail, Move, Goto, Files, child
<1>2. Frame(p)
  BY <1>s DEF TypeOK, Frame, Change, LoadDecision, Fail, Move, Goto, Files, child
<1>3. Made(p)'
  BY <1>s DEF TypeOK, Made, By, LoadDecision, Fail, Move, Goto, Files, child
<1>4. Ready(p)'
  BY <1>s, PrepareAssumption DEF TypeOK, Ready, Undisturbed, By, Child, ChildLabels, LoadDecision, Fail, Move, Goto, Files, child
<1>5. Child(p)'
  BY <1>s, PrepareAssumption DEF TypeOK, Child, ChildLabels, LoadDecision, Fail, Move, Goto, Files, child
<1> QED
  BY <1>1, <1>2, <1>3, <1>4, <1>5

(* The allowlist is compared. *)
LEMMA MergeDoes ==
    ASSUME NEW p \in Preparers, IInv, Merge(p)
    PROVE  TypeOK' /\ Frame(p) /\ Made(p)' /\ Ready(p)' /\ Child(p)'
<1>s. TypeOK /\ Made(p) /\ Ready(p) /\ Child(p) /\ Merge(p)
  BY DEF IInv
<1>1. TypeOK'
  BY <1>s, PrepareAssumption DEF TypeOK, Labels, ChildLabels, Child, Merge, Fail, Move, Goto, Files, child
<1>2. Frame(p)
  BY <1>s DEF TypeOK, Frame, Change, Merge, Fail, Move, Goto, Files, child
<1>3. Made(p)'
  BY <1>s DEF TypeOK, Made, By, Merge, Fail, Move, Goto, Files, child
<1>4. Ready(p)'
  BY <1>s, PrepareAssumption DEF TypeOK, Ready, Undisturbed, By, Child, ChildLabels, Merge, Fail, Move, Goto, Files, child
<1>5. Child(p)'
  BY <1>s, PrepareAssumption DEF TypeOK, Child, ChildLabels, Merge, Fail, Move, Goto, Files, child
<1> QED
  BY <1>1, <1>2, <1>3, <1>4, <1>5

(* The output is read to its end. *)
LEMMA StreamDoes ==
    ASSUME NEW p \in Preparers, IInv, Stream(p)
    PROVE  TypeOK' /\ Frame(p) /\ Made(p)' /\ Ready(p)' /\ Child(p)'
<1>s. TypeOK /\ Made(p) /\ Ready(p) /\ Child(p) /\ Stream(p)
  BY DEF IInv
<1>1. TypeOK'
  BY <1>s, PrepareAssumption DEF TypeOK, Labels, ChildLabels, Child, Stream, Move, Goto, Files, child
<1>2. Frame(p)
  BY <1>s DEF TypeOK, Frame, Change, Stream, Move, Goto, Files, child
<1>3. Made(p)'
  BY <1>s DEF TypeOK, Made, By, Stream, Move, Goto, Files, child
<1>4. Ready(p)'
  BY <1>s, PrepareAssumption DEF TypeOK, Ready, Undisturbed, By, Child, ChildLabels, Stream, Move, Goto, Files, child
<1>5. Child(p)'
  BY <1>s, PrepareAssumption DEF TypeOK, Child, ChildLabels, Stream, Move, Goto, Files, child
<1> QED
  BY <1>1, <1>2, <1>3, <1>4, <1>5

(* The watchdog marks the child. *)
LEMMA DogBarksDoes ==
    ASSUME NEW p \in Preparers, IInv, DogBarks(p)
    PROVE  TypeOK' /\ Frame(p) /\ Made(p)' /\ Ready(p)' /\ Child(p)'
<1>s. TypeOK /\ Made(p) /\ Ready(p) /\ Child(p) /\ DogBarks(p)
  BY DEF IInv
<1>1. TypeOK'
  BY <1>s, PrepareAssumption DEF TypeOK, Labels, ChildLabels, Child, DogBarks, Files
<1>2. Frame(p)
  BY <1>s DEF TypeOK, Frame, Change, DogBarks, Files
<1>3. Made(p)'
  BY <1>s DEF TypeOK, Made, By, DogBarks, Files
<1>4. Ready(p)'
  BY <1>s, PrepareAssumption DEF TypeOK, Ready, Undisturbed, By, Child, ChildLabels, DogBarks, Files
<1>5. Child(p)'
  BY <1>s, PrepareAssumption DEF TypeOK, Child, ChildLabels, DogBarks, Files
<1> QED
  BY <1>1, <1>2, <1>3, <1>4, <1>5

(* The watchdog kills the child. *)
LEMMA DogBitesDoes ==
    ASSUME NEW p \in Preparers, IInv, DogBites(p)
    PROVE  TypeOK' /\ Frame(p) /\ Made(p)' /\ Ready(p)' /\ Child(p)'
<1>s. TypeOK /\ Made(p) /\ Ready(p) /\ Child(p) /\ DogBites(p)
  BY DEF IInv
<1>1. TypeOK'
  BY <1>s, PrepareAssumption DEF TypeOK, Labels, ChildLabels, Child, DogBites, Kill, Files
<1>2. Frame(p)
  BY <1>s DEF TypeOK, Frame, Change, DogBites, Kill, Files
<1>3. Made(p)'
  BY <1>s DEF TypeOK, Made, By, DogBites, Kill, Files
<1>4. Ready(p)'
  BY <1>s, PrepareAssumption DEF TypeOK, Ready, Undisturbed, By, Child, ChildLabels, DogBites, Kill, Files
<1>5. Child(p)'
  BY <1>s, PrepareAssumption DEF TypeOK, Child, ChildLabels, DogBites, Kill, Files
<1> QED
  BY <1>1, <1>2, <1>3, <1>4, <1>5

(* The watchdog is stopped. *)
LEMMA DogStopsDoes ==
    ASSUME NEW p \in Preparers, IInv, DogStops(p)
    PROVE  TypeOK' /\ Frame(p) /\ Made(p)' /\ Ready(p)' /\ Child(p)'
<1>s. TypeOK /\ Made(p) /\ Ready(p) /\ Child(p) /\ DogStops(p)
  BY DEF IInv
<1>1. TypeOK'
  BY <1>s, PrepareAssumption DEF TypeOK, Labels, ChildLabels, Child, DogStops, Files
<1>2. Frame(p)
  BY <1>s DEF TypeOK, Frame, Change, DogStops, Files
<1>3. Made(p)'
  BY <1>s DEF TypeOK, Made, By, DogStops, Files
<1>4. Ready(p)'
  BY <1>s, PrepareAssumption DEF TypeOK, Ready, Undisturbed, By, Child, ChildLabels, DogStops, Files
<1>5. Child(p)'
  BY <1>s, PrepareAssumption DEF TypeOK, Child, ChildLabels, DogStops, Files
<1> QED
  BY <1>1, <1>2, <1>3, <1>4, <1>5

(* A process that dies leaves its files. *)
LEMMA DieDoes ==
    ASSUME NEW p \in Preparers, IInv, Die(p)
    PROVE  TypeOK' /\ Frame(p) /\ Made(p)' /\ Ready(p)' /\ Child(p)'
<1>s. TypeOK /\ Made(p) /\ Ready(p) /\ Child(p) /\ Die(p)
  BY DEF IInv
<1>1. TypeOK'
  BY <1>s, PrepareAssumption DEF TypeOK, Labels, ChildLabels, Child, Die, Goto
<1>2. Frame(p)
  BY <1>s DEF TypeOK, Frame, Change, Die, Goto
<1>3. Made(p)'
  BY <1>s DEF TypeOK, Made, By, Die, Goto
<1>4. Ready(p)'
  BY <1>s, PrepareAssumption DEF TypeOK, Ready, Undisturbed, By, Child, ChildLabels, Die, Goto
<1>5. Child(p)'
  BY <1>s, PrepareAssumption DEF TypeOK, Child, ChildLabels, Die, Goto
<1> QED
  BY <1>1, <1>2, <1>3, <1>4, <1>5

(* The child closes its output. *)
LEMMA ChildClosesDoes ==
    ASSUME NEW p \in Preparers, IInv, ChildCloses(p)
    PROVE  TypeOK' /\ Frame(p) /\ Made(p)' /\ Ready(p)' /\ Child(p)'
<1>s. TypeOK /\ Made(p) /\ Ready(p) /\ Child(p) /\ ChildCloses(p)
  BY DEF IInv
<1>1. TypeOK'
  BY <1>s, PrepareAssumption DEF TypeOK, Labels, ChildLabels, Child, ChildCloses, Files
<1>2. Frame(p)
  BY <1>s DEF TypeOK, Frame, Change, ChildCloses, Files
<1>3. Made(p)'
  BY <1>s DEF TypeOK, Made, By, ChildCloses, Files
<1>4. Ready(p)'
  BY <1>s, PrepareAssumption DEF TypeOK, Ready, Undisturbed, By, Child, ChildLabels, ChildCloses, Files
<1>5. Child(p)'
  BY <1>s, PrepareAssumption DEF TypeOK, Child, ChildLabels, ChildCloses, Files
<1> QED
  BY <1>1, <1>2, <1>3, <1>4, <1>5

(* The child exits. *)
LEMMA ChildExitsDoes ==
    ASSUME NEW p \in Preparers, IInv, ChildExits(p)
    PROVE  TypeOK' /\ Frame(p) /\ Made(p)' /\ Ready(p)' /\ Child(p)'
<1>s. TypeOK /\ Made(p) /\ Ready(p) /\ Child(p) /\ ChildExits(p)
  BY DEF IInv
<1>1. TypeOK'
  BY <1>s, PrepareAssumption DEF TypeOK, Labels, ChildLabels, Child, ChildExits, Files
<1>2. Frame(p)
  BY <1>s DEF TypeOK, Frame, Change, ChildExits, Files
<1>3. Made(p)'
  BY <1>s DEF TypeOK, Made, By, ChildExits, Files
<1>4. Ready(p)'
  BY <1>s, PrepareAssumption DEF TypeOK, Ready, Undisturbed, By, Child, ChildLabels, ChildExits, Files
<1>5. Child(p)'
  BY <1>s, PrepareAssumption DEF TypeOK, Child, ChildLabels, ChildExits, Files
<1> QED
  BY <1>1, <1>2, <1>3, <1>4, <1>5

(* A download gets its name, or fails. *)
LEMMA BodyDoes ==
    ASSUME NEW p \in Preparers, IInv, Body(p)
    PROVE  TypeOK' /\ Frame(p) /\ Made(p)' /\ Ready(p)' /\ Child(p)'
<1>s. TypeOK /\ Made(p) /\ Ready(p) /\ Child(p)
  BY DEF IInv
<1>1. CASE /\ Create(p, Fetching(p), TRUE) /\ Move(p, "body", "unlink")
           /\ UNCHANGED result /\ UNCHANGED <<tidied, asset, child>>
  <2>1. /\ at[p] = "body" /\ at' = [at EXCEPT ![p] = "unlink"]
        /\ UNCHANGED <<asset, tidied, result, zstd, out, dog, stop, expired>>
    BY <1>1 DEF Move, Goto, child
  <2>2. /\ files' \in [Paths -> [by : Preparers, whole : BOOLEAN, twin : BOOLEAN] \cup {None}]
        /\ mine' \in [Preparers -> SUBSET Paths]
        /\ files[Fetching(p)] = None /\ Fetching(p) \in mine'[p]
        /\ files'[Fetching(p)] # None /\ files'[Fetching(p)].by = p
        /\ files'[Fetching(p)].whole = TRUE /\ (files'[Fetching(p)].twin => Fetching(p) \in tidied)
        /\ \A g \in Paths \ {Fetching(p)} : files'[g] = files[g]
        /\ \A q \in Preparers \ {p} : mine'[q] = mine[q]
        /\ mine[p] \subseteq mine'[p]
    BY <1>1, <1>s, Creates, Names, Fetches DEF By
  <2>f. /\ Fetching(p) \in Paths /\ Fetching(p) # Evidence
        /\ asset[p] > Assets => Fetching(p) = Decision
    BY <1>s, Fetches, Names
  <2>3. TypeOK'
    BY <1>s, <2>1, <2>2, PrepareAssumption DEF TypeOK, Labels
  <2>4. Frame(p)
    BY <1>s, <2>1, <2>2, <2>f, Names DEF Frame, Change, TypeOK, By
  <2>5. Made(p)'
    BY <1>s, <2>1, <2>2, <2>f, Names DEF Made, By, TypeOK
  <2>6. Ready(p)'
    BY <1>s, <2>1, <2>2, <2>f, Names, PrepareAssumption DEF Ready, Undisturbed, By, TypeOK
  <2>7. Child(p)'
    BY <1>s, <2>1 DEF Child, ChildLabels, TypeOK
  <2> QED
    BY <2>3, <2>4, <2>5, <2>6, <2>7
<1>2. CASE Fail(p, "body") /\ UNCHANGED <<files, mine>> /\ UNCHANGED <<tidied, asset, child>>
  <2>1. /\ at[p] = "body" /\ at' = [at EXCEPT ![p] = "rollback"] /\ UNCHANGED <<asset, tidied, zstd, out, dog, stop, expired>>
        /\ result' = [result EXCEPT ![p] = "failed"]
    BY <1>2 DEF Fail, Move, Goto, child
  <2>2. UNCHANGED <<files, mine>>
    BY <1>2
  <2>3. TypeOK'
    BY <1>s, <2>1, <2>2, PrepareAssumption DEF TypeOK, Labels
  <2>4. Frame(p)
    BY <1>s, <2>1, <2>2, Names DEF Frame, Change, TypeOK, By
  <2>5. Made(p)'
    BY <1>s, <2>1, <2>2, Names DEF Made, By, TypeOK
  <2>6. Ready(p)'
    BY <1>s, <2>1, <2>2, Names, PrepareAssumption DEF Ready, Undisturbed, By, TypeOK
  <2>7. Child(p)'
    BY <1>s, <2>1 DEF Child, ChildLabels, TypeOK
  <2> QED
    BY <2>3, <2>4, <2>5, <2>6, <2>7
<1> QED
  BY <1>1, <1>2 DEF Body

(* A download is taken back if its staging file stays. *)
LEMMA UnlinkDoes ==
    ASSUME NEW p \in Preparers, IInv, Unlink(p)
    PROVE  TypeOK' /\ Frame(p) /\ Made(p)' /\ Ready(p)' /\ Child(p)'
<1>s. TypeOK /\ Made(p) /\ Ready(p) /\ Child(p)
  BY DEF IInv
<1>1. CASE /\ Move(p, "unlink", "start") /\ asset[p] <= Assets /\ UNCHANGED <<files, mine>>
           /\ UNCHANGED result /\ UNCHANGED <<tidied, asset, child>>
  <2>1. /\ at[p] = "unlink" /\ at' = [at EXCEPT ![p] = "start"] /\ UNCHANGED <<asset, tidied, zstd, out, dog, stop, expired>>
        /\ UNCHANGED result /\ asset[p] <= Assets
    BY <1>1 DEF Move, Goto, child
  <2>2. UNCHANGED <<files, mine>>
    BY <1>1
  <2>3. TypeOK'
    BY <1>s, <2>1, <2>2, PrepareAssumption DEF TypeOK, Labels
  <2>4. Frame(p)
    BY <1>s, <2>1, <2>2, Names DEF Frame, Change, TypeOK, By
  <2>5. Made(p)'
    BY <1>s, <2>1, <2>2, Names DEF Made, By, TypeOK
  <2>6. Ready(p)'
    BY <1>s, <2>1, <2>2, Names, PrepareAssumption DEF Ready, Undisturbed, By, TypeOK
  <2>7. Child(p)'
    BY <1>s, <2>1 DEF Child, ChildLabels, TypeOK
  <2> QED
    BY <2>3, <2>4, <2>5, <2>6, <2>7
<1>2. CASE /\ Move(p, "unlink", "load") /\ asset[p] > Assets /\ UNCHANGED <<files, mine>>
           /\ UNCHANGED result /\ UNCHANGED <<tidied, asset, child>>
  <2>1. /\ at[p] = "unlink" /\ at' = [at EXCEPT ![p] = "load"] /\ UNCHANGED <<asset, tidied, zstd, out, dog, stop, expired>>
        /\ UNCHANGED result /\ asset[p] > Assets
    BY <1>2 DEF Move, Goto, child
  <2>2. UNCHANGED <<files, mine>>
    BY <1>2
  <2>3. TypeOK'
    BY <1>s, <2>1, <2>2, PrepareAssumption DEF TypeOK, Labels
  <2>4. Frame(p)
    BY <1>s, <2>1, <2>2, Names DEF Frame, Change, TypeOK, By
  <2>5. Made(p)'
    BY <1>s, <2>1, <2>2, Names DEF Made, By, TypeOK
  <2>6. Ready(p)'
    BY <1>s, <2>1, <2>2, Names, PrepareAssumption DEF Ready, Undisturbed, By, TypeOK
  <2>7. Child(p)'
    BY <1>s, <2>1 DEF Child, ChildLabels, TypeOK
  <2> QED
    BY <2>3, <2>4, <2>5, <2>6, <2>7
<1>3. CASE /\ Fail(p, "unlink") /\ RemoveOwned(p, {Fetching(p)})
           /\ mine' = [mine EXCEPT ![p] = @ \ {Fetching(p)}] /\ UNCHANGED <<tidied, asset, child>>
  <2>1. /\ at[p] = "unlink" /\ at' = [at EXCEPT ![p] = "rollback"] /\ UNCHANGED <<asset, tidied, zstd, out, dog, stop, expired>>
        /\ result' = [result EXCEPT ![p] = "failed"]
        /\ mine' = [mine EXCEPT ![p] = @ \ {Fetching(p)}]
    BY <1>3 DEF Fail, Move, Goto, child
  <2>2. /\ files' \in [Paths -> [by : Preparers, whole : BOOLEAN, twin : BOOLEAN] \cup {None}]
        /\ \A g \in Paths : \/ files'[g] = files[g]
                          \/ /\ g \in {Fetching(p)} /\ files[g] # None /\ files'[g] = None
                             /\ By(g, p) \/ files[g].twin
        /\ \A g \in Paths \cap {Fetching(p)} : ~By(g, p)'
    <3>1. \A g \in Paths : By(g, p) => g \in mine[p]
      BY <1>s, <2>1 DEF Made
    <3> QED
      BY <1>3, <1>s, <3>1, Removes
  <2>3. TypeOK'
    BY <1>s, <2>1, <2>2, PrepareAssumption DEF TypeOK, Labels
  <2>4. Frame(p)
    BY <1>s, <2>1, <2>2, Names DEF Frame, Change, TypeOK, By
  <2>5. Made(p)'
    BY <1>s, <2>1, <2>2, Names DEF Made, By, TypeOK
  <2>6. Ready(p)'
    BY <1>s, <2>1, <2>2, Names, PrepareAssumption DEF Ready, Undisturbed, By, TypeOK
  <2>7. Child(p)'
    BY <1>s, <2>1 DEF Child, ChildLabels, TypeOK
  <2> QED
    BY <2>3, <2>4, <2>5, <2>6, <2>7
<1>4. asset[p] \in Nat /\ Assets \in Nat
  BY <1>s, PrepareAssumption DEF TypeOK
<1> QED
  BY <1>1, <1>2, <1>3, <1>4 DEF Unlink

(* The target is made, empty. *)
LEMMA PublishTreeDoes ==
    ASSUME NEW p \in Preparers, IInv, PublishTree(p)
    PROVE  TypeOK' /\ Frame(p) /\ Made(p)' /\ Ready(p)' /\ Child(p)'
<1>s. TypeOK /\ Made(p) /\ Ready(p) /\ Child(p)
  BY DEF IInv
<1>1. CASE /\ Create(p, Target, FALSE) /\ Move(p, "publish", "copy")
           /\ UNCHANGED result /\ UNCHANGED <<tidied, asset, child>>
  <2>1. /\ at[p] = "publish" /\ at' = [at EXCEPT ![p] = "copy"]
        /\ UNCHANGED <<asset, tidied, result, zstd, out, dog, stop, expired>>
    BY <1>1 DEF Move, Goto, child
  <2>2. /\ files' \in [Paths -> [by : Preparers, whole : BOOLEAN, twin : BOOLEAN] \cup {None}]
        /\ mine' \in [Preparers -> SUBSET Paths]
        /\ files[Target] = None /\ Target \in mine'[p]
        /\ By(Target, p)' /\ files'[Target].whole = FALSE /\ (files'[Target].twin => Target \in tidied)
        /\ \A g \in Paths \ {Target} : files'[g] = files[g]
        /\ \A q \in Preparers \ {p} : mine'[q] = mine[q]
        /\ mine[p] \subseteq mine'[p]
    BY <1>1, <1>s, Creates, Names
  <2>3. TypeOK'
    BY <1>s, <2>1, <2>2, PrepareAssumption DEF TypeOK, Labels
  <2>4. Frame(p)
    BY <1>s, <2>1, <2>2, Names DEF Frame, Change, TypeOK, By
  <2>5. Made(p)'
    BY <1>s, <2>1, <2>2, Names DEF Made, By, TypeOK
  <2>6. Ready(p)'
    BY <1>s, <2>1, <2>2, Names, PrepareAssumption DEF Ready, Undisturbed, By, TypeOK
  <2>7. Child(p)'
    BY <1>s, <2>1 DEF Child, ChildLabels, TypeOK
  <2> QED
    BY <2>3, <2>4, <2>5, <2>6, <2>7
<1>2. CASE Fail(p, "publish") /\ UNCHANGED <<files, mine>> /\ UNCHANGED <<tidied, asset, child>>
  <2>1. /\ at[p] = "publish" /\ at' = [at EXCEPT ![p] = "rollback"] /\ UNCHANGED <<asset, tidied, zstd, out, dog, stop, expired>>
        /\ result' = [result EXCEPT ![p] = "failed"]
    BY <1>2 DEF Fail, Move, Goto, child
  <2>2. UNCHANGED <<files, mine>>
    BY <1>2
  <2>3. TypeOK'
    BY <1>s, <2>1, <2>2, PrepareAssumption DEF TypeOK, Labels
  <2>4. Frame(p)
    BY <1>s, <2>1, <2>2, Names DEF Frame, Change, TypeOK, By
  <2>5. Made(p)'
    BY <1>s, <2>1, <2>2, Names DEF Made, By, TypeOK
  <2>6. Ready(p)'
    BY <1>s, <2>1, <2>2, Names, PrepareAssumption DEF Ready, Undisturbed, By, TypeOK
  <2>7. Child(p)'
    BY <1>s, <2>1 DEF Child, ChildLabels, TypeOK
  <2> QED
    BY <2>3, <2>4, <2>5, <2>6, <2>7
<1> QED
  BY <1>1, <1>2 DEF PublishTree

(* The tree is completed, or removed. *)
LEMMA CopyDoes ==
    ASSUME NEW p \in Preparers, IInv, Copy(p)
    PROVE  TypeOK' /\ Frame(p) /\ Made(p)' /\ Ready(p)' /\ Child(p)'
<1>s. TypeOK /\ Made(p) /\ Ready(p) /\ Child(p)
  BY DEF IInv
<1>1. CASE /\ By(Target, p) /\ Finish(Target) /\ Move(p, "copy", "write") /\ UNCHANGED mine
           /\ UNCHANGED result /\ UNCHANGED <<tidied, asset, child>>
  <2>1. /\ at[p] = "copy" /\ at' = [at EXCEPT ![p] = "write"] /\ UNCHANGED <<asset, tidied, zstd, out, dog, stop, expired>>
        /\ UNCHANGED result
    BY <1>1 DEF Move, Goto, child
  <2>2. /\ files' \in [Paths -> [by : Preparers, whole : BOOLEAN, twin : BOOLEAN] \cup {None}]
        /\ By(Target, p) /\ By(Target, p)' /\ files'[Target].whole
        /\ files'[Target].twin = files[Target].twin
        /\ \A g \in Paths \ {Target} : files'[g] = files[g]
        /\ UNCHANGED mine
    BY <1>1, <1>s, Finishes, Names
  <2>3. TypeOK'
    BY <1>s, <2>1, <2>2, PrepareAssumption DEF TypeOK, Labels
  <2>4. Frame(p)
    BY <1>s, <2>1, <2>2, Names DEF Frame, Change, TypeOK, By
  <2>5. Made(p)'
    BY <1>s, <2>1, <2>2, Names DEF Made, By, TypeOK
  <2>6. Ready(p)'
    BY <1>s, <2>1, <2>2, Names, PrepareAssumption DEF Ready, Undisturbed, By, TypeOK
  <2>7. Child(p)'
    BY <1>s, <2>1 DEF Child, ChildLabels, TypeOK
  <2> QED
    BY <2>3, <2>4, <2>5, <2>6, <2>7
<1>2. CASE /\ Fail(p, "copy") /\ RemoveOwned(p, {Target})
           /\ mine' = [mine EXCEPT ![p] = @ \ {Target}] /\ UNCHANGED <<tidied, asset, child>>
  <2>1. /\ at[p] = "copy" /\ at' = [at EXCEPT ![p] = "rollback"] /\ UNCHANGED <<asset, tidied, zstd, out, dog, stop, expired>>
        /\ result' = [result EXCEPT ![p] = "failed"]
        /\ mine' = [mine EXCEPT ![p] = @ \ {Target}]
    BY <1>2 DEF Fail, Move, Goto, child
  <2>2. /\ files' \in [Paths -> [by : Preparers, whole : BOOLEAN, twin : BOOLEAN] \cup {None}]
        /\ \A g \in Paths : \/ files'[g] = files[g]
                          \/ /\ g \in {Target} /\ files[g] # None /\ files'[g] = None
                             /\ By(g, p) \/ files[g].twin
        /\ \A g \in Paths \cap {Target} : ~By(g, p)'
    <3>1. \A g \in Paths : By(g, p) => g \in mine[p]
      BY <1>s, <2>1 DEF Made
    <3> QED
      BY <1>2, <1>s, <3>1, Removes
  <2>3. TypeOK'
    BY <1>s, <2>1, <2>2, PrepareAssumption DEF TypeOK, Labels
  <2>4. Frame(p)
    BY <1>s, <2>1, <2>2, Names DEF Frame, Change, TypeOK, By
  <2>5. Made(p)'
    BY <1>s, <2>1, <2>2, Names DEF Made, By, TypeOK
  <2>6. Ready(p)'
    BY <1>s, <2>1, <2>2, Names, PrepareAssumption DEF Ready, Undisturbed, By, TypeOK
  <2>7. Child(p)'
    BY <1>s, <2>1 DEF Child, ChildLabels, TypeOK
  <2> QED
    BY <2>3, <2>4, <2>5, <2>6, <2>7
<1> QED
  BY <1>1, <1>2 DEF Copy

(* The evidence is begun beside a whole tree. *)
LEMMA WriteEvidenceDoes ==
    ASSUME NEW p \in Preparers, IInv, WriteEvidence(p)
    PROVE  TypeOK' /\ Frame(p) /\ Made(p)' /\ Ready(p)' /\ Child(p)'
<1>s. TypeOK /\ Made(p) /\ Ready(p) /\ Child(p)
  BY DEF IInv
<1>1. CASE /\ Create(p, Evidence, FALSE) /\ Move(p, "write", "close")
           /\ UNCHANGED result /\ UNCHANGED <<tidied, asset, child>>
  <2>1. /\ at[p] = "write" /\ at' = [at EXCEPT ![p] = "close"]
        /\ UNCHANGED <<asset, tidied, result, zstd, out, dog, stop, expired>>
    BY <1>1 DEF Move, Goto, child
  <2>2. /\ files' \in [Paths -> [by : Preparers, whole : BOOLEAN, twin : BOOLEAN] \cup {None}]
        /\ mine' \in [Preparers -> SUBSET Paths]
        /\ files[Evidence] = None /\ Evidence \in mine'[p]
        /\ By(Evidence, p)' /\ files'[Evidence].whole = FALSE /\ (files'[Evidence].twin => Evidence \in tidied)
        /\ \A g \in Paths \ {Evidence} : files'[g] = files[g]
        /\ \A q \in Preparers \ {p} : mine'[q] = mine[q]
        /\ mine[p] \subseteq mine'[p]
    BY <1>1, <1>s, Creates, Names
  <2>3. TypeOK'
    BY <1>s, <2>1, <2>2, PrepareAssumption DEF TypeOK, Labels
  <2>4. Frame(p)
    BY <1>s, <2>1, <2>2, Names DEF Frame, Change, TypeOK, By
  <2>5. Made(p)'
    BY <1>s, <2>1, <2>2, Names DEF Made, By, TypeOK
  <2>6. Ready(p)'
    BY <1>s, <2>1, <2>2, Names, PrepareAssumption DEF Ready, Undisturbed, By, TypeOK
  <2>7. Child(p)'
    BY <1>s, <2>1 DEF Child, ChildLabels, TypeOK
  <2> QED
    BY <2>3, <2>4, <2>5, <2>6, <2>7
<1>2. CASE Fail(p, "write") /\ UNCHANGED <<files, mine>> /\ UNCHANGED <<tidied, asset, child>>
  <2>1. /\ at[p] = "write" /\ at' = [at EXCEPT ![p] = "rollback"] /\ UNCHANGED <<asset, tidied, zstd, out, dog, stop, expired>>
        /\ result' = [result EXCEPT ![p] = "failed"]
    BY <1>2 DEF Fail, Move, Goto, child
  <2>2. UNCHANGED <<files, mine>>
    BY <1>2
  <2>3. TypeOK'
    BY <1>s, <2>1, <2>2, PrepareAssumption DEF TypeOK, Labels
  <2>4. Frame(p)
    BY <1>s, <2>1, <2>2, Names DEF Frame, Change, TypeOK, By
  <2>5. Made(p)'
    BY <1>s, <2>1, <2>2, Names DEF Made, By, TypeOK
  <2>6. Ready(p)'
    BY <1>s, <2>1, <2>2, Names, PrepareAssumption DEF Ready, Undisturbed, By, TypeOK
  <2>7. Child(p)'
    BY <1>s, <2>1 DEF Child, ChildLabels, TypeOK
  <2> QED
    BY <2>3, <2>4, <2>5, <2>6, <2>7
<1> QED
  BY <1>1, <1>2 DEF WriteEvidence

(* The evidence is completed last, or removed. *)
LEMMA CloseEvidenceDoes ==
    ASSUME NEW p \in Preparers, IInv, CloseEvidence(p)
    PROVE  TypeOK' /\ Frame(p) /\ Made(p)' /\ Ready(p)' /\ Child(p)'
<1>s. TypeOK /\ Made(p) /\ Ready(p) /\ Child(p)
  BY DEF IInv
<1>1. CASE /\ By(Evidence, p) /\ Finish(Evidence) /\ Move(p, "close", "drop") /\ UNCHANGED mine
           /\ result' = [result EXCEPT ![p] = "ok"] /\ UNCHANGED <<tidied, asset, child>>
  <2>1. /\ at[p] = "close" /\ at' = [at EXCEPT ![p] = "drop"] /\ UNCHANGED <<asset, tidied, zstd, out, dog, stop, expired>>
        /\ result' = [result EXCEPT ![p] = "ok"]
    BY <1>1 DEF Move, Goto, child
  <2>2. /\ files' \in [Paths -> [by : Preparers, whole : BOOLEAN, twin : BOOLEAN] \cup {None}]
        /\ By(Evidence, p) /\ By(Evidence, p)' /\ files'[Evidence].whole
        /\ files'[Evidence].twin = files[Evidence].twin
        /\ \A g \in Paths \ {Evidence} : files'[g] = files[g]
        /\ UNCHANGED mine
    BY <1>1, <1>s, Finishes, Names
  <2>3. TypeOK'
    BY <1>s, <2>1, <2>2, PrepareAssumption DEF TypeOK, Labels
  <2>4. Frame(p)
    BY <1>s, <2>1, <2>2, Names DEF Frame, Change, TypeOK, By
  <2>5. Made(p)'
    BY <1>s, <2>1, <2>2, Names DEF Made, By, TypeOK
  <2>6. Ready(p)'
    BY <1>s, <2>1, <2>2, Names, PrepareAssumption DEF Ready, Undisturbed, By, TypeOK
  <2>7. Child(p)'
    BY <1>s, <2>1 DEF Child, ChildLabels, TypeOK
  <2> QED
    BY <2>3, <2>4, <2>5, <2>6, <2>7
<1>2. CASE /\ Move(p, "close", "drop") /\ TRUE /\ UNCHANGED <<files, mine>>
           /\ result' = [result EXCEPT ![p] = "ok"] /\ UNCHANGED <<tidied, asset, child>>
  <2>1. /\ at[p] = "close" /\ at' = [at EXCEPT ![p] = "drop"] /\ UNCHANGED <<asset, tidied, zstd, out, dog, stop, expired>>
        /\ result' = [result EXCEPT ![p] = "ok"] /\ TRUE
    BY <1>2 DEF Move, Goto, child
  <2>2. UNCHANGED <<files, mine>>
    BY <1>2
  <2>3. TypeOK'
    BY <1>s, <2>1, <2>2, PrepareAssumption DEF TypeOK, Labels
  <2>4. Frame(p)
    BY <1>s, <2>1, <2>2, Names DEF Frame, Change, TypeOK, By
  <2>5. Made(p)'
    BY <1>s, <2>1, <2>2, Names DEF Made, By, TypeOK
  <2>6. Ready(p)'
    BY <1>s, <2>1, <2>2, Names, PrepareAssumption DEF Ready, Undisturbed, By, TypeOK
  <2>7. Child(p)'
    BY <1>s, <2>1 DEF Child, ChildLabels, TypeOK
  <2> QED
    BY <2>3, <2>4, <2>5, <2>6, <2>7
<1>3. CASE /\ Fail(p, "close") /\ RemoveOwned(p, {Evidence})
           /\ mine' = [mine EXCEPT ![p] = @ \ {Evidence}] /\ UNCHANGED <<tidied, asset, child>>
  <2>1. /\ at[p] = "close" /\ at' = [at EXCEPT ![p] = "rollback"] /\ UNCHANGED <<asset, tidied, zstd, out, dog, stop, expired>>
        /\ result' = [result EXCEPT ![p] = "failed"]
        /\ mine' = [mine EXCEPT ![p] = @ \ {Evidence}]
    BY <1>3 DEF Fail, Move, Goto, child
  <2>2. /\ files' \in [Paths -> [by : Preparers, whole : BOOLEAN, twin : BOOLEAN] \cup {None}]
        /\ \A g \in Paths : \/ files'[g] = files[g]
                          \/ /\ g \in {Evidence} /\ files[g] # None /\ files'[g] = None
                             /\ By(g, p) \/ files[g].twin
        /\ \A g \in Paths \cap {Evidence} : ~By(g, p)'
    <3>1. \A g \in Paths : By(g, p) => g \in mine[p]
      BY <1>s, <2>1 DEF Made
    <3> QED
      BY <1>3, <1>s, <3>1, Removes
  <2>3. TypeOK'
    BY <1>s, <2>1, <2>2, PrepareAssumption DEF TypeOK, Labels
  <2>4. Frame(p)
    BY <1>s, <2>1, <2>2, Names DEF Frame, Change, TypeOK, By
  <2>5. Made(p)'
    BY <1>s, <2>1, <2>2, Names DEF Made, By, TypeOK
  <2>6. Ready(p)'
    BY <1>s, <2>1, <2>2, Names, PrepareAssumption DEF Ready, Undisturbed, By, TypeOK
  <2>7. Child(p)'
    BY <1>s, <2>1 DEF Child, ChildLabels, TypeOK
  <2> QED
    BY <2>3, <2>4, <2>5, <2>6, <2>7
<1> QED
  BY <1>1, <1>2, <1>3 DEF CloseEvidence

(* The tree is removed. *)
LEMMA RollbackDoes ==
    ASSUME NEW p \in Preparers, IInv, Rollback(p)
    PROVE  TypeOK' /\ Frame(p) /\ Made(p)' /\ Ready(p)' /\ Child(p)'
<1>s. TypeOK /\ Made(p) /\ Ready(p) /\ Child(p)
  BY DEF IInv
<1>1. CASE /\ Move(p, "rollback", "undecide") /\ RemoveOwned(p, {Target}) /\ UNCHANGED result
           /\ UNCHANGED mine /\ UNCHANGED <<tidied, asset, child>>
  <2>1. /\ at[p] = "rollback" /\ at' = [at EXCEPT ![p] = "undecide"] /\ UNCHANGED <<asset, tidied, zstd, out, dog, stop, expired>>
        /\ UNCHANGED result
        /\ UNCHANGED mine
    BY <1>1 DEF Fail, Move, Goto, child
  <2>2. /\ files' \in [Paths -> [by : Preparers, whole : BOOLEAN, twin : BOOLEAN] \cup {None}]
        /\ \A g \in Paths : \/ files'[g] = files[g]
                          \/ /\ g \in {Target} /\ files[g] # None /\ files'[g] = None
                             /\ By(g, p) \/ files[g].twin
        /\ \A g \in Paths \cap {Target} : ~By(g, p)'
    <3>1. \A g \in Paths : By(g, p) => g \in mine[p]
      BY <1>s, <2>1 DEF Made
    <3> QED
      BY <1>1, <1>s, <3>1, Removes
  <2>3. TypeOK'
    BY <1>s, <2>1, <2>2, PrepareAssumption DEF TypeOK, Labels
  <2>4. Frame(p)
    BY <1>s, <2>1, <2>2, Names DEF Frame, Change, TypeOK, By
  <2>5. Made(p)'
    BY <1>s, <2>1, <2>2, Names DEF Made, By, TypeOK
  <2>6. Ready(p)'
    BY <1>s, <2>1, <2>2, Names, PrepareAssumption DEF Ready, Undisturbed, By, TypeOK
  <2>7. Child(p)'
    BY <1>s, <2>1 DEF Child, ChildLabels, TypeOK
  <2> QED
    BY <2>3, <2>4, <2>5, <2>6, <2>7
<1> QED
  BY <1>1 DEF Rollback

(* The decision and the evidence are removed. *)
LEMMA UndecideDoes ==
    ASSUME NEW p \in Preparers, IInv, Undecide(p)
    PROVE  TypeOK' /\ Frame(p) /\ Made(p)' /\ Ready(p)' /\ Child(p)'
<1>s. TypeOK /\ Made(p) /\ Ready(p) /\ Child(p)
  BY DEF IInv
<1>1. CASE /\ Move(p, "undecide", "drop") /\ RemoveOwned(p, {Decision, Evidence}) /\ UNCHANGED result
           /\ UNCHANGED mine /\ UNCHANGED <<tidied, asset, child>>
  <2>1. /\ at[p] = "undecide" /\ at' = [at EXCEPT ![p] = "drop"] /\ UNCHANGED <<asset, tidied, zstd, out, dog, stop, expired>>
        /\ UNCHANGED result
        /\ UNCHANGED mine
    BY <1>1 DEF Fail, Move, Goto, child
  <2>2. /\ files' \in [Paths -> [by : Preparers, whole : BOOLEAN, twin : BOOLEAN] \cup {None}]
        /\ \A g \in Paths : \/ files'[g] = files[g]
                          \/ /\ g \in {Decision, Evidence} /\ files[g] # None /\ files'[g] = None
                             /\ By(g, p) \/ files[g].twin
        /\ \A g \in Paths \cap {Decision, Evidence} : ~By(g, p)'
    <3>1. \A g \in Paths : By(g, p) => g \in mine[p]
      BY <1>s, <2>1 DEF Made
    <3> QED
      BY <1>1, <1>s, <3>1, Removes
  <2>3. TypeOK'
    BY <1>s, <2>1, <2>2, PrepareAssumption DEF TypeOK, Labels
  <2>4. Frame(p)
    BY <1>s, <2>1, <2>2, Names DEF Frame, Change, TypeOK, By
  <2>5. Made(p)'
    BY <1>s, <2>1, <2>2, Names DEF Made, By, TypeOK
  <2>6. Ready(p)'
    BY <1>s, <2>1, <2>2, Names, PrepareAssumption DEF Ready, Undisturbed, By, TypeOK
  <2>7. Child(p)'
    BY <1>s, <2>1 DEF Child, ChildLabels, TypeOK
  <2> QED
    BY <2>3, <2>4, <2>5, <2>6, <2>7
<1> QED
  BY <1>1 DEF Undecide

(* The archives are removed. *)
LEMMA DropArchivesDoes ==
    ASSUME NEW p \in Preparers, IInv, DropArchives(p)
    PROVE  TypeOK' /\ Frame(p) /\ Made(p)' /\ Ready(p)' /\ Child(p)'
<1>s. TypeOK /\ Made(p) /\ Ready(p) /\ Child(p)
  BY DEF IInv
<1>1. CASE /\ Move(p, "drop", "ended") /\ RemoveOwned(p, Archives) /\ UNCHANGED result
           /\ mine' = [mine EXCEPT ![p] = {}] /\ asset' = [asset EXCEPT ![p] = 1] /\ UNCHANGED <<tidied, child>>
  <2>1. /\ at[p] = "drop" /\ at' = [at EXCEPT ![p] = "ended"] /\ UNCHANGED <<tidied, zstd, out, dog, stop, expired>>
        /\ UNCHANGED result
        /\ mine' = [mine EXCEPT ![p] = {}] /\ asset' = [asset EXCEPT ![p] = 1]
    BY <1>1 DEF Fail, Move, Goto, child
  <2>2. /\ files' \in [Paths -> [by : Preparers, whole : BOOLEAN, twin : BOOLEAN] \cup {None}]
        /\ \A g \in Paths : \/ files'[g] = files[g]
                          \/ /\ g \in Archives /\ files[g] # None /\ files'[g] = None
                             /\ By(g, p) \/ files[g].twin
        /\ \A g \in Paths \cap Archives : ~By(g, p)'
    <3>1. \A g \in Paths : By(g, p) => g \in mine[p]
      BY <1>s, <2>1 DEF Made
    <3> QED
      BY <1>1, <1>s, <3>1, Removes
  <2>3. TypeOK'
    BY <1>s, <2>1, <2>2, PrepareAssumption DEF TypeOK, Labels
  <2>4. Frame(p)
    BY <1>s, <2>1, <2>2, Names DEF Frame, Change, TypeOK, By
  <2>5. Made(p)'
    BY <1>s, <2>1, <2>2, Names DEF Made, By, TypeOK
  <2>6. Ready(p)'
    BY <1>s, <2>1, <2>2, Names, PrepareAssumption DEF Ready, Undisturbed, By, TypeOK
  <2>7. Child(p)'
    BY <1>s, <2>1 DEF Child, ChildLabels, TypeOK
  <2> QED
    BY <2>3, <2>4, <2>5, <2>6, <2>7
<1> QED
  BY <1>1 DEF DropArchives

(* Every step of a process, its child or its watchdog is one of these. *)
LEMMA StepDoes ==
    ASSUME NEW p \in Preparers, IInv, Step(p)
    PROVE  TypeOK' /\ Frame(p) /\ Made(p)' /\ Ready(p)' /\ Child(p)'
BY BeginDoes, ObserveDoes, FetchDoes, FollowDoes, BodyDoes, UnlinkDoes,
     StartZstdDoes, WaitZstdDoes, JoinThreadsDoes, KillZstdDoes, ReapDoes,
     JoinFailedDoes, ExtractDoes, LoadDecisionDoes, MergeDoes,
     PublishTreeDoes, CopyDoes, WriteEvidenceDoes, CloseEvidenceDoes,
     RollbackDoes, UndecideDoes, DropArchivesDoes, StreamDoes,
     DogBarksDoes, DogBitesDoes, DogStopsDoes, DieDoes, ChildClosesDoes,
     ChildExitsDoes
   DEF Step, Work, Watch

(* What the others have made, and where they are, is as it was. *)
LEMMA OthersUndisturbed ==
    ASSUME NEW p \in Preparers, NEW q \in Preparers, q # p, IInv, Frame(p)
    PROVE  Made(q)' /\ Ready(q)' /\ Child(q)'
<1>s. /\ TypeOK /\ Made(q) /\ Ready(q) /\ Child(q)
      /\ at'[q] = at[q] /\ asset'[q] = asset[q] /\ mine'[q] = mine[q] /\ result'[q] = result[q]
      /\ zstd'[q] = zstd[q] /\ out'[q] = out[q] /\ dog'[q] = dog[q] /\ expired'[q] = expired[q]
      /\ tidied' = tidied
  BY DEF IInv, Frame
<1>1. \A f \in Paths : By(f, q)' => files'[f] = files[f]
  <2> SUFFICES ASSUME NEW f \in Paths, By(f, q)'
               PROVE  files'[f] = files[f]
    OBVIOUS
  <2>1. Change(p, f)
    BY DEF Frame
  <2> QED
    BY <2>1 DEF Change, By
<1>2. \A f \in Paths : By(f, q) /\ f \notin tidied => files'[f] = files[f]
  <2> SUFFICES ASSUME NEW f \in Paths, By(f, q), f \notin tidied
               PROVE  files'[f] = files[f]
    OBVIOUS
  <2>1. Change(p, f) /\ ~files[f].twin
    BY DEF Frame, IInv, Twins, By
  <2> QED
    BY <2>1 DEF Change, By
<1>3. Made(q)'
  BY <1>s, <1>1, Names DEF Made, By
<1>4. \A f \in Paths : Undisturbed(f, q) => (f \notin tidied' => By(f, q)' /\ files'[f].whole)
  BY <1>s, <1>2 DEF Undisturbed, By
<1>5. Ready(q)'
  BY <1>s, <1>4, Names DEF Ready, Undisturbed
<1>6. Child(q)'
  BY <1>s DEF Child
<1> QED
  BY <1>3, <1>5, <1>6

(* The author of whole evidence stays past its clean-up.                   *)
LEMMA StaysSealed ==
    ASSUME NEW p \in Preparers, IInv, Frame(p), TypeOK'
    PROVE  Sealed'
<1> SUFFICES ASSUME files'[Evidence] # None, files'[Evidence].whole
             PROVE  at'[files'[Evidence].by] \in {"drop", "ended", "dead"}
  BY DEF Sealed
<1>1. Change(p, Evidence) /\ TypeOK
  BY Names DEF Frame, IInv
<1>2. CASE files'[Evidence] = files[Evidence]
  <2>1. at[files[Evidence].by] \in {"drop", "ended", "dead"}
    BY <1>2 DEF IInv, Sealed
  <2>2. files[Evidence].by \in Preparers
    BY <1>1, <1>2, Names DEF TypeOK
  <2> QED
    BY <1>2, <2>1, <2>2 DEF Frame
<1>3. CASE By(Evidence, p)' /\ at'[p] = "drop"
  BY <1>3 DEF By
<1> QED
  BY <1>1, <1>2, <1>3, Names DEF Change

(* Beside whole evidence the tree and the decision stay, and there they    *)
(* are when it becomes whole.                                              *)
LEMMA StaysLast ==
    ASSUME NEW p \in Preparers, IInv, Frame(p)
    PROVE  EvidenceLast'
<1> SUFFICES ASSUME files'[Evidence] # None, files'[Evidence].whole,
                    NEW f \in {Target, Decision}, f \notin tidied'
             PROVE  /\ files'[f] # None /\ files'[f].by = files'[Evidence].by
                    /\ files'[f].whole
  BY DEF EvidenceLast, By
<1>1. Change(p, Evidence) /\ Change(p, f) /\ TypeOK /\ tidied' = tidied /\ f # Evidence /\ f \notin Archives
  BY Names DEF Frame, IInv
<1>t. files[f] # None => ~files[f].twin
  BY <1>1, Names DEF IInv, Twins
<1>2. CASE files'[Evidence] = files[Evidence]
  <2>1. files[f] # None /\ files[f].by = files[Evidence].by /\ files[f].whole
    BY <1>1, <1>2 DEF IInv, EvidenceLast, By
  <2>2. at[files[Evidence].by] \in {"drop", "ended", "dead"}
    BY <1>2 DEF IInv, Sealed
  <2>4. files'[f] = files[f]
    BY <1>1, <1>t, <2>1, <2>2 DEF Change, By
  <2> QED
    BY <1>2, <2>1, <2>4
<1>3. CASE By(Evidence, p)' /\ at[p] = "close"
  <2>1. By(f, p) /\ files[f].whole
    BY <1>1, <1>3 DEF IInv, Ready, Undisturbed
  <2>2. files'[f] = files[f]
    BY <1>1, <1>3, <1>t, <2>1 DEF Change, By
  <2> QED
    BY <1>3, <2>1, <2>2 DEF By
<1> QED
  BY <1>1, <1>2, <1>3, Names DEF Change

(* A twin is made, and stays, where somebody has tidied a file away.       *)
LEMMA StayTwins ==
    ASSUME NEW p \in Preparers, IInv, Frame(p)
    PROVE  Twins'
<1> SUFFICES ASSUME NEW f \in Paths, files'[f] # None, files'[f].twin
             PROVE  f \in tidied'
  BY DEF Twins
<1>1. Change(p, f) /\ tidied' = tidied /\ (files[f] # None /\ files[f].twin => f \in tidied)
  BY DEF Frame, IInv, Twins
<1> QED
  BY <1>1 DEF Change, By

(* Somebody who removes a whole file makes nothing.                        *)
LEMMA TidyDoes ==
    ASSUME NEW f \in Paths, IInv, Tidy(f)
    PROVE  IInv'
<1>s. /\ tidied = {} /\ tidied' = {f} /\ files[f] # None /\ files' = [files EXCEPT ![f] = None]
      /\ UNCHANGED <<at, asset, mine, result, zstd, out, dog, stop, expired>>
      /\ TypeOK /\ Sealed /\ EvidenceLast /\ Twins /\ \A p \in Preparers : Made(p) /\ Ready(p) /\ Child(p)
  BY DEF Tidy, child, IInv, Free
<1>1. TypeOK'
  BY <1>s DEF TypeOK
<1>2. \A g \in Paths : files'[g] = IF g = f THEN None ELSE files[g]
  BY <1>s DEF TypeOK
<1>3. Sealed'
  BY <1>s, <1>2, Names DEF Sealed
<1>4. EvidenceLast'
  BY <1>s, <1>2, Names DEF EvidenceLast, By
<1>t. Twins'
  BY <1>s, <1>2 DEF Twins
<1>5. ASSUME NEW p \in Preparers PROVE Made(p)' /\ Ready(p)' /\ Child(p)'
  <2>1. Made(p)'
    BY <1>s, <1>2, Names DEF Made, By
  <2>2. Ready(p)'
    BY <1>s, <1>2, Names DEF Ready, Undisturbed, By
  <2>3. Child(p)'
    BY <1>s DEF Child
  <2> QED
    BY <2>1, <2>2, <2>3
<1> QED
  BY <1>1, <1>3, <1>4, <1>t, <1>5 DEF IInv

(* The first state.                                                        *)
LEMMA Starts ==
    ASSUME Init
    PROVE  IInv
<1>1. TypeOK
  BY PrepareAssumption DEF Init, TypeOK, Labels
<1>2. \A f \in Paths : files[f] = None
  BY DEF Init
<1>3. Sealed /\ EvidenceLast /\ Twins
  BY <1>2, Names DEF Sealed, EvidenceLast, Twins
<1>4. ASSUME NEW p \in Preparers PROVE Made(p) /\ Ready(p) /\ Child(p)
  <2>1. at[p] = "idle"
    BY DEF Init
  <2> QED
    BY <1>2, <2>1, Names DEF Made, Ready, Child, By, ChildLabels
<1> QED
  BY <1>1, <1>3, <1>4 DEF IInv

(* IInv is inductive.                                                      *)
THEOREM Invariance == Spec => []IInv
<1>1. IInv /\ [Next]_vars => IInv'
  <2> SUFFICES ASSUME IInv, [Next]_vars PROVE IInv'
    OBVIOUS
  <2>1. ASSUME NEW p \in Preparers, Step(p) PROVE IInv'
    <3>1. TypeOK' /\ Frame(p) /\ Made(p)' /\ Ready(p)' /\ Child(p)'
      BY <2>1, StepDoes
    <3>2. ASSUME NEW q \in Preparers PROVE Made(q)' /\ Ready(q)' /\ Child(q)'
      BY <3>1, OthersUndisturbed
    <3>3. Sealed' /\ EvidenceLast' /\ Twins'
      BY <3>1, StaysSealed, StaysLast, StayTwins
    <3> QED
      BY <3>1, <3>2, <3>3 DEF IInv
  <2>2. ASSUME NEW f \in Paths, Tidy(f) PROVE IInv'
    BY <2>2, TidyDoes
  <2>3. CASE UNCHANGED vars
    <3>1. /\ UNCHANGED <<files, tidied, at, asset, mine, result, zstd, out, dog, stop, expired>>
          /\ IInv
      BY <2>3 DEF vars, child
    <3>2. TypeOK'
      BY <3>1 DEF IInv, TypeOK
    <3>3. Sealed' /\ EvidenceLast' /\ Twins'
      BY <3>1 DEF IInv, Sealed, EvidenceLast, By, Twins
    <3>4. ASSUME NEW p \in Preparers PROVE Made(p)' /\ Ready(p)' /\ Child(p)'
      <4>1. Made(p) /\ Ready(p) /\ Child(p)
        BY DEF IInv
      <4>2. Made(p)'
        BY <3>1, <4>1 DEF Made, By
      <4>3. Ready(p)'
        BY <3>1, <4>1 DEF Ready, Undisturbed, By
      <4>4. Child(p)'
        BY <3>1, <4>1 DEF Child
      <4> QED
        BY <4>2, <4>3, <4>4
    <3> QED
      BY <3>2, <3>3, <3>4 DEF IInv
  <2> QED
    BY <2>1, <2>2, <2>3 DEF Next, Step
<1> QED
  BY <1>1, Starts, PTL DEF Spec

(* The variables keep their types.                                         *)
THEOREM PreparationTypes == Spec => []TypeOK
<1>1. IInv => TypeOK
  BY DEF IInv
<1> QED
  BY <1>1, Invariance, PTL

(* Evidence that is whole stands beside the whole tree and decision of the *)
(* process that wrote it, whatever failed or died and however many prepare *)
(* the same family at once.                                                *)
THEOREM EvidenceIsLast == Spec => []EvidenceLast
<1>1. IInv => EvidenceLast
  BY DEF IInv
<1> QED
  BY <1>1, Invariance, PTL

(* A process that has failed has left none of its files behind.            *)
THEOREM NothingIsLeft == Spec => []FailedLeavesNothing
<1>1. IInv => FailedLeavesNothing
  BY DEF IInv, FailedLeavesNothing, Made, By
<1> QED
  BY <1>1, Invariance, PTL

(* An archive is used only once its zstd and its watchdog have ended well. *)
THEOREM ExtractionsAreHonest == Spec => []HonestExtraction
<1>1. IInv => HonestExtraction
  BY DEF IInv, HonestExtraction, Child
<1> QED
  BY <1>1, Invariance, PTL

(* A file goes, or changes, by a step of its author or by somebody outside *)
(* the preparations, unless it has the identity of one that was tidied     *)
(* away where it is: a roll-back removes no other file of another process. *)
THEOREM OthersAreKept == Spec => OthersKept
<1>1. IInv /\ [Next]_vars =>
        [\A f \in Paths :
            files[f] # None /\ ~files[f].twin /\ files'[f] # files[f] /\ tidied' = tidied =>
               at'[files[f].by] # at[files[f].by]]_vars
  <2> SUFFICES ASSUME IInv, Next, NEW f \in Paths,
                      files[f] # None, ~files[f].twin, files'[f] # files[f], tidied' = tidied
               PROVE  at'[files[f].by] # at[files[f].by]
    OBVIOUS
  <2>1. ASSUME NEW p \in Preparers, Step(p) PROVE at'[files[f].by] # at[files[f].by]
    <3>1. Frame(p)
      BY <2>1, StepDoes
    <3>2. By(f, p)
      BY <3>1 DEF Frame, Change
    <3>3. at'[p] # at[p]
      BY <3>1 DEF Frame
    <3> QED
      BY <3>2, <3>3 DEF By
  <2>2. ~ \E g \in Paths : Tidy(g)
    BY DEF Tidy
  <2> QED
    BY <2>1, <2>2 DEF Next, Step
<1> QED
  BY <1>1, Invariance, PTL DEF Spec, OthersKept
=============================================================================
