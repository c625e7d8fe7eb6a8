------------------------- MODULE ProcessSupervision -------------------------
(***************************************************************************)
(* One call of _run_process in src/simcairn/xyce.py: a child is started in *)
(* a session (POSIX) or, suspended, in a job (Windows); four asyncio tasks *)
(* read its two pipes, wait for it and watch the sizes of its files; and   *)
(* the call ends with a result, an error, a time-out or a cancellation     *)
(* after it has stopped what is left of the group.                         *)
(*                                                                         *)
(* A step of the call is what it does between two awaits.  The child and   *)
(* its descendants act at any time, may ignore SIGTERM and may leave a     *)
(* descendant behind; descendants that leave the session are not modelled. *)
(***************************************************************************)
EXTENDS Naturals, FiniteSets

CONSTANTS
    Readers,   \* the tasks that read a pipe
    MaxCancels \* bound: how often the caller cancels the call

ASSUME SupervisionAssumption == /\ Readers \cap {"wait", "watch"} = {}
                                /\ MaxCancels \in Nat

VARIABLES
    platform, \* "posix" or "windows"
    at,       \* the await the call is at
    stage,    \* who called _terminate: "attach", "handler" or "final"
    why,      \* how the call is to end: "none", "result", "error", "timeout", "cancelled"
    job,      \* the child is in a Windows job
    leader,   \* the child: "none", "suspended", "running", "exited", "killed"
    desc,     \* its descendants in the group: "none", "alive", "gone"
    reaped,   \* process.returncode is known
    task,     \* the four tasks: "none", "run", "done", "raised", "cancelled"
    big,      \* a watched file is over its limit
    bigAtExit,\* ... when the child exited
    cancels   \* the cancellations so far

vars == <<platform, at, stage, why, job, leader, desc, reaped, task, big, bigAtExit, cancels>>
call == <<at, stage, why, job, task, cancels>>
group == <<leader, desc, reaped, big, bigAtExit>>

Tasks == Readers \cup {"wait", "watch"}
Labels == {"idle", "connect", "closing", "gather", "grace", "grace2", "sweep", "close", "ended"}

TypeOK ==
    /\ platform \in {"posix", "windows"}
    /\ at \in Labels
    /\ stage \in {"none", "attach", "handler", "final"}
    /\ why \in {"none", "result", "error", "timeout", "cancelled"}
    /\ leader \in {"none", "suspended", "running", "exited", "killed"}
    /\ desc \in {"none", "alive", "gone"}
    /\ task \in [Tasks -> {"none", "run", "done", "raised", "cancelled"}]
    /\ {job, reaped, big, bigAtExit} \subseteq BOOLEAN
    /\ cancels \in 0 .. MaxCancels

Init ==
    /\ platform \in {"posix", "windows"}
    /\ at = "idle" /\ stage = "none" /\ why = "none" /\ job = FALSE /\ cancels = 0
    /\ leader = "none" /\ desc = "none" /\ reaped = FALSE /\ big = FALSE /\ bigAtExit = FALSE
    /\ task = [t \in Tasks |-> "none"]

LeaderAlive == leader \in {"suspended", "running"}
GroupAlive == LeaderAlive \/ desc = "alive"

(* SIGKILL to the session, TerminateJobObject, or closing the job *)
KillGroup == /\ leader' = IF LeaderAlive THEN "killed" ELSE leader
             /\ desc' = IF desc = "alive" THEN "gone" ELSE desc

After(s) == IF s = "handler" THEN "sweep" ELSE "close"

(***************************************************************************)
(* _terminate up to its first await.  SIGTERM is a request, and a process  *)
(* that grants it exits by itself; with the leader reaped SIGKILL follows  *)
(* at once, so that descendants are reached.                               *)
(***************************************************************************)
Terminate(s) ==
    /\ stage' = s
    /\ IF platform = "windows" \/ reaped THEN KillGroup ELSE UNCHANGED <<leader, desc>>
    /\ at' = IF reaped THEN After(s) ELSE "grace"

(* Mutant: the group is not stopped once its leader has been reaped *)
FinallyUnlessReaped ==
    IF platform = "posix" /\ ~reaped
    THEN Terminate("final")
    ELSE /\ stage' = "final" /\ at' = "close"
         /\ IF platform = "windows" THEN KillGroup ELSE UNCHANGED <<leader, desc>>

(* The finally clause of the call up to its first await *)
Finally == IF platform = "windows"
           THEN stage' = "final" /\ KillGroup /\ at' = "close"
           ELSE Terminate("final")

CancelRest == task' = [t \in Tasks |-> IF task[t] = "run" THEN "cancelled" ELSE task[t]]

-----------------------------------------------------------------------------
(* The child *)

Fork == /\ leader = "running" /\ desc # "alive"
        /\ desc' = "alive"
        /\ UNCHANGED <<platform, call, leader, reaped, big, bigAtExit>>

DescendantEnds == /\ desc = "alive"
                  /\ desc' = "gone"
                  /\ UNCHANGED <<platform, call, leader, reaped, big, bigAtExit>>

Grow == /\ leader = "running" \/ desc = "alive"
        /\ ~big
        /\ big' = TRUE
        /\ UNCHANGED <<platform, call, leader, desc, reaped, bigAtExit>>

Exit == /\ leader = "running"
        /\ leader' = "exited" /\ bigAtExit' = big
        /\ UNCHANGED <<platform, call, desc, reaped, big>>

-----------------------------------------------------------------------------
(* The event loop and the tasks *)

Reap == /\ leader \in {"exited", "killed"} /\ ~reaped /\ at # "ended"
        /\ reaped' = TRUE
        /\ UNCHANGED <<platform, call, leader, desc, big, bigAtExit>>

Settle(t, how) == /\ task[t] = "run"
                  /\ task' = [task EXCEPT ![t] = how]
                  /\ UNCHANGED <<platform, group, at, stage, why, job, cancels>>

(* A reader reaches the end of its pipe, or reads more than the limit *)
ReadEnds(t) == t \in Readers /\ \E how \in {"done", "raised"} : Settle(t, how)

WaitDone == reaped /\ Settle("wait", "done")

(* Mutant: it asks whether the child is waited for before it looks at the sizes *)
WatchRoundLate == \/ task["wait"] = "done" /\ Settle("watch", "done")
                  \/ task["wait"] # "done" /\ big /\ Settle("watch", "raised")

(* One round of the watcher looks at the sizes, then whether the child is waited for *)
WatchRound == \/ big /\ Settle("watch", "raised")
              \/ ~big /\ task["wait"] = "done" /\ Settle("watch", "done")

-----------------------------------------------------------------------------
(* The call *)

Launch ==
    /\ at = "idle"
    /\ at' = "connect"
    /\ leader' = IF platform = "windows" THEN "suspended" ELSE "running"
    /\ UNCHANGED <<platform, stage, why, job, desc, reaped, task, big, bigAtExit, cancels>>

LaunchFails ==
    /\ at = "idle"
    /\ at' = "ended" /\ why' = "error"
    /\ UNCHANGED <<platform, group, stage, job, task, cancels>>

(* asyncio kills the child, and only it, when the launch is cancelled *)
CancelLaunch ==
    /\ at = "connect" /\ cancels < MaxCancels
    /\ cancels' = cancels + 1 /\ why' = "cancelled"
    /\ at' = "closing"
    /\ leader' = IF LeaderAlive THEN "killed" ELSE leader
    /\ UNCHANGED <<platform, stage, job, desc, reaped, task, big, bigAtExit>>

LaunchCancelled ==
    /\ at = "closing" /\ reaped
    /\ at' = "ended"
    /\ UNCHANGED <<platform, group, stage, why, job, task, cancels>>

StartTasks == at' = "gather" /\ task' = [t \in Tasks |-> "run"]

(* Windows: into the job, and only then the suspended thread is resumed *)
Attach ==
    /\ at = "connect"
    /\ StartTasks
    /\ job' = (platform = "windows")
    /\ leader' = IF leader = "suspended" THEN "running" ELSE leader
    /\ UNCHANGED <<platform, stage, why, desc, reaped, big, bigAtExit, cancels>>

AttachFails ==
    /\ at = "connect" /\ platform = "windows"
    /\ why' = "error"
    /\ job' \in BOOLEAN \* FALSE: no job; TRUE: in the job, but not resumed
    /\ Terminate("attach")
    /\ UNCHANGED <<platform, reaped, task, big, bigAtExit, cancels>>

Complete ==
    /\ at = "gather" /\ \A t \in Tasks : task[t] = "done"
    /\ why' = "result"
    /\ Finally
    /\ UNCHANGED <<platform, job, reaped, task, big, bigAtExit, cancels>>

TaskRaised ==
    /\ at = "gather" /\ \E t \in Tasks : task[t] = "raised"
    /\ why' = "error"
    /\ Terminate("handler")
    /\ UNCHANGED <<platform, job, reaped, task, big, bigAtExit, cancels>>

(* The time-out and a cancellation reach the four tasks before the handler *)
TimeOut ==
    /\ at = "gather"
    /\ why' = "timeout"
    /\ CancelRest
    /\ Terminate("handler")
    /\ UNCHANGED <<platform, job, reaped, big, bigAtExit, cancels>>

Cancel ==
    /\ at = "gather" /\ cancels < MaxCancels
    /\ cancels' = cancels + 1 /\ why' = "cancelled"
    /\ CancelRest
    /\ Terminate("handler")
    /\ UNCHANGED <<platform, job, reaped, big, bigAtExit>>

(* Mutant: the wait for SIGTERM to be granted has no time limit *)
GraceOverPatient ==
    /\ at = "grace" /\ reaped
    /\ KillGroup
    /\ at' = After(stage)
    /\ UNCHANGED <<platform, stage, why, job, reaped, task, big, bigAtExit, cancels>>

(* Mutant: the grace ends without SIGKILL *)
GraceOverTrusting ==
    /\ at = "grace"
    /\ at' = IF reaped THEN After(stage) ELSE "grace2"
    /\ UNCHANGED <<platform, group, stage, why, job, task, cancels>>

(* The child is reaped, or the grace is over *)
GraceOver ==
    /\ at = "grace"
    /\ KillGroup
    /\ at' = IF reaped THEN After(stage) ELSE "grace2"
    /\ UNCHANGED <<platform, stage, why, job, reaped, task, big, bigAtExit, cancels>>

KillWaited ==
    /\ at = "grace2"
    /\ at' = After(stage)
    /\ UNCHANGED <<platform, group, stage, why, job, task, cancels>>

Sweep ==
    /\ at = "sweep"
    /\ CancelRest
    /\ Finally
    /\ UNCHANGED <<platform, why, job, reaped, big, bigAtExit, cancels>>

(* A cancellation that finds the call in a handler, or in the clean-up of the launch *)
CancelHandler ==
    /\ at \in {"grace", "grace2", "sweep"} /\ stage # "final" /\ cancels < MaxCancels
    /\ cancels' = cancels + 1 /\ why' = "cancelled"
    /\ IF stage = "handler" THEN Finally ELSE at' = "close" /\ UNCHANGED <<stage, leader, desc>>
    /\ UNCHANGED <<platform, job, reaped, task, big, bigAtExit>>

(* One that finds it in the finally clause: what _terminate had still to do is not done *)
CancelFinally ==
    /\ \/ at \in {"grace", "grace2"} /\ stage = "final"
       \/ at = "closing"
    /\ cancels < MaxCancels
    /\ cancels' = cancels + 1 /\ why' = "cancelled"
    /\ at' = "ended"
    /\ UNCHANGED <<platform, group, stage, job, task>>

(* Closing the job kills what it still holds *)
Close ==
    /\ at = "close"
    /\ at' = "ended"
    /\ IF job THEN KillGroup ELSE UNCHANGED <<leader, desc>>
    /\ UNCHANGED <<platform, stage, why, job, reaped, task, big, bigAtExit, cancels>>

ChildStep == Fork \/ DescendantEnds \/ Grow \/ Exit
TaskStep == WaitDone \/ WatchRound \/ \E t \in Readers : ReadEnds(t)
CallStep ==
    \/ Attach \/ AttachFails \/ LaunchCancelled
    \/ Complete \/ TaskRaised \/ TimeOut
    \/ GraceOver \/ KillWaited \/ Sweep \/ Close
CancelStep == CancelLaunch \/ Cancel \/ CancelHandler \/ CancelFinally

Next == Launch \/ LaunchFails \/ ChildStep \/ Reap \/ TaskStep \/ CallStep \/ CancelStep

Spec == Init /\ [][Next]_vars

(* The event loop runs its tasks and its timers, and the system reports a dead child; *)
(* the child itself owes nothing.                                                     *)
FairSpec == Spec /\ WF_vars(CallStep) /\ WF_vars(Reap)

-----------------------------------------------------------------------------
(***************************************************************************)
(* When the call has ended nothing of the group is alive, whichever way it *)
(* ended and whenever the child exited, forked or was reaped.  The cases   *)
(* left are those where the caller cancels the clean-up itself: a second   *)
(* time, or while the child is being launched, and not on Windows.         *)
(***************************************************************************)
NothingSurvives ==
    at = "ended" /\ GroupAlive =>
        /\ platform = "posix" /\ why = "cancelled"
        /\ cancels >= 2 \/ \A t \in Tasks : task[t] = "none"

(***************************************************************************)
(* A call returns a result only for a child that exited by itself and was  *)
(* reaped, whose two pipes were read to their end within the limits, and   *)
(* whose watched files were within theirs when it exited.                  *)
(***************************************************************************)
HonestResult ==
    why = "result" =>
        /\ leader = "exited" /\ reaped /\ ~bigAtExit
        /\ \A t \in Tasks : task[t] = "done"

(* A child that ignores everything does not keep the call from ending: after the *)
(* time-out and two graces it ends.                                              *)
CallEnds == at # "idle" ~> at = "ended"

(* The call as its callers see it: _run_process implements BoundedCall. *)
SeenStage == CASE at = "idle" -> "idle" [] at = "ended" -> "ended" [] OTHER -> "busy"
SeenChild == CASE leader = "none" -> "none" [] leader # "none" /\ GroupAlive -> "alive"
               [] ~GroupAlive /\ leader = "killed" -> "stopped" [] OTHER -> "left"
SeenAnswer == CASE at # "ended" -> "none" [] at = "ended" /\ why \in {"error", "timeout"} -> "refused"
                [] OTHER -> why

Promise == INSTANCE BoundedCall WITH
    stage <- SeenStage, child <- SeenChild, answer <- SeenAnswer
ImplementsBoundedCall == Promise!Spec

=============================================================================
