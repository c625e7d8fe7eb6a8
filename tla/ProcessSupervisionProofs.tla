---------------------- MODULE ProcessSupervisionProofs ----------------------
(***************************************************************************)
(* Proofs about ProcessSupervision for any number of pipes and of          *)
(* cancellations: what is alive at each await, what a result rests on, and *)
(* that the call implements BoundedCall.                                   *)
(***************************************************************************)
EXTENDS ProcessSupervision, TLAPS

NoTasks == \A t \in Tasks : task[t] = "none"

(* The child, its descendants and what is known of them *)
Group ==
    /\ reaped => leader \in {"exited", "killed"}
    /\ leader = "none" => desc = "none" /\ at \in {"idle", "ended"}
    /\ at = "idle" => leader = "none" /\ why = "none" /\ stage = "none" /\ ~job
    /\ at = "connect" => leader # "killed"
    /\ bigAtExit => big
    /\ leader \in {"none", "suspended", "running"} => ~bigAtExit
    /\ platform = "windows" /\ at \in {"connect", "closing"} =>
          desc = "none" /\ leader \in {"suspended", "killed"}
    /\ leader = "suspended" => platform = "windows" /\ desc = "none" /\ at = "connect"

(* The tasks; those that are done say what they have seen *)
Watching ==
    /\ at \in {"idle", "connect", "closing"} \/ stage = "attach" => NoTasks
    /\ at = "gather" => leader \in {"running", "exited"} /\ why = "none" /\ stage = "none"
    /\ task["wait"] = "done" => reaped
    /\ task["watch"] = "done" => reaped /\ ~bigAtExit

(* How far the clean-up is *)
Stopping ==
    /\ at \in {"grace", "grace2"} => stage # "none"
    /\ at = "sweep" => stage = "handler"
    /\ at \in {"grace2", "sweep", "close"} => ~GroupAlive
    /\ stage = "attach" => platform = "windows" /\ ~GroupAlive
    /\ at = "grace" /\ stage = "final" => platform = "posix" /\ (GroupAlive => cancels >= 1)
    /\ at = "grace2" /\ stage = "final" => platform = "posix"
    /\ at = "grace" /\ stage = "handler" /\ platform = "windows" => ~GroupAlive
    /\ stage \in {"handler", "final"} => at \in {"grace", "grace2", "sweep", "close", "ended"}
    /\ at = "closing" => why = "cancelled" /\ cancels >= 1
    /\ at \in {"idle", "connect", "gather"} => why = "none" /\ stage = "none"
    /\ at \in {"grace", "grace2", "sweep"} => why \in {"error", "timeout", "cancelled"}
    /\ at \in {"close", "ended"} => why # "none"

IInv == TypeOK /\ Group /\ Watching /\ Stopping /\ NothingSurvives /\ HonestResult

(* The child starts, suspended on Windows. *)
LEMMA LaunchKeeps ==
    ASSUME IInv, Launch
    PROVE  IInv'
<1>t. Launch /\ TypeOK /\ Group /\ Watching /\ Stopping /\ NothingSurvives /\ HonestResult
  BY DEF IInv
<1>1. TypeOK'
  BY <1>t, SupervisionAssumption DEF TypeOK, Labels, Group, Tasks, LeaderAlive, Launch
<1>2. Group'
  BY <1>t DEF TypeOK, Group, Watching, Stopping, Tasks, LeaderAlive, GroupAlive, Launch
<1>3. Watching'
  BY <1>t, SupervisionAssumption DEF TypeOK, Group, Watching, Stopping, NoTasks, Tasks, LeaderAlive, GroupAlive, Launch
<1>4. Stopping'
  BY <1>t, SupervisionAssumption DEF TypeOK, Group, Watching, Stopping, LeaderAlive, GroupAlive, Launch
<1>5. NothingSurvives'
  BY <1>t, SupervisionAssumption DEF TypeOK, Group, Watching, Stopping, NoTasks, NothingSurvives, Tasks, LeaderAlive, GroupAlive, Launch
<1>6. HonestResult'
  BY <1>t, SupervisionAssumption DEF TypeOK, Group, Watching, Stopping, HonestResult, Tasks, LeaderAlive, GroupAlive, Launch
<1> QED
  BY <1>1, <1>2, <1>3, <1>4, <1>5, <1>6 DEF IInv

(* No child, no clean-up. *)
LEMMA LaunchFailsKeeps ==
    ASSUME IInv, LaunchFails
    PROVE  IInv'
<1>t. LaunchFails /\ TypeOK /\ Group /\ Watching /\ Stopping /\ NothingSurvives /\ HonestResult
  BY DEF IInv
<1>1. TypeOK'
  BY <1>t, SupervisionAssumption DEF TypeOK, Labels, Group, Tasks, LeaderAlive, LaunchFails, group
<1>2. Group'
  BY <1>t DEF TypeOK, Group, Watching, Stopping, Tasks, LeaderAlive, GroupAlive, LaunchFails, group
<1>3. Watching'
  BY <1>t, SupervisionAssumption DEF TypeOK, Group, Watching, Stopping, NoTasks, Tasks, LeaderAlive, GroupAlive, LaunchFails, group
<1>4. Stopping'
  BY <1>t, SupervisionAssumption DEF TypeOK, Group, Watching, Stopping, LeaderAlive, GroupAlive, LaunchFails, group
<1>5. NothingSurvives'
  BY <1>t, SupervisionAssumption DEF TypeOK, Group, Watching, Stopping, NoTasks, NothingSurvives, Tasks, LeaderAlive, GroupAlive, LaunchFails, group
<1>6. HonestResult'
  BY <1>t, SupervisionAssumption DEF TypeOK, Group, Watching, Stopping, HonestResult, Tasks, LeaderAlive, GroupAlive, LaunchFails, group
<1> QED
  BY <1>1, <1>2, <1>3, <1>4, <1>5, <1>6 DEF IInv

(* The child may have descendants as long as it runs. *)
LEMMA ForkKeeps ==
    ASSUME IInv, Fork
    PROVE  IInv'
<1>t. Fork /\ TypeOK /\ Group /\ Watching /\ Stopping /\ NothingSurvives /\ HonestResult
  BY DEF IInv
<1>1. TypeOK'
  BY <1>t, SupervisionAssumption DEF TypeOK, Labels, Group, Tasks, LeaderAlive, Fork, call
<1>2. Group'
  BY <1>t DEF TypeOK, Group, Watching, Stopping, Tasks, LeaderAlive, GroupAlive, Fork, call
<1>3. Watching'
  BY <1>t, SupervisionAssumption DEF TypeOK, Group, Watching, Stopping, NoTasks, Tasks, LeaderAlive, GroupAlive, Fork, call
<1>4. Stopping'
  BY <1>t, SupervisionAssumption DEF TypeOK, Group, Watching, Stopping, LeaderAlive, GroupAlive, Fork, call
<1>5. NothingSurvives'
  BY <1>t, SupervisionAssumption DEF TypeOK, Group, Watching, Stopping, NoTasks, NothingSurvives, Tasks, LeaderAlive, GroupAlive, Fork, call
<1>6. HonestResult'
  BY <1>t, SupervisionAssumption DEF TypeOK, Group, Watching, Stopping, HonestResult, Tasks, LeaderAlive, GroupAlive, Fork, call
<1> QED
  BY <1>1, <1>2, <1>3, <1>4, <1>5, <1>6 DEF IInv

(* A descendant may end by itself. *)
LEMMA DescendantEndsKeeps ==
    ASSUME IInv, DescendantEnds
    PROVE  IInv'
<1>t. DescendantEnds /\ TypeOK /\ Group /\ Watching /\ Stopping /\ NothingSurvives /\ HonestResult
  BY DEF IInv
<1>1. TypeOK'
  BY <1>t, SupervisionAssumption DEF TypeOK, Labels, Group, Tasks, LeaderAlive, DescendantEnds, call
<1>2. Group'
  BY <1>t DEF TypeOK, Group, Watching, Stopping, Tasks, LeaderAlive, GroupAlive, DescendantEnds, call
<1>3. Watching'
  BY <1>t, SupervisionAssumption DEF TypeOK, Group, Watching, Stopping, NoTasks, Tasks, LeaderAlive, GroupAlive, DescendantEnds, call
<1>4. Stopping'
  BY <1>t, SupervisionAssumption DEF TypeOK, Group, Watching, Stopping, LeaderAlive, GroupAlive, DescendantEnds, call
<1>5. NothingSurvives'
  BY <1>t, SupervisionAssumption DEF TypeOK, Group, Watching, Stopping, NoTasks, NothingSurvives, Tasks, LeaderAlive, GroupAlive, DescendantEnds, call
<1>6. HonestResult'
  BY <1>t, SupervisionAssumption DEF TypeOK, Group, Watching, Stopping, HonestResult, Tasks, LeaderAlive, GroupAlive, DescendantEnds, call
<1> QED
  BY <1>1, <1>2, <1>3, <1>4, <1>5, <1>6 DEF IInv

(* A watched file may outgrow its limit. *)
LEMMA GrowKeeps ==
    ASSUME IInv, Grow
    PROVE  IInv'
<1>t. Grow /\ TypeOK /\ Group /\ Watching /\ Stopping /\ NothingSurvives /\ HonestResult
  BY DEF IInv
<1>1. TypeOK'
  BY <1>t, SupervisionAssumption DEF TypeOK, Labels, Group, Tasks, LeaderAlive, Grow, call
<1>2. Group'
  BY <1>t DEF TypeOK, Group, Watching, Stopping, Tasks, LeaderAlive, GroupAlive, Grow, call
<1>3. Watching'
  BY <1>t, SupervisionAssumption DEF TypeOK, Group, Watching, Stopping, NoTasks, Tasks, LeaderAlive, GroupAlive, Grow, call
<1>4. Stopping'
  BY <1>t, SupervisionAssumption DEF TypeOK, Group, Watching, Stopping, LeaderAlive, GroupAlive, Grow, call
<1>5. NothingSurvives'
  BY <1>t, SupervisionAssumption DEF TypeOK, Group, Watching, Stopping, NoTasks, NothingSurvives, Tasks, LeaderAlive, GroupAlive, Grow, call
<1>6. HonestResult'
  BY <1>t, SupervisionAssumption DEF TypeOK, Group, Watching, Stopping, HonestResult, Tasks, LeaderAlive, GroupAlive, Grow, call
<1> QED
  BY <1>1, <1>2, <1>3, <1>4, <1>5, <1>6 DEF IInv

(* The child may exit at any time. *)
LEMMA ExitKeeps ==
    ASSUME IInv, Exit
    PROVE  IInv'
<1>t. Exit /\ TypeOK /\ Group /\ Watching /\ Stopping /\ NothingSurvives /\ HonestResult
  BY DEF IInv
<1>1. TypeOK'
  BY <1>t, SupervisionAssumption DEF TypeOK, Labels, Group, Tasks, LeaderAlive, Exit, call
<1>2. Group'
  BY <1>t DEF TypeOK, Group, Watching, Stopping, Tasks, LeaderAlive, GroupAlive, Exit, call
<1>3. Watching'
  BY <1>t, SupervisionAssumption DEF TypeOK, Group, Watching, Stopping, NoTasks, Tasks, LeaderAlive, GroupAlive, Exit, call
<1>4. Stopping'
  BY <1>t, SupervisionAssumption DEF TypeOK, Group, Watching, Stopping, LeaderAlive, GroupAlive, Exit, call
<1>5. NothingSurvives'
  BY <1>t, SupervisionAssumption DEF TypeOK, Group, Watching, Stopping, NoTasks, NothingSurvives, Tasks, LeaderAlive, GroupAlive, Exit, call
<1>6. HonestResult'
  BY <1>t, SupervisionAssumption DEF TypeOK, Group, Watching, Stopping, HonestResult, Tasks, LeaderAlive, GroupAlive, Exit, call
<1> QED
  BY <1>1, <1>2, <1>3, <1>4, <1>5, <1>6 DEF IInv

(* A child that is dead is reaped. *)
LEMMA ReapKeeps ==
    ASSUME IInv, Reap
    PROVE  IInv'
<1>t. Reap /\ TypeOK /\ Group /\ Watching /\ Stopping /\ NothingSurvives /\ HonestResult
  BY DEF IInv
<1>1. TypeOK'
  BY <1>t, SupervisionAssumption DEF TypeOK, Labels, Group, Tasks, LeaderAlive, Reap, call
<1>2. Group'
  BY <1>t DEF TypeOK, Group, Watching, Stopping, Tasks, LeaderAlive, GroupAlive, Reap, call
<1>3. Watching'
  BY <1>t, SupervisionAssumption DEF TypeOK, Group, Watching, Stopping, NoTasks, Tasks, LeaderAlive, GroupAlive, Reap, call
<1>4. Stopping'
  BY <1>t, SupervisionAssumption DEF TypeOK, Group, Watching, Stopping, LeaderAlive, GroupAlive, Reap, call
<1>5. NothingSurvives'
  BY <1>t, SupervisionAssumption DEF TypeOK, Group, Watching, Stopping, NoTasks, NothingSurvives, Tasks, LeaderAlive, GroupAlive, Reap, call
<1>6. HonestResult'
  BY <1>t, SupervisionAssumption DEF TypeOK, Group, Watching, Stopping, HonestResult, Tasks, LeaderAlive, GroupAlive, Reap, call
<1> QED
  BY <1>1, <1>2, <1>3, <1>4, <1>5, <1>6 DEF IInv

(* The task that waits for the child ends after it was reaped. *)
LEMMA WaitDoneKeeps ==
    ASSUME IInv, WaitDone
    PROVE  IInv'
<1>t. WaitDone /\ TypeOK /\ Group /\ Watching /\ Stopping /\ NothingSurvives /\ HonestResult
  BY DEF IInv
<1>1. TypeOK'
  BY <1>t, SupervisionAssumption DEF TypeOK, Labels, Group, Tasks, LeaderAlive, WaitDone, Settle, group
<1>2. Group'
  BY <1>t DEF TypeOK, Group, Watching, Stopping, Tasks, LeaderAlive, GroupAlive, WaitDone, Settle, group
<1>3. Watching'
  BY <1>t, SupervisionAssumption DEF TypeOK, Group, Watching, Stopping, NoTasks, Tasks, LeaderAlive, GroupAlive, WaitDone, Settle, group
<1>4. Stopping'
  BY <1>t, SupervisionAssumption DEF TypeOK, Group, Watching, Stopping, LeaderAlive, GroupAlive, WaitDone, Settle, group
<1>5. NothingSurvives'
  BY <1>t, SupervisionAssumption DEF TypeOK, Group, Watching, Stopping, NoTasks, NothingSurvives, Tasks, LeaderAlive, GroupAlive, WaitDone, Settle, group
<1>6. HonestResult'
  BY <1>t, SupervisionAssumption DEF TypeOK, Group, Watching, Stopping, HonestResult, Tasks, LeaderAlive, GroupAlive, WaitDone, Settle, group
<1> QED
  BY <1>1, <1>2, <1>3, <1>4, <1>5, <1>6 DEF IInv

(* The watcher ends without an error only if the sizes were in order after the child was reaped. *)
LEMMA WatchRoundKeeps ==
    ASSUME IInv, WatchRound
    PROVE  IInv'
<1>t. WatchRound /\ TypeOK /\ Group /\ Watching /\ Stopping /\ NothingSurvives /\ HonestResult
  BY DEF IInv
<1>1. TypeOK'
  BY <1>t, SupervisionAssumption DEF TypeOK, Labels, Group, Tasks, LeaderAlive, WatchRound, Settle, group
<1>2. Group'
  BY <1>t DEF TypeOK, Group, Watching, Stopping, Tasks, LeaderAlive, GroupAlive, WatchRound, Settle, group
<1>3. Watching'
  BY <1>t, SupervisionAssumption DEF TypeOK, Group, Watching, Stopping, NoTasks, Tasks, LeaderAlive, GroupAlive, WatchRound, Settle, group
<1>4. Stopping'
  BY <1>t, SupervisionAssumption DEF TypeOK, Group, Watching, Stopping, LeaderAlive, GroupAlive, WatchRound, Settle, group
<1>5. NothingSurvives'
  BY <1>t, SupervisionAssumption DEF TypeOK, Group, Watching, Stopping, NoTasks, NothingSurvives, Tasks, LeaderAlive, GroupAlive, WatchRound, Settle, group
<1>6. HonestResult'
  BY <1>t, SupervisionAssumption DEF TypeOK, Group, Watching, Stopping, HonestResult, Tasks, LeaderAlive, GroupAlive, WatchRound, Settle, group
<1> QED
  BY <1>1, <1>2, <1>3, <1>4, <1>5, <1>6 DEF IInv

(* A cancelled launch kills the child. *)
LEMMA CancelLaunchKeeps ==
    ASSUME IInv, CancelLaunch
    PROVE  IInv'
<1>t. CancelLaunch /\ TypeOK /\ Group /\ Watching /\ Stopping /\ NothingSurvives /\ HonestResult
  BY DEF IInv
<1>1. TypeOK'
  BY <1>t, SupervisionAssumption DEF TypeOK, Labels, Group, Tasks, LeaderAlive, CancelLaunch
<1>2. Group'
  BY <1>t DEF TypeOK, Group, Watching, Stopping, Tasks, LeaderAlive, GroupAlive, CancelLaunch
<1>3. Watching'
  BY <1>t, SupervisionAssumption DEF TypeOK, Group, Watching, Stopping, NoTasks, Tasks, LeaderAlive, GroupAlive, CancelLaunch
<1>4. Stopping'
  BY <1>t, SupervisionAssumption DEF TypeOK, Group, Watching, Stopping, LeaderAlive, GroupAlive, CancelLaunch
<1>5. NothingSurvives'
  BY <1>t, SupervisionAssumption DEF TypeOK, Group, Watching, Stopping, NoTasks, NothingSurvives, Tasks, LeaderAlive, GroupAlive, CancelLaunch
<1>6. HonestResult'
  BY <1>t, SupervisionAssumption DEF TypeOK, Group, Watching, Stopping, HonestResult, Tasks, LeaderAlive, GroupAlive, CancelLaunch
<1> QED
  BY <1>1, <1>2, <1>3, <1>4, <1>5, <1>6 DEF IInv

(* A cancelled launch has started no task. *)
LEMMA LaunchCancelledKeeps ==
    ASSUME IInv, LaunchCancelled
    PROVE  IInv'
<1>t. LaunchCancelled /\ TypeOK /\ Group /\ Watching /\ Stopping /\ NothingSurvives /\ HonestResult
  BY DEF IInv
<1>1. TypeOK'
  BY <1>t, SupervisionAssumption DEF TypeOK, Labels, Group, Tasks, LeaderAlive, LaunchCancelled, group
<1>2. Group'
  BY <1>t DEF TypeOK, Group, Watching, Stopping, Tasks, LeaderAlive, GroupAlive, LaunchCancelled, group
<1>3. Watching'
  BY <1>t, SupervisionAssumption DEF TypeOK, Group, Watching, Stopping, NoTasks, Tasks, LeaderAlive, GroupAlive, LaunchCancelled, group
<1>4. Stopping'
  BY <1>t, SupervisionAssumption DEF TypeOK, Group, Watching, Stopping, LeaderAlive, GroupAlive, LaunchCancelled, group
<1>5. NothingSurvives'
  BY <1>t, SupervisionAssumption DEF TypeOK, Group, Watching, Stopping, NoTasks, NothingSurvives, Tasks, LeaderAlive, GroupAlive, LaunchCancelled, group
<1>6. HonestResult'
  BY <1>t, SupervisionAssumption DEF TypeOK, Group, Watching, Stopping, HonestResult, Tasks, LeaderAlive, GroupAlive, LaunchCancelled, group
<1> QED
  BY <1>1, <1>2, <1>3, <1>4, <1>5, <1>6 DEF IInv

(* The tasks start with a child that runs. *)
LEMMA AttachKeeps ==
    ASSUME IInv, Attach
    PROVE  IInv'
<1>t. Attach /\ TypeOK /\ Group /\ Watching /\ Stopping /\ NothingSurvives /\ HonestResult
  BY DEF IInv
<1>1. TypeOK'
  BY <1>t, SupervisionAssumption DEF TypeOK, Labels, Group, Tasks, LeaderAlive, Attach, StartTasks
<1>2. Group'
  BY <1>t DEF TypeOK, Group, Watching, Stopping, Tasks, LeaderAlive, GroupAlive, Attach, StartTasks
<1>3. Watching'
  <2>1. /\ at' = "gather" /\ task'["wait"] = "run" /\ task'["watch"] = "run"
        /\ why' = "none" /\ stage' = "none" /\ leader' \in {"running", "exited"}
    BY <1>t, SupervisionAssumption DEF TypeOK, Group, Watching, Stopping, Tasks, Attach, StartTasks
  <2> QED
    BY <2>1 DEF Watching
<1>4. Stopping'
  BY <1>t, SupervisionAssumption DEF TypeOK, Group, Watching, Stopping, LeaderAlive, GroupAlive, Attach, StartTasks
<1>5. NothingSurvives'
  BY <1>t, SupervisionAssumption DEF TypeOK, Group, Watching, Stopping, NoTasks, NothingSurvives, Tasks, LeaderAlive, GroupAlive, Attach, StartTasks
<1>6. HonestResult'
  BY <1>t, SupervisionAssumption DEF TypeOK, Group, Watching, Stopping, HonestResult, Tasks, LeaderAlive, GroupAlive, Attach, StartTasks
<1> QED
  BY <1>1, <1>2, <1>3, <1>4, <1>5, <1>6 DEF IInv

(* Without a job the child is stopped before it ever ran. *)
LEMMA AttachFailsKeeps ==
    ASSUME IInv, AttachFails
    PROVE  IInv'
<1>t. AttachFails /\ TypeOK /\ Group /\ Watching /\ Stopping /\ NothingSurvives /\ HonestResult
  BY DEF IInv
<1>1. TypeOK'
  BY <1>t, SupervisionAssumption DEF TypeOK, Labels, Group, Tasks, LeaderAlive, AttachFails, Terminate, KillGroup, After
<1>2. Group'
  BY <1>t DEF TypeOK, Group, Watching, Stopping, Tasks, LeaderAlive, GroupAlive, AttachFails, Terminate, KillGroup, After
<1>3. Watching'
  BY <1>t, SupervisionAssumption DEF TypeOK, Group, Watching, Stopping, NoTasks, Tasks, LeaderAlive, GroupAlive, AttachFails, Terminate, KillGroup, After
<1>4. Stopping'
  BY <1>t, SupervisionAssumption DEF TypeOK, Group, Watching, Stopping, LeaderAlive, GroupAlive, AttachFails, Terminate, KillGroup, After
<1>5. NothingSurvives'
  BY <1>t, SupervisionAssumption DEF TypeOK, Group, Watching, Stopping, NoTasks, NothingSurvives, Tasks, LeaderAlive, GroupAlive, AttachFails, Terminate, KillGroup, After
<1>6. HonestResult'
  BY <1>t, SupervisionAssumption DEF TypeOK, Group, Watching, Stopping, HonestResult, Tasks, LeaderAlive, GroupAlive, AttachFails, Terminate, KillGroup, After
<1> QED
  BY <1>1, <1>2, <1>3, <1>4, <1>5, <1>6 DEF IInv

(* A result is that of a child that exited and was reaped. *)
LEMMA CompleteKeeps ==
    ASSUME IInv, Complete
    PROVE  IInv'
<1>t. Complete /\ TypeOK /\ Group /\ Watching /\ Stopping /\ NothingSurvives /\ HonestResult
  BY DEF IInv
<1>1. TypeOK'
  BY <1>t, SupervisionAssumption DEF TypeOK, Labels, Group, Tasks, LeaderAlive, Complete, Finally, Terminate, KillGroup, After
<1>2. Group'
  BY <1>t DEF TypeOK, Group, Watching, Stopping, Tasks, LeaderAlive, GroupAlive, Complete, Finally, Terminate, KillGroup, After
<1>3. Watching'
  BY <1>t, SupervisionAssumption DEF TypeOK, Group, Watching, Stopping, NoTasks, Tasks, LeaderAlive, GroupAlive, Complete, Finally, Terminate, KillGroup, After
<1>4. Stopping'
  BY <1>t, SupervisionAssumption DEF TypeOK, Group, Watching, Stopping, Tasks, LeaderAlive, GroupAlive, Complete, Finally, Terminate, KillGroup, After
<1>5. NothingSurvives'
  BY <1>t, SupervisionAssumption DEF TypeOK, Group, Watching, Stopping, NoTasks, NothingSurvives, Tasks, LeaderAlive, GroupAlive, Complete, Finally, Terminate, KillGroup, After
<1>6. HonestResult'
  BY <1>t, SupervisionAssumption DEF TypeOK, Group, Watching, Stopping, HonestResult, Tasks, LeaderAlive, GroupAlive, Complete, Finally, Terminate, KillGroup, After
<1> QED
  BY <1>1, <1>2, <1>3, <1>4, <1>5, <1>6 DEF IInv

(* An error of a task stops the group. *)
LEMMA TaskRaisedKeeps ==
    ASSUME IInv, TaskRaised
    PROVE  IInv'
<1>t. TaskRaised /\ TypeOK /\ Group /\ Watching /\ Stopping /\ NothingSurvives /\ HonestResult
  BY DEF IInv
<1>1. TypeOK'
  BY <1>t, SupervisionAssumption DEF TypeOK, Labels, Group, Tasks, LeaderAlive, TaskRaised, Terminate, KillGroup, After
<1>2. Group'
  BY <1>t DEF TypeOK, Group, Watching, Stopping, Tasks, LeaderAlive, GroupAlive, TaskRaised, Terminate, KillGroup, After
<1>3. Watching'
  BY <1>t, SupervisionAssumption DEF TypeOK, Group, Watching, Stopping, NoTasks, Tasks, LeaderAlive, GroupAlive, TaskRaised, Terminate, KillGroup, After
<1>4. Stopping'
  BY <1>t, SupervisionAssumption DEF TypeOK, Group, Watching, Stopping, LeaderAlive, GroupAlive, TaskRaised, Terminate, KillGroup, After
<1>5. NothingSurvives'
  BY <1>t, SupervisionAssumption DEF TypeOK, Group, Watching, Stopping, NoTasks, NothingSurvives, Tasks, LeaderAlive, GroupAlive, TaskRaised, Terminate, KillGroup, After
<1>6. HonestResult'
  BY <1>t, SupervisionAssumption DEF TypeOK, Group, Watching, Stopping, HonestResult, Tasks, LeaderAlive, GroupAlive, TaskRaised, Terminate, KillGroup, After
<1> QED
  BY <1>1, <1>2, <1>3, <1>4, <1>5, <1>6 DEF IInv

(* The time-out stops the group. *)
LEMMA TimeOutKeeps ==
    ASSUME IInv, TimeOut
    PROVE  IInv'
<1>t. TimeOut /\ TypeOK /\ Group /\ Watching /\ Stopping /\ NothingSurvives /\ HonestResult
  BY DEF IInv
<1>1. TypeOK'
  BY <1>t, SupervisionAssumption DEF TypeOK, Labels, Group, Tasks, LeaderAlive, TimeOut, CancelRest, Terminate, KillGroup, After
<1>2. Group'
  BY <1>t DEF TypeOK, Group, Watching, Stopping, Tasks, LeaderAlive, GroupAlive, TimeOut, CancelRest, Terminate, KillGroup, After
<1>3. Watching'
  BY <1>t, SupervisionAssumption DEF TypeOK, Group, Watching, Stopping, NoTasks, Tasks, LeaderAlive, GroupAlive, TimeOut, CancelRest, Terminate, KillGroup, After
<1>4. Stopping'
  BY <1>t, SupervisionAssumption DEF TypeOK, Group, Watching, Stopping, LeaderAlive, GroupAlive, TimeOut, CancelRest, Terminate, KillGroup, After
<1>5. NothingSurvives'
  BY <1>t, SupervisionAssumption DEF TypeOK, Group, Watching, Stopping, NoTasks, NothingSurvives, Tasks, LeaderAlive, GroupAlive, TimeOut, CancelRest, Terminate, KillGroup, After
<1>6. HonestResult'
  BY <1>t, SupervisionAssumption DEF TypeOK, Group, Watching, Stopping, HonestResult, Tasks, LeaderAlive, GroupAlive, TimeOut, CancelRest, Terminate, KillGroup, After
<1> QED
  BY <1>1, <1>2, <1>3, <1>4, <1>5, <1>6 DEF IInv

(* A cancellation stops the group. *)
LEMMA CancelKeeps ==
    ASSUME IInv, Cancel
    PROVE  IInv'
<1>t. Cancel /\ TypeOK /\ Group /\ Watching /\ Stopping /\ NothingSurvives /\ HonestResult
  BY DEF IInv
<1>1. TypeOK'
  BY <1>t, SupervisionAssumption DEF TypeOK, Labels, Group, Tasks, LeaderAlive, Cancel, CancelRest, Terminate, KillGroup, After
<1>2. Group'
  BY <1>t DEF TypeOK, Group, Watching, Stopping, Tasks, LeaderAlive, GroupAlive, Cancel, CancelRest, Terminate, KillGroup, After
<1>3. Watching'
  BY <1>t, SupervisionAssumption DEF TypeOK, Group, Watching, Stopping, NoTasks, Tasks, LeaderAlive, GroupAlive, Cancel, CancelRest, Terminate, KillGroup, After
<1>4. Stopping'
  BY <1>t, SupervisionAssumption DEF TypeOK, Group, Watching, Stopping, LeaderAlive, GroupAlive, Cancel, CancelRest, Terminate, KillGroup, After
<1>5. NothingSurvives'
  BY <1>t, SupervisionAssumption DEF TypeOK, Group, Watching, Stopping, NoTasks, NothingSurvives, Tasks, LeaderAlive, GroupAlive, Cancel, CancelRest, Terminate, KillGroup, After
<1>6. HonestResult'
  BY <1>t, SupervisionAssumption DEF TypeOK, Group, Watching, Stopping, HonestResult, Tasks, LeaderAlive, GroupAlive, Cancel, CancelRest, Terminate, KillGroup, After
<1> QED
  BY <1>1, <1>2, <1>3, <1>4, <1>5, <1>6 DEF IInv

(* After the grace nothing of the group is alive. *)
LEMMA GraceOverKeeps ==
    ASSUME IInv, GraceOver
    PROVE  IInv'
<1>t. GraceOver /\ TypeOK /\ Group /\ Watching /\ Stopping /\ NothingSurvives /\ HonestResult
  BY DEF IInv
<1>1. TypeOK'
  BY <1>t, SupervisionAssumption DEF TypeOK, Labels, Group, Tasks, LeaderAlive, GraceOver, KillGroup, After
<1>2. Group'
  BY <1>t DEF TypeOK, Group, Watching, Stopping, Tasks, LeaderAlive, GroupAlive, GraceOver, KillGroup, After
<1>3. Watching'
  BY <1>t, SupervisionAssumption DEF TypeOK, Group, Watching, Stopping, NoTasks, Tasks, LeaderAlive, GroupAlive, GraceOver, KillGroup, After
<1>4. Stopping'
  BY <1>t, SupervisionAssumption DEF TypeOK, Group, Watching, Stopping, LeaderAlive, GroupAlive, GraceOver, KillGroup, After
<1>5. NothingSurvives'
  BY <1>t, SupervisionAssumption DEF TypeOK, Group, Watching, Stopping, NoTasks, NothingSurvives, Tasks, LeaderAlive, GroupAlive, GraceOver, KillGroup, After
<1>6. HonestResult'
  BY <1>t, SupervisionAssumption DEF TypeOK, Group, Watching, Stopping, HonestResult, Tasks, LeaderAlive, GroupAlive, GraceOver, KillGroup, After
<1> QED
  BY <1>1, <1>2, <1>3, <1>4, <1>5, <1>6 DEF IInv

(* The second grace changes nothing of the group. *)
LEMMA KillWaitedKeeps ==
    ASSUME IInv, KillWaited
    PROVE  IInv'
<1>t. KillWaited /\ TypeOK /\ Group /\ Watching /\ Stopping /\ NothingSurvives /\ HonestResult
  BY DEF IInv
<1>1. TypeOK'
  BY <1>t, SupervisionAssumption DEF TypeOK, Labels, Group, Tasks, LeaderAlive, KillWaited, After, group
<1>2. Group'
  BY <1>t DEF TypeOK, Group, Watching, Stopping, Tasks, LeaderAlive, GroupAlive, KillWaited, After, group
<1>3. Watching'
  BY <1>t, SupervisionAssumption DEF TypeOK, Group, Watching, Stopping, NoTasks, Tasks, LeaderAlive, GroupAlive, KillWaited, After, group
<1>4. Stopping'
  BY <1>t, SupervisionAssumption DEF TypeOK, Group, Watching, Stopping, LeaderAlive, GroupAlive, KillWaited, After, group
<1>5. NothingSurvives'
  BY <1>t, SupervisionAssumption DEF TypeOK, Group, Watching, Stopping, NoTasks, NothingSurvives, Tasks, LeaderAlive, GroupAlive, KillWaited, After, group
<1>6. HonestResult'
  BY <1>t, SupervisionAssumption DEF TypeOK, Group, Watching, Stopping, HonestResult, Tasks, LeaderAlive, GroupAlive, KillWaited, After, group
<1> QED
  BY <1>1, <1>2, <1>3, <1>4, <1>5, <1>6 DEF IInv

(* The other tasks are cancelled and the finally clause begins. *)
LEMMA SweepKeeps ==
    ASSUME IInv, Sweep
    PROVE  IInv'
<1>t. Sweep /\ TypeOK /\ Group /\ Watching /\ Stopping /\ NothingSurvives /\ HonestResult
  BY DEF IInv
<1>1. TypeOK'
  BY <1>t, SupervisionAssumption DEF TypeOK, Labels, Group, Tasks, LeaderAlive, Sweep, CancelRest, Finally, Terminate, KillGroup, After
<1>2. Group'
  BY <1>t DEF TypeOK, Group, Watching, Stopping, Tasks, LeaderAlive, GroupAlive, Sweep, CancelRest, Finally, Terminate, KillGroup, After
<1>3. Watching'
  BY <1>t, SupervisionAssumption DEF TypeOK, Group, Watching, Stopping, NoTasks, Tasks, LeaderAlive, GroupAlive, Sweep, CancelRest, Finally, Terminate, KillGroup, After
<1>4. Stopping'
  BY <1>t, SupervisionAssumption DEF TypeOK, Group, Watching, Stopping, LeaderAlive, GroupAlive, Sweep, CancelRest, Finally, Terminate, KillGroup, After
<1>5. NothingSurvives'
  BY <1>t, SupervisionAssumption DEF TypeOK, Group, Watching, Stopping, NoTasks, NothingSurvives, Tasks, LeaderAlive, GroupAlive, Sweep, CancelRest, Finally, Terminate, KillGroup, After
<1>6. HonestResult'
  BY <1>t, SupervisionAssumption DEF TypeOK, Group, Watching, Stopping, HonestResult, Tasks, LeaderAlive, GroupAlive, Sweep, CancelRest, Finally, Terminate, KillGroup, After
<1> QED
  BY <1>1, <1>2, <1>3, <1>4, <1>5, <1>6 DEF IInv

(* A cancellation of the handler goes on with the finally clause. *)
LEMMA CancelHandlerKeeps ==
    ASSUME IInv, CancelHandler
    PROVE  IInv'
<1>t. CancelHandler /\ TypeOK /\ Group /\ Watching /\ Stopping /\ NothingSurvives /\ HonestResult
  BY DEF IInv
<1>1. TypeOK'
  BY <1>t, SupervisionAssumption DEF TypeOK, Labels, Group, Tasks, LeaderAlive, CancelHandler, Finally, Terminate, KillGroup, After
<1>2. Group'
  BY <1>t DEF TypeOK, Group, Watching, Stopping, Tasks, LeaderAlive, GroupAlive, CancelHandler, Finally, Terminate, KillGroup, After
<1>3. Watching'
  BY <1>t, SupervisionAssumption DEF TypeOK, Group, Watching, Stopping, NoTasks, Tasks, LeaderAlive, GroupAlive, CancelHandler, Finally, Terminate, KillGroup, After
<1>4. Stopping'
  BY <1>t, SupervisionAssumption DEF TypeOK, Group, Watching, Stopping, LeaderAlive, GroupAlive, CancelHandler, Finally, Terminate, KillGroup, After
<1>5. NothingSurvives'
  BY <1>t, SupervisionAssumption DEF TypeOK, Group, Watching, Stopping, NoTasks, NothingSurvives, Tasks, LeaderAlive, GroupAlive, CancelHandler, Finally, Terminate, KillGroup, After
<1>6. HonestResult'
  BY <1>t, SupervisionAssumption DEF TypeOK, Group, Watching, Stopping, HonestResult, Tasks, LeaderAlive, GroupAlive, CancelHandler, Finally, Terminate, KillGroup, After
<1> QED
  BY <1>1, <1>2, <1>3, <1>4, <1>5, <1>6 DEF IInv

(* A cancellation of the finally clause ends the call. *)
LEMMA CancelFinallyKeeps ==
    ASSUME IInv, CancelFinally
    PROVE  IInv'
<1>t. CancelFinally /\ TypeOK /\ Group /\ Watching /\ Stopping /\ NothingSurvives /\ HonestResult
  BY DEF IInv
<1>1. TypeOK'
  BY <1>t, SupervisionAssumption DEF TypeOK, Labels, Group, Tasks, LeaderAlive, CancelFinally, group
<1>2. Group'
  BY <1>t DEF TypeOK, Group, Watching, Stopping, Tasks, LeaderAlive, GroupAlive, CancelFinally, group
<1>3. Watching'
  BY <1>t, SupervisionAssumption DEF TypeOK, Group, Watching, Stopping, NoTasks, Tasks, LeaderAlive, GroupAlive, CancelFinally, group
<1>4. Stopping'
  BY <1>t, SupervisionAssumption DEF TypeOK, Group, Watching, Stopping, LeaderAlive, GroupAlive, CancelFinally, group
<1>5. NothingSurvives'
  BY <1>t, SupervisionAssumption DEF TypeOK, Group, Watching, Stopping, NoTasks, NothingSurvives, Tasks, LeaderAlive, GroupAlive, CancelFinally, group
<1>6. HonestResult'
  BY <1>t, SupervisionAssumption DEF TypeOK, Group, Watching, Stopping, HonestResult, Tasks, LeaderAlive, GroupAlive, CancelFinally, group
<1> QED
  BY <1>1, <1>2, <1>3, <1>4, <1>5, <1>6 DEF IInv

(* The job is closed at the end. *)
LEMMA CloseKeeps ==
    ASSUME IInv, Close
    PROVE  IInv'
<1>t. Close /\ TypeOK /\ Group /\ Watching /\ Stopping /\ NothingSurvives /\ HonestResult
  BY DEF IInv
<1>1. TypeOK'
  BY <1>t, SupervisionAssumption DEF TypeOK, Labels, Group, Tasks, LeaderAlive, Close, KillGroup
<1>2. Group'
  BY <1>t DEF TypeOK, Group, Watching, Stopping, Tasks, LeaderAlive, GroupAlive, Close, KillGroup
<1>3. Watching'
  BY <1>t, SupervisionAssumption DEF TypeOK, Group, Watching, Stopping, NoTasks, Tasks, LeaderAlive, GroupAlive, Close, KillGroup
<1>4. Stopping'
  BY <1>t, SupervisionAssumption DEF TypeOK, Group, Watching, Stopping, LeaderAlive, GroupAlive, Close, KillGroup
<1>5. NothingSurvives'
  BY <1>t, SupervisionAssumption DEF TypeOK, Group, Watching, Stopping, NoTasks, NothingSurvives, Tasks, LeaderAlive, GroupAlive, Close, KillGroup
<1>6. HonestResult'
  BY <1>t, SupervisionAssumption DEF TypeOK, Group, Watching, Stopping, HonestResult, Tasks, LeaderAlive, GroupAlive, Close, KillGroup
<1> QED
  BY <1>1, <1>2, <1>3, <1>4, <1>5, <1>6 DEF IInv

(* A reader is done or raises. *)
LEMMA ReadEndsKeeps ==
    ASSUME IInv, NEW t \in Readers, ReadEnds(t)
    PROVE  IInv'
<1>t. ReadEnds(t) /\ TypeOK /\ Group /\ Watching /\ Stopping /\ NothingSurvives /\ HonestResult
  BY DEF IInv
<1>1. TypeOK'
  BY <1>t, SupervisionAssumption DEF TypeOK, Labels, Group, Tasks, LeaderAlive, ReadEnds, Settle, group
<1>2. Group'
  BY <1>t DEF TypeOK, Group, Watching, Stopping, Tasks, LeaderAlive, GroupAlive, ReadEnds, Settle, group
<1>3. Watching'
  BY <1>t, SupervisionAssumption DEF TypeOK, Group, Watching, Stopping, NoTasks, Tasks, LeaderAlive, GroupAlive, ReadEnds, Settle, group
<1>4. Stopping'
  BY <1>t, SupervisionAssumption DEF TypeOK, Group, Watching, Stopping, LeaderAlive, GroupAlive, ReadEnds, Settle, group
<1>5. NothingSurvives'
  BY <1>t, SupervisionAssumption DEF TypeOK, Group, Watching, Stopping, NoTasks, NothingSurvives, Tasks, LeaderAlive, GroupAlive, ReadEnds, Settle, group
<1>6. HonestResult'
  BY <1>t, SupervisionAssumption DEF TypeOK, Group, Watching, Stopping, HonestResult, Tasks, LeaderAlive, GroupAlive, ReadEnds, Settle, group
<1> QED
  BY <1>1, <1>2, <1>3, <1>4, <1>5, <1>6 DEF IInv

(* The call has not begun: the invariant holds at the start. *)
LEMMA InitKeeps ==
    ASSUME Init
    PROVE  IInv
<1>1. TypeOK
  <2>1. /\ task \in [Tasks -> {"none", "run", "done", "raised", "cancelled"}]
        /\ cancels \in 0 .. MaxCancels
    BY SupervisionAssumption DEF Init
  <2>2. {job, reaped, big, bigAtExit} \subseteq BOOLEAN
    BY DEF Init
  <2>3. /\ platform \in {"posix", "windows"}
        /\ at \in Labels
        /\ stage \in {"none", "attach", "handler", "final"}
        /\ why \in {"none", "result", "error", "timeout", "cancelled"}
        /\ leader \in {"none", "suspended", "running", "exited", "killed"}
        /\ desc \in {"none", "alive", "gone"}
    BY DEF Init, Labels
  <2> QED
    BY <2>1, <2>2, <2>3 DEF TypeOK
<1>2. Group /\ Watching /\ Stopping
  BY SupervisionAssumption DEF Init, Group, Watching, Stopping, NoTasks, Tasks, GroupAlive, LeaderAlive
<1>3. NothingSurvives /\ HonestResult
  BY DEF Init, NothingSurvives, HonestResult
<1> QED
  BY <1>1, <1>2, <1>3 DEF IInv

(* Every step keeps the invariant. *)
LEMMA NextKeeps ==
    ASSUME IInv, [Next]_vars
    PROVE  IInv'
<1>1. CASE Launch \/ LaunchFails \/ ChildStep \/ Reap
  BY <1>1, LaunchKeeps, LaunchFailsKeeps, ForkKeeps, DescendantEndsKeeps, GrowKeeps, ExitKeeps, ReapKeeps
     DEF ChildStep
<1>2. CASE TaskStep
  BY <1>2, WaitDoneKeeps, WatchRoundKeeps, ReadEndsKeeps DEF TaskStep
<1>3. CASE CallStep
  BY <1>3, AttachKeeps, AttachFailsKeeps, LaunchCancelledKeeps, CompleteKeeps, TaskRaisedKeeps,
     TimeOutKeeps, GraceOverKeeps, KillWaitedKeeps, SweepKeeps, CloseKeeps DEF CallStep
<1>4. CASE CancelStep
  BY <1>4, CancelLaunchKeeps, CancelKeeps, CancelHandlerKeeps, CancelFinallyKeeps DEF CancelStep
<1>5. CASE UNCHANGED vars
  <2>1. UNCHANGED <<platform, at, stage, why, job, leader, desc, reaped, task, big, bigAtExit, cancels>>
    BY <1>5 DEF vars
  <2>2. TypeOK'
    BY <2>1 DEF IInv, TypeOK
  <2>3. Group' /\ Watching' /\ Stopping'
    BY <2>1 DEF IInv, Group, Watching, Stopping, NoTasks, GroupAlive, LeaderAlive
  <2>4. NothingSurvives' /\ HonestResult'
    BY <2>1 DEF IInv, NothingSurvives, HonestResult, GroupAlive, LeaderAlive
  <2> QED
    BY <2>2, <2>3, <2>4 DEF IInv
<1> QED
  BY <1>1, <1>2, <1>3, <1>4, <1>5 DEF Next

(* The invariant holds throughout, whatever the child does and however     *)
(* often the caller cancels.                                               *)
THEOREM Invariance == Spec => []IInv
<1>1. Init => IInv
  BY InitKeeps
<1>2. IInv /\ [Next]_vars => IInv'
  BY NextKeeps
<1> QED
  BY <1>1, <1>2, PTL DEF Spec

(* Every variable of the call keeps its type.                              *)
THEOREM SupervisionTypes == Spec => []TypeOK
<1>1. IInv => TypeOK
  BY DEF IInv
<1> QED
  BY <1>1, Invariance, PTL

(* Nothing of the group outlives the call, but for the named cancellations *)
(* of its clean-up (_terminate and the finally clause of _run_process).    *)
THEOREM NothingIsLeft == Spec => []NothingSurvives
<1>1. IInv => NothingSurvives
  BY DEF IInv
<1> QED
  BY <1>1, Invariance, PTL

(* A result is that of a child that exited by itself, was read to its end  *)
(* and was within its limits.                                              *)
THEOREM ResultsAreHonest == Spec => []HonestResult
<1>1. IInv => HonestResult
  BY DEF IInv
<1> QED
  BY <1>1, Invariance, PTL


(* A step that neither begins nor ends the call, and lets nobody come      *)
(* alive again, is one of the child or of those who stop it.               *)
LEMMA StepInside ==
    ASSUME TypeOK, TypeOK', SeenStage' = SeenStage, SeenAnswer' = SeenAnswer,
           leader # "none", leader' # "none", GroupAlive' => GroupAlive,
           ~GroupAlive => (leader' = "killed" <=> leader = "killed")
    PROVE  [Promise!Next]_(Promise!vars)
<1>1. CASE SeenChild' = SeenChild
  BY <1>1 DEF Promise!vars
<1>2. CASE SeenChild' # SeenChild
  <2>1. SeenChild = "alive" /\ SeenChild' \in {"left", "stopped"}
    BY <1>2 DEF SeenChild
  <2> QED
    BY <2>1 DEF Promise!Next, Promise!Leave, Promise!Stop
<1> QED
  BY <1>1, <1>2

(* A step that ends the call answers for what became of the child, or says *)
(* that the call was cancelled.                                            *)
LEMMA StepEnds ==
    ASSUME TypeOK, at \notin {"idle", "ended"}, at' = "ended", UNCHANGED <<leader, desc>>,
           leader # "none", why' \in {"result", "error", "timeout", "cancelled"},
           GroupAlive => why' = "cancelled", why' = "result" => leader = "exited"
    PROVE  [Promise!Next]_(Promise!vars)
<1>1. /\ SeenStage = "busy" /\ SeenStage' = "ended" /\ SeenChild' = SeenChild
      /\ SeenAnswer' \in {"result", "refused", "cancelled"}
      /\ SeenAnswer' = "result" <=> why' = "result"
      /\ SeenAnswer' = "cancelled" <=> why' = "cancelled"
  BY DEF SeenStage, SeenChild, SeenAnswer, GroupAlive, LeaderAlive
<1>2. CASE GroupAlive
  <2>1. SeenChild = "alive"
    BY <1>2 DEF SeenChild
  <2> QED
    BY <1>1, <1>2, <2>1 DEF Promise!Next, Promise!LetGo
<1>3. CASE ~GroupAlive
  <2>1. SeenChild # "alive" /\ (why' = "result" => SeenChild = "left")
    BY <1>3 DEF SeenChild
  <2> QED
    BY <1>1, <2>1 DEF Promise!Next, Promise!Answer
<1> QED
  BY <1>2, <1>3

(* _run_process implements what its callers are promised: its initial      *)
(* states are initial there, and every step of the child, of a task or of  *)
(* the call is one of BoundedCall or a stutter.                            *)
THEOREM Refinement == Spec => ImplementsBoundedCall
<1>1. Init => Promise!Init
  BY DEF Init, Promise!Init, SeenStage, SeenChild, SeenAnswer
<1>2. IInv /\ IInv' /\ [Next]_vars => [Promise!Next]_(Promise!vars)
  <2> SUFFICES ASSUME IInv, IInv', [Next]_vars PROVE [Promise!Next]_(Promise!vars)
    OBVIOUS
  <2>t. TypeOK /\ TypeOK' /\ Group /\ Watching /\ Stopping /\ HonestResult /\ Stopping' /\ HonestResult'
    BY DEF IInv
  <2>1. CASE Launch
    <3>1. SeenStage = "idle" /\ SeenStage' = "busy" /\ SeenChild' = "alive" /\ SeenAnswer' = SeenAnswer
      BY <2>1 DEF Launch, SeenStage, SeenChild, SeenAnswer, GroupAlive, LeaderAlive
    <3> QED
      BY <3>1 DEF Promise!Next, Promise!Start
  <2>2. CASE LaunchFails
    <3>1. SeenStage = "idle" /\ SeenStage' = "ended" /\ SeenChild' = SeenChild /\ SeenAnswer' = "refused"
      BY <2>2 DEF LaunchFails, SeenStage, SeenChild, SeenAnswer, GroupAlive, LeaderAlive, group
    <3> QED
      BY <3>1 DEF Promise!Next, Promise!NoStart
  <2>3. CASE ChildStep \/ Reap
    <3>1. /\ UNCHANGED <<at, why>> /\ leader # "none" /\ leader' # "none" /\ (GroupAlive' => GroupAlive)
          /\ ~GroupAlive => leader' = leader
      BY <2>3, <2>t DEF ChildStep, Fork, DescendantEnds, Grow, Exit, Reap, Group, GroupAlive, LeaderAlive, call
    <3>2. SeenStage' = SeenStage /\ SeenAnswer' = SeenAnswer
      BY <3>1 DEF SeenStage, SeenAnswer
    <3> QED
      BY <3>1, <3>2, <2>t, StepInside
  <2>4. CASE TaskStep \/ UNCHANGED vars
    <3>1. UNCHANGED <<at, why, leader, desc>>
      BY <2>4 DEF TaskStep, WaitDone, WatchRound, ReadEnds, Settle, group, vars
    <3> QED
      BY <3>1 DEF Promise!vars, SeenStage, SeenChild, SeenAnswer, GroupAlive, LeaderAlive
  <2>5. CASE Attach \/ AttachFails \/ Complete \/ TaskRaised \/ TimeOut \/ GraceOver \/ KillWaited \/ Sweep
             \/ CancelLaunch \/ Cancel \/ CancelHandler
    <3>1. at \notin {"idle", "ended"} /\ at' \notin {"idle", "ended"}
      BY <2>5 DEF Attach, AttachFails, Complete, TaskRaised, TimeOut, GraceOver, KillWaited, Sweep,
                  CancelLaunch, Cancel, CancelHandler, StartTasks, Terminate, Finally, After
    <3>2. leader # "none"
      BY <3>1, <2>t DEF Group
    <3>3. \/ UNCHANGED <<leader, desc>>
          \/ KillGroup
          \/ leader = "suspended" /\ leader' = "running" /\ desc' = desc
          \/ leader' = (IF LeaderAlive THEN "killed" ELSE leader) /\ desc' = desc
      BY <2>5 DEF Attach, AttachFails, Complete, TaskRaised, TimeOut, GraceOver, KillWaited, Sweep,
                  CancelLaunch, Cancel, CancelHandler, StartTasks, Terminate, Finally, group
    <3>4. leader' # "none" /\ (GroupAlive' => GroupAlive) /\ (~GroupAlive => leader' = leader)
      BY <3>2, <3>3 DEF KillGroup, GroupAlive, LeaderAlive
    <3>5. SeenStage' = SeenStage /\ SeenAnswer' = SeenAnswer
      BY <3>1 DEF SeenStage, SeenAnswer
    <3> QED
      BY <3>2, <3>4, <3>5, <2>t, StepInside
  <2>6. CASE LaunchCancelled \/ CancelFinally \/ Close
    <3>1. at \notin {"idle", "ended"} /\ at' = "ended"
      BY <2>6 DEF LaunchCancelled, CancelFinally, Close
    <3>2. UNCHANGED <<leader, desc>>
      BY <2>6, <2>t DEF LaunchCancelled, CancelFinally, Close, KillGroup, Stopping, GroupAlive, LeaderAlive, group
    <3>3. why' \in {"result", "error", "timeout", "cancelled"} /\ leader # "none"
      BY <3>1, <2>t DEF Stopping, Group, TypeOK
    <3>4. GroupAlive => why' = "cancelled"
      BY <2>6, <2>t DEF LaunchCancelled, CancelFinally, Close, Stopping
    <3>5. why' = "result" => leader = "exited"
      BY <3>2, <2>t DEF HonestResult
    <3> QED
      BY <3>1, <3>2, <3>3, <3>4, <3>5, <2>t, StepEnds
  <2> QED
    BY <2>1, <2>2, <2>3, <2>4, <2>5, <2>6 DEF Next, CallStep, CancelStep
<1> QED
  BY <1>1, <1>2, Invariance, PTL DEF Spec, ImplementsBoundedCall, Promise!Spec

=============================================================================
