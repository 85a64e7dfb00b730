----------------------------- MODULE Controller -----------------------------
(***************************************************************************)
(* The controller's life cycle (src/eval/sidecar_runtime.py,               *)
(* sidecar_agent.py, and the process it starts, sidecar_daemon.py).  A run *)
(* of the agent starts the host broker and a sidecar container beside the  *)
(* task container, sends the sidecar control requests, and closes both.    *)
(* What cannot be decided about the task's processes is settled by         *)
(* removing the task, and the sidecar, which holds the forks, last.        *)
(*                                                                         *)
(* The broker is SidecarBroker: this module takes its steps, and makes     *)
(* those that were left to its environment.  The controller is an asyncio  *)
(* program too; one action is what it does on the answer of one Docker     *)
(* call.  A call may fail or time out at any time, its effect done or not. *)
(* A cancellation of aclose fails the call it strikes, and aclose goes on. *)
(***************************************************************************)
CONSTANT
  Requests     \* the brokered calls of one run

VARIABLES
  fork, handler, worker, reply, alive, poisoned,                   \* SidecarBroker's
  termination, expired, stage, awaited, exited, terminated,
  agentPoisoned,   \* SidecarSFXAgent._sidecar_poisoned
  pc,              \* the await that start or aclose is at
  reached,         \* how far start came: _identity, then broker, then _started are set
  invalid,         \* Controller._poisoned
  uncertain,       \* Controller._uncertain
  removal,         \* _remove_uncertain_task, as called by on_poison and by aclose
  exec,            \* Controller.exec and _control_lock
  task,            \* the task container, compared with _identity
  sidecar,         \* the run's sidecar container
  dockerFailed     \* history: Docker failed a call of aclose

B == INSTANCE SidecarBroker

broker == <<fork, handler, worker, reply, alive, poisoned,
            termination, expired, stage, awaited, exited, terminated>>
flags == <<invalid, uncertain>>
containers == <<task, sidecar>>
own == <<agentPoisoned, pc, reached, flags, removal, exec, containers, dockerFailed>>
vars == <<broker, own>>

Starting == {"verify", "broker", "create", "owned", "start", "ready", "verify_again"}
Closing == {"close_control", "inspect", "quiesce", "wait", "remove", "removing", "drain", "draining",
            "remove_again", "removing_again", "inspect_again", "rm", "verify_rm", "report"}
Exited == {"clean", "dirty"}          \* exit code 0, and any other
Removing == {"inspect", "rm", "check"}
Callers == {"poison", "close"}

TypeOK ==
  /\ B!TypeOK
  /\ agentPoisoned \in BOOLEAN
  /\ pc \in Starting \cup Closing \cup {"open", "closed", "idle"}
  /\ reached \in {"nothing", "identity", "broker", "started"}
  /\ invalid \in BOOLEAN /\ uncertain \in BOOLEAN
  /\ removal \in [Callers -> Removing \cup {"idle", "waiting"}]
  /\ exec \in {"never", "waiting", "inside", "idle"}
  /\ task \in {"ours", "changed", "gone"}
  /\ sidecar \in Exited \cup {"none", "created", "running", "stopping", "removed"}
  /\ dockerFailed \in BOOLEAN

Init ==
  /\ B!Init
  /\ agentPoisoned = FALSE
  /\ pc = "idle"
  /\ reached = "nothing"
  /\ invalid = FALSE /\ uncertain = FALSE
  /\ removal = [c \in Callers |-> "idle"]
  /\ exec = "never"
  /\ task = "ours" /\ sidecar = "none"
  /\ dockerFailed = FALSE

closed == pc \in Closing \cup {"closed", "idle"}
started == reached = "started"
identified == reached # "nothing"

\* Processes of the task that may use a fork: none in a container that is gone.
processes == IF task = "gone" THEN {} ELSE alive

Goto(step) == pc' = step

\* _error: sticky, and noting whether a process of the task is in doubt.
Error(doubt) ==
  /\ invalid' = TRUE
  /\ uncertain' = (uncertain \/ doubt)

\* raise_if_poisoned: uncertain.json is there when a fork was retained, unless the
\* sidecar could not write it.
RaiseIfPoisoned ==
  \E marker \in {FALSE, \E r \in Requests : fork[r] = "retained"} :
    IF marker \/ poisoned THEN Error(TRUE) ELSE UNCHANGED flags

-----------------------------------------------------------------------------
(* SidecarSFXAgent.run: one Controller after the other *)

NewBroker ==
  /\ fork' = [r \in Requests |-> "none"] /\ handler' = [r \in Requests |-> "none"]
  /\ worker' = [r \in Requests |-> "none"] /\ reply' = [r \in Requests |-> "none"]
  /\ alive' = {} /\ awaited' = {}
  /\ poisoned' = FALSE /\ expired' = FALSE /\ exited' = FALSE /\ terminated' = FALSE
  /\ termination' = "none" /\ stage' = "open"

NewRun ==
  /\ pc = "idle"
  /\ ~agentPoisoned
  /\ Goto("verify")
  /\ reached' = "nothing"
  /\ invalid' = FALSE /\ uncertain' = FALSE
  /\ removal' = [c \in Callers |-> "idle"]
  /\ exec' = "never"
  /\ task' = IF task = "changed" THEN "ours" ELSE task     \* a new _identity
  /\ sidecar' = "none"
  /\ dockerFailed' = FALSE
  /\ NewBroker
  /\ UNCHANGED agentPoisoned

\* Forgetting the poison that only the broker knows of.
RunEnds_OwnFlag ==
  /\ pc = "closed"
  /\ Goto("idle")
  /\ \E cleanup \in BOOLEAN : agentPoisoned' = cleanup
  /\ UNCHANGED <<broker, reached, flags, removal, exec, containers, dockerFailed>>

\* After aclose: raise_if_poisoned, then the comparison of file system and trace with
\* what they were before the cleanup, which may fail.
RunEnds ==
  /\ pc = "closed"
  /\ Goto("idle")
  /\ RaiseIfPoisoned
  /\ \E cleanup \in BOOLEAN : agentPoisoned' = (cleanup \/ invalid' \/ poisoned)
  /\ UNCHANGED <<broker, reached, removal, exec, containers, dockerFailed>>

-----------------------------------------------------------------------------
(* Controller.start; any failure is followed by aclose *)

startUnchanged == <<broker, agentPoisoned, removal, exec, task, dockerFailed>>

\* A step on success, or the failure of start.
Start(step, next) ==
  /\ pc = step
  /\ Goto(next)
  /\ UNCHANGED <<startUnchanged, flags>>

StartFails(step) ==
  /\ pc = step
  /\ Error(FALSE)
  /\ Goto("close_control")
  /\ UNCHANGED startUnchanged

VerifyTask ==
  \/ Start("verify", "broker") /\ task = "ours" /\ reached' = "identity" /\ UNCHANGED sidecar
  \/ StartFails("verify") /\ UNCHANGED <<reached, sidecar>>

\* Directory, configuration and broker; self.broker is set before its start can fail.
StartBroker ==
  \/ Start("broker", "create") /\ reached' = "broker" /\ UNCHANGED sidecar
  \/ StartFails("broker") /\ reached' \in {"identity", "broker"} /\ UNCHANGED sidecar

\* docker create: a lost answer leaves a container that is found by its name.  What was
\* not done when the call timed out is not done later.
CreateSidecar ==
  \/ Start("create", "owned") /\ sidecar' = "created" /\ UNCHANGED reached
  \/ StartFails("create") /\ sidecar' \in {"none", "created"} /\ UNCHANGED reached

OwnedSidecar ==
  /\ Start("owned", "start") \/ StartFails("owned")
  /\ UNCHANGED <<reached, sidecar>>

StartSidecar ==
  \/ Start("start", "ready") /\ sidecar' = "running" /\ UNCHANGED reached
  \/ StartFails("start") /\ sidecar' \in {"created", "running"} /\ UNCHANGED reached

\* Its ready.json is seen, or it exited, or the deadline passed.
AwaitReady ==
  /\ (Start("ready", "verify_again") /\ sidecar = "running") \/ StartFails("ready")
  /\ UNCHANGED <<reached, sidecar>>

VerifyAgain ==
  \/ Start("verify_again", "open") /\ task = "ours" /\ ~poisoned
       /\ reached' = "started" /\ UNCHANGED sidecar
  \/ StartFails("verify_again") /\ UNCHANGED <<reached, sidecar>>

-----------------------------------------------------------------------------
(* Controller.exec, under _control_lock *)

execUnchanged == <<broker, agentPoisoned, pc, reached, removal, containers, dockerFailed>>

ExecCall ==
  /\ pc = "open"
  /\ exec \in {"never", "idle"}
  /\ exec' = "waiting"
  /\ UNCHANGED <<execUnchanged, flags>>

ExecEnter ==
  /\ exec = "waiting"
  /\ IF closed THEN UNCHANGED flags ELSE RaiseIfPoisoned
  /\ exec' = IF closed \/ invalid' THEN "idle" ELSE "inside"
  /\ UNCHANGED execUnchanged

\* A reply, with an exit code that may be bad; or a socket, a timeout or a poison that
\* is in the way of one.
ExecReturns ==
  /\ exec = "inside"
  /\ exec' = "idle"
  /\ \/ ~invalid /\ ~poisoned /\ (UNCHANGED flags \/ Error(FALSE))
     \/ Error(TRUE)
  /\ UNCHANGED execUnchanged

-----------------------------------------------------------------------------
(* _task_exec, the broker's exec_fn: the task is verified before and after *)

\* exec_fn raises whenever the process may not have ended; a response that came but
\* cannot be used is the broker's business alone.
WorkerEnds(r, outcome) ==
  /\ B!WorkerEnds(r, outcome)
  /\ outcome # "failed" => task = "ours"
  /\ \/ outcome = "failed" /\ Error(TRUE)
     \/ (outcome = "failed" => r \notin alive') /\ UNCHANGED flags
  /\ UNCHANGED <<agentPoisoned, pc, reached, removal, exec, containers, dockerFailed>>

-----------------------------------------------------------------------------
(* _remove_uncertain_task, under _task_remove_lock *)

removalUnchanged == <<agentPoisoned, reached, exec, sidecar>>
At(c, step) == removal' = [removal EXCEPT ![c] = step]

\* Counting those that wait for the lock as its holders.
Locked_Waiting == \E c \in Callers : removal[c] # "idle"

Locked == \E c \in Callers : removal[c] \in Removing

\* _on_broker_poison, in the task that the broker made for it.
OnBrokerPoison ==
  /\ termination = "running"
  /\ removal["poison"] = "idle"
  /\ At("poison", "waiting")
  /\ Error(TRUE)
  /\ UNCHANGED <<broker, removalUnchanged, pc, task, dockerFailed>>

\* The call returns or raises; the task-terminated.json of a verified removal is
\* written at the same time.
Returns(c, verified) ==
  /\ At(c, "idle")
  /\ \/ /\ c = "poison"
        /\ B!Terminated
        /\ termination' = IF verified THEN "acknowledged" ELSE "refused"
        /\ UNCHANGED <<pc, flags>>
     \/ /\ c = "close"
        /\ IF verified /\ ~terminated THEN B!TaskRemoved ELSE UNCHANGED broker
        /\ Goto(IF pc = "removing" THEN "drain" ELSE "inspect_again")
        /\ IF verified THEN UNCHANGED flags ELSE Error(TRUE)
  /\ UNCHANGED removalUnchanged

GoesOn(c, step) ==
  /\ At(c, step)
  /\ UNCHANGED <<broker, removalUnchanged, pc, flags, dockerFailed>>

Acquire(c) ==
  /\ removal[c] = "waiting" /\ ~Locked
  /\ IF terminated THEN Returns(c, TRUE) /\ UNCHANGED dockerFailed ELSE GoesOn(c, "inspect")
  /\ UNCHANGED task

\* Taking the removal for done when the call is over.
RemovalFails_Trusting(c) ==
  /\ removal[c] \in Removing
  /\ Returns(c, removal[c] = "rm")
  /\ dockerFailed' = (dockerFailed \/ c = "close")
  /\ task' \in IF removal[c] = "rm" THEN {task, "gone"} ELSE {task}

\* Docker fails a call.
RemovalFails(c) ==
  /\ removal[c] \in Removing
  /\ Returns(c, FALSE)
  /\ dockerFailed' = (dockerFailed \/ c = "close")
  /\ task' \in IF removal[c] = "rm" THEN {task, "gone"} ELSE {task}

InspectTask(c) ==
  /\ removal[c] = "inspect"
  /\ \/ task = "ours" /\ GoesOn(c, "rm")
     \/ task = "gone" /\ GoesOn(c, "check")
     \/ task = "changed" /\ Returns(c, FALSE) /\ UNCHANGED dockerFailed   \* refusing
  /\ UNCHANGED task

RemoveTask(c) ==
  /\ removal[c] = "rm"
  /\ GoesOn(c, "check")
  /\ task' = "gone"

CheckRemoved(c) ==
  /\ removal[c] = "check"
  /\ Returns(c, task = "gone")
  /\ UNCHANGED <<task, dockerFailed>>

-----------------------------------------------------------------------------
(* Controller.aclose *)

closeUnchanged == <<agentPoisoned, reached, removal, exec, task>>

\* A stage of aclose ends without an error, with one, or by a failure of Docker.
Passed(next) == Goto(next) /\ UNCHANGED <<flags, dockerFailed>>
Raised(next, doubt) == Goto(next) /\ Error(doubt) /\ UNCHANGED dockerFailed
Failed(next, doubt) == Goto(next) /\ Error(doubt) /\ dockerFailed' = TRUE

\* The agent's own work is over: it looked at the controller again, or failed.
AClose ==
  /\ pc = "open"
  /\ Goto("close_control")
  /\ RaiseIfPoisoned \/ UNCHANGED flags
  /\ UNCHANGED <<broker, closeUnchanged, sidecar, dockerFailed>>

\* _close_control waits for the request under way.
CloseControl ==
  /\ pc = "close_control"
  /\ exec # "inside"
  /\ Passed("inspect") \/ Raised("inspect", TRUE)
  /\ UNCHANGED <<broker, closeUnchanged, sidecar>>

InspectSidecar ==
  /\ pc = "inspect"
  /\ \/ sidecar = "running" /\ Passed("quiesce")
     \/ sidecar # "running" /\ ~started /\ Passed("remove")
     \/ sidecar # "running" /\ started /\ Raised("remove", B!inflight # {})
     \/ Failed("remove", TRUE)
  /\ UNCHANGED <<broker, closeUnchanged, sidecar>>

\* docker kill --signal TERM
Quiesce ==
  /\ pc = "quiesce"
  /\ \/ sidecar = "running" /\ sidecar' = "stopping" /\ Passed("wait")
     \/ sidecar # "running" /\ Raised("remove", TRUE) /\ UNCHANGED sidecar
     \/ Failed("remove", TRUE) /\ sidecar' \in {sidecar, IF sidecar = "running" THEN "stopping" ELSE sidecar}
  /\ UNCHANGED <<broker, closeUnchanged>>

\* Not looking at the exit code.
AwaitExit_AnyCode ==
  /\ pc = "wait"
  /\ \/ sidecar \in Exited /\ Passed("remove")
     \/ sidecar = "stopping" /\ Raised("remove", TRUE)
     \/ Failed("remove", TRUE)
  /\ UNCHANGED <<broker, closeUnchanged, sidecar>>

AwaitExit ==
  /\ pc = "wait"
  /\ \/ sidecar = "clean" /\ Passed("remove")
     \/ sidecar \in {"stopping", "dirty"} /\ Raised("remove", TRUE)       \* late, or 74
     \/ Failed("remove", TRUE)
  /\ UNCHANGED <<broker, closeUnchanged, sidecar>>

\* Call _remove_uncertain_task if the task is in doubt.
RemoveUncertainTask ==
  /\ \/ pc = "remove" /\ Goto(IF uncertain /\ identified THEN "removing" ELSE "drain")
     \/ pc = "remove_again"
          /\ Goto(IF uncertain /\ identified /\ ~terminated THEN "removing_again" ELSE "inspect_again")
  /\ IF pc' \in {"removing", "removing_again"} THEN At("close", "waiting") ELSE UNCHANGED removal
  /\ UNCHANGED <<broker, agentPoisoned, reached, flags, exec, containers, dockerFailed>>

DrainBroker ==
  /\ pc = "drain"
  /\ IF reached \in {"broker", "started"}
     THEN B!CloseBegin /\ Passed("draining")
     ELSE Passed("remove_again") /\ UNCHANGED broker
  /\ UNCHANGED <<closeUnchanged, sidecar>>

\* Not minding a broker that could not be closed in time.
BrokerDrained_Late ==
  /\ pc = "draining"
  /\ stage \in {"clean", "raised", "aborted"}
  /\ IF stage = "raised" THEN Raised("remove_again", TRUE) ELSE Passed("remove_again")
  /\ UNCHANGED <<broker, closeUnchanged, sidecar>>

BrokerDrained ==
  /\ pc = "draining"
  /\ stage \in {"clean", "raised", "aborted"}
  /\ IF stage = "clean" THEN Passed("remove_again") ELSE Raised("remove_again", TRUE)
  /\ UNCHANGED <<broker, closeUnchanged, sidecar>>

\* Removing the sidecar whatever became of the task.
InspectAgain_Always ==
  /\ pc = "inspect_again"
  /\ \/ sidecar \in {"none", "removed"} /\ Passed("report")
     \/ sidecar \notin {"none", "removed"} /\ Passed("rm")
     \/ Failed("report", FALSE)
  /\ UNCHANGED <<broker, closeUnchanged, sidecar>>

InspectAgain ==
  /\ pc = "inspect_again"
  /\ \/ sidecar \in {"none", "removed"} /\ Passed("report")
     \/ /\ sidecar \notin {"none", "removed"}
        /\ IF uncertain /\ ~terminated THEN Raised("report", FALSE) ELSE Passed("rm")
     \/ Failed("report", FALSE)
  /\ UNCHANGED <<broker, closeUnchanged, sidecar>>

\* docker rm --force ends a sidecar that still runs.
RemoveSidecar ==
  /\ pc = "rm"
  /\ \/ sidecar' = "removed" /\ (Passed("verify_rm") \/ Failed("report", FALSE))
     \/ UNCHANGED sidecar /\ Failed("report", FALSE)
  /\ IF sidecar' = "removed" /\ ~exited THEN B!Crash ELSE UNCHANGED broker
  /\ UNCHANGED closeUnchanged

VerifyRemoved ==
  /\ pc = "verify_rm"
  /\ Passed("report") \/ Failed("report", FALSE)
  /\ UNCHANGED <<broker, closeUnchanged, sidecar>>

Report ==
  /\ pc = "report"
  /\ Goto("closed")
  /\ RaiseIfPoisoned
  /\ UNCHANGED <<broker, closeUnchanged, sidecar, dockerFailed>>

-----------------------------------------------------------------------------
(* The sidecar and the task *)

up == sidecar \in {"running", "stopping"}

\* A thread of the sidecar, at work since the first control request.
SidecarCalls(r) ==
  /\ up /\ exec # "never"
  /\ B!Call(r)
  /\ UNCHANGED own

\* finish_controller, after TERM: exit 0 if no fork is retained any more, or 74.
SidecarExits ==
  /\ sidecar = "stopping"
  /\ B!Exit
  /\ sidecar' = IF \E r \in Requests : fork'[r] = "retained" THEN "dirty" ELSE "clean"
  /\ UNCHANGED <<agentPoisoned, pc, reached, flags, removal, exec, task, dockerFailed>>

SidecarCrashes ==
  /\ up
  /\ B!Crash
  /\ sidecar' = "dirty"
  /\ UNCHANGED <<agentPoisoned, pc, reached, flags, removal, exec, task, dockerFailed>>

\* Others restart or remove the task.
TaskDisturbed ==
  /\ task = "ours" /\ pc # "idle"
  /\ task' \in {"changed", "gone"}
  /\ UNCHANGED <<broker, agentPoisoned, pc, reached, flags, removal, exec, sidecar, dockerFailed>>

\* Steps of the broker and of the sidecar's threads that do not touch the controller.
BrokerAlone ==
  /\ \/ \E r \in Requests : B!Receive(r) \/ B!NoReply(r) \/ B!Handle(r) \/ B!Cancelled(r)
     \/ B!TerminationLate
     \/ stage # "open" /\ B!Close
  /\ UNCHANGED own

-----------------------------------------------------------------------------
Starts ==
  VerifyTask \/ StartBroker \/ CreateSidecar \/ OwnedSidecar \/ StartSidecar \/ AwaitReady \/ VerifyAgain

Closes ==
  \/ CloseControl \/ InspectSidecar \/ Quiesce \/ AwaitExit \/ RemoveUncertainTask \/ DrainBroker
  \/ BrokerDrained \/ InspectAgain \/ RemoveSidecar \/ VerifyRemoved \/ Report

Removes(c) == Acquire(c) \/ RemovalFails(c) \/ InspectTask(c) \/ RemoveTask(c) \/ CheckRemoved(c)

Next ==
  \/ NewRun \/ RunEnds
  \/ Starts \/ AClose \/ Closes
  \/ ExecCall \/ ExecEnter \/ ExecReturns
  \/ \E r \in Requests : SidecarCalls(r) \/ \E outcome \in B!Outcomes : WorkerEnds(r, outcome)
  \/ OnBrokerPoison \/ \E c \in Callers : Removes(c)
  \/ SidecarExits \/ SidecarCrashes \/ TaskDisturbed
  \/ BrokerAlone

\* Every Docker call, every wait for the sidecar and every control request has a time
\* limit, and the broker's aclose is cancelled after ten seconds.
Fairness ==
  /\ WF_vars(Closes)
  /\ WF_vars(ExecReturns)
  /\ \A c \in Callers : WF_vars(Removes(c))
  /\ WF_vars(B!CloseAborted /\ UNCHANGED own)

Spec == Init /\ [][Next]_vars /\ Fairness

-----------------------------------------------------------------------------
(* Properties *)

\* The sidecar, and every fork in it, is removed only when no process of the task can
\* be using a fork: the broker drained with nothing in doubt, or the task is gone; also
\* after a crash of the sidecar, a failed start, or an answer of Docker that was lost
\* (sidecar_runtime.py:476-478, 512-517).
SidecarOutlivesProcesses == sidecar = "removed" => processes = {}

\* task-terminated.json tells the truth: whoever removed the task, and whatever Docker
\* said of it (sidecar_runtime.py:449-453).
MarkerTruthful == terminated => task = "gone"

\* report["valid"] after aclose: the sidecar is gone, the broker is closed with nothing
\* in doubt, every fork was given back, no process is left, and the task was not
\* sacrificed (sidecar_runtime.py:524).
valid == pc \in {"closed", "idle"} /\ started /\ ~invalid

ValidMeansClean ==
  valid =>
    /\ sidecar = "removed"
    /\ stage = "clean" /\ ~poisoned
    /\ \A r \in Requests : fork[r] \in {"none", "removed"}
    /\ processes = {}
    /\ ~terminated

\* Whatever start or the run had come to when it failed, an aclose that Docker serves
\* leaves no container and no process behind; unless the task was replaced, which the
\* controller refuses to remove (sidecar_runtime.py:312-318, 461-523).
CleanupComplete ==
  pc = "closed" /\ ~dockerFailed /\ task # "changed" =>
    /\ sidecar \in {"none", "removed"}
    /\ processes = {}

\* An agent goes on to a next run only from a valid one: no process, container or
\* removal of the earlier run is left (sidecar_agent.py:116-119, 151).
NextRunFresh ==
  [][pc = "idle" /\ pc' # "idle" =>
       /\ processes = {} /\ B!inflight = {}
       /\ sidecar \in {"none", "removed"}
       /\ ~Locked /\ ~terminated
       /\ ~invalid]_vars

\* The invariants above rest on these.  start goes in order, and until it has come to its
\* end nobody has used the broker.
InOrder ==
  /\ uncertain => invalid
  /\ pc \in {"verify", "broker"} \/ reached \in {"nothing", "identity"} => sidecar = "none"
  /\ pc \in {"create", "owned", "start", "ready", "verify_again"} => reached = "broker"
  /\ pc \in {"owned", "start", "ready", "verify_again"} \/ started => sidecar # "none"
  /\ pc = "open" => started
  /\ ~started => exec = "never"
  /\ exec = "never" => ~poisoned /\ \A r \in Requests : fork[r] = "none"
  /\ exec = "inside" => pc \in {"open", "close_control"}

\* One caller at a time removes the task, aclose only if it is in doubt.
RemovedInTurn ==
  /\ \E c \in Callers : removal[c] \notin Removing
  /\ \A c \in Callers : removal[c] = "check" => task = "gone"
  /\ removal["poison"] # "idle" => termination = "running"
  /\ removal["close"] # "idle" <=> pc \in {"removing", "removing_again"}
  /\ removal["close"] # "idle" => uncertain
  /\ terminated => uncertain \/ poisoned

\* What aclose relies on, from stage to stage: a sidecar that exited with 0 gave back all
\* forks, a broker that drained has no process, and a task in doubt was removed.
AfterDrain == {"remove_again", "removing_again", "inspect_again", "rm", "verify_rm", "report",
               "closed", "idle"}
AfterWait == AfterDrain \cup {"remove", "removing", "drain", "draining"}
ForksReturned == exited /\ \A r \in Requests : fork[r] \in {"none", "removed"}
NoProcesses == terminated \/ stage = "clean" \/ exec = "never"
Refused == task = "changed" /\ \A c \in Callers : removal[c] # "rm"

ClosedInOrder ==
  /\ sidecar = "clean" => ForksReturned
  /\ pc \in AfterWait /\ started /\ ~invalid => ForksReturned
  /\ pc \in AfterDrain /\ reached \in {"broker", "started"} => uncertain \/ stage = "clean"
  /\ pc = "inspect_again" /\ uncertain =>
       terminated \/ dockerFailed \/ Refused \/ sidecar = "none"
  /\ pc = "rm" => sidecar # "none"
  /\ pc = "rm" \/ sidecar = "removed" => NoProcesses
  /\ sidecar = "removed" => pc \in {"verify_rm", "report", "closed", "idle"}
  /\ pc = "verify_rm" => sidecar = "removed"
  /\ pc \in {"report", "closed", "idle"} => invalid \/ sidecar \in {"none", "removed"}
  /\ pc \in {"report", "closed"} => sidecar \in {"none", "removed"} \/ dockerFailed \/ Refused
  /\ pc = "idle" /\ ~agentPoisoned => ~invalid

\* No fork is removed beneath a process, for these reasons.
ControllerInv ==
  /\ TypeOK /\ B!BrokerInv /\ B!CleanMeansQuiet
  /\ InOrder /\ RemovedInTurn /\ ClosedInOrder
  /\ SidecarOutlivesProcesses /\ MarkerTruthful

\* aclose comes to its end, with the removal lock taken, a request under way or a
\* broker that does not drain.
CloseEnds == pc \in Closing ~> pc = "closed"

=============================================================================
