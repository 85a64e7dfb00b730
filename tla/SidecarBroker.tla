--------------------------- MODULE SidecarBroker ---------------------------
(***************************************************************************)
(* Brokered speculation (src/eval/sidecar_rpc.py, sidecar_daemon.py).  The  *)
(* sidecar's pool threads each enter a fork and ask the host broker over a *)
(* connection of their own to run a command in it; the broker executes it  *)
(* as a process of the task container.  The broker is an asyncio program:  *)
(* a handler runs from one await to the next, so one action is such a      *)
(* stretch.  When it cannot tell whether a process ended it is poisoned    *)
(* for good, and asks the controller once to terminate the task.           *)
(*                                                                         *)
(* Timeouts may strike at any moment of a bounded wait.  What a request or *)
(* a response contains is reduced to its kind: a request is valid or not,  *)
(* a worker's response is "ok", "declined" (refused before the execution,  *)
(* or not reusable) or "failed" (everything that leaves doubt).            *)
(***************************************************************************)
EXTENDS Naturals, FiniteSets

CONSTANT
  Requests     \* calls of run_in_fork, each with its thread, connection and fork

VARIABLES
  fork,          \* per request, RetainedForks: the state of its fork
  handler,       \* per request: the await HostBroker._handle is at
  worker,        \* per request: the task awaiting exec_fn, and how it ended
  reply,         \* per request: what was written to its connection
  alive,         \* requests whose process in the task container may still run
  poisoned,      \* HostBroker.poison_reason is set
  termination,   \* _termination_task: the call of on_poison
  expired,       \* _termination_deadline has passed
  stage,         \* how far HostBroker.aclose has come
  awaited,       \* aclose: the handlers it waits for, later those it cancelled
  exited,        \* the sidecar's daemon has finished
  terminated     \* task-terminated.json: the task's removal was verified

brokerVars == <<termination, expired, stage, awaited, exited, terminated>>
vars == <<fork, handler, worker, reply, alive, poisoned, brokerVars>>

InHandlers == {"reading", "waiting", "declining", "rejecting", "draining", "lost", "closing"}
ClosingStages == {"workers", "handlers", "cancelling", "server", "quiesce"}

TypeOK ==
  /\ fork \in [Requests -> {"none", "used", "retained", "removed"}]
  /\ handler \in [Requests -> InHandlers \cup {"none", "accepted", "gone"}]
  /\ worker \in [Requests -> {"none", "running", "ok", "declined", "failed"}]
  /\ reply \in [Requests -> {"none", "ok", "declined", "rejected"}]
  /\ alive \subseteq Requests
  /\ poisoned \in BOOLEAN
  /\ termination \in {"none", "running", "acknowledged", "refused"}
  /\ expired \in BOOLEAN
  /\ stage \in ClosingStages \cup {"open", "clean", "raised", "aborted"}
  /\ awaited \subseteq Requests
  /\ exited \in BOOLEAN
  /\ terminated \in BOOLEAN

Init ==
  /\ fork = [r \in Requests |-> "none"]
  /\ handler = [r \in Requests |-> "none"]
  /\ worker = [r \in Requests |-> "none"]
  /\ reply = [r \in Requests |-> "none"]
  /\ alive = {}
  /\ poisoned = FALSE
  /\ termination = "none"
  /\ expired = FALSE
  /\ stage = "open"
  /\ awaited = {}
  /\ exited = FALSE
  /\ terminated = FALSE

closed == stage # "open"
inflight == {r \in Requests : worker[r] = "running"}
handlers == {r \in Requests : handler[r] \in InHandlers}
Move(r, at) == handler' = [handler EXCEPT ![r] = at]

-----------------------------------------------------------------------------
(* The sidecar: SidecarClient._request inside RetainedForks.fork *)

Call(r) ==
  /\ fork[r] = "none"
  /\ ~exited
  /\ \/ /\ ~closed
        /\ fork' = [fork EXCEPT ![r] = "used"]
        /\ Move(r, "accepted")
     \/ /\ closed                                   \* nobody listens
        /\ fork' = [fork EXCEPT ![r] = "retained"]
        /\ UNCHANGED handler
  /\ UNCHANGED <<worker, reply, alive, poisoned, brokerVars>>

\* A complete answer: the fork is removed when the context exits, unless the
\* answer is a BrokerPoisoned.
Receive(r) ==
  /\ ~exited
  /\ fork[r] = "used"
  /\ reply[r] # "none"
  /\ fork' = [fork EXCEPT ![r] = IF reply[r] = "rejected" THEN "retained" ELSE "removed"]
  /\ UNCHANGED <<handler, worker, reply, alive, poisoned, brokerVars>>

\* The channel timed out or was closed: BrokerPoisoned as well.
NoReply(r) ==
  /\ ~exited
  /\ fork[r] = "used"
  /\ fork' = [fork EXCEPT ![r] = "retained"]
  /\ UNCHANGED <<handler, worker, reply, alive, poisoned, brokerVars>>

\* finish_controller: the pools are joined, then retained forks are released if
\* the controller left its word that the task was terminated.
Exit ==
  /\ ~exited
  /\ \A r \in Requests : fork[r] # "used"
  /\ exited' = TRUE
  /\ fork' = [r \in Requests |->
                IF fork[r] = "retained" /\ terminated
                THEN "removed" ELSE fork[r]]
  /\ UNCHANGED <<handler, worker, reply, alive, poisoned, termination, expired, stage, awaited,
                 terminated>>

\* The sidecar dies with its threads, whose connections break; its forks stay.
Crash ==
  /\ ~exited
  /\ exited' = TRUE
  /\ UNCHANGED <<fork, handler, worker, reply, alive, poisoned, termination, expired, stage, awaited,
                 terminated>>

-----------------------------------------------------------------------------
(* HostBroker._handle and _dispatch *)

Quiesced == termination \in {"acknowledged", "refused"} \/ expired

\* _quiesce_after_poison up to its await: the first caller starts on_poison.
StartTermination ==
  termination' = IF termination = "none" THEN "running" ELSE termination

\* The answer as it is written without a poisoned broker; with one, a result is
\* withheld and every answer waits for the termination of the task.
Answer(r, answer) ==
  IF poisoned'
  THEN /\ Move(r, IF answer = "declined" THEN "declining" ELSE "rejecting")
       /\ StartTermination
       /\ UNCHANGED reply
  ELSE /\ reply' = [reply EXCEPT ![r] = answer]
       /\ Move(r, "draining")
       /\ UNCHANGED termination

StartHandler(r) ==
  /\ handler[r] = "accepted"
  /\ Move(r, "reading")
  /\ UNCHANGED <<fork, worker, reply, alive, poisoned, brokerVars>>

\* The line is incomplete, late or not a valid request.
Unreadable(r) ==
  /\ handler[r] = "reading"
  /\ poisoned' = TRUE
  /\ Answer(r, "rejected")
  /\ UNCHANGED <<fork, worker, alive, expired, stage, awaited, exited, terminated>>

\* Refusing requests after the close only.
Dispatch_TrustPoison(r) ==
  /\ handler[r] = "reading"
  /\ \/ /\ closed
        /\ poisoned' = TRUE
        /\ Answer(r, "rejected")
        /\ UNCHANGED <<worker, alive>>
     \/ /\ ~closed
        /\ worker' = [worker EXCEPT ![r] = "running"]
        /\ alive' = alive \cup {r}
        /\ Move(r, "waiting")
        /\ UNCHANGED <<reply, poisoned, termination>>
  /\ UNCHANGED <<fork, expired, stage, awaited, exited, terminated>>

\* A task that was removed fails the check exec_fn begins with: nothing starts.
Dispatch(r) ==
  /\ handler[r] = "reading"
  /\ \/ /\ closed \/ poisoned
        /\ poisoned' = TRUE
        /\ Answer(r, "rejected")
        /\ UNCHANGED <<worker, alive>>
     \/ /\ ~closed /\ ~poisoned
        /\ worker' = [worker EXCEPT ![r] = "running"]
        /\ alive' = IF terminated THEN alive ELSE alive \cup {r}
        /\ Move(r, "waiting")
        /\ UNCHANGED <<reply, poisoned, termination>>
  /\ UNCHANGED <<fork, expired, stage, awaited, exited, terminated>>

\* exec_fn ends.  A result or a decline comes of a process that ended; when exec_fn
\* fails the process may have ended or not, and when the worker reports a failure the
\* command that its drain killed may still be dying.
WorkerEnds(r, outcome) ==
  /\ worker[r] = "running"
  /\ worker' = [worker EXCEPT ![r] = outcome]
  /\ \/ alive' = alive \ {r}
     \/ outcome = "failed" /\ UNCHANGED alive
  /\ UNCHANGED <<fork, handler, reply, poisoned, brokerVars>>

\* Handing out the worker's response whatever happened to the others meanwhile.
WorkerDone_TrustWorker(r) ==
  /\ handler[r] = "waiting"
  /\ worker[r] \in {"ok", "declined", "failed"}
  /\ poisoned' = (poisoned \/ worker[r] = "failed")
  /\ IF worker[r] = "failed" THEN Answer(r, "rejected")
     ELSE /\ reply' = [reply EXCEPT ![r] = worker[r]]
          /\ Move(r, "draining")
          /\ UNCHANGED termination
  /\ UNCHANGED <<fork, worker, alive, expired, stage, awaited, exited, terminated>>

WorkerDone(r) ==
  /\ handler[r] = "waiting"
  /\ worker[r] \in {"ok", "declined", "failed"}
  /\ poisoned' = (poisoned \/ worker[r] = "failed")
  /\ Answer(r, IF worker[r] = "failed" THEN "rejected" ELSE worker[r])
  /\ UNCHANGED <<fork, worker, alive, expired, stage, awaited, exited, terminated>>

\* Taking a late worker for one that declined.
WorkerLate_Declines(r) ==
  /\ handler[r] = "waiting"
  /\ worker[r] = "running"
  /\ UNCHANGED poisoned
  /\ Answer(r, "declined")
  /\ UNCHANGED <<fork, worker, alive, expired, stage, awaited, exited, terminated>>

\* The wait ended before exec_fn did, which is shielded and goes on.
WorkerLate(r) ==
  /\ handler[r] = "waiting"
  /\ worker[r] = "running"
  /\ poisoned' = TRUE
  /\ Answer(r, "rejected")
  /\ UNCHANGED <<fork, worker, alive, expired, stage, awaited, exited, terminated>>

\* The answer that waited for the termination is written.
Write(r) ==
  /\ handler[r] \in {"declining", "rejecting"}
  /\ Quiesced
  /\ reply' = [reply EXCEPT ![r] = IF handler[r] = "declining" THEN "declined" ELSE "rejected"]
  /\ Move(r, "draining")
  /\ UNCHANGED <<fork, worker, alive, poisoned, brokerVars>>

Drained(r) ==
  /\ handler[r] = "draining"
  /\ Move(r, "closing")
  /\ UNCHANGED <<fork, worker, reply, alive, poisoned, brokerVars>>

\* The connection broke under the answer.
ReplyLost(r) ==
  /\ handler[r] = "draining"
  /\ poisoned' = TRUE
  /\ Move(r, "lost")
  /\ StartTermination
  /\ UNCHANGED <<fork, worker, reply, alive, expired, stage, awaited, exited, terminated>>

HandlerReturns(r) ==
  /\ \/ handler[r] = "lost" /\ Quiesced
     \/ handler[r] = "closing"
  /\ Move(r, "gone")
  /\ UNCHANGED <<fork, worker, reply, alive, poisoned, brokerVars>>

-----------------------------------------------------------------------------
(* on_poison: Controller._on_broker_poison removes the task container *)

Terminated ==
  /\ termination = "running"
  /\ \/ /\ termination' = "acknowledged"
        /\ terminated' = TRUE
        /\ alive' = {}
     \/ /\ termination' = "refused"
        /\ \E S \in SUBSET alive : alive' = S
        /\ UNCHANGED terminated
  /\ UNCHANGED <<fork, handler, worker, reply, poisoned, expired, stage, awaited, exited>>

\* Controller.aclose, in doubt of its own, removes the task without being asked.
TaskRemoved ==
  /\ ~terminated
  /\ terminated' = TRUE
  /\ alive' = {}
  /\ UNCHANGED <<fork, handler, worker, reply, poisoned, termination, expired, stage, awaited, exited>>

TerminationLate ==
  /\ termination = "running" /\ ~expired
  /\ expired' = TRUE
  /\ UNCHANGED <<fork, handler, worker, reply, alive, poisoned, termination, stage, awaited, exited, terminated>>

-----------------------------------------------------------------------------
(* HostBroker.aclose *)

Stage(next) == stage' = next
unmoved == <<fork, worker, reply, alive, expired, exited, terminated>>

CloseBegin ==
  /\ stage = "open"
  /\ Stage("workers")
  /\ UNCHANGED <<unmoved, handler, poisoned, termination, awaited>>

\* The workers in flight ended, or did not within the drain timeout; then the
\* handlers that have started are waited for.
WorkersDrained ==
  /\ stage = "workers"
  /\ Stage("handlers")
  /\ poisoned' = (poisoned \/ inflight # {})
  /\ awaited' = handlers
  /\ UNCHANGED <<unmoved, handler, termination>>

HandlersDone ==
  /\ stage = "handlers"
  /\ awaited \cap handlers = {}
  /\ Stage("server")
  /\ UNCHANGED <<unmoved, handler, poisoned, termination, awaited>>

\* Going on to the server without the handlers that are late.
HandlersLate_Abandoned ==
  /\ stage = "handlers"
  /\ awaited \cap handlers # {}
  /\ Stage("server")
  /\ awaited' = {}
  /\ UNCHANGED <<unmoved, handler, poisoned, termination>>

HandlersLate ==
  /\ stage = "handlers"
  /\ awaited \cap handlers # {}
  /\ Stage("cancelling")
  /\ awaited' = awaited \cap handlers
  /\ UNCHANGED <<unmoved, handler, poisoned, termination>>

\* A cancelled handler resumes nothing else.
BeingCancelled(r) == stage \in {"cancelling", "aborted"} /\ r \in awaited

\* Cancelling a handler as if nothing could be in doubt.
Cancelled_Silent(r) ==
  /\ BeingCancelled(r) /\ r \in handlers
  /\ Move(r, "gone")
  /\ UNCHANGED <<unmoved, poisoned, stage, termination, awaited>>

\* The next step of a cancelled handler.  It aborts the connection; nothing is in
\* doubt only if it had come to wait for the connection to close.
Cancelled(r) ==
  /\ BeingCancelled(r) /\ r \in handlers
  /\ poisoned' = (poisoned \/ handler[r] # "closing")
  /\ Move(r, "gone")
  /\ UNCHANGED <<unmoved, stage, termination, awaited>>

HandlersCancelled ==
  /\ stage = "cancelling"
  /\ awaited \cap handlers = {}
  /\ Stage("server")
  /\ UNCHANGED <<unmoved, handler, poisoned, termination, awaited>>

\* Server.wait_closed: connections accepted late have handlers that were not
\* waited for.
ServerClosed ==
  /\ stage = "server"
  /\ \A r \in Requests : handler[r] \in {"none", "gone"}
  /\ IF poisoned THEN Stage("quiesce") /\ StartTermination
     ELSE Stage("clean") /\ UNCHANGED termination
  /\ UNCHANGED <<unmoved, handler, poisoned, awaited>>

CloseRaises ==
  /\ stage = "quiesce"
  /\ Quiesced
  /\ Stage("raised")
  /\ UNCHANGED <<unmoved, handler, poisoned, termination, awaited>>

\* Controller.aclose gives the broker ten seconds and then cancels it.
CloseAborted ==
  /\ stage \in ClosingStages
  /\ Stage("aborted")
  /\ awaited' = IF stage = "cancelling" THEN awaited ELSE {}
  /\ UNCHANGED <<unmoved, handler, poisoned, termination>>

-----------------------------------------------------------------------------
Outcomes == {"ok", "declined", "failed"}

Handle(r) ==
  /\ ~BeingCancelled(r)
  /\ \/ StartHandler(r) \/ Unreadable(r) \/ Dispatch(r)
     \/ WorkerDone(r) \/ WorkerLate(r)
     \/ Write(r) \/ Drained(r) \/ ReplyLost(r) \/ HandlerReturns(r)

Close ==
  \/ CloseBegin \/ WorkersDrained \/ HandlersDone \/ HandlersLate
  \/ HandlersCancelled \/ ServerClosed \/ CloseRaises \/ CloseAborted

Next ==
  \/ \E r \in Requests :
       \/ Call(r) \/ Receive(r) \/ NoReply(r)
       \/ Handle(r) \/ Cancelled(r)
       \/ \E outcome \in Outcomes : WorkerEnds(r, outcome)
  \/ Terminated \/ TerminationLate \/ TaskRemoved
  \/ Close
  \/ Exit \/ Crash

Spec == Init /\ [][Next]_vars

\* Every wait of a handler and of aclose is bounded, by a timeout or by a step of
\* the broker, except the two in which a client that does not read may keep a
\* result: the drain of the buffer and the wait for the connection to close.
\* Nothing is assumed of clients, workers and on_poison.
Progress(r) ==
  /\ ~BeingCancelled(r)
  /\ \/ StartHandler(r) \/ Unreadable(r) \/ Dispatch(r)
     \/ WorkerDone(r) \/ WorkerLate(r) \/ Write(r)
     \/ reply[r] # "ok" /\ Drained(r)
     \/ (reply[r] # "ok" \/ handler[r] = "lost") /\ HandlerReturns(r)

Fairness ==
  /\ \A r \in Requests : WF_vars(Progress(r)) /\ WF_vars(Cancelled(r))
  /\ WF_vars(TerminationLate)
  /\ WF_vars(WorkersDrained) /\ WF_vars(HandlersDone) /\ WF_vars(HandlersLate)
  /\ WF_vars(HandlersCancelled) /\ WF_vars(ServerClosed) /\ WF_vars(CloseRaises)

FairSpec == Spec /\ Fairness

-----------------------------------------------------------------------------
(* Properties *)

\* No fork is removed beneath a process that may still run in it: a thread removes
\* its own only on an answer that says the process ended or never started, and the
\* ones it retained are released only after the task was terminated
\* (sidecar_daemon.py:26-41, 43-52).
ForkOutlivesProcess == \A r \in Requests : fork[r] = "removed" => r \notin alive

\* Once the task's removal was verified, by the broker's call of on_poison or by the
\* controller in doubt of its own, nothing runs in it again, although a broker that
\* is not poisoned goes on accepting requests (sidecar_rpc.py:131-134,
\* sidecar_runtime.py:238-246).
QuiescedStaysQuiet == terminated => alive = {}

\* aclose returns without raising only if no process can be running, no request is
\* being handled, nothing was in doubt at any time, and every request that reached
\* the broker was answered: workers, late handlers, late connections, cancelled
\* handlers and lost answers included (sidecar_rpc.py:211-238).
CleanMeansQuiet ==
  stage = "clean" =>
    /\ ~poisoned
    /\ alive = {} /\ inflight = {}
    /\ \A r \in Requests :
         /\ handler[r] \in {"none", "gone"}
         /\ handler[r] = "gone" => reply[r] # "none"

\* A result is written only while nothing is in doubt: neither its own worker nor,
\* up to the moment it is written, any other (sidecar_rpc.py:185-187).
NoResultInDoubt ==
  [][\A r \in Requests :
       reply[r] = "none" /\ reply'[r] = "ok" => worker[r] = "ok" /\ ~poisoned /\ ~poisoned']_vars

\* The invariants above rest on these.  A request whose handler has not got to its
\* dispatch has no worker and no answer; a process may run only while its worker
\* has not brought a response, and not in a task that was removed; only a poisoned
\* broker asks for its removal;
\* and while the broker is not poisoned every answer is the response of a worker.
Undispatched(r) == handler[r] \in {"none", "accepted", "reading"}
Answered(r) == handler[r] \in {"draining", "closing", "gone"}

RequestOK(r) ==
  /\ fork[r] = "none" => handler[r] = "none"
  /\ Undispatched(r) => worker[r] = "none"
  /\ handler[r] \in {"waiting", "declining", "rejecting"} \/ Undispatched(r) => reply[r] = "none"
  /\ r \in alive => worker[r] \in {"running", "failed"}
  /\ handler[r] = "declining" => worker[r] = "declined"
  /\ reply[r] \in {"ok", "declined"} => worker[r] = reply[r]
  /\ fork[r] = "removed" => reply[r] \in {"ok", "declined"} \/ terminated
  /\ ~poisoned => /\ handler[r] \notin {"declining", "rejecting", "lost"}
                  /\ Answered(r) => reply[r] \in {"ok", "declined"}

BrokerInv ==
  /\ TypeOK
  /\ termination # "none" => poisoned
  /\ termination = "acknowledged" => terminated
  /\ QuiescedStaysQuiet
  /\ \A r \in Requests : RequestOK(r)

\* aclose comes to an end although workers, clients and the controller's
\* termination of the task may never do (test_sidecar_rpc.py:342, "instead of
\* hanging on buffered reply").
CloseReturns == stage \in ClosingStages ~> stage \notin ClosingStages

=============================================================================
