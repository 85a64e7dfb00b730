-------------------------- MODULE ControllerProofs --------------------------
(***************************************************************************)
(* The safety of the controller's life cycle, for every number of brokered *)
(* calls.  BP are the theorems about the broker the controller runs.       *)
(***************************************************************************)
EXTENDS Controller, TLAPS

BP == INSTANCE SidecarBrokerProofs

-----------------------------------------------------------------------------
(* The broker *)

\* The two instances define the same.
LEMMA SameBroker ==
  /\ B!BrokerInv <=> BP!BrokerInv
  /\ B!CleanMeansQuiet <=> BP!CleanMeansQuiet
  /\ B!BrokerInv' <=> BP!BrokerInv'
  /\ B!CleanMeansQuiet' <=> BP!CleanMeansQuiet'
  /\ B!inflight = BP!inflight
<1> USE DEF B!BrokerInv, B!RequestOK, BP!BrokerInv, BP!RequestOK, B!TypeOK, BP!TypeOK,
            B!QuiescedStaysQuiet, BP!QuiescedStaysQuiet,
            B!Undispatched, BP!Undispatched, B!Answered, BP!Answered, B!InHandlers, BP!InHandlers,
            B!ClosingStages, BP!ClosingStages, B!CleanMeansQuiet, BP!CleanMeansQuiet,
            B!inflight, BP!inflight
<1>1. B!BrokerInv <=> BP!BrokerInv
  OBVIOUS
<1>2. B!CleanMeansQuiet <=> BP!CleanMeansQuiet
  OBVIOUS
<1>3. B!BrokerInv' <=> BP!BrokerInv'
  OBVIOUS
<1>4. B!CleanMeansQuiet' <=> BP!CleanMeansQuiet'
  OBVIOUS
<1>5. B!inflight = BP!inflight
  OBVIOUS
<1> QED BY <1>1, <1>2, <1>3, <1>4, <1>5

LEMMA SameSteps ==
  /\ \A r \in Requests : /\ B!Call(r) <=> BP!Call(r)
                         /\ B!Receive(r) <=> BP!Receive(r)
                         /\ B!NoReply(r) <=> BP!NoReply(r)
                         /\ B!Handle(r) <=> BP!Handle(r)
                         /\ B!Cancelled(r) <=> BP!Cancelled(r)
                         /\ \A o \in B!Outcomes : B!WorkerEnds(r, o) <=> BP!WorkerEnds(r, o)
  /\ B!Outcomes = BP!Outcomes
  /\ B!Close <=> BP!Close
  /\ (B!Exit <=> BP!Exit) /\ (B!Crash <=> BP!Crash)
  /\ B!TerminationLate <=> BP!TerminationLate
  /\ (B!Terminated <=> BP!Terminated) /\ (B!TaskRemoved <=> BP!TaskRemoved)
<1> USE DEF B!brokerVars, BP!brokerVars, B!InHandlers, BP!InHandlers, B!ClosingStages, BP!ClosingStages,
            B!closed, BP!closed, B!inflight, BP!inflight, B!handlers, BP!handlers, B!Move, BP!Move,
            B!Quiesced, BP!Quiesced, B!StartTermination, BP!StartTermination, B!Answer, BP!Answer,
            B!Stage, BP!Stage, B!unmoved, BP!unmoved, B!BeingCancelled, BP!BeingCancelled,
            B!Outcomes, BP!Outcomes
<1>1. ASSUME NEW r \in Requests
      PROVE  /\ B!Call(r) <=> BP!Call(r)
             /\ B!Receive(r) <=> BP!Receive(r)
             /\ B!NoReply(r) <=> BP!NoReply(r)
  BY DEF B!Call, BP!Call, B!Receive, BP!Receive, B!NoReply, BP!NoReply
<1>2. ASSUME NEW r \in Requests
      PROVE  B!Handle(r) <=> BP!Handle(r)
  BY DEF B!Handle, BP!Handle, B!StartHandler, BP!StartHandler, B!Unreadable, BP!Unreadable,
         B!Dispatch, BP!Dispatch, B!WorkerDone, BP!WorkerDone, B!WorkerLate, BP!WorkerLate,
         B!Write, BP!Write, B!Drained, BP!Drained, B!ReplyLost, BP!ReplyLost,
         B!HandlerReturns, BP!HandlerReturns
<1>3. ASSUME NEW r \in Requests
      PROVE  B!Cancelled(r) <=> BP!Cancelled(r)
  BY DEF B!Cancelled, BP!Cancelled
<1>4. ASSUME NEW r \in Requests, NEW o \in B!Outcomes
      PROVE  B!WorkerEnds(r, o) <=> BP!WorkerEnds(r, o)
  BY DEF B!WorkerEnds, BP!WorkerEnds
<1>5. B!Outcomes = BP!Outcomes
  OBVIOUS
<1>6. B!Close <=> BP!Close
  BY DEF B!Close, BP!Close, B!CloseBegin, BP!CloseBegin, B!WorkersDrained, BP!WorkersDrained,
         B!HandlersDone, BP!HandlersDone, B!HandlersLate, BP!HandlersLate,
         B!HandlersCancelled, BP!HandlersCancelled, B!ServerClosed, BP!ServerClosed,
         B!CloseRaises, BP!CloseRaises, B!CloseAborted, BP!CloseAborted
<1>7. (B!Exit <=> BP!Exit) /\ (B!Crash <=> BP!Crash) /\ (B!TerminationLate <=> BP!TerminationLate)
  BY DEF B!Exit, BP!Exit, B!Crash, BP!Crash, B!TerminationLate, BP!TerminationLate
<1>8. (B!Terminated <=> BP!Terminated) /\ (B!TaskRemoved <=> BP!TaskRemoved)
  BY DEF B!Terminated, BP!Terminated, B!TaskRemoved, BP!TaskRemoved
<1> HIDE DEF B!brokerVars, BP!brokerVars, B!InHandlers, BP!InHandlers, B!ClosingStages, BP!ClosingStages,
            B!closed, BP!closed, B!inflight, BP!inflight, B!handlers, BP!handlers, B!Move, BP!Move,
            B!Quiesced, BP!Quiesced, B!StartTermination, BP!StartTermination, B!Answer, BP!Answer,
            B!Stage, BP!Stage, B!unmoved, BP!unmoved, B!BeingCancelled, BP!BeingCancelled,
            B!Outcomes, BP!Outcomes
<1> QED BY <1>1, <1>2, <1>3, <1>4, <1>5, <1>6, <1>7, <1>8, Zenon

\* A step of the broker, or none, as it was proved of the broker.
LEMMA BrokerStays ==
  ASSUME B!BrokerInv, B!CleanMeansQuiet, B!Next \/ UNCHANGED broker
  PROVE  B!BrokerInv' /\ B!CleanMeansQuiet'
<1>1. BP!BrokerInv /\ BP!CleanMeansQuiet
  BY SameBroker
<1>2. [BP!Next]_(BP!vars)
  <2>1. CASE B!Next
    BY <2>1, SameSteps DEF B!Next, BP!Next
  <2>2. CASE UNCHANGED broker
    BY <2>2 DEF broker, BP!vars, BP!brokerVars
  <2> QED BY <2>1, <2>2
<1>3. BP!BrokerInv' /\ BP!CleanMeansQuiet'
  BY <1>1, <1>2, BP!BrokerStep, BP!CleanStep
<1> QED BY <1>3, SameBroker

\* What every step but a request, a removal and a new run leaves of the broker.
BrokerKeeps ==
  /\ B!BrokerInv' /\ B!CleanMeansQuiet'
  /\ exited => exited' /\ fork' = fork
  /\ stage = "clean" => stage' = "clean"
  /\ poisoned => poisoned'
  /\ terminated' = terminated
  /\ termination = "running" => termination' = "running"
  /\ (\A r \in Requests : fork[r] = "none") /\ ~poisoned => fork' = fork /\ ~poisoned'

LEMMA KeepsNothing ==
  ASSUME ControllerInv, UNCHANGED broker
  PROVE  BrokerKeeps
<1>1. B!BrokerInv' /\ B!CleanMeansQuiet'
  BY BrokerStays DEF ControllerInv
<1> QED BY <1>1 DEF broker, BrokerKeeps

LEMMA KeepsStep ==
  ASSUME ControllerInv,
         \/ \E r \in Requests : B!Receive(r) \/ B!NoReply(r) \/ B!Handle(r) \/ B!Cancelled(r)
         \/ \E r \in Requests, o \in B!Outcomes : B!WorkerEnds(r, o)
         \/ B!TerminationLate \/ B!Close \/ B!Exit \/ B!Crash
  PROVE  BrokerKeeps
<1>1. B!BrokerInv /\ B!CleanMeansQuiet /\ BP!BrokerInv /\ BP!CleanMeansQuiet
  BY SameBroker DEF ControllerInv
<1>2. B!BrokerInv' /\ B!CleanMeansQuiet'
  <2>1. B!Next
    BY DEF B!Next
  <2> QED BY <1>1, <2>1, BrokerStays
<1>3. BP!Kept /\ BP!Unasked
  <2>1. ASSUME NEW r \in Requests, B!Receive(r) \/ B!NoReply(r)
        PROVE  BP!Kept /\ BP!Unasked
    BY <1>1, <2>1, SameSteps, BP!ThreadKeeps
  <2>2. ASSUME NEW r \in Requests, B!Handle(r) \/ B!Cancelled(r)
        PROVE  BP!Kept /\ BP!Unasked
    BY <1>1, <2>2, SameSteps, BP!HandlerKeeps
  <2>3. ASSUME NEW r \in Requests, NEW o \in B!Outcomes, B!WorkerEnds(r, o)
        PROVE  BP!Kept /\ BP!Unasked
    BY <1>1, <2>3, SameSteps, BP!WorkerKeeps
  <2>4. CASE B!Close
    BY <1>1, <2>4, SameSteps, BP!CloseKeeps
  <2>5. CASE B!TerminationLate \/ B!Exit \/ B!Crash
    BY <1>1, <2>5, SameSteps, BP!EndKeeps
  <2> QED BY <2>1, <2>2, <2>3, <2>4, <2>5
<1> QED BY <1>2, <1>3 DEF BP!Kept, BP!Unasked, BrokerKeeps

-----------------------------------------------------------------------------
(* The parts of the invariant *)

OwnTypes ==
  /\ agentPoisoned \in BOOLEAN
  /\ pc \in Starting \cup Closing \cup {"open", "closed", "idle"}
  /\ reached \in {"nothing", "identity", "broker", "started"}
  /\ invalid \in BOOLEAN /\ uncertain \in BOOLEAN
  /\ removal \in [Callers -> Removing \cup {"idle", "waiting"}]
  /\ exec \in {"never", "waiting", "inside", "idle"}
  /\ task \in {"ours", "changed", "gone"}
  /\ sidecar \in Exited \cup {"none", "created", "running", "stopping", "removed"}
  /\ dockerFailed \in BOOLEAN

LEMMA InvParts ==
  ASSUME ControllerInv
  PROVE  /\ OwnTypes /\ B!BrokerInv /\ B!CleanMeansQuiet
         /\ InOrder /\ RemovedInTurn /\ ClosedInOrder /\ MarkerTruthful
BY DEF ControllerInv, TypeOK, OwnTypes

\* Nothing runs in the task when its sidecar is gone.
LEMMA InvPrime ==
  ASSUME OwnTypes', B!BrokerInv', B!CleanMeansQuiet',
         InOrder', RemovedInTurn', ClosedInOrder', MarkerTruthful'
  PROVE  ControllerInv'
<1>1. TypeOK'
  BY DEF TypeOK, OwnTypes, B!BrokerInv
<1>2. SidecarOutlivesProcesses'
  <2> SUFFICES ASSUME sidecar' = "removed" PROVE processes' = {}
    BY DEF SidecarOutlivesProcesses
  <2>1. terminated' \/ stage' = "clean" \/ exec' = "never"
    BY DEF ClosedInOrder, NoProcesses
  <2>2. CASE terminated'
    BY <2>2 DEF B!BrokerInv, B!QuiescedStaysQuiet, processes
  <2>3. CASE stage' = "clean"
    BY <2>3 DEF B!CleanMeansQuiet, processes
  <2>4. CASE exec' = "never"
    <3>1. \A r \in Requests : r \notin alive'
      BY <2>4 DEF InOrder, B!BrokerInv, B!RequestOK, B!Undispatched
    <3>2. alive' \subseteq Requests
      BY DEF B!BrokerInv, B!TypeOK
    <3> QED BY <3>1, <3>2 DEF processes
  <2> QED BY <2>1, <2>2, <2>3, <2>4
<1> QED BY <1>1, <1>2 DEF ControllerInv

\* After the drain of the broker either the task is in doubt or there is no news of it.
LEMMA NoNews ==
  ASSUME ControllerInv, pc \in AfterDrain, ~uncertain
  PROVE  B!inflight = {} /\ alive = {} /\ ~poisoned /\ termination # "running" /\ exec # "inside"
         /\ removal["poison"] = "idle" /\ ~terminated
<1> USE InvParts
<1>1. exec # "inside"
  BY DEF InOrder, AfterDrain
<1>2. B!inflight = {} /\ alive = {} /\ ~poisoned
  <2>1. CASE stage = "clean"
    BY <2>1 DEF B!CleanMeansQuiet
  <2>2. CASE stage # "clean"
    <3>1. reached \in {"nothing", "identity"}
      BY <2>2 DEF ClosedInOrder, OwnTypes
    <3>2. exec = "never"
      BY <3>1 DEF InOrder, started
    <3>3. ~poisoned /\ \A r \in Requests : fork[r] = "none"
      BY <3>2 DEF InOrder
    <3>4. BP!inflight = {} /\ alive = {}
      BY <3>3, SameBroker, BP!UnusedBroker
    <3> QED BY <3>3, <3>4, SameBroker
  <2> QED BY <2>1, <2>2
<1>3. termination # "running" /\ removal["poison"] = "idle" /\ ~terminated
  BY <1>2 DEF B!BrokerInv, B!RequestOK, RemovedInTurn
<1> QED BY <1>1, <1>2, <1>3

LEMMA InitController == Init => ControllerInv
<1> SUFFICES ASSUME Init PROVE ControllerInv
  OBVIOUS
<1>1. B!BrokerInv /\ B!CleanMeansQuiet
  <2>1. BP!Init
    BY DEF Init, B!Init, BP!Init
  <2> QED BY <2>1, BP!InitBroker, SameBroker
<1>2. fork = [r \in Requests |-> "none"] /\ poisoned = FALSE /\ terminated = FALSE /\ alive = {}
  BY DEF Init, B!Init
<1>3. OwnTypes
  <2>1. agentPoisoned \in BOOLEAN /\ invalid \in BOOLEAN /\ uncertain \in BOOLEAN /\ dockerFailed \in BOOLEAN
    BY Zenon DEF Init
  <2> QED BY <2>1 DEF Init, OwnTypes
<1>4. InOrder /\ RemovedInTurn /\ ClosedInOrder /\ MarkerTruthful
  BY <1>2 DEF Init, InOrder, RemovedInTurn, ClosedInOrder, MarkerTruthful, started, Callers, Removing,
              AfterDrain, AfterWait, NoProcesses, Refused
<1>5. SidecarOutlivesProcesses
  BY <1>2 DEF SidecarOutlivesProcesses, processes
<1> QED
  BY <1>1, <1>3, <1>4, <1>5 DEF ControllerInv, TypeOK, OwnTypes, B!BrokerInv

-----------------------------------------------------------------------------
(* The steps *)

\* What the invariant's parts of this module's own see of the broker.
SameBrokerSeen ==
  /\ fork' = fork /\ exited' = exited /\ stage' = stage /\ poisoned' = poisoned
  /\ terminated' = terminated /\ termination' = termination

LEMMA NothingSeen ==
  ASSUME UNCHANGED broker
  PROVE  SameBrokerSeen
BY DEF broker, SameBrokerSeen

\* start: the broker is there, and nobody uses it yet.
LEMMA StartsKeep ==
  ASSUME ControllerInv, Starts
  PROVE  ControllerInv'
<1> USE InvParts
<1> USE DEF Starts, VerifyTask, StartBroker, CreateSidecar, OwnedSidecar, StartSidecar, AwaitReady, VerifyAgain,
            startUnchanged, Start, StartFails, Error, Goto, flags
<1>1. UNCHANGED <<agentPoisoned, removal, exec, task, dockerFailed>>
  OBVIOUS
<1>2. SameBrokerSeen /\ BrokerKeeps
  <2>1. UNCHANGED broker
    OBVIOUS
  <2> QED BY <2>1, NothingSeen, KeepsNothing
<1> USE <1>1, <1>2 DEF SameBrokerSeen
<1>3. OwnTypes'
  <2>1. invalid' \in BOOLEAN
    <3>1. invalid' = TRUE \/ invalid' = invalid
      OBVIOUS
    <3> QED BY <3>1, Zenon DEF OwnTypes
  <2>2. uncertain' \in BOOLEAN
    <3>1. uncertain' = uncertain
      BY Zenon DEF OwnTypes
    <3> QED BY <3>1, Zenon DEF OwnTypes
  <2> QED BY <2>1, <2>2 DEF OwnTypes, Starting, Closing
<1>4. InOrder'
  BY DEF InOrder, started
<1>5. RemovedInTurn' /\ MarkerTruthful'
  <2>1. pc \notin {"removing", "removing_again"} /\ pc' \notin {"removing", "removing_again"}
    OBVIOUS
  <2>2. uncertain' = uncertain
    BY Zenon DEF OwnTypes
  <2> QED BY <2>1, <2>2 DEF RemovedInTurn, MarkerTruthful
<1>6. ClosedInOrder'
  BY DEF ClosedInOrder, InOrder, started, AfterDrain, AfterWait, ForksReturned, NoProcesses, Refused
<1> QED BY <1>3, <1>4, <1>5, <1>6, InvPrime DEF BrokerKeeps

\* _error and raise_if_poisoned only add to what is in doubt.
FlagsGrow ==
  /\ invalid' \in BOOLEAN /\ uncertain' \in BOOLEAN
  /\ invalid => invalid'
  /\ uncertain => uncertain'
  /\ uncertain' => invalid'

LEMMA ErrorsAreKept ==
  ASSUME ControllerInv, \/ RaiseIfPoisoned \/ UNCHANGED flags
                        \/ \E doubt \in BOOLEAN : Error(doubt)
  PROVE  FlagsGrow
<1> USE InvParts
<1>1. CASE UNCHANGED flags
  <2>1. invalid' = invalid /\ uncertain' = uncertain
    BY <1>1, Zenon DEF flags
  <2> QED BY <2>1, Zenon DEF FlagsGrow, OwnTypes, InOrder
<1>2. ASSUME NEW doubt \in BOOLEAN, Error(doubt)
      PROVE  FlagsGrow
  <2>1. invalid' = TRUE /\ uncertain' = (uncertain \/ doubt)
    BY <1>2, Zenon DEF Error
  <2>2. invalid' \in BOOLEAN /\ uncertain' \in BOOLEAN
    BY <2>1, Zenon DEF OwnTypes
  <2> QED BY <2>1, <2>2, Zenon DEF FlagsGrow
<1>3. CASE RaiseIfPoisoned
  <2>1. Error(TRUE) \/ UNCHANGED flags
    BY <1>3, Zenon DEF RaiseIfPoisoned
  <2> QED BY <1>1, <1>2, <2>1
<1> QED BY <1>1, <1>2, <1>3

\* exec, under the control lock.
LEMMA ExecKeeps ==
  ASSUME ControllerInv, ExecCall \/ ExecEnter \/ ExecReturns
  PROVE  ControllerInv'
<1> USE InvParts
<1>1. UNCHANGED <<agentPoisoned, pc, reached, removal, task, sidecar, dockerFailed>>
  BY DEF ExecCall, ExecEnter, ExecReturns, execUnchanged, containers
<1>2. SameBrokerSeen /\ BrokerKeeps
  <2>1. UNCHANGED broker
    BY DEF ExecCall, ExecEnter, ExecReturns, execUnchanged
  <2> QED BY <2>1, NothingSeen, KeepsNothing
<1>3. FlagsGrow
  <2>1. RaiseIfPoisoned \/ UNCHANGED flags \/ Error(TRUE) \/ Error(FALSE)
    BY DEF ExecCall, ExecEnter, ExecReturns
  <2> QED BY <2>1, ErrorsAreKept
<1>4. /\ exec' \in {"waiting", "inside", "idle"}
      /\ exec = "never" => pc = "open"
      /\ exec' = "inside" => pc \in {"open", "close_control"}
      /\ UNCHANGED flags \/ pc \in {"open", "close_control"}
  <2>1. CASE ExecCall
    BY <2>1 DEF ExecCall
  <2>2. CASE ExecEnter
    <3>1. exec = "waiting" /\ exec' \in {"idle", "inside"} /\ (closed => exec' = "idle" /\ UNCHANGED flags)
      BY <2>2 DEF ExecEnter
    <3>2. reached = "started"
      BY <3>1 DEF InOrder, started
    <3>3. closed \/ pc = "open"
      BY <3>2 DEF InOrder, OwnTypes, started, closed, Starting, Closing
    <3> QED BY <3>1, <3>3
  <2>3. CASE ExecReturns
    BY <2>3 DEF ExecReturns, InOrder
  <2> QED BY <2>1, <2>2, <2>3
<1>5. started
  BY <1>4 DEF InOrder, OwnTypes, started, ExecCall, ExecEnter, ExecReturns
<1> USE <1>1, <1>2, <1>3, <1>4, <1>5 DEF SameBrokerSeen, FlagsGrow
<1>6. OwnTypes'
  BY DEF OwnTypes
<1>7. InOrder'
  BY DEF InOrder, started
<1>8. RemovedInTurn' /\ MarkerTruthful'
  BY DEF RemovedInTurn, MarkerTruthful
<1>9. ClosedInOrder'
  BY DEF ClosedInOrder, InOrder, started, AfterDrain, AfterWait, ForksReturned, NoProcesses, Refused, flags
<1> QED BY <1>6, <1>7, <1>8, <1>9, InvPrime DEF BrokerKeeps

\* The stages of aclose that leave the broker alone.
Stages ==
  \/ AClose \/ CloseControl \/ InspectSidecar \/ Quiesce \/ AwaitExit
  \/ BrokerDrained \/ InspectAgain \/ VerifyRemoved \/ Report

LEMMA StagesKeep ==
  ASSUME ControllerInv, Stages
  PROVE  ControllerInv'
<1> USE InvParts
<1> USE DEF Stages
<1>1. UNCHANGED <<agentPoisoned, reached, removal, exec, task>>
  BY DEF AClose, CloseControl, InspectSidecar, Quiesce, AwaitExit, BrokerDrained, InspectAgain, VerifyRemoved,
         Report, closeUnchanged
<1>2. SameBrokerSeen /\ BrokerKeeps
  <2>1. UNCHANGED broker
    BY DEF AClose, CloseControl, InspectSidecar, Quiesce, AwaitExit, BrokerDrained, InspectAgain, VerifyRemoved,
           Report
  <2> QED BY <2>1, NothingSeen, KeepsNothing
<1>3. FlagsGrow
  <2>1. (B!inflight # {}) \in BOOLEAN
    OBVIOUS
  <2>2. \/ RaiseIfPoisoned \/ UNCHANGED flags
        \/ \E doubt \in BOOLEAN : Error(doubt)
    BY <2>1 DEF AClose, CloseControl, InspectSidecar, Quiesce, AwaitExit, BrokerDrained, InspectAgain,
           VerifyRemoved, Report, Passed, Raised, Failed
  <2> QED BY <2>2, ErrorsAreKept
<1>4. dockerFailed' = dockerFailed \/ dockerFailed' = TRUE
  BY DEF AClose, CloseControl, InspectSidecar, Quiesce, AwaitExit, BrokerDrained, InspectAgain,
         VerifyRemoved, Report, Passed, Raised, Failed
<1>5. dockerFailed' \in BOOLEAN /\ (dockerFailed => dockerFailed')
  BY <1>4, Zenon DEF OwnTypes
<1> USE <1>1, <1>2, <1>3, <1>5 DEF SameBrokerSeen, FlagsGrow
<1> USE DEF Passed, Raised, Failed, Goto, Error, flags
<1>6. CASE AClose
  <2>1. OwnTypes' /\ InOrder'
    BY <1>6 DEF AClose, OwnTypes, InOrder, started, Closing
  <2>2. RemovedInTurn' /\ MarkerTruthful'
    BY <1>6 DEF AClose, RemovedInTurn, MarkerTruthful
  <2>3. ClosedInOrder'
    BY <1>6 DEF AClose, ClosedInOrder, InOrder, started, AfterDrain, AfterWait, ForksReturned, NoProcesses, Refused
  <2> QED BY <2>1, <2>2, <2>3, InvPrime DEF BrokerKeeps
<1>7. CASE CloseControl
  <2>1. OwnTypes' /\ InOrder'
    BY <1>7 DEF CloseControl, OwnTypes, InOrder, started, Closing
  <2>2. RemovedInTurn' /\ MarkerTruthful'
    BY <1>7 DEF CloseControl, RemovedInTurn, MarkerTruthful
  <2>3. ClosedInOrder'
    BY <1>7 DEF CloseControl, ClosedInOrder, InOrder, started, AfterDrain, AfterWait, ForksReturned, NoProcesses, Refused
  <2> QED BY <2>1, <2>2, <2>3, InvPrime DEF BrokerKeeps
<1>8. CASE InspectSidecar
  <2>1. OwnTypes' /\ InOrder'
    BY <1>8 DEF InspectSidecar, OwnTypes, InOrder, started, Closing
  <2>2. RemovedInTurn' /\ MarkerTruthful'
    BY <1>8 DEF InspectSidecar, RemovedInTurn, MarkerTruthful
  <2>3. ClosedInOrder'
    BY <1>8 DEF InspectSidecar, ClosedInOrder, InOrder, started, AfterDrain, AfterWait, ForksReturned, NoProcesses, Refused
  <2> QED BY <2>1, <2>2, <2>3, InvPrime DEF BrokerKeeps
<1>9. CASE Quiesce
  <2>1. OwnTypes' /\ InOrder'
    BY <1>9 DEF Quiesce, OwnTypes, InOrder, started, Closing
  <2>2. RemovedInTurn' /\ MarkerTruthful'
    BY <1>9 DEF Quiesce, RemovedInTurn, MarkerTruthful
  <2>3. ClosedInOrder'
    BY <1>9 DEF Quiesce, ClosedInOrder, InOrder, started, AfterDrain, AfterWait, ForksReturned, NoProcesses, Refused
  <2> QED BY <2>1, <2>2, <2>3, InvPrime DEF BrokerKeeps
<1>10. CASE AwaitExit
  <2>1. OwnTypes' /\ InOrder'
    BY <1>10 DEF AwaitExit, OwnTypes, InOrder, started, Closing
  <2>2. RemovedInTurn' /\ MarkerTruthful'
    BY <1>10 DEF AwaitExit, RemovedInTurn, MarkerTruthful
  <2>3. ClosedInOrder'
    BY <1>10 DEF AwaitExit, ClosedInOrder, InOrder, started, AfterDrain, AfterWait, ForksReturned, NoProcesses, Refused
  <2> QED BY <2>1, <2>2, <2>3, InvPrime DEF BrokerKeeps
<1>11. CASE BrokerDrained
  <2>1. OwnTypes' /\ InOrder'
    BY <1>11 DEF BrokerDrained, OwnTypes, InOrder, started, Closing
  <2>2. RemovedInTurn' /\ MarkerTruthful'
    BY <1>11 DEF BrokerDrained, RemovedInTurn, MarkerTruthful
  <2>3. ClosedInOrder'
    BY <1>11 DEF BrokerDrained, ClosedInOrder, InOrder, started, AfterDrain, AfterWait, ForksReturned, NoProcesses, Refused
  <2> QED BY <2>1, <2>2, <2>3, InvPrime DEF BrokerKeeps
<1>12. CASE InspectAgain
  <2>1. OwnTypes' /\ InOrder'
    BY <1>12 DEF InspectAgain, OwnTypes, InOrder, started, Closing
  <2>2. RemovedInTurn' /\ MarkerTruthful'
    BY <1>12 DEF InspectAgain, RemovedInTurn, MarkerTruthful
  <2>3. ClosedInOrder'
    BY <1>12 DEF InspectAgain, ClosedInOrder, InOrder, started, AfterDrain, AfterWait, ForksReturned, NoProcesses, Refused, OwnTypes
  <2> QED BY <2>1, <2>2, <2>3, InvPrime DEF BrokerKeeps
<1>13. CASE VerifyRemoved
  <2>1. OwnTypes' /\ InOrder'
    BY <1>13 DEF VerifyRemoved, OwnTypes, InOrder, started, Closing
  <2>2. RemovedInTurn' /\ MarkerTruthful'
    BY <1>13 DEF VerifyRemoved, RemovedInTurn, MarkerTruthful
  <2>3. ClosedInOrder'
    BY <1>13 DEF VerifyRemoved, ClosedInOrder, InOrder, started, AfterDrain, AfterWait, ForksReturned, NoProcesses, Refused
  <2> QED BY <2>1, <2>2, <2>3, InvPrime DEF BrokerKeeps
<1>14. CASE Report
  <2>1. OwnTypes' /\ InOrder'
    BY <1>14 DEF Report, OwnTypes, InOrder, started, Closing
  <2>2. RemovedInTurn' /\ MarkerTruthful'
    BY <1>14 DEF Report, RemovedInTurn, MarkerTruthful
  <2>3. ClosedInOrder'
    BY <1>14 DEF Report, ClosedInOrder, InOrder, started, AfterDrain, AfterWait, ForksReturned, NoProcesses, Refused
  <2> QED BY <2>1, <2>2, <2>3, InvPrime DEF BrokerKeeps
<1> QED BY <1>6, <1>7, <1>8, <1>9, <1>10, <1>11, <1>12, <1>13, <1>14

\* The run ends; the agent remembers what was in doubt.
LEMMA RunEndsKeeps ==
  ASSUME ControllerInv, RunEnds
  PROVE  ControllerInv'
<1> USE InvParts
<1>1. pc = "closed" /\ pc' = "idle" /\ UNCHANGED <<reached, removal, exec, task, sidecar, dockerFailed>>
  BY DEF RunEnds, Goto, containers
<1>2. SameBrokerSeen /\ BrokerKeeps
  <2>1. UNCHANGED broker
    BY DEF RunEnds
  <2> QED BY <2>1, NothingSeen, KeepsNothing
<1>3. FlagsGrow
  BY ErrorsAreKept DEF RunEnds
<1>4. agentPoisoned' \in BOOLEAN /\ (~agentPoisoned' => ~invalid')
  <2>1. PICK cleanup \in BOOLEAN : agentPoisoned' = (cleanup \/ invalid' \/ poisoned)
    BY DEF RunEnds
  <2> QED BY <2>1, Zenon
<1> USE <1>1, <1>2, <1>3, <1>4 DEF SameBrokerSeen, FlagsGrow
<1>5. OwnTypes' /\ InOrder'
  BY DEF OwnTypes, InOrder, started
<1>6. RemovedInTurn' /\ MarkerTruthful'
  BY DEF RemovedInTurn, MarkerTruthful
<1>7. ClosedInOrder'
  BY DEF ClosedInOrder, InOrder, started, AfterDrain, AfterWait, ForksReturned, NoProcesses
<1> QED BY <1>5, <1>6, <1>7, InvPrime DEF BrokerKeeps

LEMMA RemoveUncertainTaskKeeps ==
  ASSUME ControllerInv, RemoveUncertainTask
  PROVE  ControllerInv'
<1> USE InvParts
<1>1. UNCHANGED <<agentPoisoned, reached, invalid, uncertain, exec, task, sidecar, dockerFailed>>
  BY DEF RemoveUncertainTask, containers, flags
<1>2. SameBrokerSeen /\ BrokerKeeps
  <2>1. UNCHANGED broker
    BY DEF RemoveUncertainTask
  <2> QED BY <2>1, NothingSeen, KeepsNothing
<1>3. \/ /\ pc = "remove" /\ pc' = "removing" /\ uncertain
         /\ removal' = [removal EXCEPT !["close"] = "waiting"]
      \/ pc = "remove" /\ pc' = "drain" /\ removal' = removal
      \/ /\ pc = "remove_again" /\ pc' = "removing_again" /\ uncertain
         /\ removal' = [removal EXCEPT !["close"] = "waiting"]
      \/ /\ pc = "remove_again" /\ pc' = "inspect_again" /\ removal' = removal
         /\ uncertain => terminated \/ reached = "nothing"
  BY DEF RemoveUncertainTask, Goto, At, identified
<1> USE <1>1, <1>2, <1>3 DEF SameBrokerSeen
<1>4. /\ DOMAIN removal = Callers
      /\ "close" \in Callers /\ "poison" \in Callers
  BY DEF OwnTypes, Callers
<1>5. OwnTypes'
  BY <1>4 DEF OwnTypes, Closing
<1>6. InOrder'
  BY DEF InOrder, started
<1>7. RemovedInTurn' /\ MarkerTruthful'
  BY <1>4 DEF RemovedInTurn, MarkerTruthful, OwnTypes, Callers, Removing
<1>8. ClosedInOrder'
  BY <1>4 DEF ClosedInOrder, InOrder, started, AfterDrain, AfterWait, ForksReturned, NoProcesses, Refused
<1> QED BY <1>5, <1>6, <1>7, <1>8, InvPrime DEF BrokerKeeps

LEMMA TaskDisturbedKeeps ==
  ASSUME ControllerInv, TaskDisturbed
  PROVE  ControllerInv'
<1> USE InvParts
<1>1. /\ task = "ours" /\ task' \in {"changed", "gone"}
      /\ UNCHANGED <<agentPoisoned, pc, reached, invalid, uncertain, removal, exec, sidecar, dockerFailed>>
  BY DEF TaskDisturbed, flags
<1>2. SameBrokerSeen /\ BrokerKeeps
  <2>1. UNCHANGED broker
    BY DEF TaskDisturbed
  <2> QED BY <2>1, NothingSeen, KeepsNothing
<1> USE <1>1, <1>2 DEF SameBrokerSeen
<1>3. OwnTypes' /\ InOrder'
  BY DEF OwnTypes, InOrder, started
<1>4. RemovedInTurn' /\ MarkerTruthful'
  BY DEF RemovedInTurn, MarkerTruthful
<1>5. ClosedInOrder'
  BY DEF ClosedInOrder, InOrder, started, AfterDrain, AfterWait, ForksReturned, NoProcesses, Refused
<1> QED BY <1>3, <1>4, <1>5, InvPrime DEF BrokerKeeps

LEMMA OnBrokerPoisonKeeps ==
  ASSUME ControllerInv, OnBrokerPoison
  PROVE  ControllerInv'
<1> USE InvParts
<1>1. /\ termination = "running" /\ removal["poison"] = "idle"
      /\ removal' = [removal EXCEPT !["poison"] = "waiting"]
      /\ UNCHANGED <<agentPoisoned, pc, reached, exec, task, sidecar, dockerFailed>>
  BY DEF OnBrokerPoison, removalUnchanged, At
<1>2. SameBrokerSeen /\ BrokerKeeps
  <2>1. UNCHANGED broker
    BY DEF OnBrokerPoison
  <2> QED BY <2>1, NothingSeen, KeepsNothing
<1>3. FlagsGrow
  BY ErrorsAreKept DEF OnBrokerPoison
<1>4. uncertain \/ pc \notin AfterDrain
  BY <1>1, NoNews
<1>5. DOMAIN removal = Callers /\ "close" \in Callers /\ "poison" \in Callers
  BY DEF OwnTypes, Callers
<1> USE <1>1, <1>2, <1>3, <1>4, <1>5 DEF SameBrokerSeen, FlagsGrow
<1>6. OwnTypes'
  BY DEF OwnTypes
<1>7. InOrder'
  BY DEF InOrder, started
<1>8. RemovedInTurn' /\ MarkerTruthful'
  BY DEF RemovedInTurn, MarkerTruthful, OwnTypes, Callers, Removing
<1>9. ClosedInOrder'
  BY DEF ClosedInOrder, InOrder, started, AfterDrain, AfterWait, ForksReturned, NoProcesses, Refused
<1> QED BY <1>6, <1>7, <1>8, <1>9, InvPrime DEF BrokerKeeps

\* The broker and the sidecar's threads, by themselves.
LEMMA BrokerAloneKeeps ==
  ASSUME ControllerInv, BrokerAlone
  PROVE  ControllerInv'
<1> USE InvParts
<1>1. UNCHANGED <<agentPoisoned, pc, reached, invalid, uncertain, removal, exec, task, sidecar, dockerFailed>>
  BY DEF BrokerAlone, own, flags, containers
<1>2. BrokerKeeps
  BY KeepsStep DEF BrokerAlone
<1> USE <1>1, <1>2 DEF BrokerKeeps
<1>3. OwnTypes' /\ InOrder'
  BY DEF OwnTypes, InOrder, started
<1>4. RemovedInTurn' /\ MarkerTruthful'
  BY DEF RemovedInTurn, MarkerTruthful
<1>5. ClosedInOrder'
  BY DEF ClosedInOrder, InOrder, started, AfterDrain, AfterWait, ForksReturned, NoProcesses, Refused
<1> QED BY <1>3, <1>4, <1>5, InvPrime

LEMMA WorkerEndsKeeps ==
  ASSUME ControllerInv, NEW r \in Requests, NEW outcome \in B!Outcomes, WorkerEnds(r, outcome)
  PROVE  ControllerInv'
<1> USE InvParts
<1>1. UNCHANGED <<agentPoisoned, pc, reached, removal, exec, task, sidecar, dockerFailed>>
  BY DEF WorkerEnds, containers
<1>2. BrokerKeeps
  BY KeepsStep DEF WorkerEnds
<1>3. FlagsGrow
  BY ErrorsAreKept DEF WorkerEnds
<1>4. uncertain \/ pc \notin AfterDrain
  <2>1. r \in B!inflight
    BY DEF WorkerEnds, B!WorkerEnds, B!inflight
  <2> QED BY <2>1, NoNews
<1> USE <1>1, <1>2, <1>3, <1>4 DEF BrokerKeeps, FlagsGrow
<1>5. OwnTypes' /\ InOrder'
  BY DEF OwnTypes, InOrder, started
<1>6. RemovedInTurn' /\ MarkerTruthful'
  BY DEF RemovedInTurn, MarkerTruthful
<1>7. ClosedInOrder'
  BY DEF ClosedInOrder, InOrder, started, AfterDrain, AfterWait, ForksReturned, NoProcesses, Refused
<1> QED BY <1>5, <1>6, <1>7, InvPrime

LEMMA DrainBrokerKeeps ==
  ASSUME ControllerInv, DrainBroker
  PROVE  ControllerInv'
<1> USE InvParts
<1>1. /\ pc = "drain" /\ pc' \in {"draining", "remove_again"}
      /\ pc' = "remove_again" => reached \notin {"broker", "started"}
      /\ UNCHANGED <<agentPoisoned, reached, invalid, uncertain, removal, exec, task, sidecar, dockerFailed>>
  BY DEF DrainBroker, Passed, Goto, flags, closeUnchanged
<1>2. BrokerKeeps
  <2>1. B!CloseBegin \/ UNCHANGED broker
    BY DEF DrainBroker
  <2>2. B!CloseBegin => B!Close
    BY DEF B!Close
  <2> QED BY <2>1, <2>2, KeepsStep, KeepsNothing
<1> USE <1>1, <1>2 DEF BrokerKeeps
<1>3. OwnTypes' /\ InOrder'
  BY DEF OwnTypes, InOrder, started, Closing
<1>4. RemovedInTurn' /\ MarkerTruthful'
  BY DEF RemovedInTurn, MarkerTruthful
<1>5. ClosedInOrder'
  BY DEF ClosedInOrder, InOrder, started, AfterDrain, AfterWait, ForksReturned, NoProcesses, Refused
<1> QED BY <1>3, <1>4, <1>5, InvPrime

LEMMA RemoveSidecarKeeps ==
  ASSUME ControllerInv, RemoveSidecar
  PROVE  ControllerInv'
<1> USE InvParts
<1>1. /\ pc = "rm" /\ pc' \in {"verify_rm", "report"}
      /\ UNCHANGED <<agentPoisoned, reached, removal, exec, task>>
      /\ \/ sidecar' = "removed" /\ UNCHANGED flags
         \/ /\ sidecar' \in {"removed", sidecar} /\ pc' = "report"
            /\ dockerFailed' = TRUE /\ Error(FALSE)
      /\ pc' = "verify_rm" => sidecar' = "removed" /\ UNCHANGED flags
  BY DEF RemoveSidecar, Passed, Failed, Goto, closeUnchanged
<1>2. dockerFailed' \in BOOLEAN /\ (dockerFailed => dockerFailed')
  <2>1. dockerFailed' = dockerFailed \/ dockerFailed' = TRUE
    BY DEF RemoveSidecar, Passed, Failed
  <2> QED BY <2>1, Zenon DEF OwnTypes
<1>3. BrokerKeeps
  <2>1. B!Crash \/ UNCHANGED broker
    BY DEF RemoveSidecar
  <2> QED BY <2>1, KeepsStep, KeepsNothing
<1>4. FlagsGrow
  BY <1>1, ErrorsAreKept
<1>5. uncertain' = uncertain
  BY <1>1, Zenon DEF Error, flags, OwnTypes
<1>6. \/ sidecar' = "removed" /\ invalid' = invalid
      \/ sidecar' \in {"removed", sidecar} /\ pc' = "report" /\ invalid'
  BY <1>1, Zenon DEF Error, flags
<1> USE <1>1, <1>2, <1>3, <1>4, <1>5, <1>6 DEF BrokerKeeps, FlagsGrow
<1>7. OwnTypes' /\ InOrder'
  BY DEF OwnTypes, InOrder, ClosedInOrder, started, Closing
<1>8. RemovedInTurn' /\ MarkerTruthful'
  BY DEF RemovedInTurn, MarkerTruthful
<1>9. ClosedInOrder'
  BY DEF ClosedInOrder, InOrder, started, AfterDrain, AfterWait, ForksReturned, NoProcesses, Refused
<1> QED BY <1>7, <1>8, <1>9, InvPrime

\* The sidecar comes to its end.
LEMMA SidecarEndsKeeps ==
  ASSUME ControllerInv, SidecarExits \/ SidecarCrashes
  PROVE  ControllerInv'
<1> USE InvParts
<1>1. /\ sidecar \in {"running", "stopping"} /\ sidecar' \in {"clean", "dirty"}
      /\ UNCHANGED <<agentPoisoned, pc, reached, invalid, uncertain, removal, exec, task, dockerFailed>>
  BY DEF SidecarExits, SidecarCrashes, up, flags
<1>2. BrokerKeeps
  <2>1. B!Exit \/ B!Crash
    BY DEF SidecarExits, SidecarCrashes
  <2> QED BY <2>1, KeepsStep
<1>3. sidecar' = "clean" => ForksReturned'
  <2> SUFFICES ASSUME sidecar' = "clean" PROVE ForksReturned'
    OBVIOUS
  <2>1. B!Exit /\ \A r \in Requests : fork'[r] # "retained"
    BY DEF SidecarExits, SidecarCrashes
  <2>2. exited' /\ \A r \in Requests : fork[r] \in {"none", "retained", "removed"}
    BY <2>1 DEF B!Exit, B!BrokerInv, B!TypeOK
  <2>3. \A r \in Requests : fork'[r] \in {"none", "removed"}
    BY <2>1, <2>2 DEF B!Exit
  <2> QED BY <2>2, <2>3 DEF ForksReturned
<1> USE <1>1, <1>2, <1>3 DEF BrokerKeeps
<1>4. OwnTypes' /\ InOrder'
  BY DEF OwnTypes, InOrder, started, Exited
<1>5. RemovedInTurn' /\ MarkerTruthful'
  BY DEF RemovedInTurn, MarkerTruthful
<1>6. ClosedInOrder'
  BY DEF ClosedInOrder, InOrder, started, AfterDrain, AfterWait, ForksReturned, NoProcesses, Refused
<1> QED BY <1>4, <1>5, <1>6, InvPrime

LEMMA SidecarCallsKeeps ==
  ASSUME ControllerInv, NEW r \in Requests, SidecarCalls(r)
  PROVE  ControllerInv'
<1> USE InvParts
<1>1. /\ exec # "never" /\ sidecar \in {"running", "stopping"}
      /\ UNCHANGED <<agentPoisoned, pc, reached, invalid, uncertain, removal, exec, task, sidecar, dockerFailed>>
  BY DEF SidecarCalls, up, own, flags, containers
<1>2. ~exited /\ UNCHANGED <<exited, stage, poisoned, terminated, termination>>
  BY DEF SidecarCalls, B!Call, B!brokerVars
<1>3. B!BrokerInv' /\ B!CleanMeansQuiet'
  <2>1. B!Next
    BY DEF SidecarCalls, B!Next
  <2> QED BY <2>1, BrokerStays
<1> USE <1>1, <1>2, <1>3
<1>4. OwnTypes' /\ InOrder'
  BY DEF OwnTypes, InOrder, started
<1>5. RemovedInTurn' /\ MarkerTruthful'
  BY DEF RemovedInTurn, MarkerTruthful
<1>6. ClosedInOrder'
  BY DEF ClosedInOrder, InOrder, started, AfterDrain, AfterWait, ForksReturned, NoProcesses, Refused
<1> QED BY <1>4, <1>5, <1>6, InvPrime

LEMMA NewRunKeeps ==
  ASSUME ControllerInv, NewRun
  PROVE  ControllerInv'
<1> USE InvParts
<1>1. /\ fork' = [r \in Requests |-> "none"] /\ alive' = {}
      /\ poisoned' = FALSE /\ exited' = FALSE /\ terminated' = FALSE
      /\ termination' = "none" /\ stage' = "open"
  BY DEF NewRun, NewBroker
<1>2. B!BrokerInv' /\ B!CleanMeansQuiet'
  BY DEF NewRun, NewBroker, B!BrokerInv, B!RequestOK, B!QuiescedStaysQuiet, B!TypeOK, B!InHandlers, B!ClosingStages,
         B!Undispatched, B!Answered, B!CleanMeansQuiet, B!inflight
<1>3. /\ pc' = "verify" /\ reached' = "nothing" /\ invalid' = FALSE /\ uncertain' = FALSE
      /\ removal' = [c \in Callers |-> "idle"] /\ exec' = "never" /\ sidecar' = "none"
      /\ dockerFailed' = FALSE /\ agentPoisoned' = agentPoisoned
      /\ task' \in {"ours", task}
  BY DEF NewRun, Goto
<1> USE <1>1, <1>2, <1>3
<1>4. OwnTypes'
  <2>1. invalid' \in BOOLEAN /\ uncertain' \in BOOLEAN /\ dockerFailed' \in BOOLEAN /\ agentPoisoned' \in BOOLEAN
    BY Zenon DEF OwnTypes
  <2> QED BY <2>1 DEF OwnTypes, Starting
<1>5. InOrder' /\ RemovedInTurn' /\ MarkerTruthful'
  BY DEF InOrder, started, RemovedInTurn, MarkerTruthful, Callers, Removing
<1>6. ClosedInOrder'
  BY DEF ClosedInOrder, started, AfterDrain, AfterWait, ForksReturned, NoProcesses, Refused
<1> QED BY <1>4, <1>5, <1>6, InvPrime

\* A caller of _remove_uncertain_task goes on to its next Docker call.
MayGoOn(c, step) ==
  /\ removal[c] # "idle"
  /\ removal[c] \in Removing \/ ~Locked
  /\ step = "rm" => task = "ours"
  /\ step = "check" => task' = "gone"
  /\ task' = task \/ (task' = "gone" /\ removal[c] = "rm")

LEMMA GoesOnKeeps ==
  ASSUME ControllerInv, NEW c \in Callers, NEW step \in Removing, GoesOn(c, step), MayGoOn(c, step)
  PROVE  ControllerInv'
<1> USE InvParts DEF MayGoOn
<1>1. /\ removal' = [removal EXCEPT ![c] = step]
      /\ UNCHANGED <<agentPoisoned, pc, reached, invalid, uncertain, exec, sidecar, dockerFailed>>
  BY DEF GoesOn, At, removalUnchanged, flags
<1>2. SameBrokerSeen /\ BrokerKeeps
  <2>1. UNCHANGED broker
    BY DEF GoesOn
  <2> QED BY <2>1, NothingSeen, KeepsNothing
<1>3. /\ removal \in [Callers -> Removing \cup {"idle", "waiting"}]
      /\ \A d \in Callers : d # c => removal[d] \notin Removing
  BY DEF OwnTypes, RemovedInTurn, Locked, Callers
<1> USE <1>1, <1>2, <1>3 DEF SameBrokerSeen
<1>4. removal' \in [Callers -> Removing \cup {"idle", "waiting"}]
  OBVIOUS
<1>5. /\ removal'[c] = step
      /\ \A d \in Callers : d # c => removal'[d] = removal[d]
  OBVIOUS
<1>6. OwnTypes' /\ InOrder'
  BY <1>4 DEF OwnTypes, InOrder, started
<1>7. MarkerTruthful'
  BY DEF MarkerTruthful
<1>8. RemovedInTurn'
  <2>1. \E d \in Callers : removal'[d] \notin Removing
    <3>1. PICK d \in Callers : d # c
      BY DEF Callers
    <3> QED BY <3>1, <1>5
  <2>2. \A d \in Callers : removal'[d] = "check" => task' = "gone"
    BY <1>5 DEF RemovedInTurn
  <2>3. \A d \in Callers : removal'[d] # "idle" <=> removal[d] # "idle"
    BY <1>5 DEF Removing
  <2>4. "poison" \in Callers /\ "close" \in Callers
    BY DEF Callers
  <2> QED BY <2>1, <2>2, <2>3, <2>4 DEF RemovedInTurn
<1>9. ClosedInOrder'
  <2>1. Refused => Refused'
    BY <1>5 DEF Refused
  <2> QED BY <2>1 DEF ClosedInOrder, InOrder, started, AfterDrain, AfterWait, ForksReturned, NoProcesses
<1> QED BY <1>6, <1>7, <1>8, <1>9, InvPrime DEF BrokerKeeps

\* It returns or raises: the task is gone, or aclose knows why it could not be removed.
MayReturn(c, verified) ==
  /\ removal[c] # "idle"
  /\ verified => task' = "gone"
  /\ task' = task \/ (task' = "gone" /\ removal[c] = "rm")
  /\ dockerFailed' \in BOOLEAN /\ (dockerFailed => dockerFailed')
  /\ ~verified /\ c = "close" =>
       dockerFailed' \/ (task' = "changed" /\ \A d \in Callers : d # c => removal[d] # "rm")

LEMMA ReturnsKeeps ==
  ASSUME ControllerInv, NEW c \in Callers, NEW verified \in BOOLEAN, Returns(c, verified), MayReturn(c, verified)
  PROVE  ControllerInv'
<1> USE InvParts DEF MayReturn
<1>1. /\ removal' = [removal EXCEPT ![c] = "idle"]
      /\ UNCHANGED <<agentPoisoned, reached, exec, sidecar>>
  BY DEF Returns, At, removalUnchanged
<1>2. removal \in [Callers -> Removing \cup {"idle", "waiting"}]
  BY DEF OwnTypes
<1>3. removal' \in [Callers -> Removing \cup {"idle", "waiting"}]
  BY <1>1, <1>2
<1>4. /\ removal'[c] = "idle"
      /\ \A d \in Callers : d # c => removal'[d] = removal[d]
  BY <1>1, <1>2
<1>5. /\ B!BrokerInv' /\ B!CleanMeansQuiet'
      /\ UNCHANGED <<fork, exited, stage, poisoned>>
      /\ terminated => terminated'
      /\ terminated' = terminated \/ verified
  <2>1. CASE c = "poison"
    <3>1. B!Terminated /\ termination' = IF verified THEN "acknowledged" ELSE "refused"
      BY <2>1 DEF Returns
    <3>2. B!Next
      BY <3>1 DEF B!Next
    <3> QED BY <3>1, <3>2, BrokerStays DEF B!Terminated, B!BrokerInv, B!TypeOK
  <2>2. CASE c = "close"
    <3>1. IF verified /\ ~terminated THEN B!TaskRemoved ELSE UNCHANGED broker
      BY <2>2 DEF Returns
    <3>2. B!Next \/ UNCHANGED broker
      BY <3>1 DEF B!Next
    <3> QED BY <3>1, <3>2, BrokerStays DEF B!TaskRemoved, B!BrokerInv, B!TypeOK, broker
  <2> QED BY <2>1, <2>2 DEF Callers
<1> USE <1>1, <1>2, <1>3, <1>4, <1>5
<1>6. MarkerTruthful'
  BY DEF MarkerTruthful
<1>7. \A d \in Callers : removal'[d] = "check" => task' = "gone"
  BY DEF RemovedInTurn
<1>8. \E d \in Callers : removal'[d] \notin Removing
  BY DEF Removing
<1>9. CASE c = "poison"
  <2>1. /\ termination = "running" /\ UNCHANGED <<pc, invalid, uncertain>>
    BY <1>9 DEF Returns, B!Terminated, flags
  <2>2. poisoned /\ (pc \in AfterDrain => uncertain)
    BY <2>1, NoNews DEF B!BrokerInv
  <2>3. OwnTypes' /\ InOrder'
    BY <2>1 DEF OwnTypes, InOrder, started
  <2>4. RemovedInTurn'
    BY <1>7, <1>8, <1>9, <2>1, <2>2 DEF RemovedInTurn, Callers
  <2>5. Refused => Refused'
    BY <2>1 DEF Refused
  <2>6. ClosedInOrder'
    BY <2>1, <2>2, <2>5 DEF ClosedInOrder, InOrder, started, AfterDrain, AfterWait, ForksReturned, NoProcesses
  <2> QED BY <2>3, <2>4, <2>6, <1>5, <1>6, InvPrime
<1>10. CASE c = "close"
  <2>1. uncertain /\ pc \in {"removing", "removing_again"}
    BY <1>10 DEF RemovedInTurn
  <2>2. pc' = IF pc = "removing" THEN "drain" ELSE "inspect_again"
    BY <1>10 DEF Returns, Goto
  <2>3. /\ invalid' = TRUE /\ uncertain' = TRUE
        /\ UNCHANGED termination
    <3>1. UNCHANGED flags \/ Error(TRUE)
      BY <1>10, Zenon DEF Returns, Callers
    <3>2. invalid = TRUE /\ uncertain = TRUE
      BY <2>1, Zenon DEF InOrder, OwnTypes
    <3>3. UNCHANGED termination
      BY <1>10 DEF Returns, B!TaskRemoved, broker
    <3> QED BY <3>1, <3>2, <3>3, Zenon DEF flags, Error
  <2>4. OwnTypes' /\ InOrder'
    <3>1. invalid' \in BOOLEAN /\ uncertain' \in BOOLEAN
      BY <2>3, Zenon
    <3> QED BY <2>1, <2>2, <2>3, <3>1 DEF OwnTypes, InOrder, started, Closing
  <2>5. RemovedInTurn'
    BY <1>7, <1>8, <1>10, <2>1, <2>2, <2>3 DEF RemovedInTurn, Callers
  <2>6. terminated' \/ dockerFailed' \/ Refused'
    <3>1. verified => terminated'
      BY <1>10 DEF Returns, B!TaskRemoved, broker
    <3> QED BY <3>1, <1>10 DEF Refused
  <2>7. ClosedInOrder'
    BY <2>1, <2>2, <2>3, <2>6 DEF ClosedInOrder, InOrder, started, AfterDrain, AfterWait, ForksReturned, NoProcesses
  <2> QED BY <2>4, <2>5, <2>7, <1>5, <1>6, InvPrime
<1> QED BY <1>9, <1>10 DEF Callers

LEMMA RemovesKeeps ==
  ASSUME ControllerInv, NEW c \in Callers, Removes(c)
  PROVE  ControllerInv'
<1>1. /\ \A d \in Callers : removal[c] \in Removing /\ d # c => removal[d] \notin Removing
      /\ dockerFailed \in BOOLEAN
      /\ terminated => task = "gone"
      /\ removal[c] = "check" => task = "gone"
      /\ removal[c] \in Removing \cup {"idle", "waiting"}
      /\ task \in {"ours", "changed", "gone"}
  BY InvParts DEF OwnTypes, RemovedInTurn, MarkerTruthful, Callers
<1>2. dockerFailed' = dockerFailed => dockerFailed' \in BOOLEAN /\ (dockerFailed => dockerFailed')
  <2> SUFFICES ASSUME dockerFailed' = dockerFailed
               PROVE  dockerFailed' \in BOOLEAN /\ (dockerFailed => dockerFailed')
    OBVIOUS
  <2>1. dockerFailed' \in BOOLEAN
    BY <1>1, Zenon
  <2>2. dockerFailed => dockerFailed'
    OBVIOUS
  <2> QED BY <2>1, <2>2
<1>3. CASE Acquire(c)
  <2>1. removal[c] = "waiting" /\ ~Locked /\ task' = task
    BY <1>3 DEF Acquire
  <2>2. CASE terminated
    <3>1. Returns(c, TRUE) /\ dockerFailed' = dockerFailed
      BY <1>3, <2>2, Zenon DEF Acquire
    <3>2. MayReturn(c, TRUE)
      BY <1>1, <1>2, <2>1, <2>2, <3>1 DEF MayReturn
    <3> QED BY <3>1, <3>2, ReturnsKeeps
  <2>3. CASE ~terminated
    <3>1. GoesOn(c, "inspect")
      BY <1>3, <2>3, Zenon DEF Acquire
    <3>2. MayGoOn(c, "inspect") /\ "inspect" \in Removing
      BY <2>1 DEF MayGoOn, Removing
    <3> QED BY <3>1, <3>2, GoesOnKeeps
  <2> QED BY <2>2, <2>3
<1>4. CASE RemovalFails(c)
  <2>1. /\ removal[c] \in Removing /\ Returns(c, FALSE)
        /\ dockerFailed' = (dockerFailed \/ c = "close")
        /\ task' \in IF removal[c] = "rm" THEN {task, "gone"} ELSE {task}
    BY <1>4, Zenon DEF RemovalFails
  <2>2. /\ dockerFailed' \in BOOLEAN /\ (dockerFailed => dockerFailed')
        /\ c = "close" => dockerFailed'
    <3>1. (c = "close") \in BOOLEAN
      OBVIOUS
    <3> QED BY <1>1, <2>1, <3>1, Zenon
  <2>3. MayReturn(c, FALSE)
    BY <2>1, <2>2 DEF MayReturn, Removing
  <2> QED BY <2>1, <2>3, ReturnsKeeps
<1>5. CASE InspectTask(c)
  <2>1. removal[c] = "inspect" /\ task' = task
    BY <1>5 DEF InspectTask
  <2>2. CASE task = "changed"
    <3>1. Returns(c, FALSE) /\ dockerFailed' = dockerFailed
      BY <1>5, <2>2 DEF InspectTask
    <3>2. MayReturn(c, FALSE)
      BY <1>1, <1>2, <2>1, <2>2, <3>1 DEF MayReturn, Removing
    <3> QED BY <3>1, <3>2, ReturnsKeeps
  <2>3. CASE task = "ours"
    <3>1. GoesOn(c, "rm")
      BY <1>5, <2>3 DEF InspectTask
    <3>2. MayGoOn(c, "rm") /\ "rm" \in Removing
      BY <2>1, <2>3 DEF MayGoOn, Removing
    <3> QED BY <3>1, <3>2, GoesOnKeeps
  <2>4. CASE task = "gone"
    <3>1. GoesOn(c, "check")
      BY <1>5, <2>4 DEF InspectTask
    <3>2. MayGoOn(c, "check") /\ "check" \in Removing
      BY <2>1, <2>4 DEF MayGoOn, Removing
    <3> QED BY <3>1, <3>2, GoesOnKeeps
  <2> QED BY <1>1, <2>2, <2>3, <2>4
<1>6. CASE RemoveTask(c)
  <2>1. removal[c] = "rm" /\ GoesOn(c, "check") /\ task' = "gone"
    BY <1>6 DEF RemoveTask
  <2>2. MayGoOn(c, "check") /\ "check" \in Removing
    BY <2>1 DEF MayGoOn, Removing
  <2> QED BY <2>1, <2>2, GoesOnKeeps
<1>7. CASE CheckRemoved(c)
  <2>1. removal[c] = "check" /\ task = "gone" /\ task' = task /\ dockerFailed' = dockerFailed
    BY <1>1, <1>7 DEF CheckRemoved
  <2>2. Returns(c, TRUE)
    <3>1. (task = "gone") = TRUE
      BY <2>1
    <3>2. Returns(c, task = "gone")
      BY <1>7 DEF CheckRemoved
    <3> QED BY <3>1, <3>2, Zenon
  <2>3. MayReturn(c, TRUE)
    BY <1>1, <1>2, <2>1 DEF MayReturn, Removing
  <2> QED BY <2>2, <2>3, ReturnsKeeps
<1> QED BY <1>3, <1>4, <1>5, <1>6, <1>7 DEF Removes


-----------------------------------------------------------------------------
(* The theorems *)

LEMMA ControllerStep == ControllerInv /\ [Next]_vars => ControllerInv'
<1> SUFFICES ASSUME ControllerInv, [Next]_vars PROVE ControllerInv'
  OBVIOUS
<1>1. CASE NewRun
  BY <1>1, NewRunKeeps
<1>2. CASE RunEnds
  BY <1>2, RunEndsKeeps
<1>3. CASE Starts
  BY <1>3, StartsKeep
<1>4. CASE AClose \/ Closes
  BY <1>4, StagesKeep, RemoveUncertainTaskKeeps, DrainBrokerKeeps, RemoveSidecarKeeps DEF Closes, Stages
<1>5. CASE ExecCall \/ ExecEnter \/ ExecReturns
  BY <1>5, ExecKeeps
<1>6. ASSUME NEW r \in Requests, SidecarCalls(r) PROVE ControllerInv'
  BY <1>6, SidecarCallsKeeps
<1>7. ASSUME NEW r \in Requests, NEW outcome \in B!Outcomes, WorkerEnds(r, outcome) PROVE ControllerInv'
  BY <1>7, WorkerEndsKeeps
<1>8. CASE OnBrokerPoison
  BY <1>8, OnBrokerPoisonKeeps
<1>9. ASSUME NEW c \in Callers, Removes(c) PROVE ControllerInv'
  BY <1>9, RemovesKeeps
<1>10. CASE SidecarExits \/ SidecarCrashes
  BY <1>10, SidecarEndsKeeps
<1>11. CASE TaskDisturbed
  BY <1>11, TaskDisturbedKeeps
<1>12. CASE BrokerAlone
  BY <1>12, BrokerAloneKeeps
<1>13. CASE UNCHANGED vars
  <2>1. UNCHANGED broker /\ UNCHANGED own
    BY <1>13 DEF vars
  <2>2. SameBrokerSeen /\ BrokerKeeps
    BY <2>1, NothingSeen, KeepsNothing
  <2>3. UNCHANGED <<agentPoisoned, pc, reached, invalid, uncertain, removal, exec, task, sidecar, dockerFailed>>
    BY <2>1 DEF own, flags, containers
  <2> USE <2>2, <2>3, InvParts DEF SameBrokerSeen
  <2>4. OwnTypes' /\ InOrder' /\ RemovedInTurn' /\ MarkerTruthful'
    BY DEF OwnTypes, InOrder, started, RemovedInTurn, MarkerTruthful
  <2>5. ClosedInOrder'
    BY DEF ClosedInOrder, started, AfterDrain, AfterWait, ForksReturned, NoProcesses, Refused
  <2> QED BY <2>4, <2>5, InvPrime DEF BrokerKeeps
<1> QED
  BY <1>1, <1>2, <1>3, <1>4, <1>5, <1>6, <1>7, <1>8, <1>9, <1>10, <1>11, <1>12, <1>13 DEF Next

\* No fork is removed beneath a process: whatever Docker answers, whoever removes the
\* task, and wherever start, the run or aclose fails (sidecar_runtime.py:461-523).
THEOREM ControllerInvHolds == Spec => []ControllerInv
<1>1. Spec => Init /\ [][Next]_vars
  BY DEF Spec
<1> QED BY <1>1, InitController, ControllerStep, PTL

\* The sidecar is removed only when no process of the task can be using a fork
\* (sidecar_runtime.py:512-517).
THEOREM SidecarLast == Spec => []SidecarOutlivesProcesses
<1>1. ControllerInv => SidecarOutlivesProcesses
  BY DEF ControllerInv
<1> QED BY <1>1, ControllerInvHolds, PTL

\* task-terminated.json, which lets the sidecar delete the forks it retained, is never
\* there while the task is (sidecar_runtime.py:449-453).
THEOREM MarkerTruthfulHolds == Spec => []MarkerTruthful
<1>1. ControllerInv => MarkerTruthful
  BY DEF ControllerInv
<1> QED BY <1>1, ControllerInvHolds, PTL

\* A run that is reported valid left nothing behind and lost nothing
\* (sidecar_runtime.py:524).
THEOREM ValidMeansCleanHolds == Spec => []ValidMeansClean
<1>1. ControllerInv => ValidMeansClean
  <2> SUFFICES ASSUME ControllerInv, valid
               PROVE  /\ sidecar = "removed"
                      /\ stage = "clean" /\ ~poisoned
                      /\ \A r \in Requests : fork[r] \in {"none", "removed"}
                      /\ processes = {}
                      /\ ~terminated
    BY DEF ValidMeansClean
  <2> USE InvParts
  <2>1. pc \in {"closed", "idle"} /\ started /\ ~invalid /\ ~uncertain
    BY DEF valid, InOrder
  <2>2. sidecar = "removed"
    BY <2>1 DEF ClosedInOrder, InOrder
  <2>3. stage = "clean"
    BY <2>1 DEF ClosedInOrder, AfterDrain, started
  <2>4. alive = {} /\ ~poisoned /\ ~terminated
    BY <2>1, NoNews DEF AfterDrain
  <2>5. \A r \in Requests : fork[r] \in {"none", "removed"}
    BY <2>1 DEF ClosedInOrder, AfterWait, AfterDrain, ForksReturned
  <2> QED BY <2>2, <2>3, <2>4, <2>5 DEF processes
<1> QED BY <1>1, ControllerInvHolds, PTL

\* An aclose that Docker serves, of a task that is still the one it knows, leaves no
\* container and no process, however far start had come (sidecar_runtime.py:461-523).
THEOREM CleanupCompleteHolds == Spec => []CleanupComplete
<1>1. ControllerInv => CleanupComplete
  <2> SUFFICES ASSUME ControllerInv, pc = "closed", ~dockerFailed, task # "changed"
               PROVE  sidecar \in {"none", "removed"} /\ processes = {}
    BY DEF CleanupComplete
  <2> USE InvParts
  <2>1. sidecar \in {"none", "removed"}
    BY DEF ClosedInOrder, Refused
  <2>2. CASE sidecar = "removed"
    BY <2>1, <2>2 DEF ControllerInv, SidecarOutlivesProcesses
  <2>3. CASE sidecar = "none"
    <3>1. ~started
      BY <2>3 DEF InOrder
    <3>2. exec = "never"
      BY <3>1 DEF InOrder
    <3>3. ~poisoned /\ \A r \in Requests : fork[r] = "none"
      BY <3>2 DEF InOrder
    <3>4. alive = {}
      BY <3>3, SameBroker, BP!UnusedBroker
    <3> QED BY <2>1, <3>4 DEF processes
  <2> QED BY <2>1, <2>2, <2>3
<1> QED BY <1>1, ControllerInvHolds, PTL

\* The agent begins a next run only with nothing left of the last one
\* (sidecar_agent.py:116-119, 151).
THEOREM NextRunIsFresh == Spec => NextRunFresh
<1>1. ControllerInv /\ [Next]_vars =>
        [pc = "idle" /\ pc' # "idle" =>
           /\ processes = {} /\ B!inflight = {}
           /\ sidecar \in {"none", "removed"}
           /\ ~Locked /\ ~terminated
           /\ ~invalid]_vars
  <2> SUFFICES ASSUME ControllerInv, [Next]_vars, pc = "idle", pc' # "idle"
               PROVE  /\ processes = {} /\ B!inflight = {}
                      /\ sidecar \in {"none", "removed"}
                      /\ ~Locked /\ ~terminated
                      /\ ~invalid
    OBVIOUS
  <2> USE InvParts
  <2>1. NewRun
    <3> USE DEF Goto, Start, StartFails, Passed, Raised, Failed
    <3>1. ~UNCHANGED vars
      BY DEF vars, own
    <3>2. ~Starts /\ ~RunEnds /\ ~AClose
      BY DEF Starts, VerifyTask, StartBroker, CreateSidecar, OwnedSidecar, StartSidecar, AwaitReady, VerifyAgain,
             RunEnds, AClose
    <3>3. ~Closes
      BY DEF Closes, CloseControl, InspectSidecar, Quiesce, AwaitExit, RemoveUncertainTask, DrainBroker,
             BrokerDrained, InspectAgain, RemoveSidecar, VerifyRemoved, Report
    <3>4. ~(ExecCall \/ ExecEnter \/ ExecReturns)
      BY DEF ExecCall, ExecEnter, ExecReturns, execUnchanged
    <3>5. \A r \in Requests : ~SidecarCalls(r) /\ \A outcome \in B!Outcomes : ~WorkerEnds(r, outcome)
      BY DEF SidecarCalls, own, WorkerEnds
    <3>6. ~OnBrokerPoison /\ ~SidecarExits /\ ~SidecarCrashes /\ ~TaskDisturbed /\ ~BrokerAlone
      BY DEF OnBrokerPoison, SidecarExits, SidecarCrashes, TaskDisturbed, BrokerAlone, own
    <3>7. \A c \in Callers : ~Removes(c)
      <4>1. removal["close"] = "idle"
        BY DEF RemovedInTurn
      <4>2. ASSUME NEW c \in Callers, NEW step \in Removing, GoesOn(c, step) PROVE FALSE
        BY <4>2 DEF GoesOn
      <4>3. ASSUME NEW verified \in BOOLEAN, Returns("poison", verified) PROVE FALSE
        BY <4>3 DEF Returns
      <4>4. ~Removes("close")
        BY <4>1 DEF Removes, Acquire, RemovalFails, InspectTask, RemoveTask, CheckRemoved, Removing
      <4>5. ~Removes("poison")
        BY <4>2, <4>3 DEF Removes, Acquire, RemovalFails, InspectTask, RemoveTask, CheckRemoved, Removing, Callers
      <4> QED BY <4>4, <4>5 DEF Callers
    <3> QED BY <3>1, <3>2, <3>3, <3>4, <3>5, <3>6, <3>7 DEF Next
  <2>2. ~invalid
    BY <2>1 DEF NewRun, ClosedInOrder
  <2>3. ~uncertain
    BY <2>2 DEF InOrder
  <2>4. /\ B!inflight = {} /\ alive = {} /\ ~terminated
        /\ removal["poison"] = "idle"
    BY <2>3, NoNews DEF AfterDrain
  <2>5. removal["close"] = "idle"
    BY DEF RemovedInTurn
  <2>6. ~Locked
    BY <2>4, <2>5 DEF Locked, Callers, Removing
  <2>7. sidecar \in {"none", "removed"}
    BY <2>2 DEF ClosedInOrder
  <2> QED BY <2>2, <2>4, <2>6, <2>7 DEF processes
<1>2. Spec => [][Next]_vars
  BY DEF Spec
<1> QED BY <1>1, <1>2, ControllerInvHolds, PTL DEF NextRunFresh

=============================================================================
