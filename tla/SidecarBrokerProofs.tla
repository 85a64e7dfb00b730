------------------------ MODULE SidecarBrokerProofs ------------------------
(***************************************************************************)
(* SidecarBroker's safety properties, for every set of requests.           *)
(***************************************************************************)
EXTENDS SidecarBroker, TLAPS

\* The broker's invariant holds at the start.
LEMMA InitBroker == Init => BrokerInv /\ CleanMeansQuiet
BY DEF Init, BrokerInv, RequestOK, QuiescedStaysQuiet, TypeOK, InHandlers, ClosingStages, Undispatched, Answered,
       CleanMeansQuiet

\* Every step but those of the sidecar's threads, which change forks only.
LEMMA SidecarStep ==
  ASSUME BrokerInv,
         Exit \/ Crash \/ \E r \in Requests : Call(r) \/ Receive(r) \/ NoReply(r)
  PROVE  BrokerInv'
<1> USE DEF BrokerInv, RequestOK, QuiescedStaysQuiet, TypeOK, InHandlers, ClosingStages, Undispatched, Answered, brokerVars
<1>1. ASSUME NEW r \in Requests, Call(r) PROVE BrokerInv'
  BY <1>1 DEF Call, Move, closed
<1>2. ASSUME NEW r \in Requests, Receive(r) PROVE BrokerInv'
  BY <1>2 DEF Receive
<1>3. ASSUME NEW r \in Requests, NoReply(r) PROVE BrokerInv'
  BY <1>3 DEF NoReply
<1>4. CASE Exit
  BY <1>4 DEF Exit
<1>5. CASE Crash
  BY <1>5 DEF Crash
<1> QED BY <1>1, <1>2, <1>3, <1>4, <1>5

\* Deciding on an answer: with a result or a refusal of the worker's own, or with a
\* rejection by a broker that is poisoned now.
LEMMA AnswerStep ==
  ASSUME BrokerInv,
         NEW r \in Requests, handler[r] \in {"reading", "waiting"},
         NEW a \in {"ok", "declined", "rejected"}, Answer(r, a),
         poisoned' \in BOOLEAN, poisoned => poisoned',
         IF a = "rejected" THEN poisoned' ELSE worker[r] = a,
         UNCHANGED <<fork, worker, alive, expired, stage, awaited, exited, terminated>>
  PROVE  BrokerInv'
<1> USE DEF BrokerInv, RequestOK, QuiescedStaysQuiet, TypeOK, InHandlers, ClosingStages, Undispatched, Answered, Move
<1>1. CASE poisoned'
  <2>1. handler' \in [Requests -> InHandlers \cup {"none", "accepted", "gone"}]
    BY <1>1 DEF Answer
  <2>2. /\ handler'[r] \in {"declining", "rejecting"}
        /\ handler'[r] = "declining" => worker[r] = "declined"
        /\ \A q \in Requests \ {r} : handler'[q] = handler[q]
        /\ reply' = reply
        /\ termination' \in {"none", "running", "acknowledged", "refused"}
        /\ termination' = "acknowledged" => termination = "acknowledged"
    BY <1>1 DEF Answer, StartTermination
  <2> QED BY <1>1, <2>1, <2>2
<1>2. CASE ~poisoned'
  BY <1>2 DEF Answer
<1> QED BY <1>1, <1>2

\* A handler's step, whatever way it is resumed.
LEMMA HandlerStep ==
  ASSUME BrokerInv, NEW r \in Requests, Handle(r) \/ Cancelled(r)
  PROVE  BrokerInv'
<1> USE DEF BrokerInv, RequestOK, QuiescedStaysQuiet, TypeOK, InHandlers, ClosingStages, Undispatched, Answered, brokerVars,
            Move
<1>1. CASE StartHandler(r)
  BY <1>1 DEF StartHandler
<1>2. CASE Unreadable(r)
  BY <1>2, AnswerStep DEF Unreadable
<1>3. CASE Dispatch(r)
  <2>1. CASE closed \/ poisoned
    BY <1>3, <2>1, AnswerStep DEF Dispatch
  <2>2. CASE ~(closed \/ poisoned)
    BY <1>3, <2>2 DEF Dispatch
  <2> QED BY <2>1, <2>2
<1>4. CASE WorkerDone(r)
  <2>1. CASE worker[r] = "failed"
    BY <1>4, <2>1, AnswerStep DEF WorkerDone
  <2>2. CASE worker[r] \in {"ok", "declined"}
    BY <1>4, <2>2, AnswerStep DEF WorkerDone
  <2> QED BY <1>4, <2>1, <2>2 DEF WorkerDone
<1>5. CASE WorkerLate(r)
  BY <1>5, AnswerStep DEF WorkerLate
<1>6. CASE Write(r)
  <2>1. poisoned /\ poisoned' /\ fork[r] # "none" /\ ~Undispatched(r)
    BY <1>6 DEF Write
  <2>2. /\ reply' \in [Requests -> {"none", "ok", "declined", "rejected"}]
        /\ handler' \in [Requests -> InHandlers \cup {"none", "accepted", "gone"}]
        /\ \A q \in Requests \ {r} : reply'[q] = reply[q] /\ handler'[q] = handler[q]
        /\ handler'[r] = "draining"
        /\ reply[r] = "none"
    BY <1>6 DEF Write
  <2>3. \/ reply'[r] = "declined" /\ worker[r] = "declined"
        \/ reply'[r] = "rejected"
    BY <1>6 DEF Write
  <2> QED BY <1>6, <2>1, <2>2, <2>3 DEF Write
<1>7. CASE Drained(r)
  BY <1>7 DEF Drained
<1>8. CASE ReplyLost(r)
  BY <1>8 DEF ReplyLost, StartTermination
<1>9. CASE HandlerReturns(r)
  BY <1>9 DEF HandlerReturns, Quiesced
<1>10. CASE Cancelled(r)
  <2>1. /\ handler' = [handler EXCEPT ![r] = "gone"] /\ handler[r] \in InHandlers
        /\ poisoned' = (poisoned \/ handler[r] # "closing")
        /\ UNCHANGED <<unmoved, stage, termination, awaited>>
    BY <1>10 DEF Cancelled, handlers
  <2>2. poisoned' \in BOOLEAN /\ (poisoned => poisoned')
    BY <2>1
  <2>3. handler' \in [Requests -> InHandlers \cup {"none", "accepted", "gone"}]
    BY <2>1
  <2>4. /\ handler'[r] = "gone"
        /\ \A q \in Requests \ {r} : handler'[q] = handler[q]
    BY <2>1
  <2>5. TypeOK'
    BY <2>1, <2>2, <2>3 DEF unmoved
  <2>6. RequestOK(r)'
    BY <2>1, <2>2, <2>4 DEF unmoved
  <2>7. ASSUME NEW q \in Requests \ {r} PROVE RequestOK(q)'
    BY <2>1, <2>2, <2>4 DEF unmoved
  <2> HIDE DEF TypeOK, RequestOK
  <2> QED BY <2>1, <2>2, <2>5, <2>6, <2>7 DEF unmoved
<1> QED BY <1>1, <1>2, <1>3, <1>4, <1>5, <1>6, <1>7, <1>8, <1>9, <1>10 DEF Handle

\* A worker ends, or the controller terminates the task.
LEMMA WorkerStep ==
  ASSUME BrokerInv,
         \/ Terminated \/ TerminationLate \/ TaskRemoved
         \/ \E r \in Requests, outcome \in Outcomes : WorkerEnds(r, outcome)
  PROVE  BrokerInv'
<1> USE DEF BrokerInv, RequestOK, QuiescedStaysQuiet, TypeOK, InHandlers, ClosingStages, Undispatched, Answered, brokerVars, Outcomes
<1>1. ASSUME NEW r \in Requests, NEW outcome \in Outcomes, WorkerEnds(r, outcome)
      PROVE  BrokerInv'
  BY <1>1 DEF WorkerEnds
<1>2. CASE Terminated
  <2>1. CASE termination' = "acknowledged" /\ terminated' = TRUE /\ alive' = {}
    BY <1>2, <2>1 DEF Terminated
  <2>2. CASE termination' = "refused" /\ terminated' = terminated /\ alive' \subseteq alive
    BY <1>2, <2>2 DEF Terminated
  <2> HIDE DEF BrokerInv
  <2> QED BY <1>2, <2>1, <2>2 DEF Terminated
<1>3. CASE TerminationLate
  BY <1>3 DEF TerminationLate
<1>4. CASE TaskRemoved
  BY <1>4 DEF TaskRemoved
<1> QED BY <1>1, <1>2, <1>3, <1>4

\* aclose moves no handler.
LEMMA CloseStep ==
  ASSUME BrokerInv, Close
  PROVE  BrokerInv'
<1> USE DEF BrokerInv, RequestOK, QuiescedStaysQuiet, TypeOK, InHandlers, ClosingStages, Undispatched, Answered, unmoved, Stage
<1>1. CASE CloseBegin
  BY <1>1 DEF CloseBegin
<1>2. CASE WorkersDrained
  BY <1>2 DEF WorkersDrained, inflight, handlers
<1>3. CASE HandlersDone
  BY <1>3 DEF HandlersDone
<1>4. CASE HandlersLate
  BY <1>4 DEF HandlersLate, handlers
<1>5. CASE HandlersCancelled
  BY <1>5 DEF HandlersCancelled
<1>6. CASE ServerClosed
  BY <1>6 DEF ServerClosed, StartTermination
<1>7. CASE CloseRaises
  BY <1>7 DEF CloseRaises
<1>8. CASE CloseAborted
  BY <1>8 DEF CloseAborted
<1> QED BY <1>1, <1>2, <1>3, <1>4, <1>5, <1>6, <1>7, <1>8 DEF Close

\* The broker's invariant is inductive.
LEMMA BrokerStep == BrokerInv /\ [Next]_vars => BrokerInv'
<1> SUFFICES ASSUME BrokerInv, [Next]_vars PROVE BrokerInv'
  OBVIOUS
<1>1. CASE UNCHANGED vars
  BY <1>1 DEF vars, brokerVars, BrokerInv, RequestOK, QuiescedStaysQuiet, TypeOK, Undispatched, Answered
<1>2. CASE Next
  BY <1>2, SidecarStep, HandlerStep, WorkerStep, CloseStep DEF Next
<1> QED BY <1>1, <1>2

\* Without poison and without a handler left nothing runs, and a broker that closed
\* in this way accepts nothing.
LEMMA CleanStep ==
  ASSUME BrokerInv, CleanMeansQuiet, [Next]_vars
  PROVE  CleanMeansQuiet'
<1> USE DEF CleanMeansQuiet
<1>1. CASE UNCHANGED vars
  BY <1>1 DEF vars, brokerVars, inflight
<1>2. CASE stage = "clean"
  <2>1. \A r \in Requests : ~Handle(r) /\ ~Cancelled(r) /\ \A outcome \in Outcomes : ~WorkerEnds(r, outcome)
    BY <1>2 DEF Handle, StartHandler, Unreadable, Dispatch, WorkerDone, WorkerLate, Write, Drained,
                ReplyLost, HandlerReturns, Cancelled, BeingCancelled, WorkerEnds, inflight
  <2>2. ~Close /\ ~Terminated /\ ~TerminationLate
    BY <1>2 DEF Close, CloseBegin, WorkersDrained, HandlersDone, HandlersLate, HandlersCancelled,
                ServerClosed, CloseRaises, CloseAborted, Terminated, TerminationLate, ClosingStages,
                BrokerInv
  <2>3. UNCHANGED <<handler, worker, reply, poisoned, stage>> /\ alive' \in {alive, {}}
    BY <1>2, <2>1, <2>2, <1>1 DEF Next, Call, Receive, NoReply, Exit, Crash, TaskRemoved, closed,
                                 brokerVars, vars
  <2> QED BY <1>2, <2>3 DEF inflight
<1>3. CASE stage # "clean" /\ ServerClosed
  BY <1>3 DEF ServerClosed, Stage, unmoved, inflight, BrokerInv, RequestOK, TypeOK, Undispatched, Answered
<1>4. CASE stage # "clean" /\ Next /\ ~ServerClosed
  <2>1. stage' # "clean"
    BY <1>4 DEF Next, Call, Receive, NoReply, Exit, Crash, TaskRemoved, Handle, StartHandler, Unreadable, Dispatch,
                WorkerDone, WorkerLate, Write, Drained, ReplyLost, HandlerReturns, Cancelled, WorkerEnds,
                Terminated, TerminationLate, Close, CloseBegin, WorkersDrained, HandlersDone, HandlersLate,
                HandlersCancelled, CloseRaises, CloseAborted, Stage, brokerVars, unmoved
  <2> QED BY <2>1
<1> QED BY <1>1, <1>2, <1>3, <1>4

-----------------------------------------------------------------------------
(* What those who run the broker rely on *)

\* What the broker and the sidecar never take back.
Kept ==
  /\ exited => exited' /\ fork' = fork
  /\ stage = "clean" => stage' = "clean"
  /\ terminated => terminated'
  /\ poisoned => poisoned'

\* What stays as it is unless the task is removed or a request made.
Unasked ==
  /\ terminated' = terminated
  /\ termination = "running" => termination' = "running"
  /\ (\A r \in Requests : fork[r] = "none") /\ ~poisoned => fork' = fork /\ ~poisoned'

\* A request that was not made has no handler.
LEMMA UnusedBroker ==
  ASSUME BrokerInv, \A r \in Requests : fork[r] = "none"
  PROVE  /\ \A r \in Requests : handler[r] = "none" /\ worker[r] = "none" /\ reply[r] = "none"
         /\ inflight = {} /\ handlers = {} /\ alive = {}
<1>1. \A r \in Requests : handler[r] = "none" /\ worker[r] = "none" /\ reply[r] = "none" /\ r \notin alive
  BY DEF BrokerInv, RequestOK, Undispatched
<1>2. inflight = {} /\ handlers = {}
  BY <1>1 DEF inflight, handlers, InHandlers
<1>3. alive = {}
  BY <1>1 DEF BrokerInv, RequestOK, TypeOK
<1> QED BY <1>1, <1>2, <1>3

LEMMA ThreadKeeps ==
  ASSUME BrokerInv, NEW r \in Requests, Receive(r) \/ NoReply(r)
  PROVE  Kept /\ Unasked
BY UnusedBroker DEF Receive, NoReply, Kept, Unasked, brokerVars

LEMMA HandlerKeeps ==
  ASSUME BrokerInv, NEW r \in Requests, Handle(r) \/ Cancelled(r)
  PROVE  Kept /\ Unasked
<1> USE DEF Kept, Unasked, brokerVars
<1>1. (\A q \in Requests : fork[q] = "none") => handler[r] = "none"
  BY UnusedBroker
<1>2. CASE StartHandler(r) \/ Write(r) \/ Drained(r) \/ HandlerReturns(r)
  BY <1>1, <1>2 DEF StartHandler, Write, Drained, HandlerReturns
<1>3. CASE Unreadable(r) \/ Dispatch(r)
  BY <1>1, <1>3 DEF Unreadable, Dispatch, Answer, StartTermination
<1>4. CASE WorkerDone(r) \/ WorkerLate(r)
  <2>1. handler[r] = "waiting" /\ fork' = fork /\ UNCHANGED <<stage, exited, terminated>>
    BY <1>4 DEF WorkerDone, WorkerLate
  <2>2. poisoned => poisoned'
    BY <1>4, Zenon DEF WorkerDone, WorkerLate
  <2>3. termination = "running" => termination' = "running"
    BY <1>4 DEF WorkerDone, WorkerLate, Answer, StartTermination
  <2> QED BY <1>1, <2>1, <2>2, <2>3
<1>5. CASE ReplyLost(r)
  BY <1>1, <1>5 DEF ReplyLost, StartTermination
<1>6. CASE Cancelled(r)
  BY <1>1, <1>6 DEF Cancelled, unmoved, handlers, InHandlers
<1> QED BY <1>2, <1>3, <1>4, <1>5, <1>6 DEF Handle

LEMMA WorkerKeeps ==
  ASSUME BrokerInv, NEW r \in Requests, NEW outcome \in Outcomes, WorkerEnds(r, outcome)
  PROVE  Kept /\ Unasked
BY DEF WorkerEnds, Kept, Unasked, brokerVars

LEMMA CloseKeeps ==
  ASSUME BrokerInv, CleanMeansQuiet, Close
  PROVE  Kept /\ Unasked
<1> USE DEF Kept, Unasked, Stage, unmoved
<1>1. (\A q \in Requests : fork[q] = "none") => inflight = {}
  BY UnusedBroker
<1>2. CASE CloseBegin \/ HandlersDone \/ HandlersLate \/ HandlersCancelled \/ CloseRaises
  BY <1>2 DEF CloseBegin, HandlersDone, HandlersLate, HandlersCancelled, CloseRaises
<1>3. CASE WorkersDrained
  BY <1>1, <1>3 DEF WorkersDrained
<1>4. CASE ServerClosed
  BY <1>4 DEF ServerClosed, StartTermination
<1>5. CASE CloseAborted
  BY <1>5 DEF CloseAborted, ClosingStages
<1> QED BY <1>2, <1>3, <1>4, <1>5 DEF Close

LEMMA EndKeeps ==
  ASSUME BrokerInv, Exit \/ Crash \/ TerminationLate
  PROVE  Kept /\ Unasked
<1>1. CASE Exit
  <2>1. (\A r \in Requests : fork[r] = "none") => fork' = fork
    BY <1>1 DEF Exit, BrokerInv, RequestOK, TypeOK
  <2> QED BY <1>1, <2>1 DEF Exit, Kept, Unasked
<1>2. CASE Crash \/ TerminationLate
  BY <1>2 DEF Crash, TerminationLate, Kept, Unasked
<1> QED BY <1>1, <1>2

-----------------------------------------------------------------------------
(* Theorems *)

\* The invariant of the broker, its requests and their forks holds always.
THEOREM BrokerInvHolds == Spec => []BrokerInv
<1>1. Init => BrokerInv
  BY InitBroker
<1> QED BY <1>1, BrokerStep, PTL DEF Spec

\* Every variable has its type in every reachable state.
THEOREM BrokerTypeCorrect == Spec => []TypeOK
<1>1. BrokerInv => TypeOK
  BY DEF BrokerInv, RequestOK
<1> QED BY <1>1, BrokerInvHolds, PTL

\* Once the removal of the task was verified nothing runs in it again.
THEOREM QuiescedForGood == Spec => []QuiescedStaysQuiet
<1>1. BrokerInv => QuiescedStaysQuiet
  BY DEF BrokerInv, RequestOK
<1> QED BY <1>1, BrokerInvHolds, PTL

\* aclose returns without raising only when nothing is left and all was answered.
THEOREM CleanCloseIsQuiet == Spec => []CleanMeansQuiet
<1>1. Init => BrokerInv /\ CleanMeansQuiet
  BY InitBroker
<1>2. BrokerInv /\ CleanMeansQuiet /\ [Next]_vars => (BrokerInv /\ CleanMeansQuiet)'
  BY BrokerStep, CleanStep
<1> QED BY <1>1, <1>2, PTL DEF Spec

\* No fork is removed beneath a process that may still run in it.
THEOREM ForksOutliveProcesses == Spec => []ForkOutlivesProcess
<1>1. BrokerInv => ForkOutlivesProcess
  BY DEF BrokerInv, RequestOK, QuiescedStaysQuiet, ForkOutlivesProcess
<1> QED BY <1>1, BrokerInvHolds, PTL

\* A result is written only while nothing is in doubt.
THEOREM ResultsAreCertain == Spec => NoResultInDoubt
<1> DEFINE Certain(r) == reply[r] = "none" /\ reply'[r] = "ok"
                           => worker[r] = "ok" /\ ~poisoned /\ ~poisoned'
<1>1. ASSUME BrokerInv, NEW q \in Requests, Handle(q), NEW r \in Requests
      PROVE  Certain(r)
  <2>1. CASE Write(q)
    BY <1>1, <2>1 DEF Write, BrokerInv, RequestOK, TypeOK
  <2>2. CASE Dispatch(q) \/ Unreadable(q) \/ WorkerLate(q)
    BY <1>1, <2>2 DEF Dispatch, Unreadable, WorkerLate, Answer, Move, BrokerInv, RequestOK, TypeOK
  <2>3. CASE WorkerDone(q)
    BY <1>1, <2>3 DEF WorkerDone, Answer, BrokerInv, RequestOK, TypeOK
  <2> QED BY <1>1, <2>1, <2>2, <2>3
          DEF Handle, StartHandler, Drained, ReplyLost, HandlerReturns, brokerVars
<1>2. ASSUME BrokerInv, [Next]_vars, NEW r \in Requests
      PROVE  Certain(r)
  <2>1. CASE \E q \in Requests : Handle(q)
    BY <1>1, <1>2, <2>1
  <2>2. CASE ~ \E q \in Requests : Handle(q)
    <3>1. reply' = reply
      BY <1>2, <2>2
      DEF Next, Call, Receive, NoReply, Cancelled, Exit, Crash, WorkerEnds, Terminated,
          TerminationLate, TaskRemoved,
          Close, CloseBegin, WorkersDrained, HandlersDone, HandlersLate, HandlersCancelled,
          ServerClosed, CloseRaises, CloseAborted, unmoved, vars, brokerVars
    <3> QED BY <3>1
  <2> QED BY <2>1, <2>2
<1>3. BrokerInv /\ [Next]_vars => [\A r \in Requests : Certain(r)]_vars
  BY <1>2
<1> QED BY <1>3, BrokerInvHolds, PTL DEF Spec, NoResultInDoubt

=============================================================================
