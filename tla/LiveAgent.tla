----------------------------- MODULE LiveAgent -----------------------------
(***************************************************************************)
(* The live agent (src/eval/sfx_live_agent.py) over the in-sandbox control *)
(* transport (src/eval/control_transport.py): consecutive checkpoint runs  *)
(* of one agent on one daemon, each with a model thread                    *)
(* (live_ab.run_agent) that streams events and runs commands.              *)
(*                                                                         *)
(* The agent is an asyncio program; one action is the stretch of a         *)
(* coroutine from one await to the next.  The model thread blocks on its   *)
(* call, so each run has at most one, but a call is a task of its own: it  *)
(* outlives the run that made it when that run is interrupted.  `call[k].at` *)
(* names the await the call of run k is at.  Cancellation is delivered by  *)
(* call_soon_threadsafe, after the interrupted run has already begun its   *)
(* cleanup.                                                                *)
(*                                                                         *)
(* Requests to the daemon go through one queue, the transport's FIFO lock: *)
(* the head is in flight.  Being handled and answered is one step, since   *)
(* nothing but a late request reaches the daemon in between.  A request    *)
(* whose client timed out is handled later, or never.                      *)
(*                                                                         *)
(* Left out: snapshots (they read files, not the daemon), the counters,    *)
(* receipts and diagnostics, events of the stream that _stream_event       *)
(* ignores.  arm = "ON", speculate_writes, and every command has the       *)
(* eligible context.                                                       *)
(***************************************************************************)
EXTENDS Fences, Sequences, SequencesExt

CONSTANTS
  Runs,        \* number of runs; run k has session id k
  Read, Other, \* a command that may be resolved; one that never is
  NoCommand,   \* the model's text has no command: it is done
  MaxSteps,    \* bound: model steps of a run (max_steps)
  MaxLost      \* bound: requests whose client times out

Commands == Writes \cup {Read, Other}

ASSUME LiveAgentAssumption ==
  /\ Runs \in Nat /\ Sids = 1..Runs
  /\ {MaxSteps, MaxLost} \subseteq Nat
  /\ NoWrite \notin Writes /\ NoCommand \notin Commands

VARIABLES
  run,      \* SFXLiveAgent.run: the current run and its phase
  thread,   \* the model thread of each run
  call,     \* the coroutine the model thread of each run waits for
  route,    \* _route_lock: holder and waiters
  pending,  \* _pending_edit
  stopped,  \* calls whose cancellation is scheduled
  queue,    \* the transport's lock: the request in flight and the waiting ones
  late,     \* requests given up by their client and not yet handled
  lost,     \* how many were given up
  daemon,   \* the daemon, as in Fences
  ran       \* history: mutations whose command ran successfully

vars == <<run, thread, call, route, pending, stopped, queue, late, lost, daemon, ran>>

NoEdit == [token |-> 0, write |-> NoWrite, confirmed |-> FALSE]
NoCall == [at |-> "none", kind |-> "none", cmd |-> NoCommand, token |-> 0,
           failed |-> FALSE, cancelled |-> FALSE]

Init ==
  /\ run = [sid |-> 0, at |-> "done", completed |-> FALSE]
  /\ thread = [k \in Sids |-> [at |-> "start", step |-> 0, cmd |-> NoCommand]]
  /\ call = [k \in Sids |-> NoCall]
  /\ route = << >>
  /\ pending = NoEdit
  /\ stopped = {}
  /\ queue = << >>
  /\ late = {}
  /\ lost = 0
  /\ daemon = NoSessions
  /\ ran = {}

-----------------------------------------------------------------------------
(* Control requests *)

\* A request by the run itself (0) or by the call of run `by`.
Request(by, op, s, token, write, success) ==
  [by |-> by, op |-> op, sid |-> s, token |-> token, write |-> write, success |-> success]

Plain(by, op, s) == Request(by, op, s, 0, NoWrite, FALSE)

\* What the daemon may do with request r and answer: `val` is the id of a
\* begun mutation, or whether a result was served or a chain kept.  dispatch
\* turns a handler's exception into an error, which _checked raises.
Replies(r) ==
  LET Reply(d, ok, val) == [daemon |-> d, ok |-> ok, val |-> val]
      error == Reply(daemon, FALSE, 0)
      s     == r.sid
  IN  CASE r.op = "refused" -> {error}
        [] r.op = "begin" -> {Reply(TurnBegin(daemon, s), TRUE, 0)}
        [] r.op \notin {"refused", "begin"} /\ s \notin daemon.sessions -> {error}
        [] r.op = "mutation_begin" /\ s \in daemon.sessions ->
             {Reply(MutationBegin(daemon, s, r.write), TRUE, daemon.begun + 1)}
        [] r.op = "mutation_end" /\ s \in daemon.sessions ->
             IF Own(daemon, s, r.token) = {} THEN {error}
             ELSE {Reply(MutationEnd(daemon, f, keep), TRUE, IF keep THEN 1 ELSE 0) :
                     f \in Own(daemon, s, r.token),
                     keep \in {x \in BOOLEAN : x => \A g \in Own(daemon, s, r.token) :
                                                      MayKeep(daemon, g, r.success)}}
        [] r.op = "feed" /\ s \in daemon.sessions ->
             {Reply(FeedWrite(daemon, s, r.token, r.write), TRUE, 0)}
        [] r.op = "resolve" /\ s \in daemon.sessions ->
             {Reply(daemon, TRUE, v) : v \in IF daemon.fences = {} THEN 0..1 ELSE {0}}
        [] r.op = "report" /\ s \in daemon.sessions -> {Reply(daemon, TRUE, 0)}
        [] r.op = "end" /\ s \in daemon.sessions ->
             IF \E f \in daemon.fences : f.sid = s THEN {error}
             ELSE {Reply(SessionEnd(daemon, s), TRUE, 0)}

-----------------------------------------------------------------------------
(* Parts of coroutines.  q is the queue once the step's own entry is gone. *)

\* A place in a queue is given up: the one in `places`, if there is one.
Without(q, places) == IF places = {} THEN q ELSE RemoveAt(q, CHOOSE i \in places : TRUE)

Unlocked(k) == Without(route, {i \in DOMAIN route : route[i] = k})
Unqueued(k) == Without(queue, {i \in DOMAIN queue : queue[i].by = k})

\* The call of run k goes to an await on a request; the session id is the one
\* the agent has now.
Await(k, c, q, op, token, write, success) ==
  /\ call' = [call EXCEPT ![k] = [c EXCEPT !.cancelled = FALSE]]
  /\ queue' = Append(q, Request(k, op, run.sid, token, write, success))
  /\ UNCHANGED <<thread, route>>

\* What the model thread does after its call (run_agent).
After(th, kind, ok) ==
  LET next == CASE ~ok /\ kind \notin {"exec", "abort"} -> "aborting"
                [] kind = "abort" \/ (~ok /\ kind = "exec") -> "failed"
                [] ok /\ kind = "start" -> "stream"
                [] ok /\ kind = "delta" -> "streamed"
                [] ok /\ kind = "end" -> IF th.cmd = NoCommand THEN "over" ELSE "exec"
                [] ok /\ kind = "exec" -> "start"
  IN  [th EXCEPT !.at = next, !.step = IF next = "start" THEN @ + 1 ELSE @]

\* An exception gets past the route lock.
Leave_HoldLock(k, ok, q) ==
  /\ call' = [call EXCEPT ![k] = NoCall]
  /\ queue' = q
  /\ route' = IF ok THEN Unlocked(k) ELSE route
  /\ thread' = [thread EXCEPT ![k] = After(@, call[k].kind, ok)]

\* The call ends, by return or exception, and gives the route lock back.
Leave(k, ok, q) ==
  /\ call' = [call EXCEPT ![k] = NoCall]
  /\ queue' = q
  /\ route' = Unlocked(k)
  /\ thread' = [thread EXCEPT ![k] = After(@, call[k].kind, ok)]

\* _cancel_pending_edit inside a call.
CancelPending(k, at, q) ==
  /\ pending' = NoEdit
  /\ Await(k, [call[k] EXCEPT !.at = at], q, "mutation_end", pending.token, NoWrite, FALSE)

\* _authoritative from its mutation_begin on.
BeginMutation(k, q) ==
  LET w == IF call[k].cmd \in Writes THEN call[k].cmd ELSE NoWrite
  IN  /\ Await(k, [call[k] EXCEPT !.at = "begin"], q, "mutation_begin", 0, w, FALSE)
      /\ UNCHANGED pending

\* _authoritative at original_exec, behind fence `token`.
Execute(k, token, q) ==
  /\ call' = [call EXCEPT ![k].at = "exec", ![k].token = token]
  /\ queue' = q
  /\ UNCHANGED <<thread, route>>

\* The fence of a prepared edit is used, and still pending.
RouteOne_KeepPending(k, q) ==
  LET c == call[k].cmd
  IN  \/ c \in Writes /\ pending # NoEdit /\ Execute(k, pending.token, q) /\ UNCHANGED pending
      \/ (c = Other \/ (c \in Writes /\ pending = NoEdit)) /\ BeginMutation(k, q)
      \/ /\ c = Read
         /\ Await(k, [call[k] EXCEPT !.at = "resolve"], q, "resolve", 0, NoWrite, FALSE)
         /\ UNCHANGED pending

\* _route_one and _write_and_chain; an edit still pending is the command's.
RouteOne(k, q) ==
  LET c == call[k].cmd
  IN  \/ c \in Writes /\ pending # NoEdit /\ Execute(k, pending.token, q) /\ pending' = NoEdit
      \/ (c = Other \/ (c \in Writes /\ pending = NoEdit)) /\ BeginMutation(k, q)
      \/ /\ c = Read
         /\ Await(k, [call[k] EXCEPT !.at = "resolve"], q, "resolve", 0, NoWrite, FALSE)
         /\ UNCHANGED pending

\* An exception, or the cancellation, reaches the call at its await.
Throw(k, q) ==
  LET c == call[k]
  IN  \/ /\ c.kind = "delta" /\ c.at = "feed" /\ pending # NoEdit
         /\ CancelPending(k, "unfeed", q)
      \/ /\ c.kind = "exec" /\ c.at \in {"feed", "exec"}
         /\ Await(k, [c EXCEPT !.at = "finish", !.failed = TRUE], q,
                  "mutation_end", c.token, NoWrite, FALSE)
         /\ UNCHANGED pending
      \/ /\ ~(c.kind = "delta" /\ c.at = "feed" /\ pending # NoEdit)
         /\ ~(c.kind = "exec" /\ c.at \in {"feed", "exec"})
         /\ Leave(k, FALSE, q)
         /\ UNCHANGED pending

-----------------------------------------------------------------------------
(* The model thread: run_agent and from_model_thread *)

Issue(k, kind, cmd) ==
  /\ run.at = "agent" /\ run.sid = k /\ call[k].at = "none"
  /\ call' = [call EXCEPT ![k] = [NoCall EXCEPT !.at = "lock", !.kind = kind, !.cmd = cmd]]
  /\ thread' = [thread EXCEPT ![k].cmd = cmd]
  /\ route' = Append(route, k)
  /\ UNCHANGED <<run, pending, stopped, queue, late, lost, daemon, ran>>

\* One model step: model_start, perhaps a complete edit in the stream (only the
\* first of a step counts), model_end with the command or none, then the command.
ModelStep(k) ==
  LET th == thread[k]
  IN  \/ th.at = "start" /\ th.step < MaxSteps /\ Issue(k, "start", NoCommand)
      \/ th.at = "stream" /\ \E w \in Writes : Issue(k, "delta", w)
      \/ th.at \in {"stream", "streamed"} /\
           \E c \in Commands \cup {NoCommand} : Issue(k, "end", c)
      \/ th.at \in {"stream", "streamed", "aborting"} /\ Issue(k, "abort", NoCommand)
      \/ th.at = "exec" /\ Issue(k, "exec", th.cmd)

-----------------------------------------------------------------------------
(* The calls: _stream_event and _route *)

Holds(k) == call[k].at = "lock" /\ Head(route) = k

\* _stream_event up to its first await.
StreamEvent(k) ==
  LET kind == call[k].kind
      w    == call[k].cmd
  IN  /\ Holds(k) /\ kind # "exec"
      /\ \/ /\ pending # NoEdit
            /\ kind \in {"start", "abort"} \/ (kind = "end" /\ pending.write # w)
            /\ CancelPending(k, "cancel", queue)
         \/ /\ kind = "end" /\ pending # NoEdit /\ pending.write = w
            /\ pending' = [pending EXCEPT !.confirmed = TRUE]
            /\ Leave(k, TRUE, queue)
         \/ /\ kind = "delta" /\ pending = NoEdit
            /\ Await(k, [call[k] EXCEPT !.at = "begin"], queue, "mutation_begin", 0, w, FALSE)
            /\ UNCHANGED pending
         \/ /\ (kind = "delta") = (pending # NoEdit)    \* nothing to do
            /\ Leave(k, TRUE, queue)
            /\ UNCHANGED pending
      /\ UNCHANGED <<run, stopped, late, lost, daemon, ran>>

\* _route up to its first await: a pending edit that is not confirmed or not
\* this command is cancelled first.
Route(k) ==
  /\ Holds(k) /\ call[k].kind = "exec"
  /\ LET mismatch == pending # NoEdit /\ ~(pending.confirmed /\ pending.write = call[k].cmd)
     IN  \/ mismatch /\ CancelPending(k, "cancel", queue)
         \/ ~mismatch /\ RouteOne(k, queue)
  /\ UNCHANGED <<run, stopped, late, lost, daemon, ran>>

\* The call resumes with the answer to its request.
Resume(k, val, q) ==
  LET c == call[k]
  IN  \/ /\ c.kind = "delta" /\ c.at = "begin"
         /\ pending' = [token |-> val, write |-> c.cmd, confirmed |-> FALSE]
         /\ Await(k, [c EXCEPT !.at = "feed"], q, "feed", val, c.cmd, FALSE)
      \/ /\ c.kind = "delta" /\ c.at \in {"feed", "unfeed"}
         /\ Leave(k, c.at = "feed", q) /\ UNCHANGED pending
      \/ /\ c.kind \in {"start", "end", "abort"} /\ c.at = "cancel"
         /\ Leave(k, TRUE, q) /\ UNCHANGED pending
      \/ c.kind = "exec" /\ c.at = "cancel" /\ RouteOne(k, q)
      \/ c.at = "resolve" /\ val = 0 /\ BeginMutation(k, q)
      \/ /\ c.kind = "exec" /\ c.at = "begin" /\ c.cmd \in Writes
         /\ Await(k, [c EXCEPT !.at = "feed", !.token = val], q, "feed", val, c.cmd, FALSE)
         /\ UNCHANGED pending
      \/ /\ c.kind = "exec" /\ c.at = "begin" /\ c.cmd \notin Writes
         /\ Execute(k, val, q) /\ UNCHANGED pending
      \/ /\ c.kind = "exec" /\ c.at = "feed"
         /\ Execute(k, c.token, q) /\ UNCHANGED pending
      \/ /\ c.at = "finish" /\ ~c.failed /\ val = 1     \* chain_preserved
         /\ Await(k, [c EXCEPT !.at = "chain"], q, "resolve", 0, NoWrite, FALSE)
         /\ UNCHANGED pending
      \/ /\ c.at = "chain" \/ (c.at = "finish" /\ ~c.failed /\ val = 0)
         /\ Await(k, [c EXCEPT !.at = "report"], q, "report", c.token, NoWrite, FALSE)
         /\ UNCHANGED pending
      \/ /\ c.at = "finish" /\ c.failed                 \* the command's exception
         /\ Leave(k, FALSE, q) /\ UNCHANGED pending
      \/ /\ c.at = "report" \/ (c.at = "resolve" /\ val = 1)
         /\ Leave(k, TRUE, q) /\ UNCHANGED pending

\* original_exec returns with code 0 or another, or raises.  Once cancelled it
\* raises, as soon as the environment gives the command up.
ExecEnds(k) ==
  /\ call[k].at = "exec"
  /\ \/ \E success \in BOOLEAN :
          /\ ~call[k].cancelled
          /\ ran' = IF success THEN ran \cup {call[k].token} ELSE ran
          /\ Await(k, [call[k] EXCEPT !.at = "finish"], queue,
                   "mutation_end", call[k].token, NoWrite, success)
          /\ UNCHANGED pending
     \/ Throw(k, queue) /\ UNCHANGED ran
  /\ UNCHANGED <<run, stopped, late, lost, daemon>>

\* The request of a call is answered; a cancelled call drops the answer.
CallReplied(k) ==
  /\ queue # << >> /\ Head(queue).by = k
  /\ \E rep \in Replies(Head(queue)) :
       /\ daemon' = rep.daemon
       /\ IF rep.ok /\ ~call[k].cancelled
          THEN Resume(k, rep.val, Tail(queue)) ELSE Throw(k, Tail(queue))
  /\ UNCHANGED <<run, stopped, late, lost, ran>>

Timeout == lost < MaxLost /\ queue # << >> /\ Head(queue).op \notin {"close", "refused"}

\* The client of a call's request times out; the request is still on its way.
CallTimedOut(k) ==
  /\ Timeout /\ Head(queue).by = k
  /\ late' = late \cup {Head(queue)}
  /\ lost' = lost + 1
  /\ Throw(k, Tail(queue))
  /\ UNCHANGED <<run, stopped, daemon, ran>>

LateHandled(r) ==
  /\ late' = late \ {r}
  /\ \E rep \in Replies(r) : daemon' = rep.daemon
  /\ UNCHANGED <<run, thread, call, route, pending, stopped, queue, lost, ran>>

-----------------------------------------------------------------------------
(* SFXLiveAgent.run *)

StartRun ==
  /\ run.at = "done" /\ run.sid < Runs
  /\ run' = [sid |-> run.sid + 1, at |-> "begin", completed |-> FALSE]
  /\ pending' = NoEdit
  /\ queue' = Append(queue, Plain(0, "begin", run.sid + 1))
  /\ UNCHANGED <<thread, call, route, stopped, late, lost, daemon, ran>>

\* The finally clause: the pending edit is cancelled, without the route lock,
\* then the session is ended.
Cleanup(q, completed) ==
  \/ /\ pending # NoEdit
     /\ pending' = NoEdit
     /\ run' = [run EXCEPT !.at = "cancel", !.completed = completed]
     /\ queue' = Append(q, Request(0, "mutation_end", run.sid, pending.token, NoWrite, FALSE))
  \/ /\ pending = NoEdit
     /\ run' = [run EXCEPT !.at = "end", !.completed = completed]
     /\ queue' = Append(q, Plain(0, "end", run.sid))
     /\ UNCHANGED pending

\* The wrapped agent returns, or raises what its model thread raised.
AgentReturns ==
  /\ run.at = "agent"
  /\ LET th == thread[run.sid]
     IN  /\ call[run.sid].at = "none"
         /\ th.at \in {"over", "failed"} \/ (th.at = "start" /\ th.step = MaxSteps)
         /\ Cleanup(queue, th.at # "failed")
  /\ UNCHANGED <<thread, call, route, stopped, late, lost, daemon, ran>>

\* The run is cancelled and leaves the model thread's call running.
Interrupt_Forget ==
  /\ run.at = "agent"
  /\ Cleanup(queue, FALSE)
  /\ UNCHANGED <<thread, call, route, stopped, late, lost, daemon, ran>>

\* The run is cancelled (a checkpoint's timeout): no call is issued any more
\* and the one in progress is to be cancelled.
Interrupt ==
  /\ run.at = "agent"
  /\ stopped' = IF call[run.sid].at = "none" THEN stopped ELSE stopped \cup {run.sid}
  /\ Cleanup(queue, FALSE)
  /\ UNCHANGED <<thread, call, route, late, lost, daemon, ran>>

\* The cancellation reaches the call: at once where it waits for a lock, when
\* the request in flight is answered or the command given up otherwise.
CancelDelivered(k) ==
  LET waiting == \E i \in 2..Len(queue) : queue[i].by = k
      inwait  == waiting \/ call[k].at = "lock"
  IN  /\ k \in stopped
      /\ stopped' = stopped \ {k}
      /\ \/ inwait /\ Throw(k, Unqueued(k))
         \/ /\ ~inwait
            /\ call' = IF call[k].at = "none" THEN call ELSE [call EXCEPT ![k].cancelled = TRUE]
            /\ UNCHANGED <<thread, route, pending, queue>>
      /\ UNCHANGED <<run, late, lost, daemon, ran>>

\* The cleanup goes on although the session could not be ended.
RunAfter_IgnoreEnd(ok, q) ==
  \/ run.at = "begin" /\ ok /\ run' = [run EXCEPT !.at = "agent"] /\ queue' = q /\ UNCHANGED pending
  \/ run.at = "begin" /\ ~ok /\ Cleanup(q, FALSE)
  \/ /\ run.at = "cancel"
     /\ run' = [run EXCEPT !.at = "end", !.completed = @ /\ ok]
     /\ queue' = Append(q, Plain(0, "end", run.sid)) /\ UNCHANGED pending
  \/ /\ run.at = "end"
     /\ run' = [run EXCEPT !.at = "close"]
     /\ queue' = Append(q, Plain(0, "close", run.sid)) /\ UNCHANGED pending

\* run goes on after its request; an error in the cleanup is recorded, and the
\* next operation done all the same.
RunAfter(ok, q) ==
  \/ run.at = "begin" /\ ok /\ run' = [run EXCEPT !.at = "agent"] /\ queue' = q /\ UNCHANGED pending
  \/ run.at = "begin" /\ ~ok /\ Cleanup(q, FALSE)
  \/ /\ run.at = "cancel"
     /\ run' = [run EXCEPT !.at = "end", !.completed = @ /\ ok]
     /\ queue' = Append(q, Plain(0, "end", run.sid)) /\ UNCHANGED pending
  \/ /\ run.at = "end"
     /\ run' = [run EXCEPT !.at = "close", !.completed = @ /\ ok]
     /\ queue' = Append(q, Plain(0, "close", run.sid)) /\ UNCHANGED pending

\* A scheduled cancellation is delivered before the loop sees another answer.
RunReplied ==
  /\ queue # << >> /\ Head(queue).by = 0 /\ Head(queue).op # "close" /\ stopped = {}
  /\ \E rep \in Replies(Head(queue)) : daemon' = rep.daemon /\ RunAfter(rep.ok, Tail(queue))
  /\ UNCHANGED <<thread, call, route, stopped, late, lost, ran>>

RunTimedOut ==
  /\ Timeout /\ Head(queue).by = 0 /\ stopped = {}
  /\ late' = late \cup {Head(queue)}
  /\ lost' = lost + 1
  /\ RunAfter(FALSE, Tail(queue))
  /\ UNCHANGED <<thread, call, route, stopped, daemon, ran>>

\* aclose has the transport's lock: whoever waits behind it is refused, and a
\* later request opens a new transport.
Closed ==
  /\ queue # << >> /\ Head(queue).op = "close"
  /\ queue' = [i \in 1..(Len(queue) - 1) |-> [queue[i + 1] EXCEPT !.op = "refused"]]
  /\ run' = [run EXCEPT !.at = "done"]
  /\ UNCHANGED <<thread, call, route, pending, stopped, late, lost, daemon, ran>>

Step(k) ==
  \/ StreamEvent(k) \/ Route(k) \/ ExecEnds(k)
  \/ CallReplied(k) \/ CallTimedOut(k) \/ CancelDelivered(k)

RunStep == RunReplied \/ RunTimedOut \/ Closed

Next ==
  \/ StartRun \/ AgentReturns \/ Interrupt \/ RunStep
  \/ \E k \in Sids : ModelStep(k) \/ Step(k)
  \/ \E r \in late : LateHandled(r)

Spec == Init /\ [][Next]_vars

\* The event loop runs what is ready, a request is answered or times out, and a
\* command ends.
FairSpec == Spec /\ WF_vars(RunStep) /\ \A k \in Sids : WF_vars(Step(k))

-----------------------------------------------------------------------------
(* Properties *)

Ops == {"begin", "mutation_begin", "mutation_end", "feed", "resolve", "report",
        "end", "close", "refused"}
Requests ==
  [by : {0} \cup Sids, op : Ops, sid : Sids, token : 0..daemon.begun,
   write : Writes \cup {NoWrite}, success : BOOLEAN]

\* The types; the ids of active mutations are ids the daemon gave out, and no
\* coroutine waits for two requests or twice for the route lock.
TypeOK ==
  /\ run \in [sid : {0} \cup Sids,
              at : {"begin", "agent", "cancel", "end", "close", "done"}, completed : BOOLEAN]
  /\ thread \in [Sids -> [at : {"start", "stream", "streamed", "exec", "aborting", "failed", "over"},
                          step : 0..MaxSteps, cmd : Commands \cup {NoCommand}]]
  /\ call \in [Sids -> [at : {"none", "lock", "begin", "feed", "unfeed", "cancel", "resolve",
                              "exec", "finish", "chain", "report"},
                        kind : {"none", "start", "delta", "end", "abort", "exec"},
                        cmd : Commands \cup {NoCommand}, token : 0..daemon.begun,
                        failed : BOOLEAN, cancelled : BOOLEAN]]
  /\ pending \in [token : 0..daemon.begun, write : Writes \cup {NoWrite}, confirmed : BOOLEAN]
  /\ route \in Seq(Sids) /\ IsInjective(route)
  /\ queue \in Seq(Requests) /\ \A i, j \in 1..Len(queue) : queue[i].by = queue[j].by => i = j
  /\ late \subseteq {r \in Requests : r.op \notin {"close", "refused"}}
  /\ lost \in 0..MaxLost /\ stopped \subseteq Sids
  /\ daemon.begun \in Nat
  /\ daemon \in [sessions : SUBSET Sids,
                 fences : SUBSET [id : 1..daemon.begun, sid : Sids,
                                  write : Writes \cup {NoWrite}, conflicted : BOOLEAN],
                 begun : {daemon.begun}, chain : [Sids -> 0..daemon.begun]]
  /\ ran \subseteq 1..daemon.begun

\* A command runs only while the daemon holds the fence it was given for it:
\* neither the cleanup of its run, which takes no lock, nor a later run, nor a
\* late request ends the fence beneath it.
FencedExecution ==
  \A k \in Sids : call[k].at = "exec" => \E f \in daemon.fences : f.id = call[k].token

\* The daemon holds a chain only for a write whose fence is still active or
\* whose command really ran: a streamed edit that was cancelled leaves none,
\* even if its feed arrives after its end.
ChainFenced ==
  \A s \in Sids :
    daemon.chain[s] # 0 =>
      daemon.chain[s] \in ran \/ \E f \in daemon.fences : f.id = daemon.chain[s]

\* A run recorded as completed left neither its session nor a fence behind.
CompletedMeansClean ==
  run.at = "done" /\ run.completed =>
    run.sid \notin daemon.sessions /\ \A f \in daemon.fences : f.sid # run.sid

\* "A model response arriving after a Harbor checkpoint timeout must never
\* execute a command ... in a later checkpoint": no command starts once its run
\* has returned.
NoLateCommand ==
  [][\A k \in Sids : call[k].at # "exec" /\ call'[k].at = "exec" =>
                       k = run.sid /\ run.at # "done"]_vars

\* The invariants above rest on these.  A token has one owner: the pending edit, the call
\* that is to run a command behind the fence, or the request that ends it.
Outstanding == ToSet(queue) \cup late
Ending(t) == \E r \in Outstanding : r.op = "mutation_end" /\ r.token = t
HoldsFence(k) == call[k].kind = "exec" /\ call[k].at \in {"feed", "exec"}
HasFence(t) == (\E f \in daemon.fences : f.id = t) /\ ~Ending(t)

OneOwner ==
  /\ pending # NoEdit => HasFence(pending.token)
  /\ \A k \in Sids :
       HoldsFence(k) =>
         /\ HasFence(call[k].token)
         /\ call[k].token # pending.token
         /\ \A j \in Sids \ {k} : HoldsFence(j) => call[j].token # call[k].token

\* The daemon gave each fence an id of its own, and a request that a command ran well is
\* sent after it did.
FencesTold ==
  /\ \A f, g \in daemon.fences : f.id = g.id => f = g
  /\ \A r \in Outstanding : r.op = "mutation_end" /\ r.success => r.token \in ran

\* Who waits in the transport's queue waits for the request it has there.
Awaits ==
  {<<"begin", "mutation_begin">>, <<"feed", "feed">>, <<"unfeed", "mutation_end">>,
   <<"cancel", "mutation_end">>, <<"resolve", "resolve">>, <<"finish", "mutation_end">>,
   <<"chain", "resolve">>, <<"report", "report">>}
RunAwaits ==
  {<<"begin", "begin">>, <<"cancel", "mutation_end">>, <<"end", "end">>, <<"close", "close">>}

RequestsMatch ==
  \A r \in ToSet(queue) :
    /\ r.by = 0 => r.sid = run.sid /\ <<run.at, r.op>> \in RunAwaits
    /\ r.by # 0 => \E at \in {a[1] : a \in Awaits} :
                     /\ call[r.by].at = at
                     /\ r.op = "refused" \/ <<at, r.op>> \in Awaits

\* A thread waits for its call within its step, and only calls that wait or run have the
\* route lock or wait for it.
ThreadsInStep ==
  \A k \in Sids :
    /\ thread[k].at \in {"stream", "streamed", "exec", "aborting"} \/ call[k].at # "none" =>
         thread[k].step < MaxSteps
    /\ call[k].at # "none" => call[k].kind # "none"
    /\ call[k].at = "exec" => call[k].kind = "exec"
    /\ call[k].kind = "delta" => call[k].cmd \in Writes
    /\ call[k].at = "none" => k \notin ToSet(route)

\* Runs come one after the other; what is late of an earlier one is not of this one, and the
\* session of a run that is counted as completed is not begun again.
RunsInOrder ==
  /\ run.at # "done" => run.sid # 0
  /\ \A k \in Sids : call[k].at # "none" => k <= run.sid
  /\ \A r \in Outstanding : r.sid <= run.sid
  /\ run.at = "begin" => ~run.completed /\ call[run.sid].at = "none"
  /\ run.at \in {"begin", "agent"} \/ run.completed =>
       \A r \in late : r.op = "begin" => r.sid # run.sid
  /\ run.at \in {"close", "done"} /\ run.completed =>
       run.sid \notin daemon.sessions /\ \A f \in daemon.fences : f.sid # run.sid

\* A call of a run that is over is told so before the run goes on, and comes to nothing.
Doomed(c) == c.cancelled \/ c.at = "unfeed" \/ (c.at = "finish" /\ c.failed)

Interrupted ==
  /\ stopped # {} => stopped = {run.sid} /\ run.at \in {"cancel", "end"}
  /\ \A k \in Sids :
       /\ call[k].at = "lock" => ~call[k].cancelled
       /\ call[k].at # "none" /\ k \notin stopped /\ ~(run.at = "agent" /\ k = run.sid) =>
            Doomed(call[k])

AgentInv ==
  /\ TypeOK /\ ChainFenced /\ OneOwner /\ FencesTold /\ RequestsMatch
  /\ ThreadsInStep /\ RunsInOrder /\ Interrupted

\* What the test of a cancelled run asserts: when everything has come to rest
\* and no request was lost, the daemon has neither session nor mutation left.
NothingLeft ==
  run.at = "done" /\ queue = << >> /\ (\A k \in Sids : call[k].at = "none") /\ lost = 0 =>
    daemon.sessions = {} /\ daemon.fences = {}

\* The cleanup of a run ends, whatever its model thread's call still does.
RunReturns == run.at \in {"cancel", "end", "close"} ~> run.at = "done"

\* Every call comes to its end, the ones that wait for the route lock behind an
\* interrupted run's included.
CallsReturn == \A k \in Sids : call[k].at # "none" ~> call[k].at = "none"

\* Nobody keeps the route lock or a place in the transport's queue that another waits
\* for: neither a call nor a cleanup waits for ever (sfx_live_agent.py:601-617, 665,
\* control_transport.py:47-64).
EverythingReturns == RunReturns /\ CallsReturn

=============================================================================
