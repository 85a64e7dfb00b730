# A verification project for mentalist (sfx)

mentalist speculates the next read-only tool calls of a coding agent: a daemon
predicts them from the calls it has seen, runs them ahead of time in a thread
pool (on the repository, or on a copy-on-write fork with a streamed edit
applied), keeps the answers in a cache, and hands one out when the agent asks
for exactly that call. The promise is that speculation is invisible: a reused
answer is the answer the call would give if it ran now, it is handed out once,
and a caller is never left waiting.

This directory holds TLA+ modules translated from the Python source, the TLC
configurations that check them, and TLAPS proofs of the central ones. Paths
below are relative to the repository (`src/sfx/cache.py`); `PROJECT.json` writes
them with the checkout directory in front (`src/src/sfx/cache.py`).

## 1. Inventory

### Parts of the system

| part | source | state it keeps | operations | what makes it correct |
|---|---|---|---|---|
| cache and ledger | `src/sfx/cache.py`, `ledger.py` | jobs by (call, occurrence, epoch); reserve and serve counts; launch and terminal records | reserve, complete, claim, finish, serve, discard_spec, bump_epoch; record, terminal | occurrences are never reused or shared; a spec is settled once; a served job is current, complete and unsettled; a waiter is woken |
| executor | `src/sfx/executor.py` | running specs, slots, a thread pool | speculate, submit_chain, promote, authoritative/preempt, free_slots, shutdown | speculations at work never exceed the slots; a failing job leaves a hole, not a stuck key |
| daemon | `src/sfx/daemon.py` | sessions (cache, executor, chain, chain claim, streamed write, completed mutations), active mutations per repository | session_start/end, shutdown, mutation_begin/end, call_executed, call_stream_delta, stream_get_delta, resolve, tick | nothing speculated before or behind a fence is served after it; a kept chain stands on a committed write; resolve may drop the lock and still serve nothing stale |
| chain, substrates | `src/sfx/chain.py`, `substrate.py` | none between calls | run_hop_in_fork, longest_prefix | a hop reads the repository plus the streamed write, never the repository alone |
| fork and its command | `src/sfx/fork.py`, `substrate.py`, `src/eval/sfx_daemon_run.py`, `drain.py` | a fork directory, its overlay mounts, the command's process group | choose a substrate, copy or mount, apply, admit and verify, run and drain, tear down | only reviewed code runs; an answer is final; nothing is left behind or removed while it is used |
| predictor, gate | `src/sfx/predictor.py`, `gate.py`, `schema.py`, `events.py` | counts of kinds per context | observe, propose, admit | rankings deterministic, admission by policy, threshold and slots |
| resolver, contracts | `src/sfx/resolver.py`, `script_contracts.py`, `verbs.py` | none | resolve_args and the shell analysis | only exact, effect-free commands are speculated |
| stream parser | `src/adapters/stream.py` | a text buffer per call id | feed, feed_get | a call is yielded once, when its args are complete |
| socket protocol | `src/adapters/protocol.py` | one connection per client | serve, dispatch, Client._send | one reply per request; a request whose client gave up does no harm when it is handled late |
| mini-SWE adapter | `src/adapters/mini_swe.py` | the environment and its claims | execute, claim_or_none, report_executed | every real command is reported |
| live agent | `src/eval/sfx_live_agent.py` | session id, route lock, token of the pending edit, control channel, counters | run, _stream_event, _route, _authoritative, _cancel_pending_edit | a command runs only behind its fence; a run that counts as completed left nothing in the daemon; nothing of an interrupted run happens in a later one |
| control transport | `src/eval/control_transport.py` | a connection and its lock | request, aclose | replies belong to their requests, under cancellation too; nobody waits for ever |
| sidecar broker, worker | `src/eval/sidecar_rpc.py`, `spec_worker.py` | pending requests, poisoned and closing flags | execute, cancel, poison, close | every waiter is answered; nothing starts after poisoning |
| sidecar runtime | `src/eval/sidecar_runtime.py`, `sidecar_agent.py`, `sidecar_daemon.py` | the sidecar container, the broker, the task's identity, poisoned and uncertain flags, the agent's own poison flag | start, exec, on_poison, aclose, one Controller per run | whatever was started is stopped; forks outlive the processes in them; a report that says valid is right |
| model stream, agent loop | `src/eval/model_stream.py`, `model_tools.py`, `sglang_budget.py`, `run_agent` of `live_ab.py` | an SSE frame, a partial tool call, the loop's text and finish reason, the budget's receipt | preflight, request, read, yield, parse, execute | the loop acts on whole generations only; every response is closed; a generation fits its context |
| experiments, mining | the drivers and reports of `src/eval/`, `src/mining/` | files | offline batch work | sequential, out of scope |

### How the parts interact

A host (the live agent or the mini-SWE adapter) talks to the daemon over a
socket; the protocol layer calls one daemon method per message, and several
connections are served by several threads. Every method takes
`Daemon._lock`, so handlers are atomic, with one exception: `resolve` drops the
lock while it waits for the claimed job and takes it again to finish the claim.
Each session has one cache and one executor with its own pool threads; these
take only the cache's lock, so a result arrives between any two handlers.
Sessions of one repository share nothing but the repository itself and
the table of active mutations: a mutation by one session must expire the
speculations of all. The host, not the daemon, changes the files, between
`mutation_begin` and `mutation_end` or, for an undeclared change, before the
report of it.

### What is hard to test here

The list with source lines is under `hazards` in `PROJECT.json`. In short:
state read before the wait in `resolve` and used after it; a speculation in
flight across a whole fence; overlapping mutations of two sessions; two callers
claiming the same call over the holes failed reservations left; a timeout that
races with the result; who may settle a speculation; a waiter without a timeout
whose job is dropped by someone else; slots counted by tasks that were expired
but still run; a run cancelled at any await of its calls; requests handled after
their client gave up; poisoning of the broker; a Docker call that fails, or whose answer
is lost after it did its work, anywhere between start and close; two removals of
one task at a time; a sidecar that crashes above running processes; a mount that
timed out and mounted all the same; processes a command leaves behind; a source
edited between its verification and its use; a stream that breaks off after
something that looks complete; a server restarted between the count of the
tokens and the request that relies on it.

## 2. Modules

    SpecPromise                abstract: what a cache of speculations promises
        ^ implemented by
    SpecCache  --EXTENDS-->  Cache  <--EXTENDS--  SfxDaemon
        ^                      ^                      ^
    SpecCacheProofs       CacheProofs            SfxDaemonProofs
    MCSpecCache                                  MCSfxDaemon

    SidecarBrokerProofs  --EXTENDS-->  SidecarBroker  <--INSTANCE--  Controller
        ^ cited (INSTANCE) by                                            ^
    ControllerProofs  --EXTENDS------------------------------------------+

    Fences  <--EXTENDS--  LiveAgent  <--EXTENDS--  MCLiveAgent
                              ^
                        LiveAgentProofs

    ForkJob        one speculative job: its fork and its command   <--EXTENDS--  ForkJobProofs
    ModelStream    one conversation with the model                 <--EXTENDS--  ModelStreamProofs

`CacheProofs` is extended by `SpecCacheProofs` and `SfxDaemonProofs`, whose state
machines hold caches.

**Cache** (`cache.py`, `ledger.py`). One record per session and one operator per
method. Each method runs under the cache's lock, so it is a function of the
record. A reservation's key is `[call, occ, epoch]` as in `Job.key`;
`jobs` is the dictionary, `done` the events that are set, `finished` the jobs
that have a result, `term` the ledger's terminal state per spec, with the value
"ValueError" for the exception `Ledger.terminal` raises on a second settlement.
Counts of an older epoch are dropped because they are keyed by the epoch, which
only grows. Millisecond totals are left out.

**SpecCache** (`executor.py`, `Cache.serve`, and the calls the daemon makes). A
state machine around one cache: handlers reserve (`Speculate`, `SubmitChain`),
expire (`Invalidate`), give up chains (`DropChain`) and close; pool threads
start, return or raise; callers `Ask` (claim) and `Return` (finish) with a wait
in between that holds no lock. `Preempt` is `_preempt_one`. The pool is FIFO
with `Slots` threads, as `ThreadPoolExecutor(max_workers=slots)`.

**SpecPromise**. What the above promises without keys, occurrences, events,
slots or workers: offers made in an era, taken at most once, by a caller that
asked for that call, in the era they were made.

**SfxDaemon** (`daemon.py`, with `chain.py` and the hosts around it). One action
per handler, two for `resolve`. What a command would answer is the state of the
repository it reads: `disk[repo] = [base, file]`, where `file` is the file named
by streamed writes and `base` counts all other changes. A GET task reads the
disk when it runs; a chain task reads it with the streamed write in `file`.
So "stale" is the inequality of two records. The host's own step is `Execute`
(the command behind the fence; a declared write may go wrong and leave anything)
or, for hosts that do not fence, `UnfencedWrite` followed later by its report.
Predictor, resolver, gate and the stream parser are nondeterministic: any call
may be predicted, parsed or refused, so the properties do not rest on them.

**SidecarBroker** (`sidecar_rpc.py`, `sidecar_daemon.py`). In the sidecar
deployment the daemon's pool threads do not run commands themselves: each enters
a fork (`RetainedForks.fork`) and asks the host's broker over a connection of its
own. The broker is an asyncio program, so one action is the stretch of a handler
from one await to the next; `handler[r]` names the await it is at, `worker[r]`
the task that waits for `exec_fn`, and `alive` the processes that may in truth
still run, which the broker cannot see. `Answer` is the part from the response to
the write or, on a poisoned broker, to the wait for the controller's termination
of the task. Requests and responses are reduced to their kinds; deadlines may
pass at any moment of a bounded wait. `Terminated` (on_poison's removal of the
task container), `TaskRemoved` (any other removal of it), `Crash` of the sidecar
and `WorkerEnds` are steps of the environment; `terminated` says that
`task-terminated.json` is there.

**Controller** (`sidecar_runtime.py`, `sidecar_agent.py`, with the process of
`sidecar_daemon.py`). Composes SidecarBroker: `B == INSTANCE SidecarBroker`, whose
variables it shares and whose steps it takes, and it makes the steps that were
left to the broker's environment. Consecutive runs of the sidecar agent: each
makes a new controller, starts the broker and the sidecar container, sends
control requests, and closes. One action is what the controller does on the
answer of one Docker call; `pc` names the call, `reached` how far `start` came,
`removal[c]` where the removal of the task is, as called by the poisoned broker
and by `aclose`, which share a lock. `task` is the container the identity was
taken of, or another, or none; `sidecar` the state of the sidecar container.
Every call may fail with its effect done or not. The contents of the identity,
the environment checks of the constructor and the report's other fields are
reduced to their verdict.

**ForkJob** (`fork.py`, `substrate.py`, `run_hop_in_fork` of `chain.py`,
`sfx_daemon_run.py`, `drain.py`, `spec_worker.py`). One speculative job in its
thread, from the admission of its command to the removal of its fork, while the
agent changes the repository and the command's processes start others, end, and
write. The repository is two files: the one the streamed write goes to, by the
kind of entry it is (missing, plain, symbolic link, hard-linked), and the source
of a reviewed script. A fork by clonefile or reflink has copies of its own; an
overlay reads through to the repository until a file is copied up. A command is
its kind, what the script contracts say of it, and whether its syntax passes;
what the probes of the substrates find is nondeterministic (`Capabilities`), and
every system call may fail, mounts with their effect done or not.
The processes are those of the command's process group. A process that makes a
session of its own is left out: an admitted read or a reviewed script has none,
and `run_drained` could not see it. SIGKILL is a signal: `run_drained` sends it to a
group that outlived the drain and raises without waiting (`killed`), so the fork is
taken down while some of its processes may still be dying. They start no others, but
a write they are in may still be done. The timeout branch of `run_drained`, which its
caller does not use, is left out. In the sidecar deployment such a failure of the
worker poisons the broker, and the fork is kept until the task was terminated:
`WorkerEnds` of SidecarBroker may leave a process behind with the outcome "failed".

**ModelStream** (`model_stream.py`, `model_tools.py`, `sglang_budget.py`,
`run_agent`). The agent loop over one of the two streaming transports, with or
without a context budget. The endpoint sends any lines it likes (`DataLine`,
`ErrorLine`, `BlankLine`), breaks off anywhere (`Breaks`) and may be restarted
with another context or template (`Restart`; during a stream that is a broken
response). `Handle` is what a transport does with one frame, and `events` what it
yields before it reads on; `Take` is the loop's handling of one event, and
`Complete` what it makes of the whole: a command, the end, or nothing. Text is a
sequence of pieces: fences, words, DONE, and, in the arguments of a tool call, the
JSON around a command. `sent` is a history of the complete frames, from which the
property states what the endpoint meant.

**LiveAgent** (`sfx_live_agent.py`, `control_transport.py`, `run_agent` of
`live_ab.py`, the client of `protocol.py`). Consecutive runs of one agent on one
daemon. A run begins its session, lets a model thread work, and cleans up; it may
be cancelled while the thread works (`Interrupt`). The model thread streams events
and issues commands, each as a coroutine on the agent's loop, and waits for it;
`call[k].at` names the await the call of run k is at. Two locks order everything:
`route` is the FIFO `_route_lock` of the calls (the cleanup does not take it), and
`queue` the FIFO lock of the transport, whose head is the request in flight.
`Request`, `Replies` and `Resume` are the three parts of a control call: what is
sent, what the daemon does with it and answers, and what the coroutine does then.
A cancellation is scheduled with the interruption (`stopped`) and delivered later
(`CancelDelivered`): at once to a call that waits for a lock, otherwise when the
request in flight is answered, because the transport shields it, or when the
environment gives the command up. `CallTimedOut` is the client's two second
timeout: its request goes to `late` and is handled at any later time, or never.

**Fences** (`daemon.py`). What LiveAgent needs of the daemon: sessions, active
mutations with their conflicts, and which mutation a session's chain stands on.
SfxDaemon has the same handlers in full; here they are operators on a record, as
the transport lets requests in one at a time.

Where a model takes two steps of the code as one, its header or the definition
says so: in SpecCache storing a result and the end of its future, and dropping a
failed job and marking it failed, are one step, because only `free_slots` reads
the second half and may count a slot as used for an instant longer. SfxDaemon
separates the two for chain tasks (`WorkerRaise`, `ChainFailed`), since
`mutation_end` looks at the chain's future in between.

## 3. Runs

Model values are used for calls, callers, sessions and writes, with symmetry
wherever they are only compared. `CHECK_DEADLOCK FALSE` is set where a closed
session, a shut-down daemon, an agent that was poisoned or an exhausted bound has
no next step, and rightly so. `fork` and `stream` are checked for deadlock: a job
or a conversation that is over stutters explicitly.

Every module has a type invariant. It is a conjunct of one invariant of its run:
`IndInv`, `BrokerInv`, `DaemonInv`, `AgentInv`, `ControllerInv`, `ForkInv` or
`StreamInv`.

| run | bounds | checks |
|---|---|---|
| `cache` | 2 calls, 2 callers, 1 slot, 2 reservations, 1 expiry | `IndInv`, `ClaimsDisjoint`, `SettledOnce`, `SlotBudget`, `NothingSkipped`, `ImplementsPromise` (refinement of SpecPromise) |
| `cache_live` | 1 call, 2 callers, waits without timeout | `AsksReturn` under `Fairness` |
| `daemon` | 2 sessions, 2 mutations that may overlap, 1 unfenced report, 1 speculation | `DaemonInv` (with `FenceQuiet`), `LiveResultsCurrent`, `ChainWriteCommitted`, `ServedIsCurrent` |
| `daemon_resolve` | 1 session started twice, 2 callers, 3 speculations, 1 mutation | `ClaimOwned`, `SettledOnce` |
| `daemon_unfenced` | 2 sessions, unfenced writes and reports that name only a command | `ReportedReadsCurrent` |
| `daemon_named` | 1 session, reports that carry the write's own args | `ReportedReadsCurrent`, violated: see section 5 |
| `broker` | 2 calls, any outcome, termination acknowledged, refused or late, a crash of the sidecar | `BrokerInv` (with `QuiescedStaysQuiet`), `ForkOutlivesProcess`, `CleanMeansQuiet`, `NoResultInDoubt`; `CloseReturns` under `Fairness` |
| `controller` | 1 brokered call per run, any number of runs and of failures | `ControllerInv` (with `SidecarOutlivesProcesses`), `MarkerTruthful`, `ValidMeansClean`, `CleanupComplete`, `NextRunFresh`; `CloseEnds` under `Fairness` |
| `fork` | every job, substrate and entry; any number of changes and failures | `ForkInv` (with `NothingLeft`), `CodeIsReviewed`, `AnswerIsFinal`, `WriteHasOneName`, `RemovedQuietly`; `JobEnds` under `Fairness` |
| `stream` | 2 model steps of at most 4 chunks, 1 restart, contexts at the edge of the prompt | `StreamInv` (with `ResponsesClosed`), `ActsOnWhole`, `BudgetHolds` |
| `live_agent` | 2 runs of 1 model step, 2 writes, 1 lost request | `AgentInv` (with `ChainFenced`), `FencedExecution`, `CompletedMeansClean`, `NoLateCommand`; `EverythingReturns` under the fairness of `FairSpec` |
| `live_interrupt` | 1 run of 1 model step, no lost request | `NothingLeft`, violated: see section 5 |

Why these are enough to be meaningful. Sharing an occurrence needs two callers
and one call; a hole needs a failed reservation with one after it. Two calls tell
an offer for another call apart. Three reservations of one call, for a hole between
two live ones, were also checked, with the same result. One slot is
the tightest budget. Two epochs make every comparison with `epoch` matter. Two
sessions are needed for one to mutate what the other has read, two mutations for
an overlap, two starts of one session id for a caller that comes back to a
replaced session. Two brokered calls are needed for one to put in doubt what
the other brings; nothing in the broker counts calls (three were also checked
once, before the crash of the sidecar was added, 12.4 million states, with the same
result). One brokered call is enough for the controller, which sees of the broker
only whether it is poisoned, drains, and has retained a fork. Four chunks hold a
call of execute_bash, its arguments in pieces and its finish reason, or an open
fence, a word, a closing fence and a finish reason, with a chunk in any wrong place;
the prompts 0, 1 and 3 in a context of 4 with one reserved token leave more than
was asked for, less, and less than nothing. Two runs
of the live agent are needed for a call to outlive its own, two writes for a
streamed edit that is not the command that follows, one lost request for each
place where the client may give up; a second model step per run was checked once
(5.1 million states, the safety properties hold). Every property has a mutant in `PROJECT.json`: a plausible
bug in a definition under which TLC finds the property violated within the very
same bounds.

What they show:

- `IndInv`, `ClaimsDisjoint`, `NothingSkipped`: the dictionary never drops
  a job in flight, two callers never share an occurrence, nobody gets one that
  was served, and walking over holes skips nothing that could be claimed.
- `SettledOnce`: expiry, discarding, preemption, serving and late completion
  race for a speculation, and no handler meets the ValueError.
- `SlotBudget`: GET tasks at work never outnumber the slots although expired and
  served tasks go on running; only a preempted one runs without a slot.
- `AsksReturn`: `Cache.serve`, which waits without a timeout, comes back, unless its
  job stays in the cache and its command, or those before it in the pool, never end;
  a job that is dropped wakes its callers whatever its command does.
- `LiveResultsCurrent`, `ServedIsCurrent`: outside a fence no live result is
  stale, and none is served stale although `resolve` drops the lock. The first
  is about every job, the second about the very step that serves one.
- `DaemonInv`, `ChainWriteCommitted`: a fence leaves nothing live behind it but
  the hop of the one chain its sole, unconflicted mutation streamed, and that
  chain survives only when the write is the one on the disk.
- `ClaimOwned`: no chain claim outlives the caller that made it.
- `ForkOutlivesProcess`, `BrokerInv`: no fork is removed beneath a
  process that may run in it, on any path: an answer, a lost answer, a timeout,
  or the release of retained forks at exit.
- `CleanMeansQuiet`, `NoResultInDoubt`: a close that does not raise leaves
  nothing running, unhandled or unanswered, and no result is written once
  anything is in doubt.
- `FencedExecution`: while a command runs the daemon holds the fence that was
  taken for it, although the cleanup of a run cancels the pending edit without
  the route lock, and although an old call reads the session id of a new run.
- `AgentInv`: the daemon keeps a chain only for a write that is fenced or did
  run; a cancelled edit leaves none, even if its feed is handled after its end.
  A fence that someone still relies on has one owner, the pending edit or one
  call, and no request on its way ends it.
- `CompletedMeansClean`, `NoLateCommand`: a run recorded as completed left neither
  session nor fence, and no command starts once its run has returned.
- `EverythingReturns`: nobody keeps a lock or a place in a queue that
  others wait for, whatever was cancelled or lost.
- `CloseReturns`: closing ends although clients may never read, workers never
  end and the task is never terminated.
- `ControllerInv`, `CleanupComplete`: whatever start or the run had come to when
  it failed, the sidecar with its forks is removed only above no process, and a
  close that Docker serves leaves no container and no process behind.
- `MarkerTruthful`, `ValidMeansClean`, `NextRunFresh`: the marker of the task's
  termination is written for a verified removal only; a report says valid only
  if everything was given back; an agent begins a next run only from there,
  although the broker may be poisoned after the report was made.
- `CloseEnds`: `aclose` ends with a removal under way, a request in flight or a
  broker that does not drain.
- `CodeIsReviewed`: code runs speculatively only with the source that was
  reviewed, whatever the agent does to the repository meanwhile. That an overlay
  reads through to the repository is why pinned scripts get no overlay.
- `AnswerIsFinal`, `WriteHasOneName`: a result is given with no process left that
  could change what it says, and after a streamed write only if the write has in
  the fork the effect it has in the repository. A job that failed leaves no process
  at work: what is left of its command has been killed.
- `ForkInv`, `RemovedQuietly`: a job either removes its fork, with nothing mounted on
  it and nothing at work in it, or says that it did not. Processes may still be in it
  after the drain killed them, and then the job has no result.
- `JobEnds`: every job ends, forked or not, whatever fails and whoever outlives the
  shell; only a process that holds the command's output for ever holds it up.
- `ActsOnWhole`: the loop executes a command, or takes a run for done, only on a
  stream that came to its end in good order, and the command is the one sent.
- `StreamInv`, `BudgetHolds`: no response stays open behind a failing callback,
  and a generation fits the context of the server that makes it.

### Fairness

Five runs use it. None assumes that a speculated command ends: it runs without a
timeout (`sfx_daemon_run.py:163`, `251`), and `communicate` waits for its output
without a limit (`drain.py:32`). In `cache_live` the pool takes queued tasks when it
has a thread, so `WorkerStart` has weak fairness, and a thread whose wait is over gets
the lock, so `Return` has. `AsksReturn` therefore has an alternative: a caller may
wait for ever, but only for a job that stays in the cache (`Held`), whose command is
at work or queued behind commands that are. Nothing is assumed of handlers: nobody has to expire, close or
discard anything. The run has `Timeouts = FALSE`, since a bounded wait would
make the property trivial. In `broker` the bounded waits of the handlers
and of `aclose` end, and nothing is assumed of workers, clients or the
termination. In particular a client that does not read its result may block
`writer.drain()` and the wait for the connection to close for ever: `Progress`
leaves those two steps out for results, and the close ends because it cancels
the handlers that are late. The controller's ten second limit on the close
(`CloseAborted`) is not assumed either. In `live_agent` the event loop runs the
coroutines that are ready, a request is answered or its client times out after
two seconds, and a command ends, as the environment bounds it: weak fairness of
each call's steps and of the run's. Nothing is assumed of the model thread, which
may stop between two calls, of the next run, or of late requests. In `controller`
every Docker call is answered or times out, the removal lock is handed on, and the
broker's `aclose` ends or is cancelled after ten seconds; nothing is assumed of the
broker's handlers, of workers or of the sidecar. In `fork` only the job's own thread
goes on; the drain is one of its steps, as it has a deadline. Nothing is assumed of
the command's processes, and the alternative in `JobEnds` is the wait in `communicate`.

## 4. Proofs

Every safety property that a passing run checks is a theorem. TLC checks it on the bounds
above; the theorem says it for every set of calls, callers, sessions, requests or writes
and for every bound. Each module's proofs rest on the ASSUME of its module alone (bounds
are naturals, ids are what they are, the values that stand for "none" are not members of
the sets), except for two theorems of SfxDaemonProofs with one more hypothesis each:
`ServedResultsAreCurrent` is about hosts that declare their mutations (`Fenced`), and
`ReportedReadsAreCurrent` about reports that name only a command (`~NamedReports`), since
both are false of other hosts (section 5); `LiveResultsCurrent` and `ChainWriteCommitted`
have the condition `Fenced` in the property itself. None of the properties
is inductive by itself, so each module states the invariant that is, which its
run checks too.

| module | theorem | states |
|---|---|---|
| SpecCacheProofs | `IndInvHolds`, `TypeCorrect`, `KeysStayDistinct` | `IndInv`, and what it says of types and keys |
| | `ClaimsStayDisjoint`, `LedgerSettlesOnce` | `ClaimsDisjoint`, `SettledOnce` |
| | `SlotBudgetHolds` | `SlotBudget` |
| | `NothingIsSkipped` | `NothingSkipped` (of every step) |
| | `KeepsPromise` | `ImplementsPromise`: SpecCache implements SpecPromise |
| SfxDaemonProofs | `DaemonInvHolds` | `DaemonInv` |
| | `LiveResultsAreCurrent`, `ChainsStandOnWrites` | `LiveResultsCurrent`, `ChainWriteCommitted` |
| | `ClaimsAreOwned`, `NothingSettledTwice` | `ClaimOwned`, `SettledOnce` |
| | `ServedResultsAreCurrent` | `ServedIsCurrent` (of every step), when hosts declare their mutations (`ASSUME Fenced`) |
| | `ReportedReadsAreCurrent` | `ReportedReadsCurrent` (of every step), when reports name only a command (`ASSUME ~NamedReports`) |
| SidecarBrokerProofs | `BrokerInvHolds`, `BrokerTypeCorrect`, `QuiescedForGood` | `BrokerInv`, and two of its parts |
| | `CleanCloseIsQuiet`, `ForksOutliveProcesses` | `CleanMeansQuiet`, `ForkOutlivesProcess` |
| | `ResultsAreCertain` | `NoResultInDoubt` (of every step) |
| ControllerProofs | `ControllerInvHolds`, `SidecarLast` | `ControllerInv`, and `SidecarOutlivesProcesses` |
| | `MarkerTruthfulHolds`, `ValidMeansCleanHolds`, `CleanupCompleteHolds` | `MarkerTruthful`, `ValidMeansClean`, `CleanupComplete` |
| | `NextRunIsFresh` | `NextRunFresh` (of every step) |
| ForkJobProofs | `ForkInvHolds` | `ForkInv` |
| | `OnlyReviewedCodeRuns`, `AnswersAreFinal`, `WritesHaveOneName` | `CodeIsReviewed`, `AnswerIsFinal`, `WriteHasOneName` |
| | `ForksRemovedQuietly` | `RemovedQuietly` (of every step) |
| ModelStreamProofs | `StreamInvHolds` | `StreamInv` |
| | `ActsOnWholeHolds`, `BudgetAlwaysHolds` | `ActsOnWhole`, `BudgetHolds` |
| LiveAgentProofs | `AgentInvHolds` | `AgentInv` |
| | `FencedExecutionHolds`, `CompletedMeansCleanHolds` | `FencedExecution`, `CompletedMeansClean` |
| | `NoLateCommandHolds` | `NoLateCommand` (of every step) |

### The arguments

**Cache, SpecCache.** `CacheProofs` states once, for each operator of Cache, that it
preserves `CacheInv` and never moves a spec in front of the serve count (`Moves`), or
creates a hit (`NoNewHit`); the steps of SpecCache and SfxDaemon need only those lemmas.
A new key is distinct from the old ones because old keys of this epoch carry
numbers below the put count (`KeysBelow`); a claim is disjoint from those others hold
because the serve count has passed whatever is waited for (`WaitsBehind`) and whatever
was served (`HitsBehind`); a bump settles nothing twice because all live jobs are of
the current epoch (`JobsCurrent`) and a hit is behind the serve count. `IndInv` adds
`SlotsHeld`: whoever is at work is in `running`, which `free_slots` keeps
below the slots, with the cardinality theorems of the library. SpecPromise is
implemented by the mapping that forgets keys and workers: each step is the
one of the promise, or a stutter.

**SfxDaemon.** `DaemonInv`: a fence is quiet because every launch looks at it and
every begin expires what is live (`FenceQuiet`); what a chain's task has read behind a
fence is the disk with the write applied, unless the command ran since and went wrong
(`FencedReads`); so outside a fence a live result was read after the last fence, or by a
chain whose write that fence committed (`LiveResultsCurrent`). A caller of `resolve`
that comes back finds its session replaced, its speculation dropped, or a live
result, which is current. Without fences what is read is current for as long as no write is
unreported: a write marks its repository as unreported, a report drops what was read before
it, and a report that names only a command matches no streamed write, so that none is
spared (`ReportedReads`, which TLC has checked on the bounds of `daemon_unfenced`).
`NothingSettledTwice` needs that a live chain task is the hop
of the chain or was served already (`SessionOK`).

**SidecarBroker.** `BrokerInv` relates each handler's await to its worker and its
answer (`RequestOK`, for each request): no worker and no answer before the dispatch, no
answer before it is written, a process only while its worker brought no response, a termination only of a
poisoned broker, and without poison every answer a worker's response. Quiescence is
inductive with it (only an unpoisoned broker starts a process), and so is the clean
close; the removal of forks follows from the two.

**Controller.** The two invariants of the broker are carried over, because the
composition takes the broker's steps: `ControllerProofs` cites the lemmas of
SidecarBrokerProofs for them, and each step of the controller needs only what it keeps of the
broker (`BrokerKeeps`). `ControllerInv` adds what aclose relies on from stage to
stage: start goes in order, and nobody has used a broker before its end (`InOrder`); one
caller at a time removes the task, and aclose only if it is in doubt (`RemovedInTurn`);
a sidecar that exited with 0 gave back all forks, a broker that drained has no process,
and the sidecar is removed only after one of the reasons in `NoProcesses`
(`ClosedInOrder`). The lemma `NoNews` is why a late poison changes no decision
that was made: after the drain either the task is in doubt already, or the broker is
closed and clean, or was never used.

**ForkJob.** `ForkInv` ties each step of the job to what exists of its fork, how many
mounts it has and who may be in the command's group: nobody after the drain, but for
those it killed, and then the job has failed. From `Verified` on, and as long as a process
of it is left, the command was admitted and a pinned one runs in a fork with copies of its
own, whose source is the reviewed one. That is why a change of the repository in between does not matter.

**ModelStream.** `StreamInv`: while nobody objects to a stream, the transport knows all
the endpoint sent (`TransportInStep`) and the loop has all the transport made of it
(`LoopInStep`). The loop acts when the stream is over and all events are taken, so what
it acts on is what was sent. The budget was granted with the prompt's length known, and
a request whose server was started again meanwhile is not open.

**LiveAgent.** The daemon handles requests long after they were sent, or after those
who sent them are gone, so the proofs state `AgentInv` once as a relation (`Core`) of the
daemon, the requests that are outstanding, the pending edit and the calls. What the daemon does with a
request keeps that relation (`RepliesCore`), because it ends only fences that nobody relies
on any more (`OneOwner`) and drops a chain only with the fence that did not succeed
(`ChainFenced`, `FencesTold`). Each step of a call begins with a token that is `Free` for
it (the pending edit's, its own, or a new one) and hands it on, to the command or to the
`mutation_end` it sends; `CallMovesKeeps` then gives the invariant for all these steps.
`FencedExecution` is `OneOwner` at the command. A call is told of its run's end before the
run goes on, and each step keeps it `Doomed` (`Interrupted`): it starts no command, which is
`NoLateCommand`. A session recorded as ended cannot be begun again, because a late `begin` is of
an earlier run (`RunsInOrder`), and so `CompletedMeansClean` is inductive. `RequestsMatch`
and `ThreadsInStep` say whom an answer goes to, and that the route lock has whoever uses it.

### What is only model-checked

- Liveness (`AsksReturn`, `CloseReturns`, `EverythingReturns`, `CloseEnds`,
  `JobEnds`) rests on fairness and `ENABLED`, which the prover does not handle.
- The two properties that a run finds violated are of course no theorems (section 5):
  `ReportedReadsCurrent` of hosts that report a write's own args, and `NothingLeft` of LiveAgent.

## 5. Findings

### A reported write that invalidates nothing

`call_executed` (`daemon.py:315`) skips the invalidation when an undeclared
write is reported with the args that were streamed. The write was invalidated
for when it was fed, but it had not run then. A read speculated in between, by a
streamed read or by the report of another call, sees the old file and remains
live after the report. The run `daemon_named` shows it: feed of the write, a
streamed read runs, the host writes, reports, resolves the edit (a hit), and
resolves the read, which is served with the old contents. The README of the
repository promises that tracked state is checked before reuse (line 30), and
`tests/test_mini_swe_live.py:208` asserts the same for an edit that was not
streamed. Fenced hosts are not affected (`daemon`), nor are hosts whose reports
name only the command (`daemon_unfenced`), as the mini-SWE adapter's do.

### A cancelled run that leaves its session behind

A run is cancelled (a checkpoint's timeout) while a call of its model thread is in
flight. The call is cancelled too, but the run's cleanup (`sfx_live_agent.py:601`)
starts at once and does not wait for it.

- During an authoritative command, the cleanup's `end` reaches the daemon before
  the call's own `mutation_end`; the daemon refuses it ("cannot end a session with
  an active mutation", `daemon.py:197`) and nobody repeats it.
- During `mutation_begin`, the transport waits for the answer and drops it
  (`control_transport.py:61`), so nobody knows the token: the mutation stays
  active, fences the repository for every later run, and the session stays.

`tests/test_live_control_transport.py:184` asserts of a cancelled run "assert not
daemon.sessions and not daemon._mutations" and, at line 193, "assert
agent._cleanup_errors == []"; the test cancels when no call is in flight. The run
`live_interrupt` shows the violation with no request lost. The run is not recorded
as completed, so `CompletedMeansClean` still holds.

## 6. Not modelled, and why

Strings and shell syntax (resolver, contracts, normalisation): which arguments a
call gets does not change any property above. Logging, latencies, saved and
wasted milliseconds. The persisted table of counts: read at start, only feeds
predictions. `tick` calls a callback and changes no state of the daemon.
In LiveAgent: installation and launch, the control process per request (the
other transport), snapshots, receipts and diagnostics, the arm that does not
speculate, and a cancellation of `run` before or after its agent runs.
In ForkJob: the rules of shell syntax by which a command is admitted, the search
of a tree for aliases and the hashing of it beyond their verdict, and the timing of
probes. In ModelStream: the transport that does not stream, frames with several
data lines that make one JSON text, timings and diagnostics, and the rebuilding of
native history, which the strict alternation of the loop makes total. In Controller:
Docker's command lines and the fields of reports, and a Docker call that takes effect
after its time limit: a failed call has its effect by the time the controller goes on, or
not at all, so a `docker create` that lands later than all of `aclose`'s inspections
(`_docker` kills the client after its timeout, `sidecar_runtime.py:124`) leaves a
container `CleanupComplete` does not see.
A failed job that is never settled in the ledger (`executor.py:79`) is accounting
only, and chain jobs that hold no slot (`executor.py:64`) cost only time: a delayed
task is a miss. `call_executed` with an unknown mutation id (`daemon.py:304`) raises
after it changed fields that only feed predictions.
Experiment drivers, reports, the stateful probe and the mining pipeline are
sequential batch programs, and the speculation producer renders scripted calls for
offline tests.

## 7. Plan

Done: Cache, SpecCache, SpecPromise, SfxDaemon, SidecarBroker, Fences, LiveAgent
(with the control transport), Controller, ForkJob, ModelStream; CacheProofs,
SpecCacheProofs, SfxDaemonProofs, SidecarBrokerProofs, ControllerProofs, ForkJobProofs,
ModelStreamProofs, LiveAgentProofs.

The safety properties of these models are theorems, so what is left to prove comes with
what is left to model, and with the cancellation of `run` in LiveAgent first: `Interrupted`
is the part of its invariant that would change.

Models to add: LiveAgent with a cancellation of `run` at its own awaits, and the
process-per-request transport of the sidecar deployment; and the pure algorithms
with reference definitions: `longest_prefix`, the stream parser's buffering,
predictor counts and `propose`, `admit`, the merge of the persisted table.
