----------------------------- MODULE SfxDaemon -----------------------------
(***************************************************************************)
(* The daemon (src/sfx/daemon.py): sessions over shared repositories,      *)
(* mutation fences, streamed-write chains and the two-phase resolve.       *)
(* Every handler runs under Daemon._lock and is one action; resolve drops  *)
(* the lock while it waits and is two.  Pool threads run speculations in   *)
(* between, on the repository (GET lane) or on a fork of it with a         *)
(* streamed write applied (chain lane).                                    *)
(*                                                                         *)
(* Data.  The state of a repository is [base, file]: `file` is what the    *)
(* file named by streamed writes holds and `base` counts the changes to    *)
(* everything else.  What a command would answer is the repository state   *)
(* it reads, so a result is current iff it equals the state of the         *)
(* repository.  The predictor, the resolver and the gate are               *)
(* nondeterministic: any call may be predicted, admitted or rejected.      *)
(* The two kinds of hit differ in accounting only and are one.  A task     *)
(* whose job was dropped from the cache takes no further step: its         *)
(* completion is ignored (module SpecCache has those late tasks).          *)
(***************************************************************************)
EXTENDS Cache

CONSTANTS
  Sids,            \* session ids
  Repos,           \* repositories, by resolved path
  RepoOf,          \* the repository each session works on
  Writes,          \* the args of declared writes, all to the same path
  Askers,          \* threads that may be inside resolve at the same time
  NoCall, NoWrite, NoAsker, Other,
  Fenced,          \* TRUE: hosts declare mutations; FALSE: they only report them
  NamedReports,    \* TRUE: an unfenced report carries the write's own args
  MaxSpecs,        \* bound: reservations of all registered sessions
  MaxMutations,    \* bound: mutation_begin calls
  MaxReports,      \* bound: reports of unfenced changes, and unfenced feeds
  MaxStarts        \* bound: starts of each session

ASSUME SfxDaemonAssumption ==
  /\ RepoOf \in [Sids -> Repos]
  /\ NoCall \notin Calls /\ NoWrite \notin Writes
  /\ NoAsker \notin Askers /\ Other \notin Writes
  /\ Fenced \in BOOLEAN /\ NamedReports \in BOOLEAN
  /\ {MaxSpecs, MaxMutations, MaxReports, MaxStarts} \subseteq Nat

VARIABLES
  sessions,    \* Daemon.sessions: a Session record per id, NoSession when absent
  starts,      \* how often each session id was started
  mutations,   \* Daemon._mutations, all repositories together
  begun,       \* mutations begun so far; the last one's id
  disk,        \* the state of each repository
  ask,         \* what each thread inside resolve holds across its wait
  unreported,  \* writes made outside a fence and not yet reported
  reports,     \* unfenced reports and feeds so far
  up           \* FALSE after Daemon.shutdown

vars == <<sessions, starts, mutations, begun, disk, ask, unreported, reports, up>>

Contents == Writes \cup {Other}
DiskState == [base : Nat, file : Contents]
NoResult == [base |-> 0, file |-> Other]

NoChain == [write |-> NoWrite, hop |-> NoCall, spec |-> 0, cursor |-> 0]

\* Session.__init__.  `claim` is the thread that holds chain_claim and `tasks`
\* the state of the pool's task for each spec of the cache.
NewSession(n) ==
  [inc |-> n, cache |-> EmptyCache, tasks |-> << >>, chain |-> NoChain,
   claim |-> NoAsker, mutation |-> 0, streamed |-> FALSE, completed |-> {}]

NoSession == NewSession(0)
Idle == [at |-> "idle"]

Registered(t) == sessions[t].inc > 0
Active(repo) == {m \in mutations : m.repo = repo}
Fence(t) == Active(RepoOf[t]) # {}

Init ==
  /\ sessions = [t \in Sids |-> NoSession]
  /\ starts = [t \in Sids |-> 0]
  /\ mutations = {}
  /\ begun = 0
  /\ disk = [r \in Repos |-> [base |-> 0, file |-> Other]]
  /\ ask = [a \in Askers |-> Idle]
  /\ unreported = {}
  /\ reports = 0
  /\ up = TRUE

-----------------------------------------------------------------------------
(* Parts of handlers, as operators on a Session record *)

\* _discard_chain: its one speculation is given up unless it was settled.
DiscardChain(s) ==
  [s EXCEPT !.cache = IF s.chain.spec # 0 THEN GiveUp(@, s.chain.spec) ELSE @,
            !.chain = NoChain, !.claim = NoAsker, !.mutation = 0]

HasChain(s) == s.chain # NoChain

\* Dropping the chain and leaving the rest of the cache as it is.
Expire_ChainOnly(s) ==
  [IF HasChain(s) THEN DiscardChain(s) ELSE s EXCEPT !.streamed = FALSE]

\* What _invalidate_repo does to each session.
Expire(s) ==
  LET d == IF HasChain(s) THEN DiscardChain(s) ELSE s
  IN  [d EXCEPT !.streamed = FALSE, !.cache = BumpEpoch(@)]

\* _invalidate_repo: every session of the repository but the preserved one.
Invalidate(ss, repo, keep) ==
  [t \in Sids |-> IF ss[t].inc > 0 /\ RepoOf[t] = repo /\ t \notin keep
                  THEN Expire(ss[t]) ELSE ss[t]]

Conflict(repo) ==
  {IF m.repo = repo THEN [m EXCEPT !.conflicted = TRUE] ELSE m : m \in mutations}

Task(lane, write) == [lane |-> lane, at |-> "queued", write |-> write, val |-> NoResult]

\* Executor.speculate and submit_chain as the session sees them.
Launch(s, call, lane, write) ==
  [s EXCEPT !.cache = Reserve(@, call), !.tasks = Append(@, Task(lane, write))]

LaunchGet(s, call) == IF call = NoCall THEN s ELSE Launch(s, call, "get", NoWrite)

\* call_executed's loop over the ranked predictions: at most GET_BREADTH = 2 are
\* launched, for distinct calls; which ones is up to the predictor and the gate.
Predictions == {p \in (Calls \cup {NoCall}) \X (Calls \cup {NoCall}) :
                  p[1] # p[2] \/ p = <<NoCall, NoCall>>}
NoPrediction == <<NoCall, NoCall>>
LaunchGets(s, p) == LaunchGet(LaunchGet(s, p[1]), p[2])

\* Launching whatever the fence says.
AfterReport_NoFence(ss, t, p) == [ss EXCEPT ![t] = LaunchGets(@, p)]

\* Speculation is suppressed while a mutation of the repository is active.
AfterReport(ss, t, p) ==
  IF Fence(t) THEN ss ELSE [ss EXCEPT ![t] = LaunchGets(@, p)]

WithinBound(ss) ==
  Cardinality({r \in Sids \X (1 .. MaxSpecs + 1) : r[2] \in SpecIds(ss[r[1]].cache)}) <= MaxSpecs

-----------------------------------------------------------------------------
(* Session lifecycle *)

SessionStart(t) ==
  /\ up
  /\ starts[t] < MaxStarts
  /\ starts' = [starts EXCEPT ![t] = @ + 1]
  /\ sessions' = [sessions EXCEPT ![t] = NewSession(starts[t] + 1)]
  /\ UNCHANGED <<mutations, begun, disk, ask, unreported, reports, up>>

\* session_end refuses while the session owns an active mutation.  Expiring the
\* cache settles and wakes everything before the session is deleted.
SessionEnd(t) ==
  /\ Registered(t)
  /\ \A m \in mutations : m.sid # t
  /\ sessions' = [sessions EXCEPT ![t] = NoSession]
  /\ UNCHANGED <<starts, mutations, begun, disk, ask, unreported, reports, up>>

Shutdown ==
  /\ up
  /\ up' = FALSE
  /\ sessions' = [t \in Sids |-> NoSession]
  /\ mutations' = {}
  /\ UNCHANGED <<starts, begun, disk, ask, unreported, reports>>

-----------------------------------------------------------------------------
(* Mutation fences *)

\* A begin that trusts the fence to hold readers off and expires nothing.
MutationBegin_NoExpire(t, w) ==
  /\ Fenced /\ Registered(t)
  /\ begun < MaxMutations
  /\ begun' = begun + 1
  /\ mutations' = Conflict(RepoOf[t]) \cup
       {[id |-> begun + 1, sid |-> t, repo |-> RepoOf[t], write |-> w,
         conflicted |-> Fence(t), executed |-> FALSE]}
  /\ UNCHANGED <<sessions, starts, disk, ask, unreported, reports, up>>

MutationBegin(t, w) ==
  /\ Fenced /\ Registered(t)
  /\ begun < MaxMutations
  /\ begun' = begun + 1
  /\ mutations' = Conflict(RepoOf[t]) \cup
       {[id |-> begun + 1, sid |-> t, repo |-> RepoOf[t], write |-> w,
         conflicted |-> Fence(t), executed |-> FALSE]}
  /\ sessions' = Invalidate(sessions, RepoOf[t], {})
  /\ UNCHANGED <<starts, disk, ask, unreported, reports, up>>

\* The host runs the command behind the fence, once.  A declared write leaves
\* its contents in the file and touches nothing else, or goes wrong.
Execute(m) ==
  LET d == disk[m.repo]
  IN  /\ ~m.executed
      /\ mutations' = (mutations \ {m}) \cup {[m EXCEPT !.executed = TRUE]}
      /\ \/ /\ m.write # NoWrite
            /\ disk' = [disk EXCEPT ![m.repo].file = m.write]
         \/ disk' = [disk EXCEPT ![m.repo] = [base |-> d.base + 1, file |-> Other]]
      /\ UNCHANGED <<sessions, starts, begun, ask, unreported, reports, up>>

\* mutation_end's condition for keeping the chain, without the look at the disk.
Preserves_TrustHost(m, success) ==
  LET s == sessions[m.sid]
  IN  /\ success /\ ~m.conflicted
      /\ HasChain(s) /\ s.mutation = m.id /\ s.chain.write = m.write

WriteIsCommitted(m) == disk[m.repo].file = m.write

Preserves(m, success) ==
  LET s == sessions[m.sid]
  IN  /\ success /\ ~m.conflicted /\ Active(m.repo) = {m}
      /\ HasChain(s) /\ s.mutation = m.id /\ s.chain.write = m.write
      /\ s.chain.spec # 0 => s.tasks[s.chain.spec].at # "failed"
      /\ WriteIsCommitted(m)

\* The host reports success or not; a success it reports may be wrong, and a
\* failure may be reported while the command went through.
MutationEnd(m, success) ==
  LET keep == Preserves(m, success)
      ss   == Invalidate(sessions, m.repo, IF keep THEN {m.sid} ELSE {})
  IN  /\ Registered(m.sid)
      /\ mutations' = mutations \ {m}
      /\ sessions' = [ss EXCEPT ![m.sid].completed = @ \cup {[id |-> m.id, preserved |-> keep]},
                                ![m.sid].mutation = 0]
      /\ UNCHANGED <<starts, begun, disk, ask, unreported, reports, up>>

-----------------------------------------------------------------------------
(* Reports: call_executed *)

\* A read-only call ran.
ReportFree(t, p) ==
  /\ Registered(t)
  /\ sessions' = AfterReport(sessions, t, p)
  /\ WithinBound(sessions')
  /\ UNCHANGED <<starts, mutations, begun, disk, ask, unreported, reports, up>>

\* A fenced mutation is reported with its id, once; nothing is speculated on top
\* of a preserved chain.
ReportMutation(t, c, p) ==
  LET s == [sessions[t] EXCEPT !.completed = @ \ {c}, !.streamed = FALSE]
  IN  /\ Registered(t)
      /\ c \in sessions[t].completed
      /\ c.preserved => p = NoPrediction
      /\ sessions' = AfterReport([sessions EXCEPT ![t] = s], t, p)
      /\ WithinBound(sessions')
      /\ UNCHANGED <<starts, mutations, begun, disk, ask, unreported, reports, up>>

\* A mutating call is reported without a fence: every session of the repository
\* is invalidated, unless the args are those of the write that was streamed.
ReportUnfenced(t, w, p) ==
  LET args  == IF NamedReports THEN w ELSE NoWrite
      s     == sessions[t]
      match == s.streamed /\ HasChain(s) /\ args = s.chain.write
      ss    == IF match THEN sessions ELSE Invalidate(sessions, RepoOf[t], {})
  IN  /\ Registered(t)
      /\ reports < MaxReports
      /\ reports' = reports + 1
      /\ mutations' = IF match THEN mutations ELSE Conflict(RepoOf[t])
      /\ sessions' = AfterReport([ss EXCEPT ![t].streamed = FALSE], t, p)
      /\ WithinBound(sessions')
      /\ unreported' = unreported \ {[sid |-> t, write |-> w]}
      /\ UNCHANGED <<starts, begun, disk, ask, up>>

\* Without fences the host simply runs the write, and reports it afterwards.
UnfencedWrite(t, w) ==
  /\ ~Fenced /\ Registered(t)
  /\ reports < MaxReports
  /\ unreported' = unreported \cup {[sid |-> t, write |-> w]}
  /\ disk' = [disk EXCEPT ![RepoOf[t]].file = w]
  /\ UNCHANGED <<sessions, starts, mutations, begun, ask, reports, up>>

-----------------------------------------------------------------------------
(* Streamed calls *)

\* A new chain for the streamed write w, whose first hop is the predicted call,
\* or a chain without hops when nothing was predicted or admitted.
StartChain(s, w, call) ==
  IF call = NoCall
  THEN [s EXCEPT !.chain = [NoChain EXCEPT !.write = w]]
  ELSE [Launch(s, call, "chain", w) EXCEPT
          !.chain = [write |-> w, hop |-> call, spec |-> Len(s.cache.specs) + 1, cursor |-> 0]]

\* call_stream_delta once the write's args are complete.  `forks` is FALSE when
\* the path is refused or no fork substrate is available: no chain is started.
Fed(s, w, id, call, forks) ==
  LET f == [s EXCEPT !.mutation = id, !.streamed = TRUE]
  IN  IF forks THEN StartChain(f, w, call) ELSE f

\* Behind a fence: only the sole, unconflicted mutation that declared the write
\* may have it streamed; a chain streamed before is replaced.
Feed(t, m, call, forks) ==
  LET s == sessions[t]
  IN  /\ Registered(t)
      /\ m.sid = t /\ Active(RepoOf[t]) = {m} /\ ~m.conflicted /\ m.write # NoWrite
      /\ sessions' = [sessions EXCEPT ![t] =
                        Fed(IF HasChain(s) THEN DiscardChain(s) ELSE s,
                            m.write, m.id, call, forks)]
      /\ WithinBound(sessions')
      /\ UNCHANGED <<starts, mutations, begun, disk, ask, unreported, reports, up>>

\* Without a fence the streamed write itself invalidates the repository.
FeedUnfenced(t, w, call, forks) ==
  LET ss == Invalidate(sessions, RepoOf[t], {})
  IN  /\ ~Fenced /\ Registered(t) /\ ~Fence(t)
      /\ reports < MaxReports
      /\ reports' = reports + 1
      /\ sessions' = [ss EXCEPT ![t] = Fed(@, w, 0, call, forks)]
      /\ WithinBound(sessions')
      /\ UNCHANGED <<starts, mutations, begun, disk, ask, unreported, up>>

\* stream_get_delta: the args of a streamed read are unambiguous.
StreamGet(t, call) ==
  /\ Registered(t) /\ ~Fence(t)
  /\ sessions' = [sessions EXCEPT ![t] = LaunchGet(@, call)]
  /\ WithinBound(sessions')
  /\ UNCHANGED <<starts, mutations, begun, disk, ask, unreported, reports, up>>

-----------------------------------------------------------------------------
(* Pool threads *)

SetTask(t, i, at) == [sessions[t] EXCEPT !.tasks[i].at = at]

\* The command reads the repository, or a fork of it with the write applied.
WorkerRun(t, i) ==
  LET task == sessions[t].tasks[i]
      d    == disk[RepoOf[t]]
  IN  /\ task.at = "queued"
      /\ sessions' = [sessions EXCEPT ![t].tasks[i] =
           [task EXCEPT !.at = "ran",
                        !.val = IF task.lane = "chain" THEN [d EXCEPT !.file = task.write]
                                ELSE d]]
      /\ UNCHANGED <<starts, mutations, begun, disk, ask, unreported, reports, up>>

WorkerReturn(t, i) ==
  /\ sessions[t].tasks[i].at = "ran"
  /\ sessions' = [sessions EXCEPT ![t] =
                    [SetTask(t, i, "done") EXCEPT !.cache = Complete(@, i)]]
  /\ UNCHANGED <<starts, mutations, begun, disk, ask, unreported, reports, up>>

\* The job raised and is dropped from the cache.  The future of a chain task is
\* done only afterwards, and mutation_end may look at it in between.
WorkerRaise(t, i) ==
  LET task == sessions[t].tasks[i]
      at   == IF task.lane = "chain" THEN "raising" ELSE "failed"
  IN  /\ task.at \in {"queued", "ran"}
      /\ sessions' = [sessions EXCEPT ![t] =
                        [SetTask(t, i, at) EXCEPT !.cache = DiscardSpec(@, i)]]
      /\ UNCHANGED <<starts, mutations, begun, disk, ask, unreported, reports, up>>

\* Only the future of the session's current chain is ever looked at.
ChainFailed(t) ==
  LET i == sessions[t].chain.spec
  IN  /\ i # 0
      /\ sessions[t].tasks[i].at = "raising"
      /\ sessions' = [sessions EXCEPT ![t] = SetTask(t, i, "failed")]
      /\ UNCHANGED <<starts, mutations, begun, disk, ask, unreported, reports, up>>

-----------------------------------------------------------------------------
(* resolve.  A miss at once (fence, chain held by another caller, kind that is *)
(* never speculated) changes nothing and is no step.                           *)

Wait(a, at, t, i) ==
  ask' = [ask EXCEPT ![a] = [at |-> at, sid |-> t, inc |-> sessions[t].inc, spec |-> i]]

MayResolve(a, t) == ask[a].at = "idle" /\ Registered(t) /\ ~Fence(t)

\* Phase one without a chain: claim an occurrence of the call.
ResolvePlain(a, t, call) ==
  LET c == sessions[t].cache
  IN  /\ MayResolve(a, t)
      /\ ~HasChain(sessions[t])
      /\ \/ \E i \in NextClaim(c, call) :
              /\ sessions' = [sessions EXCEPT ![t].cache = Claim(@, i)]
              /\ Wait(a, "plain", t, i)
         \/ /\ NextClaim(c, call) = {}
            /\ sessions' = [sessions EXCEPT ![t].cache = ClaimNothing(@, call)]
            /\ UNCHANGED ask
      /\ UNCHANGED <<starts, mutations, begun, disk, unreported, reports, up>>

\* Phase one with a chain, the streamed edit itself: it is answered with the
\* contents of the write and the chain moves on to its hop.
ResolveEdit(a, t, w) ==
  LET s == sessions[t]
  IN  /\ MayResolve(a, t)
      /\ HasChain(s) /\ s.claim = NoAsker
      /\ sessions' = [sessions EXCEPT ![t] =
           IF s.chain.cursor # 0 \/ w # s.chain.write THEN DiscardChain(s)
           ELSE IF s.chain.hop = NoCall THEN [s EXCEPT !.chain = NoChain]
           ELSE [s EXCEPT !.chain.cursor = 1]]
      /\ UNCHANGED <<starts, mutations, begun, disk, ask, unreported, reports, up>>

\* Phase one with a chain, another call: it joins the chain's job if it is the
\* hop that was run and the job is the one to claim; otherwise the chain breaks.
ResolveChain(a, t, call) ==
  LET s    == sessions[t]
      c    == s.cache
      next == NextClaim(c, call)
  IN  /\ MayResolve(a, t)
      /\ HasChain(s) /\ s.claim = NoAsker
      /\ \/ /\ s.chain.cursor = 0 \/ call # s.chain.hop
            /\ sessions' = [sessions EXCEPT ![t] = DiscardChain(s)]
            /\ UNCHANGED ask
         \/ /\ s.chain.cursor = 1 /\ call = s.chain.hop
            /\ next = {}
            /\ sessions' = [sessions EXCEPT ![t] =
                 DiscardChain([s EXCEPT !.cache = ClaimNothing(c, call)])]
            /\ UNCHANGED ask
         \/ /\ s.chain.cursor = 1 /\ call = s.chain.hop
            /\ \E i \in next \ {s.chain.spec} :
                 sessions' = [sessions EXCEPT ![t] =
                   DiscardChain([s EXCEPT !.cache = Claim(c, i)])]
            /\ UNCHANGED ask
         \/ /\ s.chain.cursor = 1 /\ call = s.chain.hop
            /\ s.chain.spec \in next
            /\ sessions' = [sessions EXCEPT ![t] =
                 [s EXCEPT !.cache = Claim(c, s.chain.spec), !.chain.cursor = 2, !.claim = a]]
            /\ Wait(a, "chain", t, s.chain.spec)
      /\ UNCHANGED <<starts, mutations, begun, disk, unreported, reports, up>>

\* Phase two, the lock taken again after the wait ended or timed out.  The
\* session may have ended or been started anew meanwhile.
SameSession(a) == sessions[ask[a].sid].inc = ask[a].inc

\* Serving the claimed job's own result, whatever became of the job meanwhile.
FinishPlain_TrustClaim(a) ==
  LET t == ask[a].sid
      i == ask[a].spec
  IN  /\ ask[a].at = "plain"
      /\ sessions' = IF SameSession(a) /\ ~Fence(t) /\ i \in sessions[t].cache.finished
                     THEN [sessions EXCEPT ![t].cache.term[i] = "hit_completed"]
                     ELSE sessions
      /\ ask' = [ask EXCEPT ![a] = Idle]
      /\ UNCHANGED <<starts, mutations, begun, disk, unreported, reports, up>>

FinishPlain(a) ==
  LET t == ask[a].sid
      c == sessions[t].cache
  IN  /\ ask[a].at = "plain"
      /\ sessions' = IF SameSession(a) /\ ~Fence(t) /\ MayServe(c, ask[a].spec)
                     THEN [sessions EXCEPT ![t].cache = Terminal(c, ask[a].spec, "hit_completed")]
                     ELSE sessions
      /\ ask' = [ask EXCEPT ![a] = Idle]
      /\ UNCHANGED <<starts, mutations, begun, disk, unreported, reports, up>>

\* Giving up the speculation and forgetting the chain it belongs to.
ChainMiss_SpecOnly(a, s, i) == [s EXCEPT !.cache = GiveUp(@, i)]

\* _finish_chain_claim when the wait timed out or the claim is not the chain's
\* any more: the owner discards the chain, anyone else only the speculation.
ChainMiss(a, s, i) ==
  IF HasChain(s) /\ s.claim = a THEN DiscardChain(s)
  ELSE [s EXCEPT !.cache = DiscardSpec(IF @.term[i] = "none"
                                       THEN Terminal(@, i, "discarded") ELSE @, i)]

FinishChain(a, completed) ==
  LET t == ask[a].sid
      i == ask[a].spec
      s == sessions[t]
      c == s.cache
      serves == /\ completed
                /\ HasChain(s) /\ s.claim = a
                /\ ~Fence(t)
                /\ MayServe(c, i)
  IN  /\ ask[a].at = "chain"
      /\ (SameSession(a) /\ completed) => i \in c.done
      /\ sessions' =
           IF ~SameSession(a) THEN sessions
           ELSE IF serves
           THEN [sessions EXCEPT ![t] =
                   [s EXCEPT !.cache = Terminal(c, i, "hit_completed"),
                             !.chain = NoChain, !.claim = NoAsker]]
           ELSE [sessions EXCEPT ![t] = ChainMiss(a, s, i)]
      /\ ask' = [ask EXCEPT ![a] = Idle]
      /\ UNCHANGED <<starts, mutations, begun, disk, unreported, reports, up>>

-----------------------------------------------------------------------------
Lifecycle == Shutdown \/ \E t \in Sids : SessionStart(t) \/ SessionEnd(t)

Host ==
  \/ \E t \in Sids :
       \/ \E w \in Writes \cup {NoWrite} : MutationBegin(t, w)
       \/ \E p \in Predictions :
            \/ ReportFree(t, p)
            \/ \E c \in sessions[t].completed : ReportMutation(t, c, p)
            \/ \E w \in Writes \cup {NoWrite} : ReportUnfenced(t, w, p)
       \/ \E w \in Writes : UnfencedWrite(t, w)
       \/ \E call \in Calls : StreamGet(t, call)
       \/ \E call \in Calls \cup {NoCall}, forks \in BOOLEAN :
            \/ \E m \in mutations : Feed(t, m, call, forks)
            \/ \E w \in Writes : FeedUnfenced(t, w, call, forks)
  \/ \E m \in mutations :
       \/ Execute(m)
       \/ \E success \in BOOLEAN : MutationEnd(m, success)

Pool ==
  \E t \in Sids :
    \/ ChainFailed(t)
    \/ \E i \in sessions[t].cache.jobs :
         WorkerRun(t, i) \/ WorkerReturn(t, i) \/ WorkerRaise(t, i)

Resolve ==
  \E a \in Askers :
    \/ \E t \in Sids :
         \/ \E call \in Calls : ResolvePlain(a, t, call) \/ ResolveChain(a, t, call)
         \/ \E w \in Writes : ResolveEdit(a, t, w)
    \/ FinishPlain(a)
    \/ \E completed \in BOOLEAN : FinishChain(a, completed)

Next == Lifecycle \/ Host \/ Pool \/ Resolve

Spec == Init /\ [][Next]_vars

-----------------------------------------------------------------------------
(* Properties *)

ChainType == [write : Writes \cup {NoWrite}, hop : Calls \cup {NoCall},
              spec : Nat, cursor : 0 .. 2]

TaskType == [lane : {"get", "chain"}, at : {"queued", "ran", "done", "raising", "failed"},
             write : Writes \cup {NoWrite}, val : DiskState]

SessionType ==
  [inc : Nat, cache : CacheType, tasks : Seq(TaskType), chain : ChainType,
   claim : Askers \cup {NoAsker}, mutation : Nat, streamed : BOOLEAN,
   completed : SUBSET [id : Nat, preserved : BOOLEAN]]

MutationType == [id : Nat, sid : Sids, repo : Repos, write : Writes \cup {NoWrite},
                 conflicted : BOOLEAN, executed : BOOLEAN]

AskType == [at : {"plain", "chain"}, sid : Sids, inc : Nat \ {0}, spec : Nat \ {0}]

TypeOK ==
  /\ sessions \in [Sids -> SessionType]
  /\ \A t \in Sids :
       LET s == sessions[t]
       IN  /\ CacheTypeOK(s.cache)
           /\ s.chain.spec \in {0} \cup SpecIds(s.cache)
           /\ Len(s.tasks) = Len(s.cache.specs)
           /\ s.mutation <= begun
           /\ s.inc = 0 \/ s.inc = starts[t]
           /\ s.inc = 0 => s = NoSession
  /\ starts \in [Sids -> Nat]
  /\ mutations \subseteq MutationType
  /\ \A m \in mutations : m.id <= begun /\ m.repo = RepoOf[m.sid]
  /\ begun \in Nat
  /\ disk \in [Repos -> DiskState]
  /\ ask \in [Askers -> AskType \cup {Idle}]

\* While a mutation of its repository is active a session holds no live job,
\* except the hop of the chain that the only, unconflicted mutation streamed: all
\* that was in flight at mutation_begin is gone and nothing is launched behind
\* the fence, by any session of the repository (daemon.py:249-267, 325-331, 440).
FenceQuiet ==
  \A t \in Sids :
    Fence(t) =>
      \A i \in sessions[t].cache.jobs :
        /\ HasChain(sessions[t]) /\ sessions[t].chain.spec = i
        /\ \E m \in mutations :
             /\ Active(RepoOf[t]) = {m} /\ ~m.conflicted
             /\ m.sid = t /\ m.id = sessions[t].mutation
             /\ m.write = sessions[t].chain.write

\* Outside a fence every live job that has read its repository has read what is
\* there now, whether it ran before, behind or after a fence, in the repository
\* or in a fork, and whichever session changed it.
LiveResultsCurrent ==
  Fenced =>
    \A t \in Sids :
      ~Fence(t) =>
        \A i \in sessions[t].cache.jobs :
          sessions[t].tasks[i].at \in {"ran", "done"}
            => sessions[t].tasks[i].val = disk[RepoOf[t]]

\* A chain that outlives its fence stands on a write that is on the disk, so an
\* edit that resolve answers from it was made: _write_is_committed is asked, and
\* no other mutation can have run since (daemon.py:276-283).
ChainWriteCommitted ==
  Fenced =>
    \A t \in Sids :
      HasChain(sessions[t]) /\ ~Fence(t)
        => disk[RepoOf[t]].file = sessions[t].chain.write

\* A caller inside resolve owns the occurrence it waits for, alone.  A chain is
\* claimed only by a caller that is still inside resolve, waits for that chain's
\* hop and will release it: no claim outlives its owner and turns every later
\* call of the session into a miss (daemon.py:616, 647-670).
ClaimOwned ==
  /\ \A a, b \in Askers :
       a # b /\ ask[a].at # "idle" /\ ask[b].at # "idle"
         => \/ ask[a].sid # ask[b].sid
            \/ ask[a].inc # ask[b].inc
            \/ ask[a].spec # ask[b].spec
  /\ \A t \in Sids :
       LET s == sessions[t]
       IN  s.claim # NoAsker =>
             /\ HasChain(s) /\ s.chain.cursor = 2
             /\ ask[s.claim] = [at |-> "chain", sid |-> t, inc |-> s.inc, spec |-> s.chain.spec]

\* A discarded, replaced, expired and late chain never settles a speculation a
\* second time: no handler meets the ValueError of Ledger.terminal.
SettledOnce ==
  \A t \in Sids : NoValueError(sessions[t].cache)

\* Of one session.  A chain's hop is a chain task for the chain's write, and unsettled as
\* long as it is live.  A live chain task is the hop of the chain or was served.
SessionOK(s) ==
  /\ s \in SessionType
  /\ CacheInv(s.cache)
  /\ Len(s.tasks) = Len(s.cache.specs)
  /\ s.chain.spec \in {0} \cup SpecIds(s.cache)
  /\ HasChain(s) => s.chain.write \in Writes
  /\ s.chain.hop = NoCall => s.chain.spec = 0
  /\ s.chain.spec # 0 =>
       /\ s.tasks[s.chain.spec].lane = "chain"
       /\ s.tasks[s.chain.spec].write = s.chain.write
       /\ s.chain.spec \in s.cache.jobs => s.cache.term[s.chain.spec] = "none"
  /\ \A i \in s.cache.jobs :
       /\ i \in s.cache.finished => s.tasks[i].at = "done"
       /\ s.tasks[i].lane = "chain" /\ i # s.chain.spec =>
            s.tasks[i].at = "done" /\ s.cache.term[i] \in Hits

\* What a chain's task has read behind a fence is the disk with its write applied, unless
\* the command has run since and went wrong.
FencedReads ==
  \A t \in Sids, m \in mutations :
    Active(RepoOf[t]) = {m} =>
      \A i \in sessions[t].cache.jobs :
        sessions[t].tasks[i].at \in {"ran", "done"} =>
          /\ sessions[t].tasks[i].val.file = sessions[t].chain.write
          /\ \/ sessions[t].tasks[i].val.base = disk[RepoOf[t]].base
             \/ m.executed /\ disk[RepoOf[t]].file = Other

\* The serve count has passed what a caller waits for, as long as the session is the one
\* that it called.
WaitsBehind ==
  \A a \in Askers :
    ask[a].at # "idle" =>
      /\ ask[a].inc <= starts[ask[a].sid]
      /\ ask[a].inc = sessions[ask[a].sid].inc =>
           /\ ask[a].spec \in SpecIds(sessions[ask[a].sid].cache)
           /\ Behind(sessions[ask[a].sid].cache, ask[a].spec)
           /\ ask[a].at = "plain" => sessions[ask[a].sid].tasks[ask[a].spec].lane = "get"

\* All of this holds together: a fence is quiet because every launch looks at it and every
\* begin expires what is live; what is live outside of it is current because it was read
\* since the last fence, or by a chain whose write that fence committed; and a caller that
\* comes back is served only from there.
DaemonInv ==
  /\ TypeOK
  /\ \A t \in Sids : SessionOK(sessions[t])
  /\ Fenced \/ mutations = {}
  /\ FenceQuiet /\ FencedReads
  /\ LiveResultsCurrent /\ ChainWriteCommitted
  /\ WaitsBehind /\ ClaimOwned

\* Every write of t's repository has been reported.
AllReported(t) == \A u \in unreported : RepoOf[u.sid] # RepoOf[t]

\* What ReportedReadsCurrent rests on when hosts report a command and nothing else: once
\* all is reported, a live read has read what is there, because a report expires what
\* was read before the write.
ReportedReads ==
  ~Fenced =>
    \A t \in Sids :
      AllReported(t) =>
        \A i \in sessions[t].cache.jobs :
          /\ sessions[t].tasks[i].lane = "get"
          /\ sessions[t].tasks[i].at \in {"ran", "done"}
          => sessions[t].tasks[i].val = disk[RepoOf[t]]

\* The speculations of t that this step serves to a caller of resolve.
ServedNow(t) ==
  {i \in SpecIds(sessions[t].cache) :
     /\ sessions'[t].inc = sessions[t].inc
     /\ sessions[t].cache.term[i] \notin Hits
     /\ sessions'[t].cache.term[i] \in Hits}

\* What resolve serves is what the call would answer if it ran now, although the
\* lock was dropped while the caller waited: mutations may have begun and ended,
\* and the session may have ended or been replaced (daemon.py:582-605).
ServedIsCurrent ==
  [][\A t \in Sids : \A i \in ServedNow(t) :
       ~Fence(t) /\ sessions[t].tasks[i].val = disk[RepoOf[t]]]_vars

\* Hosts that only report what they ran: between a write and its report nothing
\* can be known, but once every write of the repository was reported, a read that
\* is served is current (README.md:30, "Cache: checks exact calls, invocation
\* identity and tracked state before reusing results").
ReportedReadsCurrent ==
  [][\A t \in Sids : \A i \in ServedNow(t) :
       sessions[t].tasks[i].lane = "get" /\ AllReported(t)
       => sessions[t].tasks[i].val = disk[RepoOf[t]]]_vars

=============================================================================
