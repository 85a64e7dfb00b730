----------------------------- MODULE SpecCache -----------------------------
(***************************************************************************)
(* One session's speculations while several threads use them: the daemon's *)
(* handlers reserve, settle and expire them, pool threads of the Executor  *)
(* (src/sfx/executor.py) run them, and callers of Cache.serve or of        *)
(* Daemon.resolve claim one, wait for its event outside every lock and     *)
(* come back to finish the claim.                                          *)
(*                                                                         *)
(* The step of a pool thread that stores a result and the return of its    *)
(* future are one step, and so are dropping a failed job and marking its   *)
(* Spec failed: only free_slots reads the second half of each, and it may  *)
(* count the slot as used for an instant longer.                           *)
(***************************************************************************)
EXTENDS Cache

CONSTANTS
  Askers,      \* threads that may ask for a call at the same time
  Slots,       \* Executor.slots, also the size of its thread pool
  Timeouts,    \* TRUE: the wait is bounded (Daemon.resolve), FALSE: it is not (Cache.serve)
  MaxSpecs,    \* bound: reservations made
  MaxEpoch     \* bound: epoch bumps

ASSUME SpecCacheAssumption ==
  /\ Slots \in Nat \ {0}
  /\ Timeouts \in BOOLEAN
  /\ MaxSpecs \in Nat
  /\ MaxEpoch \in Nat

VARIABLES
  cache,       \* the Cache record
  lane,        \* per spec: "get" (Executor.speculate) or "chain" (submit_chain)
  worker,      \* per spec: what its task in the thread pool is doing
  running,     \* Executor.running: the specs that hold a slot
  promoted,    \* the specs whose Spec.promoted is set
  closed,      \* the session ended
  ask,         \* per asker: the spec it claimed and waits for, 0 when idle
  reply        \* per asker: its last answer, the call and the spec served (0: a miss)

vars == <<cache, lane, worker, running, promoted, closed, ask, reply>>
execVars == <<lane, worker, running, promoted, closed>>
askVars == <<ask, reply>>

WorkerStates == {"queued", "busy", "done", "failed", "cancelled"}

TypeOK ==
  /\ CacheTypeOK(cache)
  /\ running \subseteq SpecIds(cache) /\ promoted \subseteq SpecIds(cache)
  /\ lane \in Seq({"get", "chain"}) /\ Len(lane) = Len(cache.specs)
  /\ worker \in Seq(WorkerStates) /\ Len(worker) = Len(cache.specs)
  /\ closed \in BOOLEAN
  /\ ask \in [Askers -> {0} \cup SpecIds(cache)]
  /\ reply \in [Askers -> [call : Calls, spec : {0} \cup SpecIds(cache)]]

Init ==
  /\ cache = EmptyCache
  /\ lane = << >>
  /\ worker = << >>
  /\ running = {}
  /\ promoted = {}
  /\ closed = FALSE
  /\ ask = [a \in Askers |-> 0]
  /\ reply \in [Askers -> {[call |-> c, spec |-> 0] : c \in Calls}]

-----------------------------------------------------------------------------
(* The executor *)

\* Executor.free_slots freeing a slot as soon as its job has an answer,
\* though the thread may still be at work on a job that was dropped.
Occupied_UntilDone == running \ cache.done

\* What free_slots leaves in `running`: tasks that neither failed nor ended.
\* A task's measured duration has elapsed by the time its future is done.
Occupied == {s \in running : worker[s] \notin {"done", "failed"}}

Submit(call, l) ==
  /\ ~closed
  /\ Len(cache.specs) < MaxSpecs
  /\ cache' = Reserve(cache, call)
  /\ lane' = Append(lane, l)
  /\ worker' = Append(worker, "queued")
  /\ UNCHANGED <<promoted, closed, ask, reply>>

Speculate(call) ==
  /\ Cardinality(Occupied) < Slots
  /\ Submit(call, "get")
  /\ running' = Occupied \cup {Len(cache.specs) + 1}

\* No slot: speculate returns None, and has only pruned `running`.
SpeculateRefused ==
  /\ ~closed
  /\ Cardinality(Occupied) >= Slots
  /\ running' = Occupied
  /\ UNCHANGED <<cache, lane, worker, promoted, closed, ask, reply>>

\* Chain jobs use the pool but hold no slot.
SubmitChain(call) == Submit(call, "chain") /\ UNCHANGED running

SetWorker(s, w) == worker' = [worker EXCEPT ![s] = w]

\* The pool runs its queue in order, on at most Slots threads.
WorkerStart(s) ==
  /\ worker[s] = "queued"
  /\ \A t \in 1 .. (s - 1) : worker[t] # "queued"
  /\ Cardinality({t \in SpecIds(cache) : worker[t] = "busy"}) < Slots
  /\ SetWorker(s, "busy")
  /\ UNCHANGED <<cache, lane, running, promoted, closed, ask, reply>>

WorkerReturn(s) ==
  /\ worker[s] = "busy"
  /\ cache' = Complete(cache, s)
  /\ SetWorker(s, "done")
  /\ UNCHANGED <<lane, running, promoted, closed, ask, reply>>

\* The job raised: the reservation is dropped and leaves a hole.
WorkerRaise(s) ==
  /\ worker[s] = "busy"
  /\ cache' = DiscardSpec(cache, s)
  /\ SetWorker(s, "failed")
  /\ UNCHANGED <<lane, running, promoted, closed, ask, reply>>

\* Executor.authoritative(need_slot=True) with every slot taken: the victim of
\* _preempt_one is settled and loses its slot; its task and its job stay.
Preempt(v) ==
  /\ ~closed
  /\ Cardinality(Occupied) >= Slots
  /\ v \in Occupied \ promoted
  /\ cache.term[v] = "none"
  /\ cache' = Terminal(cache, v, "preempted")
  /\ running' = Occupied \ {v}
  /\ UNCHANGED <<lane, worker, promoted, closed, ask, reply>>

-----------------------------------------------------------------------------
(* Callers *)

Ask(a, call) ==
  /\ ~closed
  /\ ask[a] = 0
  /\ \/ \E s \in NextClaim(cache, call) :
          /\ cache' = Claim(cache, s)
          /\ ask' = [ask EXCEPT ![a] = s]
          /\ UNCHANGED reply
     \/ /\ NextClaim(cache, call) = {}
        /\ cache' = ClaimNothing(cache, call)
        /\ reply' = [reply EXCEPT ![a] = [call |-> call, spec |-> 0]]
        /\ UNCHANGED ask
  /\ UNCHANGED execVars

\* Cache.finish after the wait ended, because the event was set or because the
\* time ran out; a result that arrived too late for the wait may still be served.
Return(a) ==
  LET s == ask[a]
  IN  /\ s # 0
      /\ s \in cache.done \/ Timeouts
      /\ ask' = [ask EXCEPT ![a] = 0]
      /\ \/ /\ MayServe(cache, s)
            /\ \E hit \in Hits :
                 /\ cache' = Terminal(cache, s, hit)
                 /\ promoted' = IF hit = "hit_promoted" /\ lane[s] = "get"
                                THEN promoted \cup {s} ELSE promoted
            /\ reply' = [reply EXCEPT ![a] = [call |-> cache.specs[s].call, spec |-> s]]
         \/ /\ ~MayServe(cache, s)
            /\ reply' = [reply EXCEPT ![a] = [call |-> cache.specs[s].call, spec |-> 0]]
            /\ UNCHANGED <<cache, promoted>>
      /\ UNCHANGED <<lane, worker, running, closed>>

-----------------------------------------------------------------------------
(* The daemon *)

\* A chain that is replaced, broken or timed out gives up its speculation.
DropChain(s) ==
  /\ ~closed
  /\ lane[s] = "chain"
  /\ s \in cache.jobs
  /\ cache' = GiveUp(cache, s)
  /\ UNCHANGED <<execVars, ask, reply>>

Invalidate ==
  /\ ~closed
  /\ cache.epoch < MaxEpoch
  /\ cache' = BumpEpoch(cache)
  /\ UNCHANGED <<execVars, ask, reply>>

\* session_end and shutdown: expire everything, then shut the pool down without
\* waiting; tasks that have not started are cancelled.
Close ==
  /\ ~closed
  /\ closed' = TRUE
  /\ cache' = BumpEpoch(cache)
  /\ worker' = [s \in SpecIds(cache) |->
                  IF worker[s] = "queued" THEN "cancelled" ELSE worker[s]]
  /\ UNCHANGED <<lane, running, promoted, ask, reply>>

-----------------------------------------------------------------------------
Next ==
  \/ \E call \in Calls : Speculate(call) \/ SubmitChain(call)
  \/ SpeculateRefused
  \/ \E s \in SpecIds(cache) :
       \/ WorkerStart(s) \/ WorkerReturn(s) \/ WorkerRaise(s)
       \/ Preempt(s) \/ DropChain(s)
  \/ \E a \in Askers : Return(a) \/ \E call \in Calls : Ask(a, call)
  \/ Invalidate
  \/ Close

Spec == Init /\ [][Next]_vars

\* A thread of the pool takes the next task, and a caller whose wait is over gets the
\* lock.  Nothing is assumed of the daemon's handlers, nor of a task that was started:
\* its command runs without a limit (sfx_daemon_run.py:163, 251).
Fairness ==
  /\ \A s \in 1 .. MaxSpecs : WF_vars(s \in SpecIds(cache) /\ WorkerStart(s))
  /\ \A a \in Askers : WF_vars(Return(a))

FairSpec == Spec /\ Fairness

-----------------------------------------------------------------------------
(* Properties *)

\* No two reservations ever share a key, so Cache.jobs[job.key] = job never
\* drops a job that is still in flight: the numbers that failed reservations
\* leave behind are not used again (cache.py:83, "Never reuse their numbers").
KeysDistinct == DistinctKeys(cache)

\* Two callers never wait for the same occurrence, and nobody waits for one that
\* was already served (cache.py:79, "so concurrent asks cannot share it").
ClaimsDisjoint ==
  \A a \in Askers :
    ask[a] # 0 =>
      /\ cache.term[ask[a]] \notin Hits
      /\ \A b \in Askers \ {a} : ask[b] # ask[a]

\* The ledger settles a speculation at most once: handlers, returning callers and
\* preemption race for it, and none of them meets the ValueError of
\* Ledger.terminal.
SettledOnce == NoValueError(cache)

\* The two invariants above hold because of this one: besides what CacheInv says of
\* the cache, the serve count has passed whatever a caller waits for.
WaitsBehind == \A a \in Askers : ask[a] # 0 => Behind(cache, ask[a])

CacheSafe == TypeOK /\ CacheInv(cache) /\ WaitsBehind /\ ClaimsDisjoint

\* GET speculations whose task is waiting or at work and that own their slot.
Working == {s \in SpecIds(cache) : /\ lane[s] = "get"
                                   /\ worker[s] \in {"queued", "busy"}
                                   /\ cache.term[s] # "preempted"}

\* Whoever is at work is in `running`, and free_slots never leaves more than Slots.
SlotsHeld == Working \subseteq running /\ Cardinality(Occupied) <= Slots

IndInv == CacheSafe /\ SlotsHeld

\* Walking over holes skips nothing: a reservation that could be claimed stops
\* being claimable only when a caller claims it or when it is dropped.
NothingSkipped ==
  [][\A s \in SpecIds(cache) :
       LET call == cache.specs[s].call
       IN  s \in Claimable(cache, call) /\ s \notin Claimable(cache', call)
             => \/ s \notin cache'.jobs
                \/ \E a \in Askers : ask[a] = 0 /\ ask'[a] = s]_vars

\* GET speculations at work never outnumber the slots, whatever was expired,
\* served or failed meanwhile; only a preempted one runs on without a slot.
SlotBudget == Cardinality(Working) <= Slots

\* The job a caller waits for is still in the cache and has no result: its command is
\* at work, or waits for a pool whose threads all are.
Held(a) ==
  /\ ask[a] # 0 /\ ask[a] \in cache.jobs \ cache.done
  /\ \/ worker[ask[a]] = "busy"
     \/ /\ worker[ask[a]] = "queued"
        /\ Cardinality({t \in SpecIds(cache) : worker[t] = "busy"}) = Slots

\* A caller that waits without a timeout (Cache.serve) comes back, though the job it
\* waits for may be expired, given up, cancelled, preempted or may fail: only a command
\* that never ends, its own or one before it in the pool, holds it up, and only as long
\* as the job is not dropped (cache.py:118-134, executor.py:38-51).
AsksReturn == \A a \in Askers : []<>(ask[a] = 0) \/ <>[]Held(a)

\* The abstract view of a spec: taken once served, open while it may be served.
OfferState(s) ==
  IF cache.term[s] \in Hits THEN "taken"
  ELSE IF cache.term[s] = "none" /\ s \in cache.jobs THEN "open"
  ELSE "void"

Offers == [s \in SpecIds(cache) |-> [call  |-> cache.specs[s].call,
                                     era   |-> cache.specs[s].epoch,
                                     state |-> OfferState(s)]]

Answers == [a \in Askers |-> [call |-> reply[a].call, offer |-> reply[a].spec]]

Promise == INSTANCE SpecPromise WITH era <- cache.epoch, offers <- Offers, answer <- Answers

\* The cache keeps SpecPromise's promise: a caller is served only a speculation
\* that is open, for the call it asked for and of the epoch at the time of the
\* answer, never one that was settled, and each speculation once.
ImplementsPromise == Promise!Spec

=============================================================================
