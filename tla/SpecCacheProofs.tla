-------------------------- MODULE SpecCacheProofs --------------------------
(***************************************************************************)
(* Invariants of SpecCache for every number of calls, callers and slots    *)
(* and for every bound.  CacheSafe says of the cache what each of its methods *)
(* keeps (module CacheProofs) and of the callers that the serve count has  *)
(* passed what they wait for; a claim takes a spec the count has not       *)
(* passed, so it can be neither waited for nor served already.             *)
(***************************************************************************)
EXTENDS SpecCache, CacheProofs, FiniteSetTheorems

ExecOK ==
  /\ running \subseteq SpecIds(cache) /\ promoted \subseteq SpecIds(cache)
  /\ lane \in Seq({"get", "chain"}) /\ Len(lane) = Len(cache.specs)
  /\ worker \in Seq(WorkerStates) /\ Len(worker) = Len(cache.specs)
  /\ closed \in BOOLEAN

AskOK ==
  /\ ask \in [Askers -> {0} \cup SpecIds(cache)]
  /\ reply \in [Askers -> [call : Calls, spec : {0} \cup SpecIds(cache)]]

-----------------------------------------------------------------------------
(* Nothing is cached and nobody waits when a session starts. *)
LEMMA InitCacheSafe == Init => CacheSafe
<1> SUFFICES ASSUME Init PROVE CacheSafe
  OBVIOUS
<1>1. CacheInv(cache) /\ CacheTypeOK(cache) /\ SpecIds(cache) = {} /\ Len(cache.specs) = 0
  <2>1. cache = EmptyCache /\ CacheInv(cache)
    BY EmptyCacheInv DEF Init
  <2>2. CacheTypeOK(cache)
    BY <2>1 DEF CacheInv
  <2> QED
    BY <2>1, <2>2 DEF EmptyCache, SpecIds
<1>2. TypeOK
  <2>1. lane = << >> /\ worker = << >> /\ running = {} /\ promoted = {} /\ closed = FALSE
    BY DEF Init
  <2>2. /\ lane \in Seq({"get", "chain"}) /\ Len(lane) = 0
        /\ worker \in Seq(WorkerStates) /\ Len(worker) = 0
    BY <2>1, EmptySeq
  <2>3. ask \in [Askers -> {0} \cup SpecIds(cache)]
    BY DEF Init
  <2>4. reply \in [Askers -> [call : Calls, spec : {0} \cup SpecIds(cache)]]
    BY DEF Init
  <2> QED
    BY <1>1, <2>1, <2>2, <2>3, <2>4 DEF TypeOK
<1>3. WaitsBehind /\ ClaimsDisjoint
  BY DEF Init, WaitsBehind, ClaimsDisjoint
<1> QED
  BY <1>1, <1>2, <1>3 DEF CacheSafe

(* A step of the cache that serves nobody, with the callers left alone, keeps *)
(* what CacheSafe says of them.                                                  *)
LEMMA CallersKept ==
  ASSUME CacheSafe, CacheInv(cache'), Moves(cache, cache'), NoNewHit(cache, cache'),
         UNCHANGED askVars
  PROVE  AskOK' /\ WaitsBehind' /\ ClaimsDisjoint'
<1>1. CacheTypeOK(cache) /\ CacheInv(cache) /\ CacheTypeOK(cache')
  BY DEF CacheSafe, CacheInv
<1>2. SpecIds(cache) \subseteq SpecIds(cache')
  BY <1>1, CacheFields DEF Moves, SpecIds
<1>3. AskOK'
  BY <1>2 DEF CacheSafe, TypeOK, AskOK, askVars
<1>4. ASSUME NEW a \in Askers, ask[a] # 0
      PROVE  ask[a] \in SpecIds(cache) /\ Behind(cache', ask[a])
  <2>1. ask[a] \in SpecIds(cache) /\ Behind(cache, ask[a])
    BY <1>4 DEF CacheSafe, TypeOK, WaitsBehind
  <2> QED
    BY <1>1, <2>1, BehindStays
<1>5. WaitsBehind'
  BY <1>4 DEF WaitsBehind, askVars
<1>6. ClaimsDisjoint'
  BY <1>4 DEF CacheSafe, ClaimsDisjoint, NoNewHit, askVars
<1> QED
  BY <1>3, <1>5, <1>6

(* The tasks, slots and promotions keep their types when the cache moves on   *)
(* without reserving and no task is added.                                    *)
LEMMA ExecKept ==
  ASSUME CacheSafe, Len(cache'.specs) = Len(cache.specs),
         lane' = lane, closed' \in BOOLEAN,
         worker' \in Seq(WorkerStates), Len(worker') = Len(worker),
         running' \subseteq SpecIds(cache), promoted' \subseteq SpecIds(cache)
  PROVE  ExecOK'
  BY DEF CacheSafe, TypeOK, ExecOK, SpecIds

(* Putting the parts together. *)
LEMMA CacheSafePrime ==
  CacheInv(cache') /\ ExecOK' /\ AskOK' /\ WaitsBehind' /\ ClaimsDisjoint' => CacheSafe'
  BY DEF CacheSafe, TypeOK, CacheInv, ExecOK, AskOK

-----------------------------------------------------------------------------
(* One lemma per action. *)

(* Executor.speculate and submit_chain reserve (executor.py:47-65). *)
LEMMA SubmitStep ==
  ASSUME CacheSafe, NEW call \in Calls, NEW l \in {"get", "chain"}, Submit(call, l),
         running' \subseteq SpecIds(cache) \cup {Len(cache.specs) + 1}
  PROVE  CacheSafe'
<1>1. CacheInv(cache) /\ CacheTypeOK(cache)
  BY DEF CacheSafe, CacheInv
<1>2. /\ CacheInv(cache') /\ Moves(cache, cache') /\ NoNewHit(cache, cache')
      /\ Len(cache'.specs) = Len(cache.specs) + 1
  BY <1>1, ReserveInv DEF Submit
<1>3. SpecIds(cache') = SpecIds(cache) \cup {Len(cache.specs) + 1}
  BY <1>1, <1>2, CacheFields DEF SpecIds
<1>4. /\ lane' \in Seq({"get", "chain"}) /\ Len(lane') = Len(cache.specs) + 1
      /\ worker' \in Seq(WorkerStates) /\ Len(worker') = Len(cache.specs) + 1
  BY AppendProperties DEF Submit, CacheSafe, TypeOK, WorkerStates
<1>5. ExecOK'
  BY <1>2, <1>3, <1>4 DEF ExecOK, Submit, CacheSafe, TypeOK
<1>6. AskOK' /\ WaitsBehind' /\ ClaimsDisjoint'
  BY <1>2, CallersKept DEF Submit, askVars
<1> QED
  BY <1>2, <1>5, <1>6, CacheSafePrime

LEMMA SpeculateStep ==
  ASSUME CacheSafe, NEW call \in Calls, Speculate(call) PROVE CacheSafe'
<1>1. running' \subseteq SpecIds(cache) \cup {Len(cache.specs) + 1}
  BY DEF Speculate, Occupied, CacheSafe, TypeOK
<1> QED
  BY <1>1, SubmitStep DEF Speculate

LEMMA SubmitChainStep ==
  ASSUME CacheSafe, NEW call \in Calls, SubmitChain(call) PROVE CacheSafe'
  BY SubmitStep DEF SubmitChain, CacheSafe, TypeOK

(* A step that changes no more of the cache than its jobs, results and       *)
(* settlements, without a hit, and leaves the callers alone.                 *)
LEMMA QuietStep ==
  ASSUME CacheSafe, CacheInv(cache'), Moves(cache, cache'), NoNewHit(cache, cache'),
         Len(cache'.specs) = Len(cache.specs), UNCHANGED <<lane, ask, reply>>,
         closed' \in BOOLEAN, worker' \in Seq(WorkerStates), Len(worker') = Len(worker),
         running' \subseteq SpecIds(cache), promoted' \subseteq SpecIds(cache)
  PROVE  CacheSafe'
<1>1. ExecOK'
  BY ExecKept
<1>2. AskOK' /\ WaitsBehind' /\ ClaimsDisjoint'
  BY CallersKept DEF askVars
<1> QED
  BY <1>1, <1>2, CacheSafePrime

LEMMA Types ==
  ASSUME CacheSafe
  PROVE  /\ CacheInv(cache) /\ CacheTypeOK(cache)
         /\ Moves(cache, cache) /\ NoNewHit(cache, cache)
         /\ worker \in Seq(WorkerStates) /\ Len(worker) = Len(cache.specs)
         /\ running \subseteq SpecIds(cache) /\ promoted \subseteq SpecIds(cache)
         /\ Occupied \subseteq SpecIds(cache)
         /\ lane \in Seq({"get", "chain"}) /\ closed \in BOOLEAN
<1>1. CacheInv(cache) /\ CacheTypeOK(cache)
  BY DEF CacheSafe, CacheInv
<1>2. Moves(cache, cache) /\ NoNewHit(cache, cache)
  BY <1>1, CacheFields DEF Moves, NoNewHit
<1> QED
  BY <1>1, <1>2 DEF CacheSafe, TypeOK, Occupied

(* Executor.free_slots alone, and the steps of a pool thread.               *)
LEMMA SpeculateRefusedStep ==
  ASSUME CacheSafe, SpeculateRefused PROVE CacheSafe'
  BY Types, QuietStep DEF SpeculateRefused

LEMMA SetWorkerType ==
  ASSUME CacheSafe, NEW s \in SpecIds(cache), NEW w \in WorkerStates, SetWorker(s, w)
  PROVE  worker' \in Seq(WorkerStates) /\ Len(worker') = Len(worker)
  BY Types, ExceptSeq DEF SetWorker, SpecIds

LEMMA WorkerStartStep ==
  ASSUME CacheSafe, NEW s \in SpecIds(cache), WorkerStart(s) PROVE CacheSafe'
<1>1. worker' \in Seq(WorkerStates) /\ Len(worker') = Len(worker)
  BY SetWorkerType DEF WorkerStart, WorkerStates
<1> QED
  BY <1>1, Types, QuietStep DEF WorkerStart

LEMMA WorkerReturnStep ==
  ASSUME CacheSafe, NEW s \in SpecIds(cache), WorkerReturn(s) PROVE CacheSafe'
<1>1. worker' \in Seq(WorkerStates) /\ Len(worker') = Len(worker)
  BY SetWorkerType DEF WorkerReturn, WorkerStates
<1>2. CacheInv(cache') /\ Moves(cache, cache') /\ NoNewHit(cache, cache')
  BY Types, CompleteInv DEF WorkerReturn
<1>3. cache'.specs = cache.specs
  BY Types DEF WorkerReturn, Complete, CacheTypeOK, CacheType
<1> QED
  BY <1>1, <1>2, <1>3, Types, QuietStep DEF WorkerReturn

LEMMA WorkerRaiseStep ==
  ASSUME CacheSafe, NEW s \in SpecIds(cache), WorkerRaise(s) PROVE CacheSafe'
<1>1. worker' \in Seq(WorkerStates) /\ Len(worker') = Len(worker)
  BY SetWorkerType DEF WorkerRaise, WorkerStates
<1>2. CacheInv(cache') /\ Moves(cache, cache') /\ NoNewHit(cache, cache')
  BY Types, DiscardSpecInv DEF WorkerRaise
<1>3. cache'.specs = cache.specs
  BY Types DEF WorkerRaise, DiscardSpec, CacheTypeOK, CacheType
<1> QED
  BY <1>1, <1>2, <1>3, Types, QuietStep DEF WorkerRaise

(* Executor._preempt_one settles a spec that nobody settled. *)
LEMMA PreemptStep ==
  ASSUME CacheSafe, NEW v \in SpecIds(cache), Preempt(v) PROVE CacheSafe'
<1>1. CacheInv(cache') /\ Moves(cache, cache') /\ NoNewHit(cache, cache')
  BY Types, TerminalInv DEF Preempt, Terminals, Hits
<1>2. cache'.specs = cache.specs
  BY Types DEF Preempt, Terminal, CacheTypeOK, CacheType
<1>3. running' \subseteq SpecIds(cache)
  BY Types DEF Preempt
<1> QED
  BY <1>1, <1>2, <1>3, Types, QuietStep DEF Preempt

(* Daemon._discard_chain. *)
LEMMA DropChainStep ==
  ASSUME CacheSafe, NEW s \in SpecIds(cache), DropChain(s) PROVE CacheSafe'
<1>1. CacheInv(cache') /\ Moves(cache, cache') /\ NoNewHit(cache, cache')
  BY Types, GiveUpInv DEF DropChain
<1>2. cache'.specs = cache.specs
  BY Types DEF DropChain, GiveUp, DiscardSpec, Terminal, CacheTypeOK, CacheType
<1> QED
  BY <1>1, <1>2, Types, QuietStep DEF DropChain, execVars

(* Daemon._invalidate_repo, session_end and shutdown. *)
LEMMA InvalidateStep ==
  ASSUME CacheSafe, Invalidate PROVE CacheSafe'
<1>1. /\ CacheInv(cache') /\ Moves(cache, cache') /\ NoNewHit(cache, cache')
      /\ cache'.specs = cache.specs
  <2>1. cache' = BumpEpoch(cache)
    BY DEF Invalidate
  <2>2. CacheInv(cache)
    BY Types
  <2> QED BY <2>1, <2>2, BumpEpochInv, Zenon
<1> QED
  BY <1>1, Types, QuietStep DEF Invalidate, execVars

LEMMA CloseStep ==
  ASSUME CacheSafe, Close PROVE CacheSafe'
<1>1. worker' \in [1 .. Len(cache.specs) -> WorkerStates] /\ Len(cache.specs) \in Nat
  BY Types, CacheFields, ElementOfSeq DEF Close, SpecIds, WorkerStates
<1>2. worker' \in Seq(WorkerStates) /\ Len(worker') = Len(worker)
  <2>1. Len(worker) = Len(cache.specs)
    BY Types
  <2>2. worker' \in Seq(WorkerStates)
    BY <1>1, SeqDef
  <2>3. Len(worker') = Len(cache.specs)
    BY <1>1, <2>2, LenProperties
  <2> QED BY <2>1, <2>3, <2>2
<1> QED
  BY <1>2, Types, BumpEpochInv, QuietStep DEF Close

-----------------------------------------------------------------------------
(* The callers *)

(* What a caller waits for stays behind the serve count whatever it does.    *)
LEMMA WaitersKept ==
  ASSUME CacheSafe, CacheInv(cache'), Moves(cache, cache'), NEW a \in Askers, ask[a] # 0
  PROVE  ask[a] \in SpecIds(cache) /\ Behind(cache, ask[a]) /\ Behind(cache', ask[a])
<1>1. ask[a] \in SpecIds(cache) /\ Behind(cache, ask[a])
  BY DEF CacheSafe, TypeOK, WaitsBehind
<1>2. CacheInv(cache) /\ CacheTypeOK(cache')
  BY DEF CacheSafe, CacheInv
<1> QED
  BY <1>1, <1>2, BehindStays

(* Cache.claim: the claimed spec was in front of the serve count, where no   *)
(* spec that somebody waits for or was served is.                            *)
LEMMA AskStep ==
  ASSUME CacheSafe, NEW a \in Askers, NEW call \in Calls, Ask(a, call) PROVE CacheSafe'
<1>1. CASE NextClaim(cache, call) = {}
  <2>1. /\ CacheInv(cache') /\ Moves(cache, cache') /\ NoNewHit(cache, cache')
        /\ cache'.specs = cache.specs /\ cache'.term = cache.term
    <3>1. cache' = ClaimNothing(cache, call)
      BY <1>1 DEF Ask
    <3>2. CacheInv(cache') /\ Moves(cache, cache') /\ NoNewHit(cache, cache')
      BY <3>1, Types, ClaimNothingInv
    <3>3. cache'.specs = cache.specs /\ cache'.term = cache.term
      BY <3>1, Types DEF ClaimNothing, CacheTypeOK, CacheType
    <3> QED
      BY <3>2, <3>3
  <2>2. ask' = ask /\ reply' = [reply EXCEPT ![a] = [call |-> call, spec |-> 0]] /\ UNCHANGED execVars
    BY <1>1 DEF Ask
  <2>3. ExecOK' /\ AskOK'
    BY <2>1, <2>2 DEF ExecOK, AskOK, CacheSafe, TypeOK, SpecIds, execVars
  <2>4. WaitsBehind'
    BY <2>1, <2>2, WaitersKept DEF WaitsBehind
  <2>5. ClaimsDisjoint'
    BY <2>1, <2>2 DEF CacheSafe, ClaimsDisjoint
  <2> QED
    BY <2>1, <2>3, <2>4, <2>5, CacheSafePrime
<1>2. ASSUME NEW s \in NextClaim(cache, call),
             cache' = Claim(cache, s), ask' = [ask EXCEPT ![a] = s], reply' = reply
      PROVE  CacheSafe'
  <2>1. /\ s \in SpecIds(cache) /\ ~Behind(cache, s) /\ Behind(cache', s)
        /\ CacheInv(cache') /\ Moves(cache, cache') /\ NoNewHit(cache, cache')
    BY <1>2, Types, ClaimInv
  <2>2. cache'.specs = cache.specs /\ cache'.term = cache.term
    BY <1>2, Types DEF Claim, CacheTypeOK, CacheType
  <2>3. ExecOK' /\ AskOK'
    BY <1>2, <2>1, <2>2 DEF ExecOK, AskOK, CacheSafe, TypeOK, SpecIds, execVars, Ask
  <2>4. /\ ask \in [Askers -> {0} \cup SpecIds(cache)]
        /\ \A b \in Askers : ask'[b] = IF b = a THEN s ELSE ask[b]
    BY <1>2 DEF CacheSafe, TypeOK
  <2>5. WaitsBehind'
    BY <2>1, <2>4, WaitersKept DEF WaitsBehind
  <2>6. \A b \in Askers : ask[b] # 0 => ask[b] # s
    BY <2>1, WaitersKept
  <2>7. cache.term[s] \notin Hits
    BY <2>1, Types DEF CacheInv, HitsBehind
  <2>8. ClaimsDisjoint'
    <3>1. SUFFICES ASSUME NEW b \in Askers, ask'[b] # 0
                   PROVE  /\ cache'.term[ask'[b]] \notin Hits
                          /\ \A e \in Askers \ {b} : ask'[e] # ask'[b]
      BY DEF ClaimsDisjoint
    <3>2. CASE b = a
      BY <2>2, <2>4, <2>6, <2>7, <3>1, <3>2, Types, CacheFields
    <3>3. CASE b # a
      BY <2>2, <2>4, <2>6, <3>1, <3>3 DEF CacheSafe, ClaimsDisjoint
    <3> QED
      BY <3>2, <3>3
  <2> QED
    BY <2>1, <2>3, <2>5, <2>8, CacheSafePrime
<1> QED
  BY <1>1, <1>2 DEF Ask

(* Cache.finish: a spec nobody settled is served to the one who waits for it. *)
LEMMA ReturnStep ==
  ASSUME CacheSafe, NEW a \in Askers, Return(a) PROVE CacheSafe'
<1> DEFINE s == ask[a]
<1>1. s \in SpecIds(cache) /\ Behind(cache, s)
  BY DEF Return, CacheSafe, TypeOK, WaitsBehind
<1>2. /\ CacheInv(cache') /\ Moves(cache, cache')
      /\ cache'.specs = cache.specs
      /\ \A t \in SpecIds(cache) \ {s} : cache'.term[t] = cache.term[t]
  <2>1. CASE MayServe(cache, s)
    <3>1. PICK hit \in Hits : cache' = Terminal(cache, s, hit)
      BY <2>1 DEF Return
    <3>2. cache.term[s] = "none" /\ hit \in Terminals \ {"none", "ValueError"}
      BY <2>1 DEF MayServe, Hits, Terminals
    <3>3. cache'.specs = cache.specs
      BY <3>1, Types DEF Terminal, CacheTypeOK, CacheType
    <3> HIDE DEF s
    <3> QED
      BY <1>1, <3>1, <3>2, <3>3, Types, TerminalInv
  <2>2. CASE ~MayServe(cache, s)
    BY <2>2, Types DEF Return
  <2> QED
    BY <2>1, <2>2
<1>3. /\ ask' = [ask EXCEPT ![a] = 0]
      /\ UNCHANGED <<lane, worker, running, closed>>
      /\ promoted' \subseteq promoted \cup {s}
      /\ \E i \in {0, s} : reply' = [reply EXCEPT ![a] = [call |-> cache.specs[s].call, spec |-> i]]
  BY DEF Return
<1>4. cache.specs[s].call \in Calls
  BY <1>1, Types, CacheFields
<1> HIDE DEF s
<1>5. ExecOK'
  BY <1>1, <1>2, <1>3 DEF ExecOK, CacheSafe, TypeOK, SpecIds
<1>6. /\ ask \in [Askers -> {0} \cup SpecIds(cache)]
      /\ \A b \in Askers : ask'[b] = IF b = a THEN 0 ELSE ask[b]
  BY <1>3 DEF CacheSafe, TypeOK
<1>7. AskOK'
  BY <1>1, <1>2, <1>3, <1>4 DEF AskOK, CacheSafe, TypeOK, SpecIds
<1>8. WaitsBehind'
  BY <1>2, <1>6, WaitersKept DEF WaitsBehind
<1>9. ClaimsDisjoint'
  <2>1. SUFFICES ASSUME NEW b \in Askers, ask'[b] # 0
                 PROVE  /\ cache'.term[ask'[b]] \notin Hits
                        /\ \A e \in Askers \ {b} : ask'[e] # ask'[b]
    BY DEF ClaimsDisjoint
  <2>2. b # a /\ ask'[b] = ask[b] /\ ask[b] \in SpecIds(cache)
    BY <1>6, <2>1
  <2>3. ask[b] # s /\ cache.term[ask[b]] \notin Hits /\ \A e \in Askers \ {b} : ask[e] # ask[b]
    BY <2>1, <2>2 DEF CacheSafe, ClaimsDisjoint, s
  <2> QED
    BY <1>2, <1>6, <2>1, <2>2, <2>3
<1> QED
  BY <1>2, <1>5, <1>7, <1>8, <1>9, CacheSafePrime

-----------------------------------------------------------------------------
(* The invariant of the cache, the tasks and the callers is inductive. *)
LEMMA NextCacheSafe == CacheSafe /\ [Next]_vars => CacheSafe'
<1> SUFFICES ASSUME CacheSafe, [Next]_vars PROVE CacheSafe'
  OBVIOUS
<1>1. ASSUME NEW call \in Calls, Speculate(call) \/ SubmitChain(call) PROVE CacheSafe'
  BY <1>1, SpeculateStep, SubmitChainStep
<1>2. ASSUME SpeculateRefused PROVE CacheSafe'
  BY <1>2, SpeculateRefusedStep
<1>3. ASSUME NEW s \in SpecIds(cache),
             WorkerStart(s) \/ WorkerReturn(s) \/ WorkerRaise(s) \/ Preempt(s) \/ DropChain(s)
      PROVE  CacheSafe'
  BY <1>3, WorkerStartStep, WorkerReturnStep, WorkerRaiseStep, PreemptStep, DropChainStep
<1>4. ASSUME NEW a \in Askers, Return(a) PROVE CacheSafe'
  BY <1>4, ReturnStep
<1>5. ASSUME NEW a \in Askers, NEW call \in Calls, Ask(a, call) PROVE CacheSafe'
  BY <1>5, AskStep
<1>6. ASSUME Invalidate \/ Close PROVE CacheSafe'
  BY <1>6, InvalidateStep, CloseStep
<1>7. ASSUME UNCHANGED vars PROVE CacheSafe'
  BY <1>7 DEF vars, CacheSafe, TypeOK, WaitsBehind, ClaimsDisjoint
<1> QED
  BY <1>1, <1>2, <1>3, <1>4, <1>5, <1>6, <1>7 DEF Next

-----------------------------------------------------------------------------
(* The slots *)

(* Specs are finitely many, so slots can be counted. *)
LEMMA OccupiedFinite ==
  ASSUME CacheSafe
  PROVE  /\ IsFiniteSet(Occupied) /\ Cardinality(Occupied) \in Nat
         /\ Occupied \subseteq SpecIds(cache)
<1>1. Len(cache.specs) \in Nat /\ Occupied \subseteq 1 .. Len(cache.specs)
  BY Types, CacheFields DEF SpecIds
<1>2. IsFiniteSet(1 .. Len(cache.specs))
  BY <1>1, FS_Interval
<1> QED
  BY <1>1, <1>2, FS_Subset, FS_CardinalityType DEF SpecIds

(* A step that occupies no further slot leaves at most Slots occupied. *)
LEMMA NoMoreSlots ==
  ASSUME CacheSafe, SlotsHeld, Occupied' \subseteq Occupied, Working' \subseteq running'
  PROVE  SlotsHeld'
<1>1. Cardinality(Occupied') \in Nat /\ Cardinality(Occupied') <= Cardinality(Occupied)
  BY OccupiedFinite, FS_Subset, FS_CardinalityType
<1> QED
  BY <1>1, OccupiedFinite, SpecCacheAssumption DEF SlotsHeld

(* Nothing is reserved, no task that ended is at work again, and a preempted  *)
(* spec stays preempted: whether `running` was pruned or not, whoever is at   *)
(* work holds its slot.                                                       *)
LEMMA SlotsKept ==
  ASSUME CacheSafe, SlotsHeld, lane' = lane, SpecIds(cache') = SpecIds(cache),
         running' \in {running, Occupied},
         \A s \in SpecIds(cache) :
           /\ worker'[s] # worker[s] => worker[s] \in {"queued", "busy"}
           /\ cache.term[s] = "preempted" => cache'.term[s] = "preempted"
  PROVE  SlotsHeld'
<1>1. running \subseteq SpecIds(cache) /\ Working \subseteq running
  BY Types DEF SlotsHeld
<1>2. Occupied' \subseteq Occupied
  BY <1>1 DEF Occupied
<1>3. Working' \subseteq running'
  BY <1>1 DEF Occupied, Working
<1> QED
  BY <1>2, <1>3, NoMoreSlots

(* Executor.speculate reserves only while a slot is free, and holds it. *)
LEMMA SubmitSlots ==
  ASSUME CacheSafe, SlotsHeld, NEW call \in Calls, Speculate(call) \/ SubmitChain(call)
  PROVE  SlotsHeld'
<1> DEFINE n == Len(cache.specs) + 1
<1>1. \E l \in {"get", "chain"} : Submit(call, l) /\ (SubmitChain(call) => l = "chain")
  <2>1. CASE SubmitChain(call)
    BY <2>1 DEF SubmitChain
  <2>2. CASE ~SubmitChain(call)
    BY <2>2 DEF Speculate
  <2> QED BY <2>1, <2>2
<1>2. PICK l \in {"get", "chain"} : Submit(call, l) /\ (SubmitChain(call) => l = "chain")
  BY <1>1
<1>3. /\ SpecIds(cache') = SpecIds(cache) \cup {n} /\ n \notin SpecIds(cache)
      /\ \A s \in SpecIds(cache) : cache'.term[s] = cache.term[s]
  <2>1. Reserved(cache, cache', n, call)
    BY <1>2, Types, ReserveEffect DEF Submit
  <2> HIDE DEF n
  <2> QED
    BY <2>1 DEF Reserved
<1>4. /\ \A s \in SpecIds(cache) : lane'[s] = lane[s] /\ worker'[s] = worker[s]
      /\ lane'[n] = l /\ worker'[n] = "queued"
  <2>1. /\ lane \in Seq({"get", "chain"}) /\ Len(lane) = Len(cache.specs)
        /\ worker \in Seq(WorkerStates) /\ Len(worker) = Len(cache.specs)
        /\ "queued" \in WorkerStates
    BY DEF CacheSafe, TypeOK, WorkerStates
  <2>2. lane' = Append(lane, l) /\ worker' = Append(worker, "queued")
    BY <1>2 DEF Submit
  <2> QED
    BY <2>1, <2>2, AppendProperties DEF SpecIds
<1>5. /\ running \subseteq SpecIds(cache) /\ Working \subseteq running
      /\ Occupied \subseteq SpecIds(cache)
  BY Types DEF SlotsHeld
<1> HIDE DEF n
<1>6. CASE SubmitChain(call)
  <2>1. running' = running /\ l = "chain"
    BY <1>2, <1>6 DEF SubmitChain
  <2>2. Occupied' \subseteq Occupied
    BY <1>4, <1>5, <2>1 DEF Occupied
  <2>3. Working' \subseteq running'
    BY <1>3, <1>4, <1>5, <2>1 DEF Working
  <2> QED
    BY <2>2, <2>3, NoMoreSlots
<1>7. CASE Speculate(call)
  <2>1. running' = Occupied \cup {n} /\ Cardinality(Occupied) < Slots
    BY <1>7 DEF Speculate, n
  <2>2. Occupied' = Occupied \cup {n}
    BY <1>3, <1>4, <1>5, <2>1 DEF Occupied
  <2>3. Working' \subseteq running'
    BY <1>3, <1>4, <1>5, <2>1 DEF Working, Occupied
  <2>4. IsFiniteSet(Occupied) /\ Cardinality(Occupied) \in Nat /\ n \notin Occupied
    BY <1>3, <1>5, OccupiedFinite
  <2>5. Cardinality(Occupied') = Cardinality(Occupied) + 1
    BY <2>2, <2>4, FS_AddElement
  <2> QED
    BY <2>1, <2>3, <2>4, <2>5, SpecCacheAssumption DEF SlotsHeld
<1> QED
  BY <1>6, <1>7

(* Executor._preempt_one takes the slot and leaves the task. *)
LEMMA PreemptSlots ==
  ASSUME CacheSafe, SlotsHeld, NEW v \in SpecIds(cache), Preempt(v)
  PROVE  SlotsHeld'
<1>1. /\ running' = Occupied \ {v} /\ worker' = worker /\ lane' = lane
      /\ cache' = Terminal(cache, v, "preempted") /\ cache.term[v] = "none"
  BY DEF Preempt
<1>2. /\ SpecIds(cache') = SpecIds(cache) /\ cache'.term[v] = "preempted"
      /\ \A s \in SpecIds(cache) \ {v} : cache'.term[s] = cache.term[s]
  BY <1>1, Types, TerminalEffect DEF SpecIds
<1>3. running \subseteq SpecIds(cache) /\ Working \subseteq running
  BY Types DEF SlotsHeld
<1>4. Occupied' \subseteq Occupied
  BY <1>1 DEF Occupied
<1>5. Working' \subseteq running'
  BY <1>1, <1>2, <1>3 DEF Working, Occupied
<1> QED
  BY <1>4, <1>5, NoMoreSlots

(* No other step takes a slot from whoever holds it, or settles a preempted   *)
(* spec in another way.                                                       *)
LEMMA OtherSlots ==
  ASSUME CacheSafe, SlotsHeld, [Next]_vars,
         \A call \in Calls : ~Speculate(call) /\ ~SubmitChain(call),
         \A v \in SpecIds(cache) : ~Preempt(v)
  PROVE  SlotsHeld'
<1>1. CASE SpeculateRefused
  BY <1>1, SlotsKept DEF SpeculateRefused
<1>2. ASSUME NEW s \in SpecIds(cache), WorkerStart(s) \/ WorkerReturn(s) \/ WorkerRaise(s)
      PROVE  SlotsHeld'
  <2>1. /\ worker[s] \in {"queued", "busy"} /\ lane' = lane /\ running' = running
        /\ \E w \in WorkerStates : worker' = [worker EXCEPT ![s] = w]
    BY <1>2 DEF WorkerStart, WorkerReturn, WorkerRaise, SetWorker, WorkerStates
  <2>2. cache'.specs = cache.specs /\ cache'.term = cache.term
    BY <1>2, Types, CompleteEffect, DiscardSpecEffect DEF WorkerStart, WorkerReturn, WorkerRaise
  <2>3. \A t \in SpecIds(cache) : worker'[t] # worker[t] => t = s
    BY <2>1, Types DEF SpecIds
  <2> QED
    BY <2>1, <2>2, <2>3, SlotsKept DEF SpecIds
<1>3. ASSUME NEW s \in SpecIds(cache), DropChain(s) PROVE SlotsHeld'
  <2>1. cache' = GiveUp(cache, s) /\ UNCHANGED execVars
    BY <1>3 DEF DropChain
  <2>2. cache'.specs = cache.specs /\ \A t \in SpecIds(cache) :
          cache.term[t] = "preempted" => cache'.term[t] = "preempted"
    <3>1. CacheInv(cache)
      BY Types
    <3>2. /\ cache'.specs = cache.specs
          /\ cache'.term[s] = IF cache.term[s] = "none" THEN "discarded" ELSE cache.term[s]
          /\ \A t \in SpecIds(cache) \ {s} : cache'.term[t] = cache.term[t]
      BY <2>1, <3>1, GiveUpEffect
    <3> QED BY <3>2
  <2> QED
    BY <2>1, <2>2, SlotsKept DEF execVars, SpecIds
<1>4. ASSUME NEW a \in Askers, Return(a) PROVE SlotsHeld'
  <2> DEFINE s == ask[a]
  <2>1. s \in SpecIds(cache) /\ UNCHANGED <<lane, worker, running>>
    BY <1>4 DEF Return, CacheSafe, TypeOK
  <2>2. cache'.specs = cache.specs /\ \A t \in SpecIds(cache) :
          cache.term[t] = "preempted" => cache'.term[t] = "preempted"
    <3>1. CASE cache' = cache
      BY <3>1
    <3>2. ASSUME NEW hit \in Hits, cache' = Terminal(cache, s, hit), MayServe(cache, s)
          PROVE  cache'.specs = cache.specs /\ \A t \in SpecIds(cache) :
                   cache.term[t] = "preempted" => cache'.term[t] = "preempted"
      <4>1. cache.term[s] = "none"
        BY <3>2 DEF MayServe
      <4> HIDE DEF s
      <4> QED
        BY <2>1, <3>2, <4>1, Types, TerminalEffect
    <3> QED
      BY <1>4, <3>1, <3>2 DEF Return
  <2> QED
    BY <2>1, <2>2, SlotsKept DEF SpecIds
<1>5. ASSUME NEW a \in Askers, NEW call \in Calls, Ask(a, call) PROVE SlotsHeld'
  <2>1. UNCHANGED execVars
    BY <1>5 DEF Ask
  <2>2. cache'.specs = cache.specs /\ cache'.term = cache.term
    BY <1>5, Types, ClaimEffect DEF Ask
  <2> QED
    BY <2>1, <2>2, SlotsKept DEF execVars, SpecIds
<1>6. CASE Invalidate \/ Close
  <2>1. cache' = BumpEpoch(cache) /\ lane' = lane /\ running' = running
    BY <1>6 DEF Invalidate, Close, execVars
  <2>2. cache'.specs = cache.specs /\ \A t \in SpecIds(cache) :
          cache.term[t] = "preempted" => cache'.term[t] = "preempted"
    BY <2>1, Types, BumpEpochEffect
  <2>3. \A t \in SpecIds(cache) : worker'[t] # worker[t] => worker[t] \in {"queued", "busy"}
    BY <1>6 DEF Invalidate, Close, execVars
  <2> QED
    BY <2>1, <2>2, <2>3, SlotsKept DEF SpecIds
<1>7. CASE UNCHANGED vars
  BY <1>7, SlotsKept DEF vars
<1> QED
  BY <1>1, <1>2, <1>3, <1>4, <1>5, <1>6, <1>7 DEF Next

(* The whole invariant is inductive. *)
LEMMA InitIndInv == Init => IndInv
<1> SUFFICES ASSUME Init PROVE IndInv
  OBVIOUS
<1>1. CacheSafe /\ running = {} /\ cache.specs = << >>
  BY InitCacheSafe DEF Init, EmptyCache
<1>2. Occupied = {} /\ Working = {}
  BY <1>1 DEF Occupied, Working, SpecIds
<1> QED
  BY <1>1, <1>2, FS_EmptySet, SpecCacheAssumption DEF IndInv, SlotsHeld

LEMMA NextIndInv == IndInv /\ [Next]_vars => IndInv'
<1> SUFFICES ASSUME CacheSafe, SlotsHeld, [Next]_vars PROVE SlotsHeld'
  BY NextCacheSafe DEF IndInv
<1> QED
  BY SubmitSlots, PreemptSlots, OtherSlots

(* In every reachable state the cache, the tasks and the callers satisfy the *)
(* inductive invariant, for every set of calls and callers.                  *)
THEOREM IndInvHolds == Spec => []IndInv
  BY InitIndInv, NextIndInv, PTL DEF Spec

(* Type correctness. *)
THEOREM TypeCorrect == Spec => []TypeOK
<1>1. IndInv => TypeOK
  BY DEF IndInv, CacheSafe
<1> QED
  BY <1>1, IndInvHolds, PTL

(* Numbers are never reused: Cache.jobs never replaces a job in flight       *)
(* (cache.py:58, 83).                                                        *)
THEOREM KeysStayDistinct == Spec => []KeysDistinct
<1>1. IndInv => KeysDistinct
  BY DEF IndInv, CacheSafe, CacheInv, KeysDistinct
<1> QED
  BY <1>1, IndInvHolds, PTL

(* However many callers ask, time out and come back, no two ever hold the    *)
(* same occurrence and none holds one that was served (cache.py:78-119).     *)
THEOREM ClaimsStayDisjoint == Spec => []ClaimsDisjoint
<1>1. IndInv => ClaimsDisjoint
  BY DEF IndInv, CacheSafe
<1> QED
  BY <1>1, IndInvHolds, PTL

(* No interleaving of handlers, callers and preemption settles a speculation *)
(* twice: Ledger.terminal never raises (ledger.py:16-27).                    *)
THEOREM LedgerSettlesOnce == Spec => []SettledOnce
<1>1. IndInv => SettledOnce
  BY DEF IndInv, CacheSafe, CacheInv, SettledOnce
<1> QED
  BY <1>1, IndInvHolds, PTL

(* Speculation never takes more than its slots: however specs are served,    *)
(* expired, dropped or fail while their task runs, GET speculations at work   *)
(* that were not preempted number at most Slots (executor.py:29-57).          *)
THEOREM SlotBudgetHolds == Spec => []SlotBudget
<1>1. IndInv => SlotBudget
  <2> SUFFICES ASSUME IndInv PROVE SlotBudget
    OBVIOUS
  <2>1. CacheSafe /\ SlotsHeld
    BY DEF IndInv
  <2>2. Working \subseteq Occupied
    BY <2>1 DEF SlotsHeld, Working, Occupied
  <2>3. Cardinality(Working) \in Nat /\ Cardinality(Working) <= Cardinality(Occupied)
    BY <2>1, <2>2, OccupiedFinite, FS_Subset, FS_CardinalityType
  <2> QED
    BY <2>1, <2>3, OccupiedFinite, SpecCacheAssumption DEF SlotsHeld, SlotBudget
<1> QED
  BY <1>1, IndInvHolds, PTL

-----------------------------------------------------------------------------
(* The refinement of SpecPromise *)

(* A step of SpecPromise, or one it does not see. *)
Kept == [Promise!Next]_(Promise!vars)

LEMMA OffersType ==
  ASSUME CacheSafe
  PROVE  /\ Len(cache.specs) \in Nat /\ Len(Offers) = Len(cache.specs)
         /\ Offers \in Seq([call : Calls, era : Nat, state : {"open", "taken", "void"}])
         /\ Promise!OfferIds = SpecIds(cache)
         /\ \A s \in SpecIds(cache) :
              /\ Offers[s].call = cache.specs[s].call /\ Offers[s].era = cache.specs[s].epoch
              /\ Offers[s].state = OfferState(s)
              /\ Offers[s] = [call |-> cache.specs[s].call, era |-> cache.specs[s].epoch,
                              state |-> OfferState(s)]
              /\ OfferState(s) \in {"open", "taken", "void"}
<1> DEFINE T == [call : Calls, era : Nat, state : {"open", "taken", "void"}]
<1>1. Len(cache.specs) \in Nat /\ SpecIds(cache) = 1 .. Len(cache.specs)
  BY Types, CacheFields DEF SpecIds
<1>2. \A s \in SpecIds(cache) : OfferState(s) \in {"open", "taken", "void"}
  BY DEF OfferState
<1>3. Offers \in [1 .. Len(cache.specs) -> T]
  BY <1>1, <1>2, Types, CacheFields DEF Offers
<1>4. \A s \in SpecIds(cache) :
        Offers[s] = [call |-> cache.specs[s].call, era |-> cache.specs[s].epoch,
                     state |-> OfferState(s)]
  BY DEF Offers
<1>5. Offers \in Seq(T) /\ Len(Offers) = Len(cache.specs)
  <2> HIDE DEF T
  <2>1. Offers \in Seq(T)
    BY <1>1, <1>3, SeqDef
  <2> QED
    BY <1>1, <1>3, <2>1, LenProperties
<1>6. Promise!OfferIds = SpecIds(cache)
  BY <1>1, <1>5 DEF Promise!OfferIds
<1> QED
  BY <1>1, <1>2, <1>4, <1>5, <1>6

(* What SpecPromise sees of the offers: their keys and which of them are open *)
(* or taken.                                                                  *)
LEMMA OffersAre ==
  ASSUME CacheSafe, CacheSafe', SpecIds(cache') = SpecIds(cache),
         \A s \in SpecIds(cache) : cache'.specs[s] = cache.specs[s]
  PROVE  /\ DOMAIN Offers = SpecIds(cache) /\ DOMAIN Offers' = SpecIds(cache)
         /\ \A s \in SpecIds(cache) :
              Offers'[s] = [call |-> Offers[s].call, era |-> Offers[s].era, state |-> OfferState(s)']
  BY DEF Offers

(* Changing the state of an offer. *)
LEMMA OfferWith ==
  ASSUME NEW x, NEW y, NEW z, NEW w
  PROVE  [[call |-> x, era |-> y, state |-> z] EXCEPT !.state = w] = [call |-> x, era |-> y, state |-> w]
  OBVIOUS

(* A step that withdraws at most one open offer. *)
LEMMA OneWithdrawn ==
  ASSUME CacheSafe, CacheSafe', cache'.specs = cache.specs, cache'.epoch = cache.epoch,
         reply' = reply, NEW s \in SpecIds(cache),
         \A t \in SpecIds(cache) \ {s} : OfferState(t)' = OfferState(t),
         \/ OfferState(s)' = OfferState(s)
         \/ OfferState(s) = "open" /\ OfferState(s)' = "void"
  PROVE  Kept
<1>1. SpecIds(cache') = SpecIds(cache) /\ Answers' = Answers
  BY DEF SpecIds, Answers
<1>2. /\ DOMAIN Offers = SpecIds(cache) /\ DOMAIN Offers' = SpecIds(cache)
      /\ \A t \in SpecIds(cache) :
           Offers'[t] = [call |-> Offers[t].call, era |-> Offers[t].era, state |-> OfferState(t)']
  BY <1>1, OffersAre
<1>3. Offers' = [t \in SpecIds(cache) |-> Offers'[t]] /\ Offers = [t \in SpecIds(cache) |-> Offers[t]]
  BY <1>2 DEF Offers
<1>4. CASE OfferState(s)' = OfferState(s)
  <2>1. \A t \in SpecIds(cache) : Offers'[t] = Offers[t]
    BY <1>2, <1>4, OffersType
  <2>2. Offers' = Offers
    BY <1>3, <2>1
  <2> QED
    BY <1>1, <2>2 DEF Kept, Promise!vars
<1>5. CASE OfferState(s) = "open" /\ OfferState(s)' = "void"
  <2>1. Promise!Open(s)
    BY <1>5, OffersType, Types DEF Promise!Open, OfferState, CacheInv, JobsCurrent
  <2>2. \A t \in SpecIds(cache) :
          Offers'[t] = IF t \in {s} THEN [Offers[t] EXCEPT !.state = "void"] ELSE Offers[t]
    <3> SUFFICES ASSUME NEW t \in SpecIds(cache)
                 PROVE  Offers'[t] = IF t \in {s} THEN [Offers[t] EXCEPT !.state = "void"] ELSE Offers[t]
      OBVIOUS
    <3>1. PICK x, y, z : Offers[t] = [call |-> x, era |-> y, state |-> z] /\ z = OfferState(t)
      <4>1. Offers[t] = [call |-> cache.specs[t].call, era |-> cache.specs[t].epoch,
                         state |-> OfferState(t)]
        BY OffersType
      <4> QED BY <4>1
    <3>2. Offers'[t] = [call |-> x, era |-> y, state |-> OfferState(t)']
      BY <1>2, <3>1
    <3>3. [Offers[t] EXCEPT !.state = "void"] = [call |-> x, era |-> y, state |-> "void"]
      BY <3>1, OfferWith
    <3> QED
      BY <1>5, <3>1, <3>2, <3>3
  <2>3. Promise!Void({s})
    <3>1. Offers' = [t \in SpecIds(cache) |-> IF t \in {s} THEN [Offers[t] EXCEPT !.state = "void"]
                                              ELSE Offers[t]]
      BY <1>3, <2>2
    <3> QED
      BY <3>1, OffersType DEF Promise!Void
  <2>4. Promise!Withdraw(s)
    BY <1>1, <2>1, <2>3 DEF Promise!Withdraw
  <2> QED
    BY <2>4, OffersType DEF Kept, Promise!Next
<1> QED
  BY <1>4, <1>5

(* Nothing SpecPromise sees of the offers changes. *)
LEMMA OffersSame ==
  ASSUME CacheSafe, cache'.specs = cache.specs, cache'.term = cache.term, cache'.jobs = cache.jobs
  PROVE  Offers' = Offers
  BY DEF Offers, OfferState, SpecIds

(* A new reservation is a new offer, open and of this era. *)
LEMMA SubmitOffers ==
  ASSUME CacheSafe, CacheSafe', NEW call \in Calls, NEW l, Submit(call, l)
  PROVE  Kept
<1> DEFINE new == [call |-> call, era |-> cache.epoch, state |-> "open"]
           T == [call : Calls, era : Nat, state : {"open", "taken", "void"}]
<1>1. PICK d, n : /\ d = Reserve(cache, call) /\ cache' = d /\ reply' = reply
                  /\ n = Len(cache.specs) + 1
  BY DEF Submit
<1>2. Reserved(cache, d, n, call) /\ Len(cache.specs) \in Nat
  BY <1>1, Types, CacheFields, ReserveEffect
<1>3. SpecIds(d) = SpecIds(cache) \cup {n} /\ n \notin SpecIds(cache) /\ SpecIds(d) = 1 .. n
  BY <1>2 DEF Reserved, SpecIds
<1>4. \A s \in SpecIds(cache) : OfferState(s)' = OfferState(s)
  BY <1>1, <1>2 DEF OfferState, Reserved
<1>5. OfferState(n)' = "open"
  BY <1>1, <1>2 DEF OfferState, Hits, Reserved
<1>6. /\ Offers' = [s \in 1 .. n |-> Offers'[s]]
      /\ Offers'[n] = new /\ \A s \in SpecIds(cache) : Offers'[s] = Offers[s]
  <2>1. Offers' = [s \in 1 .. n |-> Offers'[s]]
    BY <1>1, <1>3 DEF Offers
  <2>2. Offers'[n] = new
    BY <1>1, <1>2, <1>3, <1>5 DEF Offers, NextKey, Reserved
  <2>3. \A s \in SpecIds(cache) : Offers'[s] = Offers[s]
    BY <1>1, <1>2, <1>3, <1>4 DEF Offers, Reserved
  <2> QED
    BY <2>1, <2>2, <2>3
<1>7. Offers' = Append(Offers, new)
  <2>1. Offers \in Seq(T) /\ Len(Offers) = Len(cache.specs) /\ new \in T
    BY OffersType, Types, CacheFields
  <2> HIDE DEF new, T
  <2>2. PICK q : q = Append(Offers, new)
    OBVIOUS
  <2>3. /\ q \in Seq(T) /\ Len(q) = n /\ q[n] = new
        /\ \A s \in 1 .. Len(cache.specs) : q[s] = Offers[s]
    BY <1>1, <1>2, <2>1, <2>2, AppendProperties
  <2>4. q \in [1 .. n -> T]
    BY <2>3, LenProperties
  <2>5. q = [s \in 1 .. n |-> q[s]]
    BY <2>4
  <2>6. \A s \in 1 .. n : Offers'[s] = q[s]
    BY <1>3, <1>6, <2>3 DEF SpecIds
  <2>7. Offers' = q
    BY <1>6, <2>5, <2>6
  <2> QED
    BY <2>2, <2>7
<1>8. Answers' = Answers
  BY <1>1 DEF Answers
<1>9. Promise!Offer(call)
  BY <1>1, <1>2, <1>7, <1>8 DEF Promise!Offer, Reserved
<1> QED
  BY <1>9 DEF Kept, Promise!Next

(* An epoch bump ends the era: every offer that was open is void. *)
LEMMA BumpOffers ==
  ASSUME CacheSafe, CacheSafe', cache' = BumpEpoch(cache), reply' = reply
  PROVE  Kept
<1>1. PICK d : d = BumpEpoch(cache) /\ cache' = d
  OBVIOUS
<1>2. /\ d.jobs = {} /\ d.specs = cache.specs /\ d.epoch = cache.epoch + 1
      /\ \A j \in SpecIds(cache) :
           d.term[j] = IF j \in cache.jobs /\ cache.term[j] = "none" THEN "epoch_expired"
                       ELSE cache.term[j]
  BY <1>1, Types, BumpEpochEffect
<1>3. \A s \in SpecIds(cache) :
        OfferState(s)' = IF OfferState(s) = "open" THEN "void" ELSE OfferState(s)
  BY <1>1, <1>2 DEF OfferState, Hits
<1>4. SpecIds(cache') = SpecIds(cache) /\ \A s \in SpecIds(cache) : cache'.specs[s] = cache.specs[s]
  BY <1>1, <1>2 DEF SpecIds
<1>5. /\ DOMAIN Offers' = SpecIds(cache)
      /\ \A t \in SpecIds(cache) :
           Offers'[t] = [call |-> Offers[t].call, era |-> Offers[t].era, state |-> OfferState(t)']
  BY <1>4, OffersAre
<1> DEFINE S == {i \in SpecIds(cache) : Offers[i].state = "open"}
<1>6. ASSUME NEW t \in SpecIds(cache)
      PROVE  Offers'[t] = IF t \in S THEN [Offers[t] EXCEPT !.state = "void"] ELSE Offers[t]
  <2>1. PICK x, y, z : Offers[t] = [call |-> x, era |-> y, state |-> z] /\ z = OfferState(t)
    BY OffersType
  <2>2. Offers'[t] = [call |-> x, era |-> y, state |-> OfferState(t)']
    BY <1>5, <2>1
  <2>3. [Offers[t] EXCEPT !.state = "void"] = [call |-> x, era |-> y, state |-> "void"]
    BY <2>1, OfferWith
  <2>4. t \in S <=> z = "open"
    BY <2>1
  <2> QED
    BY <1>3, <2>1, <2>2, <2>3, <2>4
<1>7. Offers' = [t \in SpecIds(cache) |-> IF t \in S THEN [Offers[t] EXCEPT !.state = "void"]
                                          ELSE Offers[t]]
  <2>1. Offers' = [t \in SpecIds(cache) |-> Offers'[t]]
    BY <1>5 DEF Offers
  <2> QED
    BY <1>6, <2>1
<1>8. Promise!NewEra
  BY <1>1, <1>2, <1>7, OffersType DEF Promise!NewEra, Promise!Void, Answers
<1> QED
  BY <1>8 DEF Kept, Promise!Next

(* A miss, at once or after the wait, is a refusal. *)
LEMMA MissRefuses ==
  ASSUME CacheSafe, NEW a \in Askers, NEW call \in Calls, Offers' = Offers, cache'.epoch = cache.epoch,
         reply' = [reply EXCEPT ![a] = [call |-> call, spec |-> 0]]
  PROVE  Kept
<1>1. reply \in [Askers -> [call : Calls, spec : {0} \cup SpecIds(cache)]]
  BY DEF CacheSafe, TypeOK
<1>2. Answers' = [Answers EXCEPT ![a] = [call |-> call, offer |-> 0]]
  BY <1>1 DEF Answers
<1>3. Promise!Refuse(a, call)
  BY <1>2 DEF Promise!Refuse
<1> QED
  BY <1>3 DEF Kept, Promise!Next

(* Cache.finish serves the offer the caller waits for, which is still open. *)
LEMMA ServeTakes ==
  ASSUME CacheSafe, CacheSafe', NEW a \in Askers, NEW s \in SpecIds(cache), MayServe(cache, s),
         NEW hit \in Hits, cache' = Terminal(cache, s, hit),
         reply' = [reply EXCEPT ![a] = [call |-> cache.specs[s].call, spec |-> s]]
  PROVE  Kept
<1>1. PICK d : d = Terminal(cache, s, hit) /\ cache' = d
  OBVIOUS
<1>2. cache.term[s] = "none" /\ s \in cache.jobs /\ cache.specs[s].epoch = cache.epoch
  BY DEF MayServe
<1>3. /\ d.specs = cache.specs /\ d.jobs = cache.jobs /\ d.epoch = cache.epoch
      /\ d.term[s] = hit /\ \A j \in SpecIds(cache) \ {s} : d.term[j] = cache.term[j]
  BY <1>1, <1>2, Types, TerminalEffect DEF SameCounts
<1>4. /\ \A t \in SpecIds(cache) \ {s} : OfferState(t)' = OfferState(t)
      /\ OfferState(s) = "open" /\ OfferState(s)' = "taken"
  BY <1>1, <1>2, <1>3 DEF OfferState, Hits
<1>5. SpecIds(cache') = SpecIds(cache) /\ \A t \in SpecIds(cache) : cache'.specs[t] = cache.specs[t]
  BY <1>1, <1>3 DEF SpecIds
<1>6. /\ DOMAIN Offers = SpecIds(cache) /\ DOMAIN Offers' = SpecIds(cache)
      /\ \A t \in SpecIds(cache) :
           Offers'[t] = [call |-> Offers[t].call, era |-> Offers[t].era, state |-> OfferState(t)']
  BY <1>5, OffersAre
<1>7. Promise!Open(s)
  BY <1>2, <1>4, OffersType DEF Promise!Open
<1>8. ASSUME NEW t \in SpecIds(cache)
      PROVE  Offers'[t] = IF t = s THEN [Offers[t] EXCEPT !.state = "taken"] ELSE Offers[t]
  <2>1. PICK x, y, z : Offers[t] = [call |-> x, era |-> y, state |-> z] /\ z = OfferState(t)
    BY OffersType
  <2>2. Offers'[t] = [call |-> x, era |-> y, state |-> OfferState(t)']
    BY <1>6, <2>1
  <2>3. [Offers[t] EXCEPT !.state = "taken"] = [call |-> x, era |-> y, state |-> "taken"]
    BY <2>1, OfferWith
  <2> QED
    BY <1>4, <2>1, <2>2, <2>3
<1>9. Offers' = [Offers EXCEPT ![s].state = "taken"]
  <2>1. Offers' = [t \in SpecIds(cache) |-> Offers'[t]] /\ Offers = [t \in SpecIds(cache) |-> Offers[t]]
    BY <1>6 DEF Offers
  <2>2. Offers' = [t \in SpecIds(cache) |-> IF t = s THEN [Offers[t] EXCEPT !.state = "taken"]
                                            ELSE Offers[t]]
    BY <1>8, <2>1
  <2> QED
    BY <2>1, <2>2
<1>10. Answers' = [Answers EXCEPT ![a] = [call |-> Offers[s].call, offer |-> s]]
  <2>1. reply \in [Askers -> [call : Calls, spec : {0} \cup SpecIds(cache)]]
    BY DEF CacheSafe, TypeOK
  <2>2. Offers[s].call = cache.specs[s].call
    BY OffersType
  <2> QED
    BY <2>1, <2>2 DEF Answers
<1>11. Promise!Take(a, s)
  BY <1>1, <1>3, <1>7, <1>9, <1>10 DEF Promise!Take
<1> QED
  BY <1>11, OffersType DEF Kept, Promise!Next

(* Every step of SpecCache is a step of SpecPromise, or one it does not see. *)
LEMMA StepKeepsPromise ==
  ASSUME CacheSafe, CacheSafe', [Next]_vars
  PROVE  Kept
<1>0. ASSUME Offers' = Offers, cache'.epoch = cache.epoch, reply' = reply PROVE Kept
  BY <1>0 DEF Kept, Promise!vars, Answers
<1>1. ASSUME NEW call \in Calls, Speculate(call) \/ SubmitChain(call) PROVE Kept
  BY <1>1, SubmitOffers DEF Speculate, SubmitChain
<1>2. CASE SpeculateRefused
  BY <1>0, <1>2, OffersSame DEF SpeculateRefused
<1>3. ASSUME NEW s \in SpecIds(cache), WorkerStart(s) \/ WorkerReturn(s) PROVE Kept
  <2>1. /\ cache'.specs = cache.specs /\ cache'.term = cache.term /\ cache'.jobs = cache.jobs
        /\ cache'.epoch = cache.epoch /\ reply' = reply
    BY <1>3, Types, CompleteEffect DEF WorkerStart, WorkerReturn, SameCounts
  <2> QED
    BY <1>0, <2>1, OffersSame
<1>4. ASSUME NEW s \in SpecIds(cache), WorkerRaise(s) PROVE Kept
  <2>1. /\ cache'.specs = cache.specs /\ cache'.term = cache.term /\ cache'.jobs = cache.jobs \ {s}
        /\ cache'.epoch = cache.epoch /\ reply' = reply
    BY <1>4, Types, DiscardSpecEffect DEF WorkerRaise, SameCounts
  <2>2. \A t \in SpecIds(cache) \ {s} : OfferState(t)' = OfferState(t)
    BY <2>1 DEF OfferState
  <2>3. \/ OfferState(s)' = OfferState(s)
        \/ OfferState(s) = "open" /\ OfferState(s)' = "void"
    BY <2>1 DEF OfferState
  <2> QED
    BY <2>1, <2>2, <2>3, OneWithdrawn
<1>5. ASSUME NEW v \in SpecIds(cache), Preempt(v) PROVE Kept
  <2>1. cache' = Terminal(cache, v, "preempted") /\ cache.term[v] = "none" /\ reply' = reply
    BY <1>5 DEF Preempt
  <2>2. /\ cache'.specs = cache.specs /\ cache'.jobs = cache.jobs /\ cache'.epoch = cache.epoch
        /\ cache'.term[v] = "preempted"
        /\ \A j \in SpecIds(cache) \ {v} : cache'.term[j] = cache.term[j]
    BY <2>1, Types, TerminalEffect DEF SameCounts
  <2>3. \A t \in SpecIds(cache) \ {v} : OfferState(t)' = OfferState(t)
    BY <2>2 DEF OfferState
  <2>4. \/ OfferState(v)' = OfferState(v)
        \/ OfferState(v) = "open" /\ OfferState(v)' = "void"
    BY <2>1, <2>2 DEF OfferState, Hits
  <2> QED
    BY <2>1, <2>2, <2>3, <2>4, OneWithdrawn
<1>6. ASSUME NEW s \in SpecIds(cache), DropChain(s) PROVE Kept
  <2>1. PICK d : d = GiveUp(cache, s) /\ cache' = d /\ reply' = reply
    BY <1>6 DEF DropChain
  <2>2. /\ d.specs = cache.specs /\ d.epoch = cache.epoch
        /\ d.jobs = IF cache.term[s] = "none" THEN cache.jobs \ {s} ELSE cache.jobs
        /\ d.term[s] = IF cache.term[s] = "none" THEN "discarded" ELSE cache.term[s]
        /\ \A j \in SpecIds(cache) \ {s} : d.term[j] = cache.term[j]
    BY <2>1, Types, GiveUpEffect DEF SameCounts
  <2>3. \A t \in SpecIds(cache) \ {s} : OfferState(t)' = OfferState(t)
    BY <2>1, <2>2 DEF OfferState
  <2>4. \/ OfferState(s)' = OfferState(s)
        \/ OfferState(s) = "open" /\ OfferState(s)' = "void"
    BY <2>1, <2>2 DEF OfferState, Hits
  <2> QED
    BY <2>1, <2>2, <2>3, <2>4, OneWithdrawn
<1>7. ASSUME NEW a \in Askers, Return(a) PROVE Kept
  <2>1. ask[a] \in SpecIds(cache)
    BY <1>7 DEF Return, CacheSafe, TypeOK
  <2>2. PICK s \in SpecIds(cache) : s = ask[a]
    BY <2>1
  <2>3. CASE MayServe(cache, s)
    <3>1. /\ \E hit \in Hits : cache' = Terminal(cache, s, hit)
          /\ reply' = [reply EXCEPT ![a] = [call |-> cache.specs[s].call, spec |-> s]]
      BY <1>7, <2>2, <2>3 DEF Return
    <3> QED
      BY <2>3, <3>1, ServeTakes
  <2>4. CASE ~MayServe(cache, s)
    <3>1. /\ cache' = cache
          /\ reply' = [reply EXCEPT ![a] = [call |-> cache.specs[s].call, spec |-> 0]]
      BY <1>7, <2>2, <2>4 DEF Return
    <3>2. PICK call \in Calls : call = cache.specs[s].call
      BY Types, CacheFields
    <3> QED
      BY <3>1, <3>2, OffersSame, MissRefuses
  <2> QED
    BY <2>3, <2>4
<1>8. ASSUME NEW a \in Askers, NEW call \in Calls, Ask(a, call) PROVE Kept
  <2>1. /\ cache'.specs = cache.specs /\ cache'.term = cache.term /\ cache'.jobs = cache.jobs
        /\ cache'.epoch = cache.epoch
    BY <1>8, Types, ClaimEffect DEF Ask
  <2>2. reply' = reply \/ reply' = [reply EXCEPT ![a] = [call |-> call, spec |-> 0]]
    BY <1>8 DEF Ask
  <2> QED
    BY <1>0, <2>1, <2>2, OffersSame, MissRefuses
<1>9. CASE Invalidate \/ Close
  BY <1>9, BumpOffers DEF Invalidate, Close
<1>10. CASE UNCHANGED vars
  BY <1>0, <1>10, OffersSame DEF vars
<1> QED
  BY <1>1, <1>2, <1>3, <1>4, <1>5, <1>6, <1>7, <1>8, <1>9, <1>10 DEF Next

(* The cache keeps SpecPromise's promise for any number of callers, calls and *)
(* slots: whatever is served was open, for the call asked and of the epoch at *)
(* the time of the answer (cache.py:98-112).                                  *)
THEOREM KeepsPromise == Spec => ImplementsPromise
<1>1. Init => Promise!Init
  <2> SUFFICES ASSUME Init PROVE Promise!Init
    OBVIOUS
  <2>1. cache.epoch = 0 /\ cache.specs = << >>
    BY DEF Init, EmptyCache
  <2>2. Offers = << >>
    BY <2>1 DEF Offers, SpecIds
  <2>3. Answers \in [Askers -> {[call |-> c, offer |-> 0] : c \in Calls}]
    BY DEF Init, Answers
  <2> QED
    BY <2>1, <2>2, <2>3 DEF Promise!Init
<1>2. IndInv /\ IndInv' /\ [Next]_vars => [Promise!Next]_(Promise!vars)
  BY StepKeepsPromise DEF IndInv, Kept
<1> QED
  BY <1>1, <1>2, IndInvHolds, PTL DEF Spec, ImplementsPromise, Promise!Spec

-----------------------------------------------------------------------------
(* Nothing is skipped *)

Unskipped ==
  \A s \in SpecIds(cache) :
    LET call == cache.specs[s].call
    IN  s \in Claimable(cache, call) /\ s \notin Claimable(cache', call)
          => \/ s \notin cache'.jobs
             \/ \E a \in Askers : ask[a] = 0 /\ ask'[a] = s

(* A step that claims nothing leaves every job claimable that it does not drop. *)
LEMMA SameCountsUnskipped ==
  ASSUME CacheSafe, SameCounts(cache, cache'),
         cache'.specs = cache.specs
  PROVE  Unskipped
<1> SUFFICES ASSUME NEW s \in SpecIds(cache), s \in Claimable(cache, cache.specs[s].call),
                    s \in cache'.jobs
             PROVE  s \in Claimable(cache', cache.specs[s].call)
  BY DEF Unskipped
<1>1. PICK c, d, call : c = cache /\ d = cache' /\ call = cache.specs[s].call
  OBVIOUS
<1>2. call \in Calls /\ c.put[call] \in Nat /\ d.put = c.put /\ d.serve = c.serve /\ d.epoch = c.epoch
  BY <1>1, Types, CacheFields DEF SameCounts
<1>3. CacheTypeOK(c) /\ s \in Claimable(c, call) /\ s \in d.jobs /\ d.specs[s] = c.specs[s]
  BY <1>1, Types
<1>4. s \in Claimable(d, call)
  BY <1>2, <1>3, ClaimableStays
<1> QED
  BY <1>1, <1>4

LEMMA SubmitUnskipped ==
  ASSUME CacheSafe, NEW new \in Calls, NEW l, Submit(new, l)
  PROVE  Unskipped
<1> SUFFICES ASSUME NEW s \in SpecIds(cache), s \in Claimable(cache, cache.specs[s].call)
             PROVE  s \in Claimable(cache', cache.specs[s].call)
  BY DEF Unskipped
<1>1. PICK c, d, call, n : /\ c = cache /\ d = cache' /\ call = cache.specs[s].call
                           /\ n = Len(cache.specs) + 1
  OBVIOUS
<1>2. Reserved(c, d, n, new) /\ CacheTypeOK(c) /\ s \in Claimable(c, call)
  BY <1>1, Types, ReserveEffect DEF Submit
<1>3. call \in Calls /\ c.put \in [Calls -> Nat]
  BY <1>1, Types, CacheFields
<1>4. d.put[call] \in Nat /\ c.put[call] <= d.put[call] /\ d.serve = c.serve /\ d.epoch = c.epoch
  BY <1>2, <1>3 DEF Reserved
<1>5. s \in d.jobs /\ d.specs[s] = c.specs[s]
  BY <1>1, <1>2 DEF Reserved, Claimable
<1>6. s \in Claimable(d, call)
  BY <1>2, <1>4, <1>5, ClaimableStays
<1> QED
  BY <1>1, <1>6

(* Cache.claim moves the count past one job, which goes to the caller, or past *)
(* holes only.                                                                 *)
LEMMA AskUnskipped ==
  ASSUME CacheSafe, NEW a \in Askers, NEW asked \in Calls, Ask(a, asked)
  PROVE  Unskipped
<1> SUFFICES ASSUME NEW s \in SpecIds(cache), s \in Claimable(cache, cache.specs[s].call),
                    s \notin Claimable(cache', cache.specs[s].call)
             PROVE  \E b \in Askers : ask[b] = 0 /\ ask'[b] = s
  BY DEF Unskipped
<1>1. PICK c, call : c = cache /\ call = cache.specs[s].call
  OBVIOUS
<1>2. CacheInv(c) /\ CacheTypeOK(c) /\ s \in Claimable(c, call) /\ call \in Calls
  BY <1>1, Types, CacheFields
<1>3. CASE NextClaim(cache, asked) = {}
  <2>1. cache' = ClaimNothing(cache, asked)
    BY <1>3 DEF Ask
  <2>2. call # asked
    BY <1>1, <1>2, <1>3, NextClaimExists
  <2>3. PICK d : d = ClaimNothing(c, asked) /\ d = cache'
    BY <1>1, <2>1
  <2>4. d.specs = c.specs /\ d.jobs = c.jobs /\ d.epoch = c.epoch /\ d.put = c.put
    BY <1>2, <2>3 DEF ClaimNothing, CacheTypeOK, CacheType
  <2>5. d.serve[call] = c.serve[call]
    BY <1>2, <2>2, <2>3 DEF ClaimNothing, CacheTypeOK, CacheType
  <2>6. s \in c.jobs /\ c.put[call] \in Nat
    BY <1>2, CacheFields DEF Claimable
  <2>7. s \in Claimable(d, call)
    BY <1>2, <2>4, <2>5, <2>6, ClaimableStays
  <2> QED
    BY <1>1, <2>3, <2>7
<1>4. ASSUME NEW t \in NextClaim(cache, asked),
             cache' = Claim(cache, t), ask' = [ask EXCEPT ![a] = t], ask[a] = 0
      PROVE  \E b \in Askers : ask[b] = 0 /\ ask'[b] = s
  <2>1. s = t \/ s \in Claimable(Claim(c, t), call)
    BY <1>1, <1>2, <1>4, ClaimSkipsNone
  <2>2. s = t
    BY <1>1, <1>4, <2>1
  <2>3. ask'[a] = t
    BY <1>4 DEF CacheSafe, TypeOK
  <2> QED
    BY <1>4, <2>2, <2>3
<1> QED
  BY <1>3, <1>4 DEF Ask

LEMMA NextUnskipped ==
  ASSUME CacheSafe, [Next]_vars
  PROVE  Unskipped
<1>1. ASSUME NEW call \in Calls, Speculate(call) \/ SubmitChain(call) PROVE Unskipped
  BY <1>1, SubmitUnskipped DEF Speculate, SubmitChain
<1>2. CASE UNCHANGED cache
  BY <1>2, SameCountsUnskipped DEF SameCounts
<1>3. ASSUME NEW s \in SpecIds(cache), WorkerReturn(s) \/ WorkerRaise(s) PROVE Unskipped
  <2>1. SameCounts(cache, cache') /\ cache'.specs = cache.specs
    BY <1>3, Types, CompleteEffect, DiscardSpecEffect DEF WorkerReturn, WorkerRaise
  <2> QED
    BY <2>1, SameCountsUnskipped
<1>4. ASSUME NEW v \in SpecIds(cache), Preempt(v) PROVE Unskipped
  <2>1. cache' = Terminal(cache, v, "preempted") /\ cache.term[v] = "none"
    BY <1>4 DEF Preempt
  <2>2. SameCounts(cache, cache') /\ cache'.specs = cache.specs
    BY <2>1, Types, TerminalEffect
  <2> QED
    BY <2>2, SameCountsUnskipped
<1>5. ASSUME NEW s \in SpecIds(cache), DropChain(s) PROVE Unskipped
  <2>1. SameCounts(cache, cache') /\ cache'.specs = cache.specs
    BY <1>5, Types, GiveUpEffect DEF DropChain
  <2> QED
    BY <2>1, SameCountsUnskipped
<1>6. ASSUME NEW a \in Askers, Return(a), cache' # cache PROVE Unskipped
  <2>1. PICK s \in SpecIds(cache) : s = ask[a]
    BY <1>6 DEF Return, CacheSafe, TypeOK
  <2>2. /\ \E hit \in Hits : cache' = Terminal(cache, s, hit)
        /\ cache.term[s] = "none"
    BY <1>6, <2>1 DEF Return, MayServe
  <2>3. SameCounts(cache, cache') /\ cache'.specs = cache.specs
    BY <2>2, Types, TerminalEffect
  <2> QED
    BY <2>3, SameCountsUnskipped
<1>7. ASSUME NEW a \in Askers, NEW call \in Calls, Ask(a, call) PROVE Unskipped
  BY <1>7, AskUnskipped
<1>8. CASE Invalidate \/ Close
  <2>1. cache'.jobs = {}
    BY <1>8, Types, BumpEpochEffect DEF Invalidate, Close
  <2> QED
    BY <2>1 DEF Unskipped
<1>9. SpeculateRefused \/ (\E s \in SpecIds(cache) : WorkerStart(s)) \/ UNCHANGED vars => UNCHANGED cache
  BY DEF SpeculateRefused, WorkerStart, vars
<1> QED
  BY <1>1, <1>2, <1>3, <1>4, <1>5, <1>6, <1>7, <1>8, <1>9 DEF Next

(* Walking over the holes that failed and discarded reservations leave, the   *)
(* serve count never passes a live occurrence that nobody claimed             *)
(* (cache.py:78-96).                                                          *)
THEOREM NothingIsSkipped == Spec => NothingSkipped
<1>1. CacheSafe /\ [Next]_vars => Unskipped
  BY NextUnskipped
<1>2. IndInv /\ [Next]_vars => Unskipped
  BY <1>1 DEF IndInv
<1> QED
  BY <1>2, IndInvHolds, PTL DEF Spec, NothingSkipped, Unskipped

=============================================================================
