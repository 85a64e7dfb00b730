-------------------------- MODULE SfxDaemonProofs --------------------------
(***************************************************************************)
(* The daemon's safety properties, for any number of sessions,             *)
(* repositories, calls, writes and callers, and any number of fences.      *)
(* First what the parts of handlers do to a Session record, then one lemma *)
(* per handler; what the cache's methods do is in module CacheProofs.      *)
(***************************************************************************)
EXTENDS SfxDaemon, CacheProofs

-----------------------------------------------------------------------------
(* What the parts of handlers do to one session *)

\* No task of s that is still to be served has read anything new in d.
NoNewRead(s, d) ==
  \A i \in d.cache.jobs :
    d.tasks[i].at \in {"ran", "done"} =>
      /\ i \in s.cache.jobs
      /\ s.tasks[i].at \in {"ran", "done"}
      /\ d.tasks[i].val = s.tasks[i].val /\ d.tasks[i].lane = s.tasks[i].lane

\* The session s moves on to d: it is the same session, its specs keep their
\* keys and lanes, and the chain is claimed by who had claimed it or by nobody.
MovesOn(s, d) ==
  /\ SessionOK(d)
  /\ d.inc = s.inc
  /\ Moves(s.cache, d.cache)
  /\ \A i \in SpecIds(s.cache) : d.tasks[i].lane = s.tasks[i].lane
  /\ d.claim = NoAsker \/ (d.claim = s.claim /\ d.chain = s.chain)

\* The components of a session.
LEMMA SessionFields ==
  ASSUME NEW s, SessionOK(s)
  PROVE  /\ s \in SessionType /\ CacheInv(s.cache) /\ CacheTypeOK(s.cache) /\ s.cache \in CacheType
         /\ s.inc \in Nat /\ s.mutation \in Nat /\ s.chain \in ChainType /\ s.chain.spec \in Nat
         /\ s.chain.spec \in {0} \cup SpecIds(s.cache)
         /\ s.tasks \in Seq(TaskType) /\ Len(s.tasks) = Len(s.cache.specs)
         /\ SpecIds(s.cache) = 1 .. Len(s.tasks) /\ 0 \notin SpecIds(s.cache)
         /\ s.cache.jobs \subseteq SpecIds(s.cache)
         /\ \A i \in SpecIds(s.cache) : s.tasks[i] \in TaskType
<1>1. s \in SessionType /\ CacheInv(s.cache) /\ Len(s.tasks) = Len(s.cache.specs)
  BY DEF SessionOK
<1>2. CacheTypeOK(s.cache) /\ s.cache \in CacheType /\ s.cache.jobs \subseteq SpecIds(s.cache)
  BY <1>1 DEF CacheInv, CacheTypeOK
<1>3. /\ s.inc \in Nat /\ s.mutation \in Nat /\ s.chain \in ChainType
      /\ s.tasks \in Seq(TaskType)
  BY <1>1 DEF SessionType
<1>4. s.chain.spec \in Nat
  BY <1>3 DEF ChainType
<1>5. SpecIds(s.cache) = 1 .. Len(s.tasks) /\ 0 \notin SpecIds(s.cache)
  BY <1>1, <1>2, CacheFields DEF SpecIds
<1>6. \A i \in SpecIds(s.cache) : s.tasks[i] \in TaskType
  BY <1>3, <1>5, ElementOfSeq
<1>7. s.chain.spec \in {0} \cup SpecIds(s.cache)
  BY DEF SessionOK
<1> QED
  BY <1>1, <1>2, <1>3, <1>4, <1>5, <1>6, <1>7

\* A session that does not move.
LEMMA StaysOn ==
  ASSUME NEW s, SessionOK(s)
  PROVE  MovesOn(s, s) /\ NoNewRead(s, s) /\ NoNewHit(s.cache, s.cache)
<1>1. CacheTypeOK(s.cache)
  BY SessionFields
<1>2. Moves(s.cache, s.cache) /\ NoNewHit(s.cache, s.cache)
  BY <1>1, CacheFields DEF Moves, NoNewHit
<1> QED
  BY <1>2 DEF MovesOn, NoNewRead

\* Two moves are one.
LEMMA MovesOnTransitive ==
  ASSUME NEW s, NEW d, NEW e, SessionOK(s), MovesOn(s, d), MovesOn(d, e)
  PROVE  /\ MovesOn(s, e)
         /\ NoNewRead(s, d) /\ NoNewRead(d, e) => NoNewRead(s, e)
         /\ NoNewHit(s.cache, d.cache) /\ NoNewHit(d.cache, e.cache)
              => NoNewHit(s.cache, e.cache)
<1>1. SessionOK(d) /\ SessionOK(e)
  BY DEF MovesOn
<1>2. CacheTypeOK(s.cache) /\ CacheTypeOK(d.cache) /\ CacheTypeOK(e.cache)
  BY <1>1, SessionFields
<1>3. Moves(s.cache, d.cache) /\ Moves(d.cache, e.cache)
  BY DEF MovesOn
<1>4. Moves(s.cache, e.cache) /\ SpecIds(s.cache) \subseteq SpecIds(d.cache)
  BY <1>2, <1>3, MovesTransitive
<1>5. MovesOn(s, e)
  BY <1>1, <1>4 DEF MovesOn
<1>6. NoNewRead(s, d) /\ NoNewRead(d, e) => NoNewRead(s, e)
  BY DEF NoNewRead
<1>7. NoNewHit(s.cache, d.cache) /\ NoNewHit(d.cache, e.cache) => NoNewHit(s.cache, e.cache)
  BY <1>4 DEF NoNewHit
<1> QED
  BY <1>5, <1>6, <1>7

\* _discard_chain (daemon.py:672-685): the hop is dropped if it is live.
LEMMA DiscardChainOK ==
  ASSUME NEW s, SessionOK(s)
  PROVE  LET d == DiscardChain(s)
         IN  /\ MovesOn(s, d) /\ NoNewRead(s, d) /\ NoNewHit(s.cache, d.cache)
             /\ d.chain = NoChain /\ d.claim = NoAsker /\ d.mutation = 0
             /\ d.tasks = s.tasks /\ d.cache.specs = s.cache.specs
             /\ d.cache.jobs = s.cache.jobs \ {s.chain.spec}
<1> DEFINE k == s.chain.spec
           c == IF k # 0 THEN GiveUp(s.cache, k) ELSE s.cache
           d == DiscardChain(s)
<1>1. /\ s \in SessionType /\ CacheInv(s.cache) /\ CacheTypeOK(s.cache)
      /\ k \in {0} \cup SpecIds(s.cache) /\ 0 \notin SpecIds(s.cache)
      /\ s.cache.jobs \subseteq SpecIds(s.cache)
  BY SessionFields
<1>2. /\ CacheInv(c) /\ Moves(s.cache, c) /\ NoNewHit(s.cache, c)
      /\ c.specs = s.cache.specs /\ c.finished = s.cache.finished
      /\ c.jobs = s.cache.jobs \ {k}
      /\ \A j \in SpecIds(s.cache) \ {k} : c.term[j] = s.cache.term[j]
  <2>1. CASE k = 0
    <3>1. Moves(s.cache, s.cache) /\ NoNewHit(s.cache, s.cache)
      BY StaysOn DEF MovesOn
    <3> QED BY <1>1, <2>1, <3>1
  <2>2. CASE k # 0
    <3>1. k \in SpecIds(s.cache) /\ (k \in s.cache.jobs => s.cache.term[k] = "none")
      BY <1>1, <2>2 DEF SessionOK
    <3>2. c = GiveUp(s.cache, k)
      BY <2>2
    <3> HIDE DEF c
    <3>3. CacheInv(c) /\ Moves(s.cache, c) /\ NoNewHit(s.cache, c)
      BY <1>1, <3>1, <3>2, GiveUpInv
    <3>4. /\ c.specs = s.cache.specs /\ c.finished = s.cache.finished
          /\ c.jobs = IF s.cache.term[k] = "none" THEN s.cache.jobs \ {k} ELSE s.cache.jobs
          /\ \A j \in SpecIds(s.cache) \ {k} : c.term[j] = s.cache.term[j]
      <4>1. CacheInv(s.cache)
        BY <1>1
      <4> QED BY <3>1, <3>2, <4>1, GiveUpEffect
    <3> QED BY <3>1, <3>3, <3>4
  <2> QED BY <2>1, <2>2
<1>3. c \in CacheType /\ NoChain \in ChainType
  BY <1>2 DEF CacheInv, CacheTypeOK, NoChain, ChainType
<1>4. d = [s EXCEPT !.cache = c, !.chain = NoChain, !.claim = NoAsker, !.mutation = 0]
  BY DEF DiscardChain
<1> HIDE DEF c
<1> HIDE DEF d
<1>5. /\ d \in SessionType /\ d.inc = s.inc /\ d.cache = c /\ d.tasks = s.tasks
      /\ d.chain = NoChain /\ d.claim = NoAsker /\ d.mutation = 0
  BY <1>1, <1>3, <1>4 DEF SessionType
<1> HIDE DEF d
<1>6. SessionOK(d)
  <2>1. SpecIds(c) = SpecIds(s.cache) /\ NoChain.spec = 0 /\ ~HasChain(d)
    BY <1>2, <1>5 DEF SpecIds, NoChain, HasChain
  <2>2. \A i \in s.cache.jobs \ {k} :
          /\ i \in c.finished => s.tasks[i].at = "done"
          /\ s.tasks[i].lane = "chain" => s.tasks[i].at = "done" /\ c.term[i] \in Hits
    BY <1>1, <1>2 DEF SessionOK
  <2>3. Len(d.tasks) = Len(d.cache.specs)
    BY <1>2, <1>5 DEF SessionOK
  <2> QED
    BY <1>2, <1>5, <2>1, <2>2, <2>3 DEF SessionOK
<1>7. MovesOn(s, d)
  BY <1>2, <1>5, <1>6 DEF MovesOn
<1>8. NoNewRead(s, d)
  BY <1>2, <1>5 DEF NoNewRead
<1> QED
  BY <1>2, <1>5, <1>7, <1>8 DEF d

\* Dropping a chain if there is one, the first thing most handlers do.
LEMMA DropChainOK ==
  ASSUME NEW s, SessionOK(s)
  PROVE  LET d == IF HasChain(s) THEN DiscardChain(s) ELSE s
         IN  /\ MovesOn(s, d) /\ NoNewRead(s, d) /\ NoNewHit(s.cache, d.cache)
             /\ d.chain = NoChain /\ d.mutation \in {0, s.mutation}
             /\ d.tasks = s.tasks /\ d.cache.specs = s.cache.specs
             /\ d.cache.jobs = s.cache.jobs \ {s.chain.spec}
<1>1. CASE HasChain(s)
  BY <1>1, DiscardChainOK
<1>2. CASE ~HasChain(s)
  <2>1. s.chain = NoChain /\ s.chain.spec = 0
    BY <1>2 DEF HasChain, NoChain
  <2>2. 0 \notin s.cache.jobs
    BY SessionFields
  <2> QED
    BY <1>2, <2>1, <2>2, StaysOn
<1> QED
  BY <1>1, <1>2

\* _invalidate_repo on one session (daemon.py:230-240): no job is left.
LEMMA ExpireOK ==
  ASSUME NEW s, SessionOK(s)
  PROVE  LET d == Expire(s)
         IN  /\ MovesOn(s, d) /\ NoNewRead(s, d) /\ NoNewHit(s.cache, d.cache)
             /\ d.chain = NoChain /\ d.mutation \in {0, s.mutation} /\ d.cache.jobs = {}
<1> DEFINE b == IF HasChain(s) THEN DiscardChain(s) ELSE s
           c == BumpEpoch(b.cache)
           d == Expire(s)
<1>1. /\ MovesOn(s, b) /\ NoNewHit(s.cache, b.cache)
      /\ b.chain = NoChain /\ b.mutation \in {0, s.mutation}
  BY DropChainOK
<1>2. SessionOK(b)
  BY <1>1 DEF MovesOn
<1>3. d = [b EXCEPT !.streamed = FALSE, !.cache = c]
  BY DEF Expire
<1> HIDE DEF b, d
<1>4. /\ b \in SessionType /\ CacheInv(b.cache) /\ CacheTypeOK(b.cache)
      /\ Len(b.tasks) = Len(b.cache.specs)
  BY <1>2, SessionFields
<1>5. CacheInv(c) /\ Moves(b.cache, c) /\ NoNewHit(b.cache, c) /\ c.specs = b.cache.specs /\ c.jobs = {}
  BY <1>4, BumpEpochInv, BumpEpochEffect
<1> HIDE DEF c
<1>6. c \in CacheType
  BY <1>5 DEF CacheInv, CacheTypeOK
<1>7. /\ d.inc = b.inc /\ d.cache = c /\ d.tasks = b.tasks
      /\ d.chain = b.chain /\ d.claim = b.claim /\ d.mutation = b.mutation
      /\ d \in SessionType
  BY <1>3, <1>4, <1>6 DEF SessionType
<1>8. SessionOK(d)
  <2>1. ~HasChain(d) /\ d.chain.spec = 0
    BY <1>1, <1>7 DEF HasChain, NoChain
  <2> QED
    BY <1>4, <1>5, <1>7, <2>1 DEF SessionOK
<1>9. MovesOn(b, d)
  BY <1>5, <1>7, <1>8 DEF MovesOn
<1>10. MovesOn(s, d) /\ NoNewHit(s.cache, d.cache)
  BY <1>1, <1>5, <1>7, <1>9, MovesOnTransitive
<1>11. NoNewRead(s, d)
  BY <1>5, <1>7 DEF NoNewRead
<1> QED
  BY <1>1, <1>5, <1>7, <1>10, <1>11 DEF d

\* d is s with one task more, queued, and nothing else of the session touched.
Launched(s, d, n, task) ==
  /\ d \in SessionType /\ CacheInv(d.cache)
  /\ Moves(s.cache, d.cache) /\ NoNewHit(s.cache, d.cache)
  /\ Len(d.tasks) = Len(d.cache.specs) /\ SpecIds(d.cache) = SpecIds(s.cache) \cup {n}
  /\ d.inc = s.inc /\ d.chain = s.chain /\ d.claim = s.claim /\ d.mutation = s.mutation
  /\ d.tasks[n] = task
  /\ \A i \in SpecIds(s.cache) : d.tasks[i] = s.tasks[i]
  /\ n \notin SpecIds(s.cache) /\ d.cache.jobs \subseteq s.cache.jobs \cup {n}
  /\ n \notin d.cache.finished /\ d.cache.finished = s.cache.finished
  /\ d.cache.term[n] = "none"
  /\ \A i \in SpecIds(s.cache) : d.cache.term[i] = s.cache.term[i]

\* Executor.speculate and submit_chain (executor.py:47-65).
LEMMA LaunchFields ==
  ASSUME NEW s, SessionOK(s), NEW call \in Calls, NEW lane \in {"get", "chain"},
         NEW write \in Writes \cup {NoWrite}
  PROVE  Launched(s, Launch(s, call, lane, write), Len(s.cache.specs) + 1, Task(lane, write))
<1> DEFINE n == Len(s.cache.specs) + 1
           c == Reserve(s.cache, call)
           tasks == Append(s.tasks, Task(lane, write))
           d == Launch(s, call, lane, write)
<1>1. /\ s \in SessionType /\ CacheInv(s.cache) /\ CacheTypeOK(s.cache)
      /\ s.tasks \in Seq(TaskType) /\ Len(s.tasks) = Len(s.cache.specs)
  BY SessionFields
<1>2. /\ CacheInv(c) /\ Moves(s.cache, c) /\ NoNewHit(s.cache, c) /\ Len(c.specs) = n
  BY <1>1, ReserveInv
<1>3. /\ c.jobs \subseteq s.cache.jobs \cup {n} /\ c.finished = s.cache.finished
      /\ n \notin SpecIds(s.cache) /\ n \notin s.cache.finished
      /\ c.term[n] = "none" /\ \A i \in SpecIds(s.cache) : c.term[i] = s.cache.term[i]
  <2>1. Reserved(s.cache, c, n, call)
    BY <1>1, ReserveEffect
  <2> HIDE DEF c, n
  <2> QED
    BY <2>1 DEF Reserved
<1>4. NoResult \in DiskState
  BY DEF NoResult, DiskState, Contents
<1>5. Task(lane, write) \in TaskType
  BY <1>4 DEF Task, TaskType
<1>6. /\ tasks \in Seq(TaskType) /\ Len(tasks) = n /\ tasks[n] = Task(lane, write)
      /\ \A i \in SpecIds(s.cache) : tasks[i] = s.tasks[i]
  BY <1>1, <1>5, AppendProperties DEF SpecIds
<1>7. d = [s EXCEPT !.cache = c, !.tasks = tasks]
  BY DEF Launch
<1>8. c \in CacheType /\ SpecIds(c) = SpecIds(s.cache) \cup {n}
  BY <1>1, <1>2, CacheFields DEF CacheInv, CacheTypeOK, SpecIds
<1> HIDE DEF c, d, tasks
<1>9. /\ d \in SessionType /\ d.cache = c /\ d.tasks = tasks
      /\ d.inc = s.inc /\ d.chain = s.chain /\ d.claim = s.claim /\ d.mutation = s.mutation
  BY <1>1, <1>6, <1>7, <1>8 DEF SessionType
<1> HIDE DEF n
<1>10. Launched(s, d, n, Task(lane, write))
  BY <1>2, <1>3, <1>6, <1>8, <1>9 DEF Launched
<1> QED
  BY <1>10 DEF d, n

\* What is launched on the GET lane has read nothing yet.
LEMMA LaunchGetOK ==
  ASSUME NEW s, SessionOK(s), NEW call \in Calls \cup {NoCall}
  PROVE  LET d == LaunchGet(s, call)
         IN  /\ MovesOn(s, d) /\ NoNewRead(s, d) /\ NoNewHit(s.cache, d.cache)
             /\ d.chain = s.chain /\ d.claim = s.claim /\ d.mutation = s.mutation
<1> DEFINE d == LaunchGet(s, call)
           n == Len(s.cache.specs) + 1
<1>1. CASE call = NoCall
  BY <1>1, StaysOn DEF LaunchGet
<1>2. CASE call # NoCall
  <2>1. d = Launch(s, call, "get", NoWrite) /\ call \in Calls
    BY <1>2 DEF LaunchGet
  <2> HIDE DEF d
  <2>l. Launched(s, d, n, Task("get", NoWrite))
    BY <2>1, LaunchFields
  <2>2. /\ d \in SessionType /\ CacheInv(d.cache)
        /\ Moves(s.cache, d.cache) /\ NoNewHit(s.cache, d.cache)
        /\ Len(d.tasks) = Len(d.cache.specs) /\ SpecIds(d.cache) = SpecIds(s.cache) \cup {n}
        /\ d.inc = s.inc /\ d.chain = s.chain /\ d.claim = s.claim /\ d.mutation = s.mutation
        /\ d.tasks[n] = Task("get", NoWrite)
        /\ \A i \in SpecIds(s.cache) : d.tasks[i] = s.tasks[i]
        /\ n \notin SpecIds(s.cache) /\ d.cache.jobs \subseteq s.cache.jobs \cup {n}
        /\ n \notin d.cache.finished /\ d.cache.finished = s.cache.finished
        /\ \A i \in SpecIds(s.cache) : d.cache.term[i] = s.cache.term[i]
    BY <2>l DEF Launched
  <2>3. d.tasks[n].lane = "get" /\ d.tasks[n].at = "queued"
    BY <2>2 DEF Task
  <2>4. /\ s.cache.jobs \subseteq SpecIds(s.cache)
        /\ s.chain.spec \in {0} \cup SpecIds(s.cache) /\ 0 \notin SpecIds(s.cache)
    BY SessionFields
  <2> HIDE DEF n
  <2>5. SessionOK(d)
    <3>1. HasChain(d) => d.chain.write \in Writes
      BY <2>2 DEF SessionOK, HasChain
    <3>2. d.chain.spec \in {0} \cup SpecIds(d.cache)
      BY <2>2, <2>4
    <3>3. d.chain.spec # 0 =>
            /\ d.tasks[d.chain.spec].lane = "chain"
            /\ d.tasks[d.chain.spec].write = d.chain.write
            /\ d.chain.spec \in d.cache.jobs => d.cache.term[d.chain.spec] = "none"
      BY <2>2, <2>4 DEF SessionOK
    <3>4. ASSUME NEW i \in d.cache.jobs
          PROVE  /\ i \in d.cache.finished => d.tasks[i].at = "done"
                 /\ d.tasks[i].lane = "chain" /\ i # d.chain.spec =>
                      d.tasks[i].at = "done" /\ d.cache.term[i] \in Hits
      <4>1. CASE i = n
        BY <2>2, <2>3, <4>1
      <4>2. CASE i # n
        <5>1. i \in s.cache.jobs /\ i \in SpecIds(s.cache)
          BY <2>2, <2>4, <4>2
        <5> QED BY <2>2, <5>1 DEF SessionOK
      <4> QED BY <4>1, <4>2
    <3> QED BY <2>2, <3>1, <3>2, <3>3, <3>4 DEF SessionOK
  <2>6. MovesOn(s, d)
    BY <2>2, <2>5 DEF MovesOn
  <2>7. NoNewRead(s, d)
    BY <2>2, <2>3, <2>4 DEF NoNewRead
  <2> QED
    BY <2>2, <2>6, <2>7 DEF d
<1> QED
  BY <1>1, <1>2

\* call_executed's predictions are launched one after the other.
LEMMA LaunchGetsOK ==
  ASSUME NEW s, SessionOK(s), NEW p \in Predictions
  PROVE  LET d == LaunchGets(s, p)
         IN  /\ MovesOn(s, d) /\ NoNewRead(s, d) /\ NoNewHit(s.cache, d.cache)
             /\ d.chain = s.chain /\ d.claim = s.claim /\ d.mutation = s.mutation
<1> DEFINE d == LaunchGet(s, p[1])
           e == LaunchGet(d, p[2])
<1>1. p[1] \in Calls \cup {NoCall} /\ p[2] \in Calls \cup {NoCall}
  BY DEF Predictions
<1>2. /\ MovesOn(s, d) /\ NoNewRead(s, d) /\ NoNewHit(s.cache, d.cache)
      /\ d.chain = s.chain /\ d.claim = s.claim /\ d.mutation = s.mutation
  BY <1>1, LaunchGetOK
<1>3. SessionOK(d)
  BY <1>2 DEF MovesOn
<1> HIDE DEF d
<1>4. /\ MovesOn(d, e) /\ NoNewRead(d, e) /\ NoNewHit(d.cache, e.cache)
      /\ e.chain = d.chain /\ e.claim = d.claim /\ e.mutation = d.mutation
  BY <1>1, <1>3, LaunchGetOK
<1> HIDE DEF e
<1>5. MovesOn(s, e) /\ NoNewRead(s, e) /\ NoNewHit(s.cache, e.cache)
  BY <1>2, <1>4, MovesOnTransitive
<1> QED
  BY <1>2, <1>4, <1>5 DEF LaunchGets, d, e

\* call_stream_delta (daemon.py:389-498) on a session without a chain and without
\* live jobs: the only live job is then the hop of the new chain, if it has one.
LEMMA FedOK ==
  ASSUME NEW s, SessionOK(s), ~HasChain(s), s.claim = NoAsker, s.cache.jobs = {},
         NEW w \in Writes, NEW id \in Nat, NEW call \in Calls \cup {NoCall},
         NEW forks \in BOOLEAN
  PROVE  LET d == Fed(s, w, id, call, forks)
         IN  /\ MovesOn(s, d) /\ NoNewRead(s, d) /\ NoNewHit(s.cache, d.cache)
             /\ d.mutation = id /\ (HasChain(d) => d.chain.write = w)
             /\ \A i \in d.cache.jobs : HasChain(d) /\ d.chain.spec = i
<1> DEFINE f == [s EXCEPT !.mutation = id, !.streamed = TRUE]
           d == Fed(s, w, id, call, forks)
           n == Len(s.cache.specs) + 1
<1>1. /\ s \in SessionType /\ CacheInv(s.cache) /\ CacheTypeOK(s.cache)
      /\ Len(s.tasks) = Len(s.cache.specs)
  BY SessionFields
<1>2. s.chain = NoChain /\ NoChain.spec = 0 /\ NoWrite \notin Writes
  BY SfxDaemonAssumption DEF HasChain, NoChain
<1>3. /\ f \in SessionType /\ f.cache = s.cache /\ f.tasks = s.tasks /\ f.chain = s.chain
      /\ f.claim = NoAsker /\ f.inc = s.inc /\ f.mutation = id
  BY <1>1, Zenon DEF SessionType
<1> HIDE DEF f
<1>4. SessionOK(f)
  BY <1>1, <1>2, <1>3 DEF SessionOK, HasChain
<1>5. Moves(s.cache, s.cache) /\ NoNewHit(s.cache, s.cache)
  BY StaysOn DEF MovesOn
<1>6. CASE ~forks
  <2>1. d = f
    BY <1>6 DEF Fed, f
  <2> HIDE DEF d
  <2>2. MovesOn(s, d) /\ NoNewRead(s, d) /\ ~HasChain(d)
    BY <1>2, <1>3, <1>4, <1>5, <2>1 DEF MovesOn, NoNewRead, HasChain
  <2> QED BY <1>3, <1>5, <2>1, <2>2 DEF d
<1>7. CASE forks /\ call = NoCall
  <2> DEFINE ch == [NoChain EXCEPT !.write = w]
  <2>1. d = [f EXCEPT !.chain = ch]
    BY <1>7 DEF Fed, StartChain, f
  <2>2. ch \in ChainType /\ ch.spec = 0 /\ ch.write = w
    BY DEF NoChain, ChainType
  <2> HIDE DEF d, ch
  <2>3. /\ d \in SessionType /\ d.cache = s.cache /\ d.tasks = s.tasks /\ d.chain = ch
        /\ d.claim = NoAsker /\ d.inc = s.inc /\ d.mutation = id
    BY <1>3, <2>1, <2>2 DEF SessionType
  <2>4. SessionOK(d)
    BY <1>1, <2>2, <2>3 DEF SessionOK
  <2>5. MovesOn(s, d) /\ NoNewRead(s, d)
    BY <1>5, <2>3, <2>4 DEF MovesOn, NoNewRead
  <2> QED BY <1>5, <2>2, <2>3, <2>5 DEF d
<1>8. CASE forks /\ call # NoCall
  <2> DEFINE l == Launch(f, call, "chain", w)
             ch == [write |-> w, hop |-> call, spec |-> n, cursor |-> 0]
  <2>1. d = [l EXCEPT !.chain = ch]
    BY <1>3, <1>8 DEF Fed, StartChain, f
  <2>2. /\ l \in SessionType /\ CacheInv(l.cache)
        /\ Moves(s.cache, l.cache) /\ NoNewHit(s.cache, l.cache)
        /\ Len(l.tasks) = Len(l.cache.specs) /\ SpecIds(l.cache) = SpecIds(s.cache) \cup {n}
        /\ l.inc = s.inc /\ l.claim = NoAsker /\ l.mutation = id
        /\ l.tasks[n] = Task("chain", w)
        /\ \A i \in SpecIds(s.cache) : l.tasks[i] = s.tasks[i]
        /\ l.cache.jobs \subseteq {n}
        /\ n \notin l.cache.finished /\ l.cache.term[n] = "none"
    <3>1. call \in Calls /\ w \in Writes \cup {NoWrite}
      BY <1>8
    <3>2. f.cache = s.cache /\ f.tasks = s.tasks /\ f.inc = s.inc /\ f.claim = NoAsker /\ f.mutation = id
      BY <1>3
    <3>3. Launched(f, l, Len(f.cache.specs) + 1, Task("chain", w))
      BY <1>4, <3>1, LaunchFields
    <3> HIDE DEF l
    <3>4. Launched(f, l, n, Task("chain", w))
      BY <3>2, <3>3
    <3> QED BY <3>2, <3>4 DEF Launched
  <2>3. n \in Nat /\ n # 0
    BY <1>1, CacheFields
  <2> HIDE DEF n
  <2>4. ch \in ChainType /\ ch.spec = n /\ ch.write = w /\ ch.hop # NoCall
    BY <1>8, <2>3 DEF ChainType
  <2>5. ch # NoChain
    BY <1>2, <2>4 DEF NoChain
  <2>6. l.tasks[n].lane = "chain" /\ l.tasks[n].write = w /\ l.tasks[n].at = "queued"
    BY <2>2 DEF Task
  <2> HIDE DEF l, ch, d
  <2>7. /\ d \in SessionType /\ d.cache = l.cache /\ d.tasks = l.tasks /\ d.chain = ch
        /\ d.claim = NoAsker /\ d.inc = s.inc /\ d.mutation = id
    BY <2>1, <2>2, <2>4 DEF SessionType
  <2>8. SessionOK(d)
    BY <2>2, <2>4, <2>6, <2>7 DEF SessionOK
  <2>9. MovesOn(s, d)
    BY <2>2, <2>7, <2>8 DEF MovesOn
  <2>10. NoNewRead(s, d)
    BY <2>2, <2>6, <2>7 DEF NoNewRead
  <2> QED BY <2>2, <2>4, <2>5, <2>7, <2>9, <2>10 DEF HasChain, d
<1> QED
  BY <1>6, <1>7, <1>8

-----------------------------------------------------------------------------
(* The parts of the invariant, and what keeps each of them *)

SessionPart == TypeOK /\ \A t \in Sids : SessionOK(sessions[t])

FencePart == /\ Fenced \/ mutations = {}
             /\ FenceQuiet /\ FencedReads /\ LiveResultsCurrent /\ ChainWriteCommitted

AskPart == WaitsBehind /\ ClaimOwned

NoneServed == \A t \in Sids : ServedNow(t) = {}

\* No live task of any session has read anything in this step.
ReadsKept == \A t \in Sids : NoNewRead(sessions[t], sessions'[t])

LEMMA DaemonParts == DaemonInv <=> SessionPart /\ FencePart /\ AskPart
  BY DEF DaemonInv, SessionPart, FencePart, AskPart

\* The components of the state.
LEMMA StateFields ==
  ASSUME DaemonInv
  PROVE  /\ sessions \in [Sids -> SessionType] /\ starts \in [Sids -> Nat] /\ begun \in Nat
         /\ disk \in [Repos -> DiskState] /\ ask \in [Askers -> AskType \cup {Idle}]
         /\ mutations \subseteq MutationType
         /\ \A m \in mutations : m.id <= begun /\ m.repo = RepoOf[m.sid]
         /\ \A t \in Sids :
              /\ SessionOK(sessions[t]) /\ sessions[t] \in SessionType
              /\ RepoOf[t] \in Repos /\ disk[RepoOf[t]] \in DiskState
              /\ sessions[t].mutation <= begun
              /\ sessions[t].inc \in Nat /\ starts[t] \in Nat
              /\ sessions[t].inc = 0 \/ sessions[t].inc = starts[t]
              /\ sessions[t].inc = 0 => sessions[t] = NoSession
<1>1. RepoOf \in [Sids -> Repos]
  BY SfxDaemonAssumption
<1>2. /\ sessions \in [Sids -> SessionType] /\ starts \in [Sids -> Nat] /\ begun \in Nat
      /\ disk \in [Repos -> DiskState] /\ ask \in [Askers -> AskType \cup {Idle}]
      /\ mutations \subseteq MutationType
      /\ \A m \in mutations : m.id <= begun /\ m.repo = RepoOf[m.sid]
  BY DEF DaemonInv, TypeOK
<1>3. ASSUME NEW t \in Sids
      PROVE  /\ SessionOK(sessions[t]) /\ sessions[t].mutation <= begun
             /\ sessions[t].inc = 0 \/ sessions[t].inc = starts[t]
             /\ sessions[t].inc = 0 => sessions[t] = NoSession
  BY DEF DaemonInv, TypeOK
<1>4. ASSUME NEW t \in Sids
      PROVE  sessions[t] \in SessionType /\ sessions[t].inc \in Nat
  BY <1>3, SessionFields
<1> QED
  BY <1>1, <1>2, <1>3, <1>4

\* NoSession, and a session that was just started.
LEMMA NewSessionOK ==
  ASSUME NEW n \in Nat
  PROVE  /\ SessionOK(NewSession(n)) /\ NewSession(n).inc = n /\ NewSession(n).mutation = 0
         /\ NewSession(n).claim = NoAsker /\ NewSession(n).cache.jobs = {}
         /\ ~HasChain(NewSession(n)) /\ SpecIds(NewSession(n).cache) = {}
<1> DEFINE s == NewSession(n)
<1>1. /\ s.inc = n /\ s.mutation = 0 /\ s.claim = NoAsker /\ s.cache = EmptyCache
      /\ s.chain = NoChain /\ s.tasks = << >>
  BY DEF NewSession
<1>2. CacheInv(EmptyCache) /\ EmptyCache.specs = << >> /\ EmptyCache.jobs = {}
  BY EmptyCacheInv DEF EmptyCache
<1>3. EmptyCache \in CacheType /\ NoChain \in ChainType /\ << >> \in Seq(TaskType)
  BY <1>2 DEF CacheInv, CacheTypeOK, NoChain, ChainType
<1>4. s \in SessionType
  <2>1. FALSE \in BOOLEAN
    BY Zenon
  <2> HIDE DEF NoChain, EmptyCache
  <2> QED BY <1>3, <2>1 DEF NewSession, SessionType
<1>5. NoChain.spec = 0 /\ SpecIds(EmptyCache) = {} /\ Len(<< >>) = 0
  BY <1>2 DEF NoChain, SpecIds
<1> HIDE DEF s
<1>6. SessionOK(s) /\ ~HasChain(s)
  BY <1>1, <1>2, <1>4, <1>5 DEF SessionOK, HasChain
<1> QED
  BY <1>1, <1>2, <1>5, <1>6 DEF s

LEMMA SessionPartKept ==
  ASSUME starts' \in [Sids -> Nat], begun' \in Nat, disk' \in [Repos -> DiskState],
         ask' \in [Askers -> AskType \cup {Idle}],
         mutations' \subseteq MutationType,
         \A m \in mutations' : m.id <= begun' /\ m.repo = RepoOf[m.sid],
         sessions' \in [Sids -> SessionType],
         \A t \in Sids :
           /\ SessionOK(sessions'[t]) /\ sessions'[t].mutation <= begun'
           /\ sessions'[t].inc = 0 \/ sessions'[t].inc = starts'[t]
           /\ sessions'[t].inc = 0 => sessions'[t] = NoSession
  PROVE  SessionPart'
<1>1. ASSUME NEW t \in Sids
      PROVE  /\ CacheTypeOK(sessions'[t].cache)
             /\ sessions'[t].chain.spec \in {0} \cup SpecIds(sessions'[t].cache)
             /\ Len(sessions'[t].tasks) = Len(sessions'[t].cache.specs)
  BY SessionFields
<1> QED
  BY <1>1 DEF SessionPart, TypeOK

\* What the fences promise of one session.
FenceOK(t) ==
  /\ Fence(t) =>
       \A i \in sessions[t].cache.jobs :
         /\ HasChain(sessions[t]) /\ sessions[t].chain.spec = i
         /\ \E m \in mutations :
              /\ Active(RepoOf[t]) = {m} /\ ~m.conflicted
              /\ m.sid = t /\ m.id = sessions[t].mutation
              /\ m.write = sessions[t].chain.write
  /\ \A m \in mutations : Active(RepoOf[t]) = {m} =>
       \A i \in sessions[t].cache.jobs :
         sessions[t].tasks[i].at \in {"ran", "done"} =>
           /\ sessions[t].tasks[i].val.file = sessions[t].chain.write
           /\ \/ sessions[t].tasks[i].val.base = disk[RepoOf[t]].base
              \/ m.executed /\ disk[RepoOf[t]].file = Other
  /\ Fenced /\ ~Fence(t) =>
       /\ \A i \in sessions[t].cache.jobs :
            sessions[t].tasks[i].at \in {"ran", "done"}
              => sessions[t].tasks[i].val = disk[RepoOf[t]]
       /\ HasChain(sessions[t]) => disk[RepoOf[t]].file = sessions[t].chain.write

LEMMA FenceParts ==
  /\ FencePart <=> (Fenced \/ mutations = {}) /\ \A t \in Sids : FenceOK(t)
  /\ FencePart' <=> (Fenced \/ mutations' = {}) /\ \A t \in Sids : FenceOK(t)'
  BY DEF FencePart, FenceOK, FenceQuiet, FencedReads, LiveResultsCurrent, ChainWriteCommitted

\* The fences of its repository are those of mutations.
LEMMA ActiveMembers ==
  ASSUME NEW r
  PROVE  /\ Active(r) \subseteq mutations /\ \A m \in Active(r) : m.repo = r
         /\ Active(r)' \subseteq mutations' /\ \A m \in Active(r)' : m.repo = r
  BY DEF Active

\* A session whose repository and fences stay as they are: nothing new was read,
\* and no job or chain is new.
LEMMA FenceOKKept ==
  ASSUME NEW t \in Sids, FenceOK(t),
         Active(RepoOf[t])' = Active(RepoOf[t]), disk'[RepoOf[t]] = disk[RepoOf[t]],
         NoNewRead(sessions[t], sessions'[t]),
         Fence(t) =>
           /\ sessions'[t].cache.jobs \subseteq sessions[t].cache.jobs
           /\ sessions'[t].cache.jobs # {} =>
                /\ sessions'[t].chain = sessions[t].chain
                /\ sessions'[t].mutation = sessions[t].mutation,
         HasChain(sessions'[t]) =>
           /\ HasChain(sessions[t])
           /\ sessions'[t].chain.write = sessions[t].chain.write
  PROVE  FenceOK(t)'
<1> DEFINE s == sessions[t]
           d == sessions'[t]
<1>1. Fence(t)' <=> Fence(t)
  BY DEF Fence
<1>2. \A m : Active(RepoOf[t]) = {m} => m \in mutations /\ m \in mutations'
  BY ActiveMembers
<1>3. ASSUME Fence(t), NEW i \in d.cache.jobs
      PROVE  /\ HasChain(d) /\ d.chain.spec = i
             /\ \E m \in mutations' :
                  /\ Active(RepoOf[t]) = {m} /\ ~m.conflicted
                  /\ m.sid = t /\ m.id = d.mutation /\ m.write = d.chain.write
  <2>1. i \in s.cache.jobs /\ d.chain = s.chain /\ d.mutation = s.mutation
    BY <1>3
  <2> QED BY <1>2, <1>3, <2>1 DEF FenceOK, HasChain
<1>4. ASSUME NEW m \in mutations', Active(RepoOf[t]) = {m},
             NEW i \in d.cache.jobs, d.tasks[i].at \in {"ran", "done"}
      PROVE  /\ d.tasks[i].val.file = d.chain.write
             /\ \/ d.tasks[i].val.base = disk[RepoOf[t]].base
                \/ m.executed /\ disk[RepoOf[t]].file = Other
  <2>1. Fence(t) /\ m \in mutations
    BY <1>2, <1>4 DEF Fence
  <2>2. /\ i \in s.cache.jobs /\ s.tasks[i].at \in {"ran", "done"} /\ d.tasks[i].val = s.tasks[i].val
    BY <1>4 DEF NoNewRead
  <2>3. d.chain = s.chain
    BY <1>4, <2>1
  <2> QED BY <1>4, <2>1, <2>2, <2>3 DEF FenceOK
<1>5. ASSUME Fenced, ~Fence(t)
      PROVE  /\ \A i \in d.cache.jobs :
                  d.tasks[i].at \in {"ran", "done"} => d.tasks[i].val = disk[RepoOf[t]]
             /\ HasChain(d) => disk[RepoOf[t]].file = d.chain.write
  BY <1>5 DEF FenceOK, NoNewRead
<1> QED
  BY <1>1, <1>3, <1>4, <1>5 DEF FenceOK

\* A session that holds no job, and no chain unless it is fenced.
LEMMA FenceOKEmpty ==
  ASSUME NEW t \in Sids, sessions'[t].cache.jobs = {}, ~HasChain(sessions'[t]) \/ Fence(t)'
  PROVE  FenceOK(t)'
  BY DEF FenceOK

\* A step that leaves the fences and the repositories alone keeps what the fences
\* promise if nothing new was read, and no job or chain is new.
LEMMA FencePartKept ==
  ASSUME DaemonInv, mutations' = mutations, disk' = disk,
         \A t \in Sids :
           /\ NoNewRead(sessions[t], sessions'[t])
           /\ Fence(t) =>
                /\ sessions'[t].cache.jobs \subseteq sessions[t].cache.jobs
                /\ sessions'[t].cache.jobs # {} =>
                     /\ sessions'[t].chain = sessions[t].chain
                     /\ sessions'[t].mutation = sessions[t].mutation
           /\ HasChain(sessions'[t]) =>
                /\ HasChain(sessions[t])
                /\ sessions'[t].chain.write = sessions[t].chain.write
  PROVE  FencePart'
<1>1. \A r : Active(r)' = Active(r)
  BY DEF Active
<1>2. (Fenced \/ mutations = {}) /\ \A t \in Sids : FenceOK(t)
  BY FenceParts DEF DaemonInv, FencePart
<1>3. \A t \in Sids : FenceOK(t)'
  BY <1>1, <1>2, FenceOKKept
<1> QED
  BY <1>2, <1>3, FenceParts

\* Callers that wait, or come back, keep what they own as their sessions move on,
\* end or are started anew.
LEMMA AskPartKept ==
  ASSUME DaemonInv,
         \A a \in Askers : ask'[a] = ask[a] \/ ask'[a] = Idle,
         \A t \in Sids : starts'[t] \in Nat /\ starts[t] <= starts'[t],
         \A t \in Sids :
           \/ /\ MovesOn(sessions[t], sessions'[t])
              /\ sessions'[t].claim # NoAsker =>
                   ask'[sessions'[t].claim] = ask[sessions'[t].claim]
           \/ /\ sessions'[t].claim = NoAsker
              /\ sessions'[t].inc = 0 \/ sessions'[t].inc > starts[t]
  PROVE  AskPart'
<1>1. AskPart
  BY DEF DaemonInv, AskPart
<1>2. Idle.at = "idle"
  BY DEF Idle
<1>3. ASSUME NEW a \in Askers, ask'[a].at # "idle"
      PROVE  /\ ask'[a] = ask[a] /\ ask[a].at # "idle" /\ ask[a].sid \in Sids
             /\ ask[a].inc \in Nat /\ ask[a].inc # 0
             /\ ask[a].inc <= starts[ask[a].sid] /\ starts[ask[a].sid] \in Nat
  <2>1. ask'[a] = ask[a] /\ ask[a] \in AskType
    BY <1>2, <1>3, StateFields
  <2> QED BY <1>1, <1>3, <2>1, StateFields DEF AskType, AskPart, WaitsBehind
<1>4. ASSUME NEW a \in Askers, ask'[a].at # "idle"
      PROVE  /\ ask'[a].inc <= starts'[ask'[a].sid]
             /\ ask'[a].inc = sessions'[ask'[a].sid].inc =>
                  /\ ask'[a].spec \in SpecIds(sessions'[ask'[a].sid].cache)
                  /\ Behind(sessions'[ask'[a].sid].cache, ask'[a].spec)
                  /\ ask'[a].at = "plain" =>
                       sessions'[ask'[a].sid].tasks[ask'[a].spec].lane = "get"
  <2> DEFINE t == ask[a].sid
             i == ask[a].spec
  <2>1. /\ ask'[a] = ask[a] /\ ask[a].at # "idle" /\ t \in Sids
        /\ ask[a].inc \in Nat /\ ask[a].inc # 0
        /\ ask[a].inc <= starts[t] /\ starts[t] \in Nat
    BY <1>3, <1>4
  <2>2. ask[a].inc <= starts'[t]
    BY <2>1
  <2>3. ASSUME ask[a].inc = sessions'[t].inc
        PROVE  /\ i \in SpecIds(sessions'[t].cache) /\ Behind(sessions'[t].cache, i)
               /\ ask[a].at = "plain" => sessions'[t].tasks[i].lane = "get"
    <3>1. MovesOn(sessions[t], sessions'[t])
      BY <2>1, <2>3
    <3>2. ask[a].inc = sessions[t].inc /\ SessionOK(sessions'[t]) /\ SessionOK(sessions[t])
      BY <2>1, <2>3, <3>1, StateFields DEF MovesOn
    <3>3. /\ i \in SpecIds(sessions[t].cache) /\ Behind(sessions[t].cache, i)
          /\ ask[a].at = "plain" => sessions[t].tasks[i].lane = "get"
      BY <1>1, <2>1, <3>2 DEF AskPart, WaitsBehind
    <3>4. CacheInv(sessions[t].cache) /\ CacheTypeOK(sessions'[t].cache) /\ CacheTypeOK(sessions[t].cache)
      BY <3>2, SessionFields
    <3>5. Moves(sessions[t].cache, sessions'[t].cache)
      BY <3>1 DEF MovesOn
    <3>6. Behind(sessions'[t].cache, i)
      BY <3>3, <3>4, <3>5, BehindStays
    <3>7. i \in SpecIds(sessions'[t].cache)
      BY <3>3, <3>4, <3>5, SpecsStay
    <3> QED BY <3>1, <3>3, <3>6, <3>7 DEF MovesOn
  <2> QED BY <2>1, <2>2, <2>3
<1>5. WaitsBehind'
  BY <1>4 DEF WaitsBehind
<1>6. ASSUME NEW a \in Askers, NEW b \in Askers, a # b,
             ask'[a].at # "idle", ask'[b].at # "idle"
      PROVE  \/ ask'[a].sid # ask'[b].sid
             \/ ask'[a].inc # ask'[b].inc
             \/ ask'[a].spec # ask'[b].spec
  BY <1>1, <1>3, <1>6 DEF AskPart, ClaimOwned
<1>7. ASSUME NEW t \in Sids, sessions'[t].claim # NoAsker
      PROVE  /\ HasChain(sessions'[t]) /\ sessions'[t].chain.cursor = 2
             /\ ask'[sessions'[t].claim] =
                  [at |-> "chain", sid |-> t, inc |-> sessions'[t].inc, spec |-> sessions'[t].chain.spec]
  <2>1. /\ sessions'[t].claim = sessions[t].claim /\ sessions'[t].chain = sessions[t].chain
        /\ sessions'[t].inc = sessions[t].inc
        /\ ask'[sessions'[t].claim] = ask[sessions'[t].claim]
    BY <1>7 DEF MovesOn
  <2> QED BY <1>1, <1>7, <2>1 DEF AskPart, ClaimOwned, HasChain
<1>8. ClaimOwned'
  BY <1>6, <1>7 DEF ClaimOwned
<1> QED
  BY <1>5, <1>8 DEF AskPart

LEMMA NoneServedIf ==
  ASSUME \A t \in Sids : sessions'[t].inc = sessions[t].inc
                           => NoNewHit(sessions[t].cache, sessions'[t].cache)
  PROVE  NoneServed
  BY DEF NoneServed, ServedNow, NoNewHit

\* A handler that changes one registered session and leaves the fences and the
\* repositories alone.
LEMMA OneSession ==
  ASSUME DaemonInv, NEW t \in Sids, NEW d,
         sessions' = [sessions EXCEPT ![t] = d],
         UNCHANGED <<starts, mutations, begun, disk>>,
         ask' \in [Askers -> AskType \cup {Idle}],
         sessions[t].inc # 0, SessionOK(d), d.inc = sessions[t].inc,
         d.mutation \in {0, sessions[t].mutation},
         NoNewRead(sessions[t], d),
         Fence(t) => /\ d.cache.jobs \subseteq sessions[t].cache.jobs
                     /\ d.cache.jobs # {} => d.chain = sessions[t].chain /\ d.mutation = sessions[t].mutation,
         HasChain(d) => HasChain(sessions[t]) /\ d.chain.write = sessions[t].chain.write
  PROVE  /\ SessionPart' /\ FencePart' /\ ReadsKept
         /\ NoNewHit(sessions[t].cache, d.cache) => NoneServed
         /\ MovesOn(sessions[t], d) /\ ask' = ask => AskPart'
<1>1. d \in SessionType /\ d.mutation \in Nat
  BY SessionFields
<1>2. /\ sessions' \in [Sids -> SessionType] /\ sessions'[t] = d
      /\ \A u \in Sids \ {t} : sessions'[u] = sessions[u]
  BY <1>1, StateFields
<1>3. d.mutation <= begun
  BY <1>1, StateFields
<1>4. SessionPart'
  <2>1. \A u \in Sids :
          /\ SessionOK(sessions'[u]) /\ sessions'[u].mutation <= begun'
          /\ sessions'[u].inc = 0 \/ sessions'[u].inc = starts'[u]
          /\ sessions'[u].inc = 0 => sessions'[u] = NoSession
    BY <1>2, <1>3, StateFields
  <2>2. /\ starts' \in [Sids -> Nat] /\ begun' \in Nat /\ disk' \in [Repos -> DiskState]
        /\ mutations' \subseteq MutationType
        /\ \A m \in mutations' : m.id <= begun' /\ m.repo = RepoOf[m.sid]
    BY StateFields
  <2> QED BY <1>2, <2>1, <2>2, SessionPartKept
<1>5. \A u \in Sids : /\ NoNewRead(sessions[u], sessions[u])
                      /\ MovesOn(sessions[u], sessions[u])
                      /\ NoNewHit(sessions[u].cache, sessions[u].cache)
  BY StateFields, StaysOn
<1>6. FencePart'
  <2>1. ASSUME NEW u \in Sids
        PROVE  /\ NoNewRead(sessions[u], sessions'[u])
               /\ Fence(u) =>
                    /\ sessions'[u].cache.jobs \subseteq sessions[u].cache.jobs
                    /\ sessions'[u].cache.jobs # {} =>
                         /\ sessions'[u].chain = sessions[u].chain
                         /\ sessions'[u].mutation = sessions[u].mutation
               /\ HasChain(sessions'[u]) =>
                    /\ HasChain(sessions[u])
                    /\ sessions'[u].chain.write = sessions[u].chain.write
    <3>1. CASE u = t
      BY <1>2, <3>1
    <3>2. CASE u # t
      BY <1>2, <1>5, <3>2
    <3> QED BY <3>1, <3>2
  <2> QED BY <2>1, FencePartKept
<1>7. /\ NoNewHit(sessions[t].cache, d.cache) => NoneServed
      /\ ReadsKept
  <2>1. ReadsKept
    BY <1>2, <1>5 DEF ReadsKept
  <2> QED BY <1>2, <1>5, <2>1, NoneServedIf
<1>8. ASSUME MovesOn(sessions[t], d), ask' = ask
      PROVE  AskPart'
  <2>1. \A u \in Sids : MovesOn(sessions[u], sessions'[u])
    BY <1>2, <1>5, <1>8
  <2>2. \A u \in Sids : starts'[u] \in Nat /\ starts[u] <= starts'[u]
    BY StateFields
  <2> QED BY <1>8, <2>1, <2>2, AskPartKept
<1> QED
  BY <1>4, <1>6, <1>7, <1>8

-----------------------------------------------------------------------------
(* One lemma per handler *)

\* stream_get_delta and a report of a read: launched outside a fence only.
LEMMA LaunchStep ==
  ASSUME DaemonInv, NEW t \in Sids, NEW p \in Predictions, NEW call \in Calls \cup {NoCall},
         ReportFree(t, p) \/ StreamGet(t, call)
  PROVE  DaemonInv' /\ NoneServed /\ ReadsKept
<1> DEFINE s == sessions[t]
<1>1. SessionOK(s) /\ sessions \in [Sids -> SessionType] /\ ask \in [Askers -> AskType \cup {Idle}]
  BY StateFields
<1>2. PICK d : /\ sessions' = [sessions EXCEPT ![t] = d]
               /\ MovesOn(s, d) /\ NoNewRead(s, d) /\ NoNewHit(s.cache, d.cache)
               /\ d.chain = s.chain /\ d.mutation = s.mutation
               /\ Fence(t) => d = s
  <2>1. CASE ReportFree(t, p) /\ Fence(t)
    <3>1. sessions' = [sessions EXCEPT ![t] = s]
      BY <1>1, <2>1 DEF ReportFree, AfterReport
    <3> QED BY <1>1, <3>1, StaysOn
  <2>2. CASE ReportFree(t, p) /\ ~Fence(t)
    <3>1. sessions' = [sessions EXCEPT ![t] = LaunchGets(s, p)]
      BY <2>2 DEF ReportFree, AfterReport
    <3> QED BY <1>1, <2>2, <3>1, LaunchGetsOK
  <2>3. CASE StreamGet(t, call)
    <3>1. sessions' = [sessions EXCEPT ![t] = LaunchGet(s, call)] /\ ~Fence(t)
      BY <2>3 DEF StreamGet
    <3> QED BY <1>1, <3>1, LaunchGetOK
  <2> QED BY <2>1, <2>2, <2>3
<1>3. s.inc # 0 /\ UNCHANGED <<starts, mutations, begun, disk, ask>>
  BY <1>1, SessionFields DEF ReportFree, StreamGet, Registered
<1>4. SessionOK(d) /\ d.inc = s.inc
  BY <1>2 DEF MovesOn
<1>5. HasChain(d) => HasChain(s)
  BY <1>2 DEF HasChain
<1>6. SessionPart' /\ FencePart' /\ NoneServed /\ AskPart' /\ ReadsKept
  BY <1>1, <1>2, <1>3, <1>4, <1>5, OneSession
<1> QED
  BY <1>6 DEF DaemonInv, SessionPart, FencePart, AskPart

\* A report of a fenced mutation.
LEMMA ReportMutationStep ==
  ASSUME DaemonInv, NEW t \in Sids, NEW p \in Predictions, NEW c, ReportMutation(t, c, p)
  PROVE  DaemonInv' /\ NoneServed /\ ReadsKept
<1> DEFINE s == sessions[t]
           r == [s EXCEPT !.completed = @ \ {c}, !.streamed = FALSE]
<1>1. /\ SessionOK(s) /\ s \in SessionType /\ sessions \in [Sids -> SessionType]
      /\ ask \in [Askers -> AskType \cup {Idle}]
  BY StateFields
<1>2. /\ r \in SessionType /\ r.inc = s.inc /\ r.cache = s.cache /\ r.tasks = s.tasks
      /\ r.chain = s.chain /\ r.claim = s.claim /\ r.mutation = s.mutation
  BY <1>1 DEF SessionType
<1> HIDE DEF r
<1>3. /\ sessions' = AfterReport([sessions EXCEPT ![t] = r], t, p)
      /\ s.inc # 0 /\ UNCHANGED <<starts, mutations, begun, disk, ask>>
  BY <1>1, SessionFields DEF ReportMutation, Registered, r
<1>4. /\ SessionOK(r) /\ MovesOn(s, r) /\ NoNewRead(s, r) /\ NoNewHit(s.cache, r.cache)
  <2>1. SessionOK(r)
    BY <1>1, <1>2 DEF SessionOK, HasChain
  <2>2. MovesOn(s, s) /\ NoNewRead(s, s) /\ NoNewHit(s.cache, s.cache)
    BY <1>1, StaysOn
  <2> QED BY <1>2, <2>1, <2>2 DEF MovesOn, NoNewRead
<1>5. PICK d : /\ sessions' = [sessions EXCEPT ![t] = d]
               /\ MovesOn(r, d) /\ NoNewRead(r, d) /\ NoNewHit(r.cache, d.cache)
               /\ d.chain = r.chain /\ d.mutation = r.mutation
               /\ Fence(t) => d = r
  <2>1. CASE Fence(t)
    <3>1. sessions' = [sessions EXCEPT ![t] = r]
      BY <1>3, <2>1 DEF AfterReport
    <3> QED BY <1>4, <3>1, StaysOn
  <2>2. CASE ~Fence(t)
    <3>1. sessions' = [sessions EXCEPT ![t] = LaunchGets(r, p)]
      BY <1>1, <1>3, <2>2 DEF AfterReport
    <3> QED BY <1>4, <2>2, <3>1, LaunchGetsOK
  <2> QED BY <2>1, <2>2
<1>6. MovesOn(s, d) /\ NoNewRead(s, d) /\ NoNewHit(s.cache, d.cache)
  BY <1>1, <1>4, <1>5, MovesOnTransitive
<1>7. SessionOK(d) /\ d.inc = s.inc
  BY <1>6 DEF MovesOn
<1>8. HasChain(d) => HasChain(s)
  BY <1>2, <1>5 DEF HasChain
<1>9. Fence(t) => d.cache.jobs = s.cache.jobs
  BY <1>2, <1>5
<1>10. SessionPart' /\ FencePart' /\ NoneServed /\ AskPart' /\ ReadsKept
  BY <1>1, <1>2, <1>3, <1>5, <1>6, <1>7, <1>8, <1>9, OneSession
<1> QED
  BY <1>10 DEF DaemonInv, SessionPart, FencePart, AskPart

\* The session when the task i ends, and the cache with it.
Ends == {"done", "raising", "failed"}
TaskEnds(s, i, e, c) == [[s EXCEPT !.tasks[i].at = e] EXCEPT !.cache = c]

TaskEnded(s, i, e, c, d) ==
  /\ d \in SessionType /\ d.inc = s.inc /\ d.cache = c /\ d.chain = s.chain
  /\ d.claim = s.claim /\ d.mutation = s.mutation
  /\ Len(d.tasks) = Len(s.tasks) /\ d.tasks[i].at = e
  /\ \A j \in SpecIds(s.cache) :
       /\ d.tasks[j].lane = s.tasks[j].lane /\ d.tasks[j].write = s.tasks[j].write
       /\ d.tasks[j].val = s.tasks[j].val
       /\ j # i => d.tasks[j] = s.tasks[j]

\* What the pool's threads do to a task leaves its lane, its write and what it
\* has read alone.
LEMMA SetTaskFields ==
  ASSUME NEW s, SessionOK(s), NEW i \in SpecIds(s.cache), NEW e \in Ends,
         NEW c, CacheInv(c), c.specs = s.cache.specs,
         NEW d, d = TaskEnds(s, i, e, c)
  PROVE  TaskEnded(s, i, e, c, d)
<1> DEFINE k == [s.tasks[i] EXCEPT !.at = e]
           tasks == [s.tasks EXCEPT ![i] = k]
<1>1. /\ s \in SessionType /\ s.tasks \in Seq(TaskType) /\ i \in 1 .. Len(s.tasks)
      /\ SpecIds(s.cache) = 1 .. Len(s.tasks) /\ s.tasks[i] \in TaskType
  BY SessionFields
<1>2. /\ k \in TaskType /\ k.at = e /\ k.lane = s.tasks[i].lane
      /\ k.write = s.tasks[i].write /\ k.val = s.tasks[i].val
  BY <1>1 DEF TaskType, Ends
<1> HIDE DEF k
<1>3. /\ tasks \in Seq(TaskType) /\ Len(tasks) = Len(s.tasks)
      /\ \A j \in 1 .. Len(s.tasks) : tasks[j] = IF j = i THEN k ELSE s.tasks[j]
  BY <1>1, <1>2, ExceptSeq
<1>4. d = [s EXCEPT !.tasks = tasks, !.cache = c]
  BY <1>1 DEF SessionType, TaskEnds, k
<1>5. c \in CacheType
  BY DEF CacheInv, CacheTypeOK
<1> HIDE DEF tasks
<1>6. /\ d \in SessionType /\ d.inc = s.inc /\ d.cache = c /\ d.chain = s.chain /\ d.tasks = tasks
      /\ d.claim = s.claim /\ d.mutation = s.mutation
  BY <1>1, <1>3, <1>4, <1>5 DEF SessionType
<1> QED
  BY <1>1, <1>2, <1>3, <1>6 DEF TaskEnded

\* A task that returns or raises.
LEMMA WorkerStep ==
  ASSUME DaemonInv, NEW t \in Sids, NEW i \in sessions[t].cache.jobs,
         WorkerReturn(t, i) \/ WorkerRaise(t, i)
  PROVE  DaemonInv' /\ NoneServed /\ ReadsKept
<1> DEFINE s == sessions[t]
<1>1. /\ SessionOK(s) /\ s \in SessionType /\ sessions \in [Sids -> SessionType]
      /\ ask \in [Askers -> AskType \cup {Idle}]
      /\ CacheInv(s.cache) /\ CacheTypeOK(s.cache) /\ i \in SpecIds(s.cache)
      /\ s.chain.spec \in {0} \cup SpecIds(s.cache) /\ Len(s.tasks) = Len(s.cache.specs)
      /\ s.cache.jobs \subseteq SpecIds(s.cache)
  BY StateFields, SessionFields
<1>2. s.inc # 0
  <2>1. NoSession.cache.jobs = {}
    BY NewSessionOK DEF NoSession
  <2> QED BY <2>1, StateFields
<1>3. UNCHANGED <<starts, mutations, begun, disk, ask>>
  BY DEF WorkerReturn, WorkerRaise
<1>4. ASSUME NEW d, NEW c, NEW e \in Ends,
             d = TaskEnds(s, i, e, c),
             sessions' = [sessions EXCEPT ![t] = d],
             CacheInv(c), Moves(s.cache, c), NoNewHit(s.cache, c),
             c.specs = s.cache.specs, c.term = s.cache.term, c.jobs \subseteq s.cache.jobs,
             s.tasks[i].at \in {"queued", "ran"},
             \/ e = "done" /\ s.tasks[i].at = "ran" /\ c.finished \subseteq s.cache.finished \cup {i}
             \/ i \notin c.jobs /\ c.finished = s.cache.finished
      PROVE  DaemonInv' /\ NoneServed /\ ReadsKept
  <2>1. /\ d \in SessionType /\ d.inc = s.inc /\ d.cache = c /\ d.chain = s.chain
        /\ d.claim = s.claim /\ d.mutation = s.mutation
        /\ Len(d.tasks) = Len(s.tasks) /\ d.tasks[i].at = e
        /\ \A j \in SpecIds(s.cache) :
             /\ d.tasks[j].lane = s.tasks[j].lane /\ d.tasks[j].write = s.tasks[j].write
             /\ d.tasks[j].val = s.tasks[j].val
             /\ j # i => d.tasks[j] = s.tasks[j]
    <3>1. /\ SessionOK(s) /\ i \in SpecIds(s.cache) /\ CacheInv(c) /\ c.specs = s.cache.specs
          /\ d = TaskEnds(s, i, e, c) /\ e \in Ends
      BY <1>1, <1>4
    <3>2. TaskEnded(s, i, e, c, d)
      BY <3>1, SetTaskFields
    <3> QED BY <3>2 DEF TaskEnded
  <2>2. SpecIds(c) = SpecIds(s.cache)
    BY <1>4 DEF SpecIds
  <2>3. SessionOK(d)
    <3>1. ASSUME NEW j \in d.cache.jobs
          PROVE  /\ j \in d.cache.finished => d.tasks[j].at = "done"
                 /\ d.tasks[j].lane = "chain" /\ j # d.chain.spec =>
                      d.tasks[j].at = "done" /\ d.cache.term[j] \in Hits
      <4>1. /\ j \in s.cache.jobs /\ j \in SpecIds(s.cache)
            /\ j \in s.cache.finished => s.tasks[j].at = "done"
            /\ s.tasks[j].lane = "chain" /\ j # s.chain.spec =>
                 s.tasks[j].at = "done" /\ s.cache.term[j] \in Hits
        BY <1>1, <1>4, <2>1, <3>1 DEF SessionOK
      <4>2. CASE j # i
        BY <1>4, <2>1, <4>1, <4>2
      <4>3. CASE j = i
        BY <1>4, <2>1, <3>1, <4>1, <4>3
      <4> QED BY <4>2, <4>3
    <3>2. HasChain(d) => d.chain.write \in Writes
      BY <1>1, <2>1 DEF SessionOK, HasChain
    <3>3. d.chain.spec # 0 =>
            /\ d.tasks[d.chain.spec].lane = "chain"
            /\ d.tasks[d.chain.spec].write = d.chain.write
            /\ d.chain.spec \in d.cache.jobs => d.cache.term[d.chain.spec] = "none"
      BY <1>1, <1>4, <2>1 DEF SessionOK
    <3> QED BY <1>1, <1>4, <2>1, <2>2, <3>1, <3>2, <3>3 DEF SessionOK
  <2>4. MovesOn(s, d)
    BY <1>4, <2>1, <2>3 DEF MovesOn
  <2>5. NoNewRead(s, d)
    <3>1. ASSUME NEW j \in d.cache.jobs, d.tasks[j].at \in {"ran", "done"}
          PROVE  /\ j \in s.cache.jobs /\ s.tasks[j].at \in {"ran", "done"}
                 /\ d.tasks[j].val = s.tasks[j].val /\ d.tasks[j].lane = s.tasks[j].lane
      BY <1>1, <1>4, <2>1, <3>1
    <3> QED BY <3>1 DEF NoNewRead
  <2>6. HasChain(d) => HasChain(s)
    BY <2>1 DEF HasChain
  <2>7. /\ d.cache.jobs \subseteq s.cache.jobs /\ d.chain = s.chain /\ d.mutation = s.mutation
        /\ d.inc = s.inc /\ NoNewHit(s.cache, d.cache)
    BY <1>4, <2>1
  <2>8. SessionPart' /\ FencePart' /\ NoneServed /\ AskPart' /\ ReadsKept
    BY <1>1, <1>2, <1>3, <1>4, <2>3, <2>4, <2>5, <2>6, <2>7, OneSession
  <2> QED
    BY <2>8 DEF DaemonInv, SessionPart, FencePart, AskPart
<1>5. CASE WorkerReturn(t, i)
  <2> DEFINE d == TaskEnds(s, i, "done", Complete(s.cache, i))
  <2>1. s.tasks[i].at = "ran" /\ sessions' = [sessions EXCEPT ![t] = d]
    BY <1>1, <1>5 DEF WorkerReturn, SetTask, SessionType, TaskEnds
  <2> HIDE DEF d
  <2>2. /\ CacheInv(Complete(s.cache, i)) /\ Moves(s.cache, Complete(s.cache, i))
        /\ NoNewHit(s.cache, Complete(s.cache, i))
    BY <1>1, CompleteInv
  <2>3. /\ Complete(s.cache, i).specs = s.cache.specs /\ Complete(s.cache, i).jobs = s.cache.jobs
        /\ Complete(s.cache, i).finished \subseteq s.cache.finished \cup {i}
        /\ Complete(s.cache, i).term = s.cache.term
    BY <1>1, CompleteEffect
  <2>4. "done" \in Ends
    BY DEF Ends
  <2> QED BY <1>4, <2>1, <2>2, <2>3, <2>4 DEF d
<1>6. CASE WorkerRaise(t, i)
  <2> DEFINE e == IF s.tasks[i].lane = "chain" THEN "raising" ELSE "failed"
             d == TaskEnds(s, i, e, DiscardSpec(s.cache, i))
  <2>1. s.tasks[i].at \in {"queued", "ran"} /\ sessions' = [sessions EXCEPT ![t] = d]
    BY <1>1, <1>6 DEF WorkerRaise, SetTask, SessionType, TaskEnds
  <2>2. e \in Ends
    BY DEF Ends
  <2> HIDE DEF d, e
  <2>3. /\ CacheInv(DiscardSpec(s.cache, i)) /\ Moves(s.cache, DiscardSpec(s.cache, i))
        /\ NoNewHit(s.cache, DiscardSpec(s.cache, i))
    BY <1>1, DiscardSpecInv
  <2>4. /\ DiscardSpec(s.cache, i).specs = s.cache.specs
        /\ DiscardSpec(s.cache, i).jobs = s.cache.jobs \ {i}
        /\ DiscardSpec(s.cache, i).finished = s.cache.finished
        /\ DiscardSpec(s.cache, i).term = s.cache.term
    BY <1>1, DiscardSpecEffect
  <2> QED BY <1>4, <2>1, <2>2, <2>3, <2>4 DEF d
<1> QED
  BY <1>5, <1>6

\* The chain's future is seen to have failed.
LEMMA ChainFailedStep ==
  ASSUME DaemonInv, NEW t \in Sids, ChainFailed(t)
  PROVE  DaemonInv' /\ NoneServed /\ ReadsKept
<1> DEFINE s == sessions[t]
           i == s.chain.spec
<1>0. PICK e, c : e \in Ends /\ e = "failed" /\ c = s.cache
  BY DEF Ends
<1> DEFINE d == TaskEnds(s, i, e, c)
<1>1. /\ SessionOK(s) /\ s \in SessionType /\ sessions \in [Sids -> SessionType]
      /\ ask \in [Askers -> AskType \cup {Idle}] /\ Len(s.tasks) = Len(s.cache.specs)
      /\ CacheInv(s.cache) /\ s.chain.spec \in {0} \cup SpecIds(s.cache)
      /\ s.cache.jobs \subseteq SpecIds(s.cache)
  BY StateFields, SessionFields
<1>2. i \in SpecIds(s.cache) /\ i # 0 /\ s.tasks[i].at = "raising"
  BY <1>1 DEF ChainFailed
<1>3. /\ sessions' = [sessions EXCEPT ![t] = d]
      /\ UNCHANGED <<starts, mutations, begun, disk, ask>>
  <2> DEFINE tasks == [s.tasks EXCEPT ![i].at = "failed"]
  <2>1. SetTask(t, i, "failed") = [s EXCEPT !.tasks = tasks]
    BY DEF SetTask
  <2>2. d = [[s EXCEPT !.tasks = tasks] EXCEPT !.cache = s.cache]
    BY <1>0 DEF TaskEnds
  <2> HIDE DEF tasks, d
  <2>3. d = SetTask(t, i, "failed")
    BY <1>1, <2>1, <2>2 DEF SessionType
  <2> QED BY <2>3 DEF ChainFailed
<1>4. s.inc # 0
  <2>1. NoSession.chain.spec = 0
    BY DEF NoSession, NewSession, NoChain
  <2> QED BY <1>2, <2>1, StateFields
<1>5. /\ SessionOK(s) /\ i \in SpecIds(s.cache) /\ CacheInv(c)
      /\ e \in Ends /\ d = TaskEnds(s, i, e, c) /\ c.specs = s.cache.specs
  BY <1>0, <1>1, <1>2
<1> HIDE DEF d
<1>6. /\ d \in SessionType /\ d.inc = s.inc /\ d.cache = c /\ d.chain = s.chain
      /\ d.claim = s.claim /\ d.mutation = s.mutation
      /\ Len(d.tasks) = Len(s.tasks) /\ d.tasks[i].at = e
      /\ \A j \in SpecIds(s.cache) :
           /\ d.tasks[j].lane = s.tasks[j].lane /\ d.tasks[j].write = s.tasks[j].write
           /\ d.tasks[j].val = s.tasks[j].val
           /\ j # i => d.tasks[j] = s.tasks[j]
  <2> HIDE DEF s, i
  <2>1. TaskEnded(s, i, e, c, d)
    BY <1>5, SetTaskFields
  <2> QED BY <2>1 DEF TaskEnded
<1>7. SessionOK(d)
  <2>1. ASSUME NEW j \in s.cache.jobs
        PROVE  /\ j \in s.cache.finished => d.tasks[j].at = "done"
               /\ d.tasks[j].lane = "chain" /\ j # i =>
                    d.tasks[j].at = "done" /\ s.cache.term[j] \in Hits
    <3>1. /\ j \in SpecIds(s.cache)
          /\ j \in s.cache.finished => s.tasks[j].at = "done"
          /\ s.tasks[j].lane = "chain" /\ j # i =>
               s.tasks[j].at = "done" /\ s.cache.term[j] \in Hits
      BY <1>1 DEF SessionOK
    <3> QED BY <1>0, <1>2, <1>6, <3>1
  <2>2. HasChain(d) => d.chain.write \in Writes
    BY <1>1, <1>0, <1>6 DEF SessionOK, HasChain
  <2>3. /\ d.tasks[i].lane = "chain" /\ d.tasks[i].write = d.chain.write
        /\ i \in s.cache.jobs => s.cache.term[i] = "none"
    BY <1>1, <1>2, <1>0, <1>6 DEF SessionOK
  <2> QED BY <1>1, <1>0, <1>6, <2>1, <2>2, <2>3 DEF SessionOK
<1>8. MovesOn(s, d) /\ NoNewHit(s.cache, d.cache)
  <2>1. MovesOn(s, s) /\ NoNewHit(s.cache, s.cache)
    BY <1>1, StaysOn
  <2> QED BY <1>0, <1>6, <1>7, <2>1 DEF MovesOn
<1>9. NoNewRead(s, d)
  <2>1. ASSUME NEW j \in d.cache.jobs, d.tasks[j].at \in {"ran", "done"}
        PROVE  /\ j \in s.cache.jobs /\ s.tasks[j].at \in {"ran", "done"}
               /\ d.tasks[j].val = s.tasks[j].val /\ d.tasks[j].lane = s.tasks[j].lane
    BY <1>0, <1>1, <1>6, <2>1
  <2> QED BY <2>1 DEF NoNewRead
<1>10. HasChain(d) => HasChain(s)
  BY <1>0, <1>6 DEF HasChain
<1>11. d.cache.jobs \subseteq s.cache.jobs /\ d.chain = s.chain /\ d.mutation = s.mutation
  BY <1>0, <1>6
<1>12. SessionPart' /\ FencePart' /\ NoneServed /\ AskPart' /\ ReadsKept
  BY <1>1, <1>3, <1>4, <1>7, <1>8, <1>9, <1>10, <1>11, OneSession DEF MovesOn
<1> QED
  BY <1>12 DEF DaemonInv, SessionPart, FencePart, AskPart

-----------------------------------------------------------------------------
(* resolve *)

\* A claim touches the serve counts of the cache only.
LEMMA ClaimedOK ==
  ASSUME NEW s, SessionOK(s), NEW c, CacheInv(c), Moves(s.cache, c), NoNewHit(s.cache, c),
         c.specs = s.cache.specs, c.jobs = s.cache.jobs, c.finished = s.cache.finished,
         c.term = s.cache.term,
         NEW d, d = [s EXCEPT !.cache = c]
  PROVE  /\ MovesOn(s, d) /\ NoNewRead(s, d) /\ NoNewHit(s.cache, d.cache)
         /\ d \in SessionType /\ SessionOK(d) /\ d.cache = c
         /\ d.inc = s.inc /\ d.tasks = s.tasks /\ d.chain = s.chain /\ d.claim = s.claim
         /\ d.mutation = s.mutation
<1>1. s \in SessionType /\ c \in CacheType /\ SpecIds(c) = SpecIds(s.cache)
  BY SessionFields DEF CacheInv, CacheTypeOK, SpecIds
<1>2. /\ d \in SessionType /\ d.cache = c /\ d.inc = s.inc /\ d.tasks = s.tasks
      /\ d.chain = s.chain /\ d.claim = s.claim /\ d.mutation = s.mutation
  BY <1>1 DEF SessionType
<1>3. SessionOK(d)
  BY <1>1, <1>2 DEF SessionOK, HasChain
<1>4. MovesOn(s, d) /\ NoNewRead(s, d)
  BY <1>2, <1>3 DEF MovesOn, NoNewRead
<1> QED
  BY <1>2, <1>3, <1>4

\* What a caller waits for stays behind the serve count.
LEMMA WaiterKept ==
  ASSUME NEW s, NEW d, SessionOK(s), SessionOK(d), Moves(s.cache, d.cache),
         NEW i \in SpecIds(s.cache), Behind(s.cache, i)
  PROVE  i \in SpecIds(d.cache) /\ Behind(d.cache, i)
<1>1. CacheInv(s.cache) /\ CacheTypeOK(s.cache) /\ CacheTypeOK(d.cache)
  BY SessionFields
<1> QED
  BY <1>1, BehindStays, SpecsStay

Waits == {"plain", "chain"}

\* A caller claims a spec that nobody has claimed, and the chain with it if it is
\* the chain's hop.
LEMMA AskPartClaimed ==
  ASSUME DaemonInv, NEW a \in Askers, NEW t \in Sids, NEW i, NEW at \in Waits, NEW d,
         ask[a].at = "idle",
         ask' = [ask EXCEPT ![a] = [at |-> at, sid |-> t, inc |-> sessions[t].inc, spec |-> i]],
         sessions' = [sessions EXCEPT ![t] = d], starts' = starts,
         sessions[t].inc # 0, SessionOK(d), d.inc = sessions[t].inc, d.tasks = sessions[t].tasks,
         Moves(sessions[t].cache, d.cache),
         i \in SpecIds(sessions[t].cache), ~Behind(sessions[t].cache, i), Behind(d.cache, i),
         at = "plain" => sessions[t].tasks[i].lane = "get",
         \/ d.claim = sessions[t].claim /\ d.chain = sessions[t].chain
         \/ at = "chain" /\ d.claim = a /\ HasChain(d) /\ d.chain.cursor = 2 /\ d.chain.spec = i
  PROVE  AskPart' /\ ask' \in [Askers -> AskType \cup {Idle}]
<1> DEFINE s == sessions[t]
           q == [at |-> at, sid |-> t, inc |-> s.inc, spec |-> i]
<1>1. AskPart /\ SessionOK(s) /\ ask \in [Askers -> AskType \cup {Idle}]
  BY StateFields DEF DaemonInv, AskPart
<1>2. /\ s.inc \in Nat \ {0} /\ i \in Nat \ {0}
      /\ s.inc <= starts[t]
  <2>1. SpecIds(s.cache) \subseteq Nat \ {0}
    BY <1>1, SessionFields, CacheFields
  <2> QED BY <2>1, StateFields
<1>3. q \in AskType /\ q.at = at /\ q.sid = t /\ q.inc = s.inc /\ q.spec = i /\ q.at # "idle"
  BY <1>2 DEF AskType, Waits
<1> HIDE DEF q
<1>4. /\ ask' = [ask EXCEPT ![a] = q] /\ ask'[a] = q /\ \A b \in Askers \ {a} : ask'[b] = ask[b]
      /\ ask' \in [Askers -> AskType \cup {Idle}]
  <2>1. ask' = [ask EXCEPT ![a] = q]
    BY DEF q
  <2>2. ask \in [Askers -> AskType \cup {Idle}] /\ q \in AskType \cup {Idle}
    BY <1>1, <1>3
  <2> QED BY <2>1, <2>2
<1>5. sessions'[t] = d /\ \A u \in Sids \ {t} : sessions'[u] = sessions[u]
  BY StateFields
<1>6. ASSUME NEW b \in Askers \ {a}, ask[b].at # "idle"
      PROVE  /\ ask[b].sid \in Sids /\ ask[b].inc <= starts[ask[b].sid]
             /\ ask[b].inc = sessions'[ask[b].sid].inc =>
                  /\ ask[b].spec \in SpecIds(sessions'[ask[b].sid].cache)
                  /\ Behind(sessions'[ask[b].sid].cache, ask[b].spec)
                  /\ ask[b].at = "plain" => sessions'[ask[b].sid].tasks[ask[b].spec].lane = "get"
             /\ \/ ask[b].sid # t \/ ask[b].inc # s.inc \/ ask[b].spec # i
  <2>1. /\ ask[b].inc <= starts[ask[b].sid]
        /\ ask[b].inc = sessions[ask[b].sid].inc =>
             /\ ask[b].spec \in SpecIds(sessions[ask[b].sid].cache)
             /\ Behind(sessions[ask[b].sid].cache, ask[b].spec)
             /\ ask[b].at = "plain" => sessions[ask[b].sid].tasks[ask[b].spec].lane = "get"
    BY <1>1, <1>6 DEF AskPart, WaitsBehind
  <2>2. ask[b].sid \in Sids
    BY <1>1, <1>6 DEF AskType, Idle
  <2>3. CASE ask[b].sid # t
    BY <1>5, <2>1, <2>2, <2>3
  <2>4. CASE ask[b].sid = t
    BY <1>1, <1>5, <2>1, <2>2, <2>4, WaiterKept
  <2> QED BY <2>3, <2>4
<1>7. WaitsBehind'
  <2>1. ASSUME NEW b \in Askers, ask'[b].at # "idle"
        PROVE  /\ ask'[b].inc <= starts'[ask'[b].sid]
               /\ ask'[b].inc = sessions'[ask'[b].sid].inc =>
                    /\ ask'[b].spec \in SpecIds(sessions'[ask'[b].sid].cache)
                    /\ Behind(sessions'[ask'[b].sid].cache, ask'[b].spec)
                    /\ ask'[b].at = "plain" => sessions'[ask'[b].sid].tasks[ask'[b].spec].lane = "get"
    <3>1. CASE b # a
      BY <1>4, <1>6, <2>1, <3>1
    <3>2. CASE b = a
      <4>1. CacheTypeOK(s.cache) /\ CacheTypeOK(d.cache)
        BY <1>1, SessionFields
      <4>2. i \in SpecIds(d.cache)
        BY <4>1, SpecsStay
      <4> QED BY <1>2, <1>3, <1>4, <1>5, <3>2, <4>2
    <3> QED BY <3>1, <3>2
  <2> QED BY <2>1 DEF WaitsBehind
<1>8. ASSUME NEW b \in Askers, NEW e \in Askers, b # e,
             ask'[b].at # "idle", ask'[e].at # "idle"
      PROVE  \/ ask'[b].sid # ask'[e].sid
             \/ ask'[b].inc # ask'[e].inc
             \/ ask'[b].spec # ask'[e].spec
  <2>1. CASE b # a /\ e # a
    BY <1>1, <1>4, <1>8, <2>1 DEF AskPart, ClaimOwned
  <2>2. CASE b = a
    BY <1>3, <1>4, <1>6, <1>8, <2>2
  <2>3. CASE e = a
    BY <1>3, <1>4, <1>6, <1>8, <2>3
  <2> QED BY <2>1, <2>2, <2>3
<1>9. ASSUME NEW u \in Sids, sessions'[u].claim # NoAsker
      PROVE  /\ HasChain(sessions'[u]) /\ sessions'[u].chain.cursor = 2
             /\ ask'[sessions'[u].claim] =
                  [at |-> "chain", sid |-> u, inc |-> sessions'[u].inc, spec |-> sessions'[u].chain.spec]
  <2>1. ASSUME sessions'[u].claim = sessions[u].claim, sessions'[u].chain = sessions[u].chain,
               sessions'[u].inc = sessions[u].inc
        PROVE  /\ HasChain(sessions'[u]) /\ sessions'[u].chain.cursor = 2
               /\ ask'[sessions'[u].claim] =
                    [at |-> "chain", sid |-> u, inc |-> sessions'[u].inc, spec |-> sessions'[u].chain.spec]
    <3>1. /\ HasChain(sessions[u]) /\ sessions[u].chain.cursor = 2
          /\ ask[sessions[u].claim] =
               [at |-> "chain", sid |-> u, inc |-> sessions[u].inc, spec |-> sessions[u].chain.spec]
      BY <1>1, <1>9, <2>1 DEF AskPart, ClaimOwned
    <3>2. sessions[u].claim \in Askers
      BY <1>9, <2>1, StateFields DEF SessionType
    <3>3. sessions[u].claim # a
      BY <3>1
    <3> QED BY <1>4, <2>1, <3>1, <3>2, <3>3 DEF HasChain
  <2>2. CASE u # t
    BY <1>5, <2>1, <2>2
  <2>3. CASE u = t /\ d.claim = s.claim /\ d.chain = s.chain
    BY <1>5, <2>1, <2>3
  <2>4. CASE u = t /\ at = "chain" /\ d.claim = a /\ HasChain(d) /\ d.chain.cursor = 2 /\ d.chain.spec = i
    BY <1>4, <1>5, <2>4 DEF q
  <2> QED BY <2>2, <2>3, <2>4
<1>10. ClaimOwned'
  BY <1>8, <1>9 DEF ClaimOwned
<1> QED
  BY <1>4, <1>7, <1>10 DEF AskPart

\* The facts every step of resolve starts from.
LEMMA MayResolveFields ==
  ASSUME DaemonInv, NEW a \in Askers, NEW t \in Sids, MayResolve(a, t)
  PROVE  /\ SessionOK(sessions[t]) /\ sessions \in [Sids -> SessionType]
         /\ ask \in [Askers -> AskType \cup {Idle}]
         /\ CacheInv(sessions[t].cache) /\ CacheTypeOK(sessions[t].cache)
         /\ sessions[t].inc # 0 /\ ~Fence(t) /\ ask[a].at = "idle"
<1>1. sessions[t].inc > 0 /\ sessions[t].inc \in Nat /\ ~Fence(t) /\ ask[a].at = "idle"
  BY StateFields DEF MayResolve, Registered
<1> QED
  BY <1>1, StateFields, SessionFields

\* Outside a fence a job that may be claimed without a chain is on the GET lane:
\* a live job of a former chain was served, and is behind the serve count.
LEMMA PlainClaims ==
  ASSUME NEW s, SessionOK(s), ~HasChain(s), NEW call \in Calls,
         NEW i \in NextClaim(s.cache, call)
  PROVE  s.tasks[i].lane = "get"
<1>1. s.chain.spec = 0
  BY DEF HasChain, NoChain
<1>2. /\ CacheInv(s.cache) /\ i \in s.cache.jobs /\ i \in SpecIds(s.cache) /\ i # 0
      /\ s.tasks[i] \in TaskType
  BY SessionFields DEF NextClaim, Claimable
<1>3. ~Behind(s.cache, i)
  BY <1>2, ClaimInv
<1>4. s.cache.term[i] \notin Hits
  BY <1>2, <1>3 DEF CacheInv, HitsBehind
<1>5. s.tasks[i].lane # "chain"
  BY <1>1, <1>2, <1>4 DEF SessionOK
<1> QED
  BY <1>2, <1>5 DEF TaskType

LEMMA ResolvePlainStep ==
  ASSUME DaemonInv, NEW a \in Askers, NEW t \in Sids, NEW call \in Calls,
         ResolvePlain(a, t, call)
  PROVE  DaemonInv' /\ NoneServed /\ ReadsKept
<1> DEFINE s == sessions[t]
<1>1. /\ SessionOK(s) /\ sessions \in [Sids -> SessionType]
      /\ ask \in [Askers -> AskType \cup {Idle}]
      /\ CacheInv(s.cache) /\ CacheTypeOK(s.cache)
      /\ s.inc # 0 /\ ~Fence(t) /\ ask[a].at = "idle"
  BY MayResolveFields DEF ResolvePlain
<1>2. ~HasChain(s) /\ UNCHANGED <<starts, mutations, begun, disk>>
  BY DEF ResolvePlain
<1>3. CASE NextClaim(s.cache, call) = {} /\ ask' = ask
           /\ sessions' = [sessions EXCEPT ![t].cache = ClaimNothing(@, call)]
  <2> DEFINE c == ClaimNothing(s.cache, call)
             d == [s EXCEPT !.cache = c]
  <2>1. sessions' = [sessions EXCEPT ![t] = d]
    BY <1>3
  <2>2. CacheInv(c) /\ Moves(s.cache, c) /\ NoNewHit(s.cache, c)
    BY <1>1, ClaimNothingInv
  <2>3. /\ c.specs = s.cache.specs /\ c.jobs = s.cache.jobs
        /\ c.finished = s.cache.finished /\ c.term = s.cache.term
    BY <1>1, ClaimEffect
  <2>4. /\ MovesOn(s, d) /\ NoNewRead(s, d) /\ NoNewHit(s.cache, d.cache) /\ SessionOK(d)
        /\ d.inc = s.inc /\ d.chain = s.chain /\ d.mutation = s.mutation
    <3> HIDE DEF c
    <3> QED BY <1>1, <2>2, <2>3, ClaimedOK
  <2> HIDE DEF c, d
  <2>5. ~HasChain(d)
    BY <1>2, <2>4 DEF HasChain
  <2>6. SessionPart' /\ FencePart' /\ NoneServed /\ AskPart' /\ ReadsKept
    BY <1>1, <1>2, <1>3, <2>1, <2>4, <2>5, OneSession
  <2> QED BY <2>6 DEF DaemonInv, SessionPart, FencePart, AskPart
<1>4. ASSUME NEW i \in NextClaim(s.cache, call), Wait(a, "plain", t, i),
             sessions' = [sessions EXCEPT ![t].cache = Claim(@, i)]
      PROVE  DaemonInv' /\ NoneServed /\ ReadsKept
  <2> DEFINE c == Claim(s.cache, i)
             d == [s EXCEPT !.cache = c]
  <2>1. sessions' = [sessions EXCEPT ![t] = d]
    BY <1>4
  <2>2. /\ CacheInv(c) /\ Moves(s.cache, c) /\ NoNewHit(s.cache, c)
        /\ i \in SpecIds(s.cache) /\ ~Behind(s.cache, i) /\ Behind(c, i)
    BY <1>1, ClaimInv
  <2>3. /\ c.specs = s.cache.specs /\ c.jobs = s.cache.jobs
        /\ c.finished = s.cache.finished /\ c.term = s.cache.term
    BY <1>1, ClaimEffect
  <2>4. /\ NoNewRead(s, d) /\ NoNewHit(s.cache, d.cache) /\ SessionOK(d)
        /\ d.inc = s.inc /\ d.chain = s.chain /\ d.mutation = s.mutation
        /\ d.tasks = s.tasks /\ d.claim = s.claim /\ d.cache = c
    <3> HIDE DEF c
    <3> QED BY <1>1, <2>2, <2>3, ClaimedOK
  <2> HIDE DEF c, d
  <2>5. ~HasChain(d) /\ s.tasks[i].lane = "get"
    BY <1>1, <1>2, <2>4, PlainClaims DEF HasChain
  <2>6. "plain" \in Waits
    BY DEF Waits
  <2>7. ask' = [ask EXCEPT ![a] = [at |-> "plain", sid |-> t, inc |-> s.inc, spec |-> i]]
    BY <1>4 DEF Wait
  <2>8. AskPart' /\ ask' \in [Askers -> AskType \cup {Idle}]
    BY <1>1, <1>2, <2>1, <2>2, <2>4, <2>5, <2>6, <2>7, AskPartClaimed
  <2>9. SessionPart' /\ FencePart' /\ NoneServed /\ ReadsKept
    BY <1>1, <1>2, <2>1, <2>4, <2>5, <2>8, OneSession
  <2> QED BY <2>8, <2>9 DEF DaemonInv, SessionPart, FencePart, AskPart
<1> QED
  BY <1>3, <1>4 DEF ResolvePlain

\* A chain that resolve drops, after a claim of the cache or not.
LEMMA DroppedChain ==
  ASSUME DaemonInv, NEW a \in Askers, NEW t \in Sids, MayResolve(a, t), NEW b, NEW d,
         SessionOK(b), MovesOn(sessions[t], b), NoNewRead(sessions[t], b),
         NoNewHit(sessions[t].cache, b.cache),
         d = DiscardChain(b), sessions' = [sessions EXCEPT ![t] = d],
         UNCHANGED <<starts, mutations, begun, disk, ask>>
  PROVE  DaemonInv' /\ NoneServed /\ ReadsKept
<1> DEFINE s == sessions[t]
<1>1. /\ SessionOK(s) /\ ask \in [Askers -> AskType \cup {Idle}] /\ s.inc # 0 /\ ~Fence(t)
  BY MayResolveFields
<1>2. /\ MovesOn(b, d) /\ NoNewRead(b, d) /\ NoNewHit(b.cache, d.cache)
      /\ d.chain = NoChain /\ d.mutation = 0
  BY DiscardChainOK
<1>3. MovesOn(s, d) /\ NoNewRead(s, d) /\ NoNewHit(s.cache, d.cache)
  BY <1>1, <1>2, MovesOnTransitive
<1>4. SessionOK(d) /\ d.inc = s.inc /\ ~HasChain(d)
  BY <1>2, <1>3 DEF MovesOn, HasChain
<1>5. SessionPart' /\ FencePart' /\ NoneServed /\ AskPart' /\ ReadsKept
  BY <1>1, <1>2, <1>3, <1>4, OneSession
<1> QED
  BY <1>5 DEF DaemonInv, SessionPart, FencePart, AskPart

LEMMA ResolveEditStep ==
  ASSUME DaemonInv, NEW a \in Askers, NEW t \in Sids, NEW w \in Writes, ResolveEdit(a, t, w)
  PROVE  DaemonInv' /\ NoneServed /\ ReadsKept
<1> DEFINE s == sessions[t]
<1>1. /\ SessionOK(s) /\ sessions \in [Sids -> SessionType] /\ s \in SessionType
      /\ ask \in [Askers -> AskType \cup {Idle}] /\ s.inc # 0 /\ ~Fence(t)
  BY MayResolveFields, StateFields DEF ResolveEdit
<1>2. /\ MayResolve(a, t) /\ HasChain(s) /\ s.claim = NoAsker
      /\ UNCHANGED <<starts, mutations, begun, disk, ask>>
  BY DEF ResolveEdit
<1>3. MovesOn(s, s) /\ NoNewRead(s, s) /\ NoNewHit(s.cache, s.cache)
  BY <1>1, StaysOn
<1>4. CASE sessions' = [sessions EXCEPT ![t] = DiscardChain(s)]
  BY <1>1, <1>2, <1>3, <1>4, DroppedChain
<1>5. ASSUME NEW ch \in ChainType,
             ch = NoChain \/ ch.write = s.chain.write, ch.spec = s.chain.spec,
             ch.hop = NoCall => ch.spec = 0,
             sessions' = [sessions EXCEPT ![t] = [s EXCEPT !.chain = ch]]
      PROVE  DaemonInv' /\ NoneServed /\ ReadsKept
  <2> DEFINE d == [s EXCEPT !.chain = ch]
  <2>1. /\ d \in SessionType /\ d.inc = s.inc /\ d.cache = s.cache /\ d.tasks = s.tasks
        /\ d.chain = ch /\ d.claim = NoAsker /\ d.mutation = s.mutation
    BY <1>1, <1>2 DEF SessionType
  <2>2. sessions' = [sessions EXCEPT ![t] = d]
    BY <1>5
  <2> HIDE DEF d
  <2>3. SessionOK(d)
    <3>1. s.chain.write \in Writes
      BY <1>1, <1>2 DEF SessionOK
    <3>2. HasChain(d) => d.chain.write \in Writes
      BY <1>5, <2>1, <3>1 DEF HasChain
    <3>3. d.chain.spec \in {0} \cup SpecIds(d.cache)
      BY <1>1, <1>5, <2>1 DEF SessionOK
    <3>4. d.chain.spec # 0 =>
            /\ d.tasks[d.chain.spec].lane = "chain"
            /\ d.tasks[d.chain.spec].write = d.chain.write
            /\ d.chain.spec \in d.cache.jobs => d.cache.term[d.chain.spec] = "none"
      <4>1. NoChain.spec = 0
        BY DEF NoChain
      <4> QED BY <1>1, <1>5, <2>1, <4>1 DEF SessionOK
    <3>5. \A i \in d.cache.jobs :
            /\ i \in d.cache.finished => d.tasks[i].at = "done"
            /\ d.tasks[i].lane = "chain" /\ i # d.chain.spec =>
                 d.tasks[i].at = "done" /\ d.cache.term[i] \in Hits
      BY <1>1, <1>5, <2>1 DEF SessionOK
    <3>6. /\ CacheInv(d.cache) /\ Len(d.tasks) = Len(d.cache.specs)
          /\ d.chain.hop = NoCall => d.chain.spec = 0
      BY <1>1, <1>5, <2>1 DEF SessionOK
    <3> QED BY <2>1, <3>2, <3>3, <3>4, <3>5, <3>6 DEF SessionOK
  <2>4. MovesOn(s, d) /\ NoNewRead(s, d) /\ NoNewHit(s.cache, d.cache)
    BY <1>3, <2>1, <2>3 DEF MovesOn, NoNewRead
  <2>5. HasChain(d) => d.chain.write = s.chain.write
    BY <1>5, <2>1 DEF HasChain
  <2>6. SessionPart' /\ FencePart' /\ NoneServed /\ AskPart' /\ ReadsKept
    BY <1>1, <1>2, <2>1, <2>2, <2>3, <2>4, <2>5, OneSession
  <2> QED BY <2>6 DEF DaemonInv, SessionPart, FencePart, AskPart
<1>6. CASE sessions' = [sessions EXCEPT ![t] = [s EXCEPT !.chain = NoChain]] /\ s.chain.hop = NoCall
  <2>1. NoChain \in ChainType /\ NoChain.spec = 0
    BY DEF NoChain, ChainType
  <2>2. s.chain.spec = 0
    BY <1>1, <1>6 DEF SessionOK
  <2> QED BY <1>5, <1>6, <2>1, <2>2
<1>7. CASE sessions' = [sessions EXCEPT ![t] = [s EXCEPT !.chain.cursor = 1]] /\ s.chain.hop # NoCall
  <2> DEFINE ch == [s.chain EXCEPT !.cursor = 1]
  <2>1. s.chain \in ChainType
    BY <1>1, SessionFields
  <2>2. ch \in ChainType /\ ch.spec = s.chain.spec /\ ch.write = s.chain.write /\ ch.hop = s.chain.hop
    BY <2>1 DEF ChainType
  <2>3. sessions' = [sessions EXCEPT ![t] = [s EXCEPT !.chain = ch]]
    BY <1>7, Zenon
  <2> HIDE DEF ch
  <2> QED BY <1>5, <1>7, <2>2, <2>3
<1> QED
  BY <1>4, <1>6, <1>7 DEF ResolveEdit

LEMMA ResolveChainStep ==
  ASSUME DaemonInv, NEW a \in Askers, NEW t \in Sids, NEW call \in Calls,
         ResolveChain(a, t, call)
  PROVE  DaemonInv' /\ NoneServed /\ ReadsKept
<1> DEFINE s == sessions[t]
           next == NextClaim(s.cache, call)
<1>1. /\ SessionOK(s) /\ sessions \in [Sids -> SessionType] /\ s \in SessionType
      /\ ask \in [Askers -> AskType \cup {Idle}] /\ s.inc # 0 /\ ~Fence(t)
      /\ CacheInv(s.cache) /\ CacheTypeOK(s.cache) /\ ask[a].at = "idle"
  BY MayResolveFields, StateFields DEF ResolveChain
<1>2. /\ MayResolve(a, t) /\ HasChain(s) /\ s.claim = NoAsker
      /\ UNCHANGED <<starts, mutations, begun, disk>>
  BY DEF ResolveChain
<1>3. CASE sessions' = [sessions EXCEPT ![t] = DiscardChain(s)] /\ ask' = ask
  <2>1. MovesOn(s, s) /\ NoNewRead(s, s) /\ NoNewHit(s.cache, s.cache)
    BY <1>1, StaysOn
  <2> QED BY <1>1, <1>2, <1>3, <2>1, DroppedChain
<1>4. ASSUME NEW c, CacheInv(c), Moves(s.cache, c), NoNewHit(s.cache, c),
             c.specs = s.cache.specs, c.jobs = s.cache.jobs,
             c.finished = s.cache.finished, c.term = s.cache.term,
             sessions' = [sessions EXCEPT ![t] = DiscardChain([s EXCEPT !.cache = c])],
             ask' = ask
      PROVE  DaemonInv' /\ NoneServed /\ ReadsKept
  <2> DEFINE b == [s EXCEPT !.cache = c]
  <2>1. /\ MovesOn(s, b) /\ NoNewRead(s, b) /\ NoNewHit(s.cache, b.cache) /\ SessionOK(b)
    BY <1>1, <1>4, ClaimedOK
  <2>2. sessions' = [sessions EXCEPT ![t] = DiscardChain(b)]
    BY <1>4
  <2> HIDE DEF b
  <2> QED BY <1>2, <1>4, <2>1, <2>2, DroppedChain
<1>5. CASE /\ sessions' = [sessions EXCEPT ![t] = DiscardChain([s EXCEPT !.cache = ClaimNothing(s.cache, call)])]
           /\ ask' = ask
  <2> DEFINE c == ClaimNothing(s.cache, call)
  <2>1. CacheInv(c) /\ Moves(s.cache, c) /\ NoNewHit(s.cache, c)
    BY <1>1, ClaimNothingInv
  <2>2. /\ c.specs = s.cache.specs /\ c.jobs = s.cache.jobs
        /\ c.finished = s.cache.finished /\ c.term = s.cache.term
    BY <1>1, ClaimEffect
  <2> HIDE DEF c
  <2> QED BY <1>4, <1>5, <2>1, <2>2 DEF c
<1>6. ASSUME NEW i \in next,
             sessions' = [sessions EXCEPT ![t] = DiscardChain([s EXCEPT !.cache = Claim(s.cache, i)])],
             ask' = ask
      PROVE  DaemonInv' /\ NoneServed /\ ReadsKept
  <2> DEFINE c == Claim(s.cache, i)
  <2>1. CacheInv(c) /\ Moves(s.cache, c) /\ NoNewHit(s.cache, c)
    BY <1>1, ClaimInv
  <2>2. /\ c.specs = s.cache.specs /\ c.jobs = s.cache.jobs
        /\ c.finished = s.cache.finished /\ c.term = s.cache.term
    BY <1>1, ClaimEffect
  <2> HIDE DEF c
  <2> QED BY <1>4, <1>6, <2>1, <2>2 DEF c
<1>7. ASSUME NEW i \in next, i = s.chain.spec, Wait(a, "chain", t, i),
             sessions' = [sessions EXCEPT ![t] =
               [s EXCEPT !.cache = Claim(s.cache, i), !.chain.cursor = 2, !.claim = a]]
      PROVE  DaemonInv' /\ NoneServed /\ ReadsKept
  <2> DEFINE c == Claim(s.cache, i)
             ch == [s.chain EXCEPT !.cursor = 2]
             b == [s EXCEPT !.cache = c]
             d == [b EXCEPT !.chain = ch, !.claim = a]
  <2>1. /\ CacheInv(c) /\ Moves(s.cache, c) /\ NoNewHit(s.cache, c)
        /\ i \in SpecIds(s.cache) /\ ~Behind(s.cache, i) /\ Behind(c, i)
    BY <1>1, ClaimInv
  <2>2. /\ c.specs = s.cache.specs /\ c.jobs = s.cache.jobs
        /\ c.finished = s.cache.finished /\ c.term = s.cache.term
    BY <1>1, ClaimEffect
  <2>3. s.chain \in ChainType
    BY <1>1, SessionFields
  <2>4. /\ ch \in ChainType /\ ch.spec = s.chain.spec /\ ch.write = s.chain.write
        /\ ch.hop = s.chain.hop /\ ch.cursor = 2
    BY <2>3 DEF ChainType
  <2>5. sessions' = [sessions EXCEPT ![t] = d]
    BY <1>1, <1>7 DEF SessionType
  <2>6. /\ MovesOn(s, b) /\ NoNewRead(s, b) /\ NoNewHit(s.cache, b.cache) /\ SessionOK(b)
        /\ b \in SessionType /\ b.cache = c /\ b.inc = s.inc /\ b.tasks = s.tasks
        /\ b.chain = s.chain /\ b.mutation = s.mutation
    <3> HIDE DEF c
    <3> QED BY <1>1, <2>1, <2>2, ClaimedOK
  <2> HIDE DEF c, ch, b, d
  <2>7. /\ d \in SessionType /\ d.cache = c /\ d.inc = s.inc /\ d.tasks = s.tasks
        /\ d.chain = ch /\ d.claim = a /\ d.mutation = s.mutation
    BY <2>4, <2>6 DEF SessionType, d
  <2>8. ch # NoChain
    BY <2>4 DEF NoChain
  <2>9. s.chain.write \in Writes
    BY <1>1, <1>2 DEF SessionOK
  <2>10. SessionOK(d) /\ HasChain(d)
    <3>1. d.chain.spec \in {0} \cup SpecIds(d.cache)
      BY <2>4, <2>6, <2>7 DEF SessionOK
    <3>2. HasChain(d) /\ d.chain.write \in Writes
      BY <2>4, <2>7, <2>8, <2>9 DEF HasChain
    <3>3. /\ CacheInv(d.cache) /\ Len(d.tasks) = Len(d.cache.specs)
          /\ d.chain.hop = NoCall => d.chain.spec = 0
      BY <2>4, <2>6, <2>7 DEF SessionOK
    <3>4. d.chain.spec # 0 =>
            /\ d.tasks[d.chain.spec].lane = "chain"
            /\ d.tasks[d.chain.spec].write = d.chain.write
            /\ d.chain.spec \in d.cache.jobs => d.cache.term[d.chain.spec] = "none"
      BY <2>4, <2>6, <2>7 DEF SessionOK
    <3>5. \A j \in d.cache.jobs :
            /\ j \in d.cache.finished => d.tasks[j].at = "done"
            /\ d.tasks[j].lane = "chain" /\ j # d.chain.spec =>
                 d.tasks[j].at = "done" /\ d.cache.term[j] \in Hits
      BY <2>4, <2>6, <2>7 DEF SessionOK
    <3> QED BY <2>7, <3>1, <3>2, <3>3, <3>4, <3>5 DEF SessionOK
  <2>11. NoNewRead(s, d) /\ NoNewHit(s.cache, d.cache) /\ Moves(s.cache, d.cache) /\ Behind(d.cache, i)
    BY <2>1, <2>6, <2>7 DEF NoNewRead
  <2>12. PICK at \in Waits : at = "chain"
    BY DEF Waits
  <2>13. /\ ask' = [ask EXCEPT ![a] = [at |-> at, sid |-> t, inc |-> s.inc, spec |-> i]]
         /\ at # "plain"
    BY <1>7, <2>12 DEF Wait
  <2>14. AskPart' /\ ask' \in [Askers -> AskType \cup {Idle}]
    <3>1. /\ d.chain.cursor = 2 /\ d.chain.spec = i /\ d.claim = a /\ d.inc = s.inc
          /\ d.tasks = s.tasks
      BY <1>7, <2>4, <2>7
    <3>2. starts' = starts /\ ask[a].at = "idle" /\ s.inc # 0
      BY <1>1, <1>2
    <3> QED BY <2>1, <2>5, <2>10, <2>11, <2>12, <2>13, <3>1, <3>2, AskPartClaimed
  <2>15. d.chain.write = s.chain.write /\ HasChain(s)
    BY <1>2, <2>4, <2>7
  <2>16. SessionPart' /\ FencePart' /\ NoneServed /\ ReadsKept
    BY <1>1, <1>2, <2>5, <2>7, <2>10, <2>11, <2>14, <2>15, OneSession
  <2> QED BY <2>14, <2>16 DEF DaemonInv, SessionPart, FencePart, AskPart
<1> QED
  BY <1>3, <1>5, <1>6, <1>7 DEF ResolveChain

-----------------------------------------------------------------------------
(* resolve comes back from its wait *)

\* What this step serves is the result of a live job, outside of every fence.
ServedLive ==
  \A t \in Sids : \A i \in ServedNow(t) :
    ~Fence(t) /\ i \in sessions[t].cache.jobs /\ sessions[t].tasks[i].at = "done"

\* A caller that comes back and serves nothing.
LEMMA ComesBack ==
  ASSUME DaemonInv, NEW a \in Askers, ask[a].at # "idle",
         sessions' = sessions, ask' = [ask EXCEPT ![a] = Idle],
         UNCHANGED <<starts, mutations, begun, disk>>,
         \A t \in Sids : sessions[t].claim # a
  PROVE  DaemonInv' /\ NoneServed /\ ReadsKept
<1>1. /\ ask' \in [Askers -> AskType \cup {Idle}] /\ ask'[a] = Idle
      /\ \A b \in Askers \ {a} : ask'[b] = ask[b]
  BY StateFields
<1>2. \A t \in Sids : /\ SessionOK(sessions[t])
                      /\ MovesOn(sessions[t], sessions'[t]) /\ NoNewRead(sessions[t], sessions'[t])
                      /\ NoNewHit(sessions[t].cache, sessions'[t].cache)
  BY StateFields, StaysOn
<1>3. SessionPart'
  BY <1>1, StateFields DEF SessionPart, TypeOK, DaemonInv
<1>4. FencePart'
  BY <1>2, FencePartKept
<1>5. AskPart'
  <2>1. \A t \in Sids : sessions'[t].claim # NoAsker =>
                          ask'[sessions'[t].claim] = ask[sessions'[t].claim]
    BY <1>1, StateFields DEF SessionType
  <2>2. \A t \in Sids : starts'[t] \in Nat /\ starts[t] <= starts'[t]
    BY StateFields
  <2>3. \A b \in Askers : ask'[b] = ask[b] \/ ask'[b] = Idle
    BY <1>1
  <2> QED BY <1>2, <2>1, <2>2, <2>3, AskPartKept
<1>6. NoneServed /\ ReadsKept
  BY <1>2, NoneServedIf DEF ReadsKept
<1> QED
  BY <1>3, <1>4, <1>5, <1>6 DEF DaemonInv, SessionPart, FencePart, AskPart

\* a comes back to its session t, the session becomes d, and d is what a caller may
\* make of it.
Returns(a, t) ==
  /\ ask[a].at # "idle" /\ ask[a].sid = t /\ SameSession(a)
  /\ ask' = [ask EXCEPT ![a] = Idle]
  /\ UNCHANGED <<starts, mutations, begun, disk>>

Becomes(t, d) == sessions' = [sessions EXCEPT ![t] = d]

MayFollow(a, t, d) ==
  /\ MovesOn(sessions[t], d) /\ NoNewRead(sessions[t], d)
  /\ d.mutation \in {0, sessions[t].mutation}
  /\ Fence(t) => /\ d.cache.jobs \subseteq sessions[t].cache.jobs
                 /\ d.cache.jobs # {} => d.chain = sessions[t].chain /\ d.mutation = sessions[t].mutation
  /\ HasChain(d) => HasChain(sessions[t]) /\ d.chain.write = sessions[t].chain.write
  /\ d.claim # a

\* A caller that comes back to its session and changes it.
LEMMA ComesBackTo ==
  ASSUME DaemonInv, NEW a \in Askers, NEW t \in Sids, NEW d,
         Returns(a, t), Becomes(t, d), MayFollow(a, t, d)
  PROVE  DaemonInv' /\ ReadsKept /\ (NoNewHit(sessions[t].cache, d.cache) => NoneServed)
<1> USE DEF Returns, Becomes, MayFollow
<1>1. /\ ask' \in [Askers -> AskType \cup {Idle}] /\ ask'[a] = Idle
      /\ \A b \in Askers \ {a} : ask'[b] = ask[b]
  BY StateFields
<1>2. ask[a].inc # 0 /\ sessions[t].inc = ask[a].inc
  BY StateFields DEF SameSession, AskType, Idle
<1>3. SessionOK(d) /\ d.inc = sessions[t].inc
  BY DEF MovesOn
<1>4. SessionPart' /\ FencePart' /\ ReadsKept /\ (NoNewHit(sessions[t].cache, d.cache) => NoneServed)
  BY <1>1, <1>2, <1>3, OneSession
<1>5. AskPart'
  <2>1. sessions'[t] = d /\ \A u \in Sids \ {t} : sessions'[u] = sessions[u]
    BY StateFields
  <2>2. ASSUME NEW u \in Sids, u # t
        PROVE  sessions[u].claim # a
    <3>1. SUFFICES ASSUME sessions[u].claim = a
                   PROVE  ask[a].sid = u
      BY <2>2
    <3>2. a # NoAsker
      BY SfxDaemonAssumption
    <3>3. ask[sessions[u].claim] = [at |-> "chain", sid |-> u, inc |-> sessions[u].inc,
                                    spec |-> sessions[u].chain.spec]
      BY <3>1, <3>2 DEF DaemonInv, ClaimOwned
    <3> QED BY <3>1, <3>3
  <2>3. \A u \in Sids : MovesOn(sessions[u], sessions'[u])
    BY <2>1, StateFields, StaysOn
  <2>4. \A u \in Sids : sessions'[u].claim # NoAsker =>
                          ask'[sessions'[u].claim] = ask[sessions'[u].claim]
    <3>1. \A u \in Sids : sessions'[u].claim \in Askers \cup {NoAsker} /\ sessions'[u].claim # a
      <4>1. d.claim \in Askers \cup {NoAsker}
        BY <1>3, SessionFields DEF SessionType
      <4>2. \A u \in Sids : sessions[u].claim \in Askers \cup {NoAsker}
        BY StateFields DEF SessionType
      <4> QED BY <2>1, <2>2, <4>1, <4>2
    <3> QED BY <1>1, <3>1
  <2>5. \A u \in Sids : starts'[u] \in Nat /\ starts[u] <= starts'[u]
    BY StateFields
  <2>6. \A b \in Askers : ask'[b] = ask[b] \/ ask'[b] = Idle
    BY <1>1
  <2> QED BY <2>3, <2>4, <2>5, <2>6, AskPartKept
<1> QED
  BY <1>4, <1>5 DEF DaemonInv, SessionPart, FencePart, AskPart

\* What a caller comes back to, if the session is the one it called.
LEMMA WaitFields ==
  ASSUME DaemonInv, NEW a \in Askers, ask[a].at # "idle"
  PROVE  /\ ask[a].sid \in Sids
         /\ SessionOK(sessions[ask[a].sid])
         /\ SameSession(a) =>
              /\ ask[a].spec \in SpecIds(sessions[ask[a].sid].cache)
              /\ Behind(sessions[ask[a].sid].cache, ask[a].spec)
              /\ ask[a].at = "plain" => sessions[ask[a].sid].tasks[ask[a].spec].lane = "get"
         /\ \A t \in Sids : sessions[t].claim = a =>
              /\ HasChain(sessions[t]) /\ ask[a].at = "chain" /\ ask[a].sid = t /\ SameSession(a)
              /\ sessions[t].chain.spec = ask[a].spec
<1>1. ask[a].sid \in Sids
  BY StateFields DEF AskType, Idle
<1>2. /\ WaitsBehind /\ ClaimOwned /\ NoAsker # a
  BY SfxDaemonAssumption DEF DaemonInv
<1>3. ASSUME NEW t \in Sids, sessions[t].claim = a
      PROVE  /\ HasChain(sessions[t]) /\ ask[a].at = "chain" /\ ask[a].sid = t /\ SameSession(a)
             /\ sessions[t].chain.spec = ask[a].spec
  <2>1. /\ HasChain(sessions[t])
        /\ ask[sessions[t].claim] = [at |-> "chain", sid |-> t, inc |-> sessions[t].inc,
                                     spec |-> sessions[t].chain.spec]
    BY <1>2, <1>3 DEF ClaimOwned
  <2> QED BY <1>3, <2>1 DEF SameSession
<1>4. SessionOK(sessions[ask[a].sid])
  BY <1>1, StateFields
<1> QED
  BY <1>1, <1>2, <1>3, <1>4 DEF WaitsBehind, SameSession

\* The session s when the job i is served to a caller.
Serve(s, i, ch, cl) ==
  [s EXCEPT !.cache = Terminal(s.cache, i, "hit_completed"), !.chain = ch, !.claim = cl]

ServeDone(s, i, ch, cl, d) ==
  /\ MovesOn(s, d) /\ NoNewRead(s, d)
  /\ d.mutation = s.mutation /\ d.chain = ch /\ d.claim = cl
  /\ s.tasks[i].at = "done" /\ i \in s.cache.jobs
  /\ \A j \in SpecIds(s.cache) \ {i} : d.cache.term[j] = s.cache.term[j]

\* Cache.finish on a job the session still holds (cache.py:98-116): it is done,
\* its result is current outside of a fence, and settling it as a hit keeps the
\* session well formed once it is no chain's hop.
LEMMA ServeOK ==
  ASSUME NEW s, SessionOK(s), NEW i \in SpecIds(s.cache), MayServe(s.cache, i), Behind(s.cache, i),
         NEW ch \in ChainType, ch.spec # i,
         \/ ch = s.chain
         \/ ch = NoChain /\ s.chain.spec = i,
         NEW cl \in Askers \cup {NoAsker}, cl = NoAsker \/ (cl = s.claim /\ ch = s.chain),
         NEW d, d = Serve(s, i, ch, cl)
  PROVE  ServeDone(s, i, ch, cl, d)
<1> DEFINE c == Terminal(s.cache, i, "hit_completed")
<1>1. /\ s \in SessionType /\ CacheInv(s.cache) /\ CacheTypeOK(s.cache)
      /\ s.cache.jobs \subseteq SpecIds(s.cache)
  BY SessionFields
<1>2. /\ i \in s.cache.finished /\ i \in s.cache.jobs /\ s.cache.term[i] = "none"
      /\ s.tasks[i].at = "done"
  BY DEF MayServe, SessionOK
<1>3. CacheInv(c) /\ Moves(s.cache, c)
  BY <1>1, <1>2, TerminalInv DEF Terminals, Hits
<1>4. /\ c.specs = s.cache.specs /\ c.jobs = s.cache.jobs /\ c.finished = s.cache.finished
      /\ c.term[i] = "hit_completed" /\ \A j \in SpecIds(s.cache) \ {i} : c.term[j] = s.cache.term[j]
  BY <1>1, <1>2, TerminalEffect
<1>5. d = [s EXCEPT !.cache = c, !.chain = ch, !.claim = cl]
  BY DEF Serve
<1> HIDE DEF c
<1>6. c \in CacheType /\ SpecIds(c) = SpecIds(s.cache)
  BY <1>3, <1>4 DEF CacheInv, CacheTypeOK, SpecIds
<1>7. /\ d \in SessionType /\ d.cache = c /\ d.inc = s.inc /\ d.tasks = s.tasks
      /\ d.chain = ch /\ d.claim = cl /\ d.mutation = s.mutation
  BY <1>1, <1>5, <1>6 DEF SessionType
<1>8. "hit_completed" \in Hits /\ NoChain.spec = 0
  BY DEF Hits, NoChain
<1>9. SessionOK(d)
  <2>1. HasChain(d) => d.chain.write \in Writes
    BY <1>7 DEF SessionOK, HasChain
  <2>2. /\ d.chain.spec \in {0} \cup SpecIds(d.cache)
        /\ d.chain.hop = NoCall => d.chain.spec = 0
        /\ Len(d.tasks) = Len(d.cache.specs)
    BY <1>4, <1>6, <1>7, <1>8 DEF SessionOK
  <2>3. d.chain.spec # 0 =>
          /\ d.tasks[d.chain.spec].lane = "chain"
          /\ d.tasks[d.chain.spec].write = d.chain.write
          /\ d.chain.spec \in d.cache.jobs => d.cache.term[d.chain.spec] = "none"
    BY <1>1, <1>4, <1>7, <1>8 DEF SessionOK
  <2>4. ASSUME NEW j \in d.cache.jobs
        PROVE  /\ j \in d.cache.finished => d.tasks[j].at = "done"
               /\ d.tasks[j].lane = "chain" /\ j # d.chain.spec =>
                    d.tasks[j].at = "done" /\ d.cache.term[j] \in Hits
    <3>1. /\ j \in SpecIds(s.cache) /\ j \in s.cache.jobs
          /\ j \in s.cache.finished => s.tasks[j].at = "done"
          /\ s.tasks[j].lane = "chain" /\ j # s.chain.spec =>
               s.tasks[j].at = "done" /\ s.cache.term[j] \in Hits
      BY <1>1, <1>4, <1>7, <2>4 DEF SessionOK
    <3>2. CASE j = i
      BY <1>2, <1>4, <1>7, <1>8, <3>2
    <3>3. CASE j # i
      BY <1>4, <1>7, <3>1, <3>3
    <3> QED BY <3>2, <3>3
  <2> QED BY <1>3, <1>7, <2>1, <2>2, <2>3, <2>4 DEF SessionOK
<1>10. MovesOn(s, d) /\ NoNewRead(s, d)
  BY <1>3, <1>4, <1>7, <1>9 DEF MovesOn, NoNewRead
<1> QED
  BY <1>2, <1>4, <1>7, <1>10 DEF ServeDone

\* The one spec that a serving step can serve is live.
LEMMA ServedOne ==
  ASSUME DaemonInv, NEW t \in Sids, NEW d, NEW i, sessions' = [sessions EXCEPT ![t] = d],
         ~Fence(t), i \in sessions[t].cache.jobs, sessions[t].tasks[i].at = "done",
         \A j \in SpecIds(sessions[t].cache) \ {i} : d.cache.term[j] = sessions[t].cache.term[j]
  PROVE  ServedLive
<1>1. sessions'[t] = d /\ \A u \in Sids \ {t} : sessions'[u] = sessions[u]
  BY StateFields
<1>2. \A u \in Sids \ {t} : ServedNow(u) = {}
  BY <1>1 DEF ServedNow
<1>3. ServedNow(t) \subseteq {i}
  BY <1>1 DEF ServedNow
<1> QED
  BY <1>2, <1>3 DEF ServedLive

\* A caller that comes back and is served the job i of its session s.
LEMMA ServesCaller ==
  ASSUME DaemonInv, NEW a \in Askers, NEW t \in Sids,
         NEW i \in SpecIds(sessions[t].cache), NEW ch \in ChainType, NEW cl,
         NEW d, d = Serve(sessions[t], i, ch, cl), Returns(a, t), Becomes(t, d),
         ~Fence(t), Behind(sessions[t].cache, i), MayServe(sessions[t].cache, i),
         \/ /\ ch = sessions[t].chain /\ sessions[t].chain.spec # i
            /\ cl = sessions[t].claim /\ sessions[t].claim # a
         \/ ch = NoChain /\ cl = NoAsker /\ sessions[t].chain.spec = i
  PROVE  DaemonInv' /\ ServedLive /\ ReadsKept
<1>1. PICK s : s = sessions[t]
  OBVIOUS
<1>2. SessionOK(s) /\ s.claim \in Askers \cup {NoAsker} /\ i # 0
  <2>1. 0 \notin SpecIds(s.cache)
    BY <1>1, StateFields, SessionFields
  <2> QED BY <1>1, <2>1, StateFields DEF SessionType
<1>3. NoChain.spec = 0 /\ NoChain.hop = NoCall /\ a # NoAsker
  BY SfxDaemonAssumption DEF NoChain
<1>4. ServeDone(s, i, ch, cl, d)
  <2>1. ch.spec # i
    BY <1>1, <1>2, <1>3
  <2>2. cl \in Askers \cup {NoAsker}
    BY <1>1, <1>2
  <2> QED BY <1>1, <1>2, <2>1, <2>2, ServeOK
<1>5. /\ MovesOn(s, d) /\ NoNewRead(s, d)
      /\ d.mutation = s.mutation /\ d.chain = ch /\ d.claim = cl
      /\ s.tasks[i].at = "done" /\ i \in s.cache.jobs
      /\ \A j \in SpecIds(s.cache) \ {i} : d.cache.term[j] = s.cache.term[j]
  BY <1>4, Zenon DEF ServeDone
<1>6. d.claim # a
  BY <1>1, <1>3, <1>5
<1>7. HasChain(d) => HasChain(s) /\ d.chain.write = s.chain.write
  BY <1>1, <1>3, <1>5 DEF HasChain
<1>8. MayFollow(a, t, d)
  BY <1>1, <1>5, <1>6, <1>7, Zenon DEF MayFollow
<1>9. DaemonInv' /\ ReadsKept
  BY <1>8, ComesBackTo
<1>10. ServedLive
  BY <1>1, <1>5, ServedOne DEF Becomes
<1> QED BY <1>9, <1>10

LEMMA FinishPlainStep ==
  ASSUME DaemonInv, NEW a \in Askers, FinishPlain(a)
  PROVE  DaemonInv' /\ ServedLive /\ ReadsKept
<1> DEFINE t == ask[a].sid
           s == sessions[t]
           i == ask[a].spec
<1>1. /\ ask[a].at = "plain" /\ ask' = [ask EXCEPT ![a] = Idle]
      /\ UNCHANGED <<starts, mutations, begun, disk>>
  BY DEF FinishPlain
<1>2. /\ t \in Sids /\ SessionOK(s)
      /\ SameSession(a) => i \in SpecIds(s.cache) /\ Behind(s.cache, i) /\ s.tasks[i].lane = "get"
      /\ \A u \in Sids : sessions[u].claim # a
  BY <1>1, WaitFields
<1>3. CASE sessions' = sessions
  <2>1. DaemonInv' /\ NoneServed /\ ReadsKept
    BY <1>1, <1>2, <1>3, ComesBack
  <2> QED BY <2>1 DEF NoneServed, ServedLive
<1>4. CASE /\ SameSession(a) /\ ~Fence(t) /\ MayServe(s.cache, i)
           /\ sessions' = [sessions EXCEPT ![t].cache = Terminal(s.cache, i, "hit_completed")]
  <2> DEFINE d == Serve(s, i, s.chain, s.claim)
  <2>1. s \in SessionType /\ s.chain \in ChainType
    BY <1>2, SessionFields DEF SessionType
  <2>2. sessions' = [sessions EXCEPT ![t] = d]
    <3>1. d = [s EXCEPT !.cache = Terminal(s.cache, i, "hit_completed")]
      BY <2>1, Zenon DEF SessionType, Serve
    <3> HIDE DEF d
    <3> QED BY <1>4, <3>1
  <2>3. s.chain.spec # i /\ s.claim # a
    <3>1. 0 \notin SpecIds(s.cache)
      BY <1>2, SessionFields
    <3> QED BY <1>2, <1>4, <3>1, Zenon DEF SessionOK
  <2>4. d = Serve(s, i, s.chain, s.claim)
    OBVIOUS
  <2> HIDE DEF d
  <2>5. Returns(a, t) /\ Becomes(t, d)
    BY <1>1, <1>4, <2>2, Zenon DEF Returns, Becomes
  <2> QED BY <1>2, <1>4, <2>1, <2>3, <2>4, <2>5, ServesCaller
<1> QED
  BY <1>3, <1>4 DEF FinishPlain

\* A chain claim that is given up: its spec is settled if nobody has, and dropped.
Missed(c, i) == DiscardSpec(IF c.term[i] = "none" THEN Terminal(c, i, "discarded") ELSE c, i)

LEMMA MissedInv ==
  ASSUME NEW c, CacheInv(c), NEW i \in SpecIds(c), NEW e, e = Missed(c, i)
  PROVE  /\ CacheInv(e) /\ Moves(c, e) /\ NoNewHit(c, e)
         /\ e.specs = c.specs /\ e.finished = c.finished /\ e.jobs = c.jobs \ {i}
         /\ \A j \in SpecIds(c) \ {i} : e.term[j] = c.term[j]
<1>1. CASE c.term[i] # "none"
  <2>1. e = DiscardSpec(c, i)
    BY <1>1 DEF Missed
  <2> QED BY <2>1, DiscardSpecInv, DiscardSpecEffect DEF CacheInv
<1>2. CASE c.term[i] = "none"
  <2> DEFINE b == Terminal(c, i, "discarded")
  <2>1. e = DiscardSpec(b, i)
    BY <1>2 DEF Missed
  <2>2. CacheInv(b) /\ Moves(c, b) /\ NoNewHit(c, b)
    BY <1>2, TerminalInv DEF Terminals, Hits
  <2>3. /\ b.specs = c.specs /\ b.jobs = c.jobs /\ b.finished = c.finished
        /\ \A j \in SpecIds(c) \ {i} : b.term[j] = c.term[j]
    BY <1>2, TerminalEffect DEF CacheInv
  <2> HIDE DEF b
  <2>4. i \in SpecIds(b) /\ CacheTypeOK(b) /\ CacheTypeOK(c)
    BY <2>2, <2>3 DEF SpecIds, CacheInv
  <2>5. CacheInv(e) /\ Moves(b, e) /\ NoNewHit(b, e)
    BY <2>1, <2>2, <2>4, DiscardSpecInv
  <2>6. e.specs = b.specs /\ e.jobs = b.jobs \ {i} /\ e.finished = b.finished /\ e.term = b.term
    BY <2>1, <2>4, DiscardSpecEffect
  <2>7. Moves(c, e) /\ NoNewHit(c, e)
    BY <2>2, <2>4, <2>5, MovesTransitive DEF CacheInv
  <2> QED BY <2>3, <2>5, <2>6, <2>7
<1> QED
  BY <1>1, <1>2

\* _finish_chain_claim without an answer (daemon.py:647-670).
LEMMA ChainMissOK ==
  ASSUME NEW a \in Askers, NEW s, SessionOK(s), NEW i \in SpecIds(s.cache),
         NEW d, d = ChainMiss(a, s, i)
  PROVE  /\ MovesOn(s, d) /\ NoNewRead(s, d) /\ NoNewHit(s.cache, d.cache)
         /\ d.cache.jobs \subseteq s.cache.jobs /\ d.mutation \in {0, s.mutation}
         /\ \/ d.chain = NoChain /\ d.claim = NoAsker /\ d.cache.jobs = s.cache.jobs \ {s.chain.spec}
            \/ /\ d.chain = s.chain /\ d.claim = s.claim /\ d.mutation = s.mutation
               /\ s.claim # a \/ ~HasChain(s)
<1>1. CASE HasChain(s) /\ s.claim = a
  <2>1. d = DiscardChain(s)
    BY <1>1 DEF ChainMiss
  <2> QED BY <2>1, DiscardChainOK
<1>2. CASE ~(HasChain(s) /\ s.claim = a)
  <2> DEFINE c == Missed(s.cache, i)
  <2>1. d = [s EXCEPT !.cache = c]
    BY <1>2 DEF ChainMiss, Missed
  <2>2. /\ s \in SessionType /\ CacheInv(s.cache) /\ s.cache.jobs \subseteq SpecIds(s.cache)
    BY SessionFields
  <2>3. /\ CacheInv(c) /\ Moves(s.cache, c) /\ NoNewHit(s.cache, c)
        /\ c.specs = s.cache.specs /\ c.finished = s.cache.finished /\ c.jobs = s.cache.jobs \ {i}
        /\ \A j \in SpecIds(s.cache) \ {i} : c.term[j] = s.cache.term[j]
    BY <2>2, MissedInv
  <2> HIDE DEF c
  <2>4. c \in CacheType /\ SpecIds(c) = SpecIds(s.cache)
    BY <2>3 DEF CacheInv, CacheTypeOK, SpecIds
  <2>5. /\ d \in SessionType /\ d.cache = c /\ d.inc = s.inc /\ d.tasks = s.tasks
        /\ d.chain = s.chain /\ d.claim = s.claim /\ d.mutation = s.mutation
    BY <2>1, <2>2, <2>4 DEF SessionType
  <2>6. SessionOK(d)
    <3>1. /\ HasChain(d) => d.chain.write \in Writes
          /\ d.chain.spec \in {0} \cup SpecIds(d.cache)
          /\ d.chain.hop = NoCall => d.chain.spec = 0
          /\ Len(d.tasks) = Len(d.cache.specs)
      BY <2>3, <2>4, <2>5 DEF SessionOK, HasChain
    <3>2. d.chain.spec # 0 =>
            /\ d.tasks[d.chain.spec].lane = "chain"
            /\ d.tasks[d.chain.spec].write = d.chain.write
            /\ d.chain.spec \in d.cache.jobs => d.cache.term[d.chain.spec] = "none"
      BY <2>2, <2>3, <2>5 DEF SessionOK
    <3>3. \A j \in d.cache.jobs :
            /\ j \in d.cache.finished => d.tasks[j].at = "done"
            /\ d.tasks[j].lane = "chain" /\ j # d.chain.spec =>
                 d.tasks[j].at = "done" /\ d.cache.term[j] \in Hits
      BY <2>2, <2>3, <2>5 DEF SessionOK
    <3> QED BY <2>3, <2>5, <3>1, <3>2, <3>3 DEF SessionOK
  <2>7. MovesOn(s, d) /\ NoNewRead(s, d)
    BY <2>3, <2>5, <2>6 DEF MovesOn, NoNewRead
  <2> QED BY <1>2, <2>3, <2>5, <2>7
<1> QED
  BY <1>1, <1>2

\* While its repository is fenced, the only live job of a session is its chain's.
LEMMA FencedJobs ==
  ASSUME DaemonInv, NEW t \in Sids, Fence(t)
  PROVE  sessions[t].cache.jobs \subseteq {sessions[t].chain.spec}
  BY DEF DaemonInv, FenceQuiet

\* A caller that comes back to a chain claim and gives it up.
LEMMA MissesChain ==
  ASSUME DaemonInv, NEW a \in Askers, NEW t \in Sids,
         NEW i \in SpecIds(sessions[t].cache), NEW d, d = ChainMiss(a, sessions[t], i),
         Returns(a, t), Becomes(t, d)
  PROVE  DaemonInv' /\ NoneServed /\ ReadsKept
<1>1. PICK s : s = sessions[t]
  OBVIOUS
<1>2. SessionOK(s)
  BY <1>1, StateFields
<1>3. /\ MovesOn(s, d) /\ NoNewRead(s, d) /\ NoNewHit(s.cache, d.cache)
      /\ d.cache.jobs \subseteq s.cache.jobs /\ d.mutation \in {0, s.mutation}
      /\ \/ d.chain = NoChain /\ d.claim = NoAsker /\ d.cache.jobs = s.cache.jobs \ {s.chain.spec}
         \/ /\ d.chain = s.chain /\ d.claim = s.claim /\ d.mutation = s.mutation
            /\ s.claim # a \/ ~HasChain(s)
  BY <1>1, <1>2, ChainMissOK
<1>4. Fence(t) => (d.cache.jobs # {} => d.chain = s.chain /\ d.mutation = s.mutation)
  BY <1>1, <1>3, FencedJobs
<1>5. s.claim = a => HasChain(s)
  BY <1>1, WaitFields DEF Returns
<1>6. d.claim # a
  BY <1>3, <1>5, SfxDaemonAssumption
<1>7. HasChain(d) => HasChain(s) /\ d.chain.write = s.chain.write
  BY <1>3 DEF HasChain, NoChain
<1>8. MayFollow(a, t, d)
  BY <1>1, <1>3, <1>4, <1>6, <1>7, Zenon DEF MayFollow
<1> QED BY <1>1, <1>3, <1>8, ComesBackTo

LEMMA FinishChainStep ==
  ASSUME DaemonInv, NEW a \in Askers, NEW completed \in BOOLEAN, FinishChain(a, completed)
  PROVE  DaemonInv' /\ ServedLive /\ ReadsKept
<1> DEFINE t == ask[a].sid
           s == sessions[t]
           i == ask[a].spec
<1>1. /\ ask[a].at = "chain" /\ ask' = [ask EXCEPT ![a] = Idle]
      /\ UNCHANGED <<starts, mutations, begun, disk>>
  BY DEF FinishChain
<1>2. /\ t \in Sids /\ SessionOK(s)
      /\ SameSession(a) => i \in SpecIds(s.cache) /\ Behind(s.cache, i)
      /\ \A u \in Sids : sessions[u].claim = a =>
           HasChain(sessions[u]) /\ t = u /\ SameSession(a) /\ sessions[u].chain.spec = i
  BY <1>1, WaitFields
<1>3. CASE ~SameSession(a) /\ sessions' = sessions
  <2>1. DaemonInv' /\ NoneServed /\ ReadsKept
    BY <1>1, <1>2, <1>3, ComesBack
  <2> QED BY <2>1 DEF NoneServed, ServedLive
<1>4. CASE /\ SameSession(a) /\ ~Fence(t) /\ MayServe(s.cache, i) /\ HasChain(s) /\ s.claim = a
           /\ sessions' = [sessions EXCEPT ![t] =
                [s EXCEPT !.cache = Terminal(s.cache, i, "hit_completed"),
                          !.chain = NoChain, !.claim = NoAsker]]
  <2> DEFINE d == Serve(s, i, NoChain, NoAsker)
  <2>1. sessions' = [sessions EXCEPT ![t] = d]
    BY <1>4 DEF Serve
  <2>2. NoChain \in ChainType
    BY DEF NoChain, ChainType
  <2>3. s.chain.spec = i
    BY <1>2, <1>4
  <2>4. d = Serve(s, i, NoChain, NoAsker)
    OBVIOUS
  <2> HIDE DEF d
  <2>5. Returns(a, t) /\ Becomes(t, d)
    BY <1>1, <1>4, <2>1, Zenon DEF Returns, Becomes
  <2> QED BY <1>2, <1>4, <2>2, <2>3, <2>4, <2>5, ServesCaller
<1>5. CASE SameSession(a) /\ sessions' = [sessions EXCEPT ![t] = ChainMiss(a, s, i)]
  <2> DEFINE d == ChainMiss(a, s, i)
  <2>1. d = ChainMiss(a, s, i) /\ sessions' = [sessions EXCEPT ![t] = d]
    BY <1>5
  <2> HIDE DEF d
  <2>2. Returns(a, t) /\ Becomes(t, d)
    BY <1>1, <1>5, <2>1, Zenon DEF Returns, Becomes
  <2>3. DaemonInv' /\ NoneServed /\ ReadsKept
    BY <1>2, <1>5, <2>1, <2>2, MissesChain
  <2> QED BY <2>3 DEF NoneServed, ServedLive
<1> QED
  BY <1>3, <1>4, <1>5 DEF FinishChain

-----------------------------------------------------------------------------
(* Sessions start and end *)

\* session_start, session_end and shutdown: a session that is gone or new holds
\* nothing, and who waited for the old one finds that it is another.
LEMMA LifecycleStep ==
  ASSUME DaemonInv, Lifecycle
  PROVE  DaemonInv' /\ NoneServed /\ ReadsKept
<1> DEFINE Fresh(t) == /\ SessionOK(sessions'[t]) /\ sessions'[t].mutation = 0
                       /\ sessions'[t].claim = NoAsker /\ sessions'[t].cache.jobs = {}
                       /\ ~HasChain(sessions'[t]) /\ SpecIds(sessions'[t].cache) = {}
                       /\ sessions'[t].inc = 0 => sessions'[t] = NoSession
                       /\ \/ sessions'[t].inc = 0
                          \/ sessions'[t].inc > starts[t] /\ sessions'[t].inc = starts'[t]
<1>1. /\ SessionOK(NoSession) /\ NoSession.inc = 0 /\ NoSession.mutation = 0
      /\ NoSession.claim = NoAsker /\ NoSession.cache.jobs = {}
      /\ ~HasChain(NoSession) /\ SpecIds(NoSession.cache) = {} /\ NoSession \in SessionType
  BY NewSessionOK DEF NoSession, SessionOK
<1>2. /\ sessions' \in [Sids -> SessionType]
      /\ \A t \in Sids : (sessions'[t] = sessions[t] /\ starts'[t] = starts[t]) \/ Fresh(t)
      /\ starts' \in [Sids -> Nat] /\ \A t \in Sids : starts[t] <= starts'[t]
      /\ UNCHANGED <<begun, disk, ask>>
      /\ mutations' = mutations \/ (mutations' = {} /\ \A t \in Sids : Fresh(t))
  <2>1. ASSUME NEW t \in Sids, SessionStart(t)
        PROVE  <1>2!:
    <3> DEFINE d == NewSession(starts[t] + 1)
    <3>1. starts[t] + 1 \in Nat /\ starts[t] \in Nat
      BY StateFields
    <3>2. /\ SessionOK(d) /\ d.inc = starts[t] + 1 /\ d.mutation = 0 /\ d.claim = NoAsker
          /\ d.cache.jobs = {} /\ ~HasChain(d) /\ SpecIds(d.cache) = {} /\ d \in SessionType
      BY <3>1, NewSessionOK DEF SessionOK
    <3>3. /\ sessions' = [sessions EXCEPT ![t] = d] /\ starts' = [starts EXCEPT ![t] = @ + 1]
          /\ UNCHANGED <<mutations, begun, disk, ask>>
      BY <2>1 DEF SessionStart
    <3> HIDE DEF d
    <3>4. /\ sessions' \in [Sids -> SessionType] /\ sessions'[t] = d
          /\ starts' \in [Sids -> Nat] /\ starts'[t] = starts[t] + 1
          /\ \A u \in Sids \ {t} : sessions'[u] = sessions[u] /\ starts'[u] = starts[u]
          /\ \A u \in Sids : starts[u] \in Nat
      BY <3>1, <3>2, <3>3, StateFields
    <3> QED BY <3>1, <3>2, <3>3, <3>4
  <2>2. ASSUME NEW t \in Sids, SessionEnd(t)
        PROVE  <1>2!:
    <3>1. /\ sessions' = [sessions EXCEPT ![t] = NoSession]
          /\ UNCHANGED <<starts, mutations, begun, disk, ask>>
      BY <2>2 DEF SessionEnd
    <3>2. /\ sessions' \in [Sids -> SessionType] /\ sessions'[t] = NoSession
          /\ \A u \in Sids \ {t} : sessions'[u] = sessions[u]
          /\ starts' \in [Sids -> Nat] /\ \A u \in Sids : starts[u] \in Nat
      BY <1>1, <3>1, StateFields
    <3> QED BY <1>1, <3>1, <3>2
  <2>3. CASE Shutdown
    <3>1. /\ sessions' = [t \in Sids |-> NoSession] /\ mutations' = {}
          /\ UNCHANGED <<starts, begun, disk, ask>>
      BY <2>3 DEF Shutdown
    <3>2. starts' \in [Sids -> Nat] /\ \A u \in Sids : starts[u] \in Nat
      BY <3>1, StateFields
    <3> QED BY <1>1, <3>1, <3>2
  <2> QED BY <2>1, <2>2, <2>3 DEF Lifecycle
<1>3. SessionPart'
  <2>1. /\ begun' \in Nat /\ disk' \in [Repos -> DiskState] /\ 0 <= begun'
        /\ ask' \in [Askers -> AskType \cup {Idle}] /\ mutations' \subseteq MutationType
        /\ \A m \in mutations' : m.id <= begun' /\ m.repo = RepoOf[m.sid]
    BY <1>2, StateFields
  <2>2. \A t \in Sids :
          /\ SessionOK(sessions'[t]) /\ sessions'[t].mutation <= begun'
          /\ sessions'[t].inc = 0 \/ sessions'[t].inc = starts'[t]
          /\ sessions'[t].inc = 0 => sessions'[t] = NoSession
    BY <1>2, <2>1, StateFields
  <2> QED BY <1>2, <2>1, <2>2, SessionPartKept
<1>4. FencePart'
  <2>1. (Fenced \/ mutations = {}) /\ \A t \in Sids : FenceOK(t)
    BY FenceParts DEF DaemonInv, FencePart
  <2>2. ASSUME NEW t \in Sids
        PROVE  FenceOK(t)'
    <3>1. CASE Fresh(t)
      BY <3>1, FenceOKEmpty
    <3>2. CASE ~Fresh(t)
      <4>1. mutations' = mutations /\ sessions'[t] = sessions[t] /\ disk' = disk
        BY <1>2, <3>2
      <4>2. NoNewRead(sessions[t], sessions[t])
        BY StateFields, StaysOn
      <4>3. Active(RepoOf[t])' = Active(RepoOf[t])
        BY <4>1 DEF Active
      <4> HIDE DEF Fresh
      <4> QED BY <2>1, <4>1, <4>2, <4>3, FenceOKKept
    <3> QED BY <3>1, <3>2
  <2> QED BY <1>2, <2>1, <2>2, FenceParts
<1>5. \A t \in Sids : /\ MovesOn(sessions[t], sessions[t])
                      /\ NoNewHit(sessions[t].cache, sessions[t].cache)
  BY StateFields, StaysOn
<1>6. AskPart'
  <2>1. \A t \in Sids : starts'[t] \in Nat /\ starts[t] <= starts'[t]
    BY <1>2
  <2>2. \A t \in Sids :
          \/ /\ MovesOn(sessions[t], sessions'[t])
             /\ sessions'[t].claim # NoAsker => ask'[sessions'[t].claim] = ask[sessions'[t].claim]
          \/ /\ sessions'[t].claim = NoAsker
             /\ sessions'[t].inc = 0 \/ sessions'[t].inc > starts[t]
    BY <1>2, <1>5
  <2> QED BY <1>2, <2>1, <2>2, AskPartKept
<1>7. NoneServed
  <2>1. ASSUME NEW t \in Sids, sessions'[t].inc = sessions[t].inc
        PROVE  NoNewHit(sessions[t].cache, sessions'[t].cache)
    <3>1. CASE sessions'[t] = sessions[t]
      BY <1>5, <3>1
    <3>2. CASE Fresh(t)
      <4>1. sessions[t].inc = 0
        BY <2>1, <3>2, StateFields
      <4>2. sessions'[t] = sessions[t]
        BY <2>1, <3>2, <4>1, StateFields
      <4> QED BY <1>5, <4>2
    <3> QED BY <1>2, <3>1, <3>2
  <2> QED BY <2>1, NoneServedIf
<1>8. ReadsKept
  <2>1. ASSUME NEW t \in Sids
        PROVE  NoNewRead(sessions[t], sessions'[t])
    <3>1. CASE sessions'[t] = sessions[t]
      BY <3>1, StateFields, StaysOn
    <3>2. CASE Fresh(t)
      BY <3>2 DEF NoNewRead
    <3> QED BY <1>2, <3>1, <3>2
  <2> QED BY <2>1 DEF ReadsKept
<1> QED
  BY <1>3, <1>4, <1>6, <1>7, <1>8, DaemonParts DEF DaemonInv, SessionPart, FencePart, AskPart

-----------------------------------------------------------------------------
(* Steps that change the fences, the repositories or several sessions *)

\* A step in which every session moves on and serves nothing.
LEMMA AllMove ==
  ASSUME DaemonInv, sessions' \in [Sids -> SessionType], starts' = starts, ask' = ask,
         begun' \in Nat, disk' \in [Repos -> DiskState], mutations' \subseteq MutationType,
         \A m \in mutations' : m.id <= begun' /\ m.repo = RepoOf[m.sid],
         Fenced \/ mutations' = {},
         \A t \in Sids :
           /\ MovesOn(sessions[t], sessions'[t]) /\ NoNewHit(sessions[t].cache, sessions'[t].cache)
           /\ sessions'[t].mutation <= begun'
           /\ sessions'[t].inc = 0 => sessions'[t] = NoSession
           /\ FenceOK(t)'
  PROVE  DaemonInv' /\ NoneServed
<1>1. \A t \in Sids : SessionOK(sessions'[t]) /\ sessions'[t].inc = sessions[t].inc
  BY DEF MovesOn
<1>2. SessionPart'
  <2>1. \A t \in Sids :
          /\ SessionOK(sessions'[t]) /\ sessions'[t].mutation <= begun'
          /\ sessions'[t].inc = 0 \/ sessions'[t].inc = starts'[t]
          /\ sessions'[t].inc = 0 => sessions'[t] = NoSession
    BY <1>1, StateFields
  <2> QED BY <2>1, StateFields, SessionPartKept
<1>3. FencePart'
  BY FenceParts
<1>4. AskPart'
  <2>1. \A t \in Sids : starts'[t] \in Nat /\ starts[t] <= starts'[t]
    BY StateFields
  <2> QED BY <2>1, AskPartKept
<1>5. NoneServed
  BY NoneServedIf
<1> QED
  BY <1>2, <1>3, <1>4, <1>5 DEF DaemonInv, SessionPart, FencePart, AskPart

\* A session after _invalidate_repo.
Quiet(s) == s.cache.jobs = {} /\ ~HasChain(s) /\ s.claim = NoAsker

\* _invalidate_repo (daemon.py:230-240): the sessions of the repository are left
\* without jobs, chain and claim, except the preserved one and those elsewhere.
LEMMA InvalidateOK ==
  ASSUME DaemonInv, NEW r \in Repos, NEW keep, NEW ss, ss = Invalidate(sessions, r, keep)
  PROVE  /\ ss \in [Sids -> SessionType]
         /\ \A t \in Sids :
              /\ MovesOn(sessions[t], ss[t]) /\ NoNewHit(sessions[t].cache, ss[t].cache)
              /\ ss[t].mutation \in {0, sessions[t].mutation}
              /\ ss[t].inc = 0 => ss[t] = NoSession
              /\ RepoOf[t] = r /\ t \notin keep => Quiet(ss[t])
              /\ RepoOf[t] # r \/ t \in keep => ss[t] = sessions[t]
<1>1. ASSUME NEW t \in Sids
      PROVE  /\ MovesOn(sessions[t], ss[t]) /\ NoNewHit(sessions[t].cache, ss[t].cache)
             /\ ss[t].mutation \in {0, sessions[t].mutation}
             /\ ss[t].inc = 0 => ss[t] = NoSession
             /\ RepoOf[t] = r /\ t \notin keep => Quiet(ss[t])
             /\ RepoOf[t] # r \/ t \in keep => ss[t] = sessions[t]
  <2> DEFINE s == sessions[t]
  <2>1. /\ SessionOK(s) /\ s.inc \in Nat
        /\ s.inc = 0 => s = NoSession
    BY StateFields
  <2>2. CASE s.inc > 0 /\ RepoOf[t] = r /\ t \notin keep
    <3>1. PICK d : d = Expire(s)
      OBVIOUS
    <3>2. ss[t] = d
      BY <2>2, <3>1 DEF Invalidate
    <3>3. /\ MovesOn(s, d) /\ NoNewHit(s.cache, d.cache)
          /\ d.chain = NoChain /\ d.mutation \in {0, s.mutation} /\ d.cache.jobs = {}
      BY <2>1, <3>1, ExpireOK
    <3>4. d.inc = s.inc /\ ~HasChain(d) /\ (d.claim = NoAsker \/ (d.claim = s.claim /\ d.chain = s.chain))
      BY <3>3 DEF MovesOn, HasChain
    <3>5. s.claim # NoAsker => HasChain(s)
      BY DEF DaemonInv, ClaimOwned
    <3>6. Quiet(d)
      BY <3>3, <3>4, <3>5 DEF Quiet, HasChain
    <3> QED BY <2>1, <2>2, <3>2, <3>3, <3>4, <3>6
  <2>3. CASE ~(s.inc > 0 /\ RepoOf[t] = r /\ t \notin keep)
    <3>1. ss[t] = s
      BY <2>3 DEF Invalidate
    <3>2. MovesOn(s, s) /\ NoNewHit(s.cache, s.cache)
      BY <2>1, StaysOn
    <3>3. Quiet(NoSession)
      BY NewSessionOK DEF NoSession, Quiet
    <3>4. RepoOf[t] = r /\ t \notin keep => s = NoSession
      BY <2>1, <2>3
    <3> QED BY <2>1, <3>1, <3>2, <3>3, <3>4
  <2> QED BY <2>2, <2>3
<1>2. \A t \in Sids : ss[t] \in SessionType
  BY <1>1 DEF MovesOn, SessionOK
<1>3. ss \in [Sids -> SessionType]
  BY <1>2 DEF Invalidate
<1> QED
  BY <1>1, <1>3

\* Marking the mutations of a repository as conflicted.
LEMMA ConflictOK ==
  ASSUME DaemonInv, NEW r \in Repos
  PROVE  /\ Conflict(r) \subseteq MutationType
         /\ \A m \in Conflict(r) : m.id <= begun /\ m.repo = RepoOf[m.sid]
         /\ mutations = {} => Conflict(r) = {}
         /\ \A q \in Repos \ {r} : {m \in Conflict(r) : m.repo = q} = Active(q)
         /\ {m \in Conflict(r) : m.repo = r} = {} <=> Active(r) = {}
<1> DEFINE f(m) == IF m.repo = r THEN [m EXCEPT !.conflicted = TRUE] ELSE m
<1>1. ASSUME NEW m \in mutations
      PROVE  /\ f(m) \in MutationType /\ f(m).id = m.id /\ f(m).sid = m.sid /\ f(m).repo = m.repo
             /\ m.repo # r => f(m) = m
  <2>1. m \in MutationType /\ TRUE \in BOOLEAN
    BY StateFields, Zenon
  <2> QED BY <2>1 DEF MutationType
<1>2. Conflict(r) = {f(m) : m \in mutations}
  BY DEF Conflict
<1> HIDE DEF f
<1>3. \A m \in mutations : m.id <= begun /\ m.repo = RepoOf[m.sid]
  BY StateFields
<1>4. ASSUME NEW q \in Repos \ {r}
      PROVE  {m \in Conflict(r) : m.repo = q} = Active(q)
  BY <1>1, <1>2 DEF Active
<1>5. {m \in Conflict(r) : m.repo = r} = {} <=> Active(r) = {}
  BY <1>1, <1>2 DEF Active
<1> QED
  BY <1>1, <1>2, <1>3, <1>4, <1>5

\* Without fences the invariant promises nothing of what was read.
LEMMA FenceOKUnfenced ==
  ASSUME ~Fenced, mutations' = {}, NEW t \in Sids
  PROVE  FenceOK(t)'
<1>1. Active(RepoOf[t])' = {}
  BY DEF Active
<1> QED
  BY <1>1 DEF FenceOK, Fence

\* A write outside of any fence.
LEMMA UnfencedWriteStep ==
  ASSUME DaemonInv, NEW t \in Sids, NEW w \in Writes, UnfencedWrite(t, w)
  PROVE  DaemonInv' /\ NoneServed
<1>1. /\ ~Fenced /\ UNCHANGED <<sessions, starts, mutations, begun, ask>>
      /\ disk' = [disk EXCEPT ![RepoOf[t]].file = w]
  BY DEF UnfencedWrite
<1>2. mutations' = {}
  BY <1>1 DEF DaemonInv
<1>3. disk' \in [Repos -> DiskState]
  <2> DEFINE v == [disk[RepoOf[t]] EXCEPT !.file = w]
  <2>1. v \in DiskState
    BY StateFields DEF DiskState, Contents
  <2>2. disk' = [disk EXCEPT ![RepoOf[t]] = v]
    BY <1>1
  <2> HIDE DEF v
  <2> QED BY <2>1, <2>2, StateFields
<1>4. \A u \in Sids : /\ MovesOn(sessions[u], sessions[u])
                      /\ NoNewHit(sessions[u].cache, sessions[u].cache)
  BY StateFields, StaysOn
<1>5. \A u \in Sids : FenceOK(u)'
  BY <1>1, <1>2, FenceOKUnfenced
<1> QED
  BY <1>1, <1>2, <1>3, <1>4, <1>5, StateFields, AllMove

\* A session of another repository, whose fences and contents stay as they are.
LEMMA FenceOKElsewhere ==
  ASSUME DaemonInv, NEW t \in Sids, Active(RepoOf[t])' = Active(RepoOf[t]),
         disk'[RepoOf[t]] = disk[RepoOf[t]], sessions'[t] = sessions[t]
  PROVE  FenceOK(t)'
<1>1. FenceOK(t)
  BY FenceParts DEF DaemonInv, FencePart
<1>2. NoNewRead(sessions[t], sessions[t])
  BY StateFields, StaysOn
<1> QED
  BY <1>1, <1>2, FenceOKKept

\* A session outside of every fence that has no chain and nothing read.
LEMMA FenceOKUnread ==
  ASSUME NEW t \in Sids, NEW q, q.cache.jobs = {}, NoNewRead(q, sessions'[t]),
         ~HasChain(sessions'[t]), ~Fence(t)'
  PROVE  FenceOK(t)'
<1>1. \A i \in sessions'[t].cache.jobs : ~(sessions'[t].tasks[i].at \in {"ran", "done"})
  BY DEF NoNewRead
<1> QED
  BY <1>1 DEF FenceOK

\* mutation_begin (daemon.py:249-267).
LEMMA MutationBeginStep ==
  ASSUME DaemonInv, NEW t \in Sids, NEW w \in Writes \cup {NoWrite}, MutationBegin(t, w)
  PROVE  DaemonInv' /\ NoneServed
<1> DEFINE r == RepoOf[t]
           m == [id |-> begun + 1, sid |-> t, repo |-> r, write |-> w,
                 conflicted |-> Fence(t), executed |-> FALSE]
<1>1. /\ Fenced /\ begun' = begun + 1 /\ UNCHANGED <<starts, disk, ask>>
      /\ mutations' = Conflict(r) \cup {m} /\ sessions' = Invalidate(sessions, r, {})
  BY DEF MutationBegin
<1>2. r \in Repos /\ begun \in Nat
  BY StateFields
<1>3. m \in MutationType /\ m.id = begun + 1 /\ m.sid = t /\ m.repo = r
  <2>1. Fence(t) \in BOOLEAN /\ FALSE \in BOOLEAN
    BY Zenon DEF Fence
  <2> QED BY <1>2, <2>1 DEF MutationType
<1> HIDE DEF m
<1>4. /\ Conflict(r) \subseteq MutationType
      /\ \A n \in Conflict(r) : n.id <= begun /\ n.repo = RepoOf[n.sid]
      /\ \A q \in Repos \ {r} : {n \in Conflict(r) : n.repo = q} = Active(q)
  BY <1>2, ConflictOK
<1>5. /\ mutations' \subseteq MutationType
      /\ \A n \in mutations' : n.id <= begun' /\ n.repo = RepoOf[n.sid]
  <2>1. \A n \in Conflict(r) : n.id \in Nat
    BY <1>4 DEF MutationType
  <2> QED BY <1>1, <1>2, <1>3, <1>4, <2>1
<1>6. /\ sessions' \in [Sids -> SessionType]
      /\ \A u \in Sids :
           /\ MovesOn(sessions[u], sessions'[u]) /\ NoNewHit(sessions[u].cache, sessions'[u].cache)
           /\ sessions'[u].mutation \in {0, sessions[u].mutation}
           /\ sessions'[u].inc = 0 => sessions'[u] = NoSession
           /\ RepoOf[u] = r => Quiet(sessions'[u])
           /\ RepoOf[u] # r => sessions'[u] = sessions[u]
  BY <1>1, <1>2, InvalidateOK
<1>7. ASSUME NEW u \in Sids
      PROVE  FenceOK(u)'
  <2>1. CASE RepoOf[u] = r
    BY <1>6, <2>1, FenceOKEmpty DEF Quiet
  <2>2. CASE RepoOf[u] # r
    <3>1. RepoOf[u] \in Repos \ {r}
      BY <2>2, StateFields
    <3>2. Active(RepoOf[u])' = Active(RepoOf[u])
      BY <1>1, <1>3, <1>4, <3>1 DEF Active
    <3> QED BY <1>1, <1>6, <2>2, <3>2, FenceOKElsewhere
  <2> QED BY <2>1, <2>2
<1>8. \A u \in Sids : sessions'[u].mutation <= begun'
  <2>1. \A u \in Sids : sessions[u].mutation \in Nat /\ sessions[u].mutation <= begun
    BY StateFields, SessionFields
  <2> QED BY <1>1, <1>2, <1>6, <2>1
<1>9. begun' \in Nat /\ disk' \in [Repos -> DiskState]
  BY <1>1, <1>2, StateFields
<1> QED
  BY <1>1, <1>5, <1>6, <1>7, <1>8, <1>9, AllMove

\* call_stream_delta behind a fence (daemon.py:389-430): what the streaming
\* session held before was its own chain's, and that chain is replaced.
LEMMA FeedStep ==
  ASSUME DaemonInv, NEW t \in Sids, NEW m \in mutations, NEW call \in Calls \cup {NoCall},
         NEW forks \in BOOLEAN, Feed(t, m, call, forks)
  PROVE  DaemonInv' /\ NoneServed
<1> DEFINE s == sessions[t]
           b == IF HasChain(s) THEN DiscardChain(s) ELSE s
           d == Fed(b, m.write, m.id, call, forks)
<1>1. /\ s.inc > 0 /\ m.sid = t /\ Active(RepoOf[t]) = {m} /\ ~m.conflicted /\ m.write # NoWrite
      /\ sessions' = [sessions EXCEPT ![t] = d]
      /\ UNCHANGED <<starts, mutations, begun, disk, ask>>
  BY DEF Feed, Registered
<1>2. Fence(t) /\ SessionOK(s) /\ m.write \in Writes /\ m.id \in Nat /\ m.id <= begun /\ s.inc \in Nat
  <2>1. m \in MutationType /\ m.id <= begun /\ SessionOK(s) /\ s.inc \in Nat
    BY StateFields
  <2>2. m.write \in Writes /\ m.id \in Nat
    BY <1>1, <2>1 DEF MutationType
  <2> QED BY <1>1, <2>1, <2>2 DEF Fence
<1>3. /\ MovesOn(s, b) /\ NoNewHit(s.cache, b.cache)
      /\ b.chain = NoChain /\ b.cache.jobs = s.cache.jobs \ {s.chain.spec}
  BY <1>2, DropChainOK
<1> HIDE DEF b
<1>4. SessionOK(b) /\ ~HasChain(b) /\ b.cache.jobs = {}
  BY <1>2, <1>3, FencedJobs DEF MovesOn, HasChain
<1>5. b.claim = NoAsker
  <2>1. s.claim # NoAsker => HasChain(s)
    BY DEF DaemonInv, ClaimOwned
  <2> QED BY <1>3, <2>1 DEF MovesOn, HasChain
<1>6. /\ MovesOn(b, d) /\ NoNewRead(b, d) /\ NoNewHit(b.cache, d.cache)
      /\ d.mutation = m.id /\ (HasChain(d) => d.chain.write = m.write)
      /\ \A i \in d.cache.jobs : HasChain(d) /\ d.chain.spec = i
  <2>1. PICK w \in Writes, id \in Nat : w = m.write /\ id = m.id
    BY <1>2
  <2> DEFINE e == Fed(b, w, id, call, forks)
  <2>2. /\ MovesOn(b, e) /\ NoNewRead(b, e) /\ NoNewHit(b.cache, e.cache)
        /\ e.mutation = id /\ (HasChain(e) => e.chain.write = w)
        /\ \A i \in e.cache.jobs : HasChain(e) /\ e.chain.spec = i
    BY <1>4, <1>5, FedOK
  <2>3. d = e
    BY <2>1
  <2> QED BY <2>1, <2>2, <2>3
<1> HIDE DEF d
<1>7. MovesOn(s, d) /\ NoNewHit(s.cache, d.cache)
  BY <1>2, <1>3, <1>6, MovesOnTransitive
<1>8. SessionOK(d) /\ d \in SessionType /\ d.inc = s.inc
  BY <1>7, SessionFields DEF MovesOn
<1>9. /\ sessions' \in [Sids -> SessionType] /\ sessions'[t] = d
      /\ \A u \in Sids \ {t} : sessions'[u] = sessions[u]
  BY <1>1, <1>8, StateFields
<1>10. \A r : Active(r)' = Active(r)
  BY <1>1 DEF Active
<1>11. FenceOK(t)'
  <2>1. Fence(t)' /\ Active(RepoOf[t])' = {m} /\ m \in mutations'
    BY <1>1, <1>10 DEF Fence
  <2>2. ASSUME NEW i \in d.cache.jobs
        PROVE  ~(d.tasks[i].at \in {"ran", "done"})
    BY <1>4, <1>6 DEF NoNewRead
  <2> QED BY <1>1, <1>6, <1>9, <2>1, <2>2 DEF FenceOK
<1>12. ASSUME NEW u \in Sids
       PROVE  /\ MovesOn(sessions[u], sessions'[u])
              /\ NoNewHit(sessions[u].cache, sessions'[u].cache)
              /\ sessions'[u].mutation <= begun'
              /\ sessions'[u].inc = 0 => sessions'[u] = NoSession
              /\ FenceOK(u)'
  <2>1. CASE u = t
    BY <1>1, <1>2, <1>6, <1>7, <1>8, <1>9, <1>11, <2>1
  <2>2. CASE u # t
    <3>1. sessions'[u] = sessions[u] /\ SessionOK(sessions[u])
      BY <1>9, <2>2, StateFields
    <3>2. FenceOK(u)'
      BY <1>1, <1>10, <3>1, FenceOKElsewhere
    <3>3. MovesOn(sessions[u], sessions[u]) /\ NoNewHit(sessions[u].cache, sessions[u].cache)
      BY <3>1, StaysOn
    <3> QED BY <1>1, <3>1, <3>2, <3>3, StateFields
  <2> QED BY <2>1, <2>2
<1>13. /\ begun' \in Nat /\ disk' \in [Repos -> DiskState] /\ mutations' \subseteq MutationType
       /\ \A n \in mutations' : n.id <= begun' /\ n.repo = RepoOf[n.sid]
       /\ Fenced \/ mutations' = {}
  BY <1>1, StateFields DEF DaemonInv
<1> QED
  BY <1>1, <1>9, <1>12, <1>13, AllMove

\* call_stream_delta without a fence: the repository is invalidated first.
LEMMA FeedUnfencedStep ==
  ASSUME DaemonInv, NEW t \in Sids, NEW w \in Writes, NEW call \in Calls \cup {NoCall},
         NEW forks \in BOOLEAN, FeedUnfenced(t, w, call, forks)
  PROVE  DaemonInv' /\ NoneServed /\ ReadsKept
<1>1. PICK ss : ss = Invalidate(sessions, RepoOf[t], {})
  OBVIOUS
<1> DEFINE d == Fed(ss[t], w, 0, call, forks)
<1>2. /\ ~Fenced /\ sessions' = [ss EXCEPT ![t] = d] /\ sessions[t].inc > 0
      /\ UNCHANGED <<starts, mutations, begun, disk, ask>>
  BY <1>1 DEF FeedUnfenced, Registered
<1>3. RepoOf[t] \in Repos /\ begun \in Nat /\ 0 <= begun /\ sessions[t].inc \in Nat
  BY StateFields
<1>4. /\ ss \in [Sids -> SessionType]
      /\ \A u \in Sids :
           /\ MovesOn(sessions[u], ss[u]) /\ NoNewHit(sessions[u].cache, ss[u].cache)
           /\ ss[u].mutation \in {0, sessions[u].mutation}
           /\ ss[u].inc = 0 => ss[u] = NoSession
           /\ RepoOf[u] = RepoOf[t] => Quiet(ss[u])
           /\ RepoOf[u] # RepoOf[t] => ss[u] = sessions[u]
  BY <1>1, <1>3, InvalidateOK
<1>5. SessionOK(ss[t]) /\ Quiet(ss[t]) /\ ss[t].inc = sessions[t].inc
  BY <1>4 DEF MovesOn
<1>6. /\ MovesOn(ss[t], d) /\ NoNewRead(ss[t], d) /\ NoNewHit(ss[t].cache, d.cache)
      /\ d.mutation = 0
  BY <1>5, FedOK DEF Quiet
<1> HIDE DEF d
<1>7. MovesOn(sessions[t], d) /\ NoNewHit(sessions[t].cache, d.cache)
  BY <1>4, <1>6, StateFields, MovesOnTransitive
<1>8. SessionOK(d) /\ d \in SessionType /\ d.inc = sessions[t].inc
  BY <1>7, SessionFields DEF MovesOn
<1>9. /\ sessions' \in [Sids -> SessionType] /\ sessions'[t] = d
      /\ \A u \in Sids \ {t} : sessions'[u] = ss[u]
  BY <1>2, <1>4, <1>8
<1>10. mutations' = {}
  BY <1>2 DEF DaemonInv
<1>11. \A u \in Sids : FenceOK(u)'
  BY <1>2, <1>10, FenceOKUnfenced
<1>12. ASSUME NEW u \in Sids
       PROVE  /\ MovesOn(sessions[u], sessions'[u])
              /\ NoNewHit(sessions[u].cache, sessions'[u].cache)
              /\ sessions'[u].mutation <= begun'
              /\ sessions'[u].inc = 0 => sessions'[u] = NoSession
  <2>1. CASE u = t
    BY <1>2, <1>3, <1>6, <1>7, <1>8, <1>9, <2>1
  <2>2. CASE u # t
    <3>1. ss[u].mutation <= begun
      BY <1>3, <1>4, StateFields
    <3> QED BY <1>2, <1>4, <1>9, <2>2, <3>1
  <2> QED BY <2>1, <2>2
<1>13. ReadsKept
  <2>1. ASSUME NEW u \in Sids
        PROVE  NoNewRead(sessions[u], sessions'[u])
    <3>1. CASE u = t
      BY <1>5, <1>6, <1>9, <3>1 DEF Quiet, NoNewRead
    <3>2. CASE u # t /\ RepoOf[u] = RepoOf[t]
      BY <1>4, <1>9, <3>2 DEF Quiet, NoNewRead
    <3>3. CASE u # t /\ RepoOf[u] # RepoOf[t]
      BY <1>4, <1>9, <3>3, StateFields, StaysOn
    <3> QED BY <3>1, <3>2, <3>3
  <2> QED BY <2>1 DEF ReadsKept
<1> QED
  BY <1>2, <1>9, <1>10, <1>11, <1>12, <1>13, StateFields, AllMove

\* What a report does to the reporting session.
Reported(s, fence, p) ==
  IF fence THEN [s EXCEPT !.streamed = FALSE] ELSE LaunchGets([s EXCEPT !.streamed = FALSE], p)

LEMMA ReportedOK ==
  ASSUME NEW s, SessionOK(s), NEW p \in Predictions, NEW fence \in BOOLEAN,
         NEW d, d = Reported(s, fence, p)
  PROVE  /\ MovesOn(s, d) /\ NoNewRead(s, d) /\ NoNewHit(s.cache, d.cache)
         /\ d \in SessionType /\ d.inc = s.inc
         /\ d.chain = s.chain /\ d.claim = s.claim /\ d.mutation = s.mutation
         /\ fence => d.cache = s.cache
<1> DEFINE r == [s EXCEPT !.streamed = FALSE]
<1>1. s \in SessionType
  BY SessionFields
<1>2. FALSE \in BOOLEAN
  BY Zenon
<1>3. /\ r \in SessionType /\ r.inc = s.inc /\ r.cache = s.cache /\ r.tasks = s.tasks
      /\ r.chain = s.chain /\ r.claim = s.claim /\ r.mutation = s.mutation
  BY <1>1, <1>2 DEF SessionType
<1>4. d = IF fence THEN r ELSE LaunchGets(r, p)
  BY DEF Reported
<1> HIDE DEF r
<1>5. SessionOK(r)
  BY <1>3 DEF SessionOK, HasChain
<1>6. MovesOn(s, r) /\ NoNewRead(s, r) /\ NoNewHit(s.cache, r.cache)
  <2>1. MovesOn(s, s) /\ NoNewRead(s, s) /\ NoNewHit(s.cache, s.cache)
    BY StaysOn
  <2> QED BY <1>3, <1>5, <2>1 DEF MovesOn, NoNewRead
<1>7. CASE fence
  BY <1>3, <1>4, <1>6, <1>7
<1>8. CASE ~fence
  <2>1. d = LaunchGets(r, p)
    BY <1>4, <1>8
  <2>2. /\ MovesOn(r, d) /\ NoNewRead(r, d) /\ NoNewHit(r.cache, d.cache)
        /\ d.chain = r.chain /\ d.claim = r.claim /\ d.mutation = r.mutation
    BY <1>5, <2>1, LaunchGetsOK
  <2>3. MovesOn(s, d) /\ NoNewRead(s, d) /\ NoNewHit(s.cache, d.cache)
    BY <1>6, <2>2, MovesOnTransitive
  <2>4. d \in SessionType /\ d.inc = s.inc
    BY <2>3 DEF MovesOn, SessionOK
  <2> QED BY <1>3, <1>8, <2>2, <2>3, <2>4
<1> QED
  BY <1>7, <1>8

\* No live task of s has read anything.
Unread(s) == \A i \in s.cache.jobs : s.tasks[i].at \notin {"ran", "done"}

\* A report of a mutation that nobody declared (daemon.py:315-331).  The streamed write
\* is never matched by a report that does not name it.
LEMMA ReportUnfencedStep ==
  ASSUME DaemonInv, NEW t \in Sids, NEW w \in Writes \cup {NoWrite}, NEW p \in Predictions,
         ReportUnfenced(t, w, p)
  PROVE  /\ DaemonInv' /\ NoneServed
         /\ ~NamedReports => /\ ReadsKept
                             /\ \A u \in Sids : RepoOf[u] = RepoOf[t] => Unread(sessions'[u])
<1> DEFINE r == RepoOf[t]
<1>0. PICK match \in BOOLEAN :
         /\ mutations' = IF match THEN mutations ELSE Conflict(r)
         /\ sessions' = AfterReport([IF match THEN sessions ELSE Invalidate(sessions, r, {})
                                      EXCEPT ![t].streamed = FALSE], t, p)
         /\ ~NamedReports => ~match
  <2>1. HasChain(sessions[t]) => sessions[t].chain.write # NoWrite
    BY StateFields, SfxDaemonAssumption DEF SessionOK
  <2> QED BY <2>1 DEF ReportUnfenced
<1>1. PICK ss :
         /\ ss = IF match THEN sessions ELSE Invalidate(sessions, r, {})
         /\ mutations' = IF match THEN mutations ELSE Conflict(r)
         /\ sessions' = AfterReport([ss EXCEPT ![t].streamed = FALSE], t, p)
  BY <1>0
<1>2. sessions[t].inc > 0 /\ UNCHANGED <<starts, begun, disk, ask>>
  BY DEF ReportUnfenced, Registered
<1>3. r \in Repos /\ begun \in Nat /\ sessions[t].inc \in Nat /\ \A u \in Sids : SessionOK(sessions[u])
  BY StateFields
<1>4. /\ ss \in [Sids -> SessionType]
      /\ \A u \in Sids :
           /\ MovesOn(sessions[u], ss[u]) /\ NoNewHit(sessions[u].cache, ss[u].cache)
           /\ ss[u].mutation \in {0, sessions[u].mutation}
           /\ ss[u].inc = 0 => ss[u] = NoSession
           /\ ~match /\ RepoOf[u] = r => Quiet(ss[u])
           /\ match \/ RepoOf[u] # r => ss[u] = sessions[u]
  <2>1. CASE match
    <3>1. ss = sessions
      BY <1>1, <2>1
    <3>2. \A u \in Sids : MovesOn(sessions[u], sessions[u]) /\ NoNewHit(sessions[u].cache, sessions[u].cache)
      BY <1>3, StaysOn
    <3> QED BY <2>1, <3>1, <3>2, StateFields
  <2>2. CASE ~match
    <3>1. ss = Invalidate(sessions, r, {})
      BY <1>1, <2>2
    <3> QED BY <1>3, <2>2, <3>1, InvalidateOK
  <2> QED BY <2>1, <2>2
<1>5. PICK fence \in BOOLEAN : fence = Fence(t)
  BY DEF Fence
<1>6. PICK d : d = Reported(ss[t], fence, p)
  OBVIOUS
<1>7. sessions' = [ss EXCEPT ![t] = d]
  BY <1>1, <1>4, <1>5, <1>6 DEF AfterReport, Reported
<1>8. SessionOK(ss[t]) /\ ss[t].inc = sessions[t].inc
  BY <1>4 DEF MovesOn
<1>9. /\ MovesOn(ss[t], d) /\ NoNewRead(ss[t], d) /\ NoNewHit(ss[t].cache, d.cache)
      /\ d \in SessionType /\ d.inc = ss[t].inc
      /\ d.chain = ss[t].chain /\ d.claim = ss[t].claim /\ d.mutation = ss[t].mutation
      /\ fence => d.cache = ss[t].cache
  <2>1. PICK q : q = ss[t]
    OBVIOUS
  <2> QED BY <1>6, <1>8, <2>1, ReportedOK
<1>10. MovesOn(sessions[t], d) /\ NoNewHit(sessions[t].cache, d.cache)
  BY <1>3, <1>4, <1>9, MovesOnTransitive
<1>11. /\ sessions' \in [Sids -> SessionType] /\ sessions'[t] = d
       /\ \A u \in Sids \ {t} : sessions'[u] = ss[u]
  BY <1>4, <1>7, <1>9
<1>12. /\ mutations' \subseteq MutationType
       /\ \A n \in mutations' : n.id <= begun' /\ n.repo = RepoOf[n.sid]
       /\ Fenced \/ mutations' = {}
       /\ \A q \in Repos \ {r} : Active(q)' = Active(q)
       /\ Active(r)' = {} <=> Active(r) = {}
       /\ match => Active(r)' = Active(r)
  <2>1. CASE match
    BY <1>1, <1>2, <2>1, StateFields DEF DaemonInv, Active
  <2>2. CASE ~match
    <3>1. mutations' = Conflict(r)
      BY <1>1, <2>2
    <3>2. /\ Conflict(r) \subseteq MutationType
          /\ \A m \in Conflict(r) : m.id <= begun /\ m.repo = RepoOf[m.sid]
          /\ mutations = {} => Conflict(r) = {}
          /\ \A q \in Repos \ {r} : {m \in Conflict(r) : m.repo = q} = Active(q)
          /\ {m \in Conflict(r) : m.repo = r} = {} <=> Active(r) = {}
      BY <1>3, ConflictOK
    <3>3. \A q : Active(q)' = {m \in Conflict(r) : m.repo = q}
      BY <3>1 DEF Active
    <3>4. Fenced \/ mutations = {}
      BY DEF DaemonInv
    <3> QED BY <1>2, <2>2, <3>1, <3>2, <3>3, <3>4
  <2> QED BY <2>1, <2>2
<1>13. Fence(t)' <=> fence
  BY <1>5, <1>12 DEF Fence
<1>14. FenceOK(t)'
  <2>1. CASE match
    <3>1. ss[t] = sessions[t]
      BY <1>4, <2>1
    <3>2. FenceOK(t)
      BY FenceParts DEF DaemonInv, FencePart
    <3>3. HasChain(d) => HasChain(sessions[t])
      BY <1>9, <3>1 DEF HasChain
    <3> QED BY <1>2, <1>5, <1>9, <1>11, <1>12, <2>1, <3>1, <3>2, <3>3, FenceOKKept
  <2>2. CASE ~match /\ fence
    <3>1. d.cache.jobs = {}
      BY <1>4, <1>9, <2>2 DEF Quiet
    <3> QED BY <1>11, <1>13, <2>2, <3>1, FenceOKEmpty
  <2>3. CASE ~match /\ ~fence
    <3>1. ss[t].cache.jobs = {} /\ ~HasChain(d)
      BY <1>4, <1>9, <2>3 DEF Quiet, HasChain
    <3> QED BY <1>9, <1>11, <1>13, <2>3, <3>1, FenceOKUnread
  <2> QED BY <2>1, <2>2, <2>3
<1>15. ASSUME NEW u \in Sids
       PROVE  /\ MovesOn(sessions[u], sessions'[u])
              /\ NoNewHit(sessions[u].cache, sessions'[u].cache)
              /\ sessions'[u].mutation <= begun'
              /\ sessions'[u].inc = 0 => sessions'[u] = NoSession
              /\ FenceOK(u)'
  <2>1. ss[u].mutation <= begun'
    BY <1>2, <1>3, <1>4, StateFields
  <2>2. CASE u = t
    BY <1>2, <1>3, <1>8, <1>9, <1>10, <1>11, <1>14, <2>1, <2>2
  <2>3. CASE u # t
    <3>1. sessions'[u] = ss[u]
      BY <1>11, <2>3
    <3>2. FenceOK(u)'
      <4>1. CASE ~match /\ RepoOf[u] = r
        BY <1>4, <3>1, <4>1, FenceOKEmpty DEF Quiet
      <4>2. CASE match \/ RepoOf[u] # r
        <5>1. sessions'[u] = sessions[u] /\ disk' = disk
          BY <1>2, <1>4, <3>1, <4>2
        <5>2. Active(RepoOf[u])' = Active(RepoOf[u])
          BY <1>12, <4>2, StateFields
        <5> QED BY <5>1, <5>2, FenceOKElsewhere
      <4> QED BY <4>1, <4>2
    <3> QED BY <1>4, <2>1, <3>1, <3>2
  <2> QED BY <2>2, <2>3
<1>16. ASSUME ~NamedReports
       PROVE  /\ ReadsKept
              /\ \A u \in Sids : RepoOf[u] = r => Unread(sessions'[u])
  <2>1. ~match
    BY <1>0, <1>16
  <2>2. Unread(sessions'[t]) /\ NoNewRead(sessions[t], sessions'[t])
    BY <1>4, <1>9, <1>11, <2>1 DEF Quiet, NoNewRead, Unread
  <2>3. ASSUME NEW u \in Sids, u # t, RepoOf[u] = r
        PROVE  Unread(sessions'[u]) /\ NoNewRead(sessions[u], sessions'[u])
    BY <1>4, <1>11, <2>1, <2>3 DEF Quiet, NoNewRead, Unread
  <2>4. ASSUME NEW u \in Sids, RepoOf[u] # r
        PROVE  NoNewRead(sessions[u], sessions'[u])
    BY <1>3, <1>4, <1>11, <2>4, StaysOn
  <2> QED BY <2>2, <2>3, <2>4 DEF ReadsKept
<1> QED
  BY <1>2, <1>11, <1>12, <1>15, <1>16, StateFields, AllMove

\* The host runs the command behind the fence: what a chain's fork has read is
\* what the write leaves behind, unless it goes wrong.
LEMMA ExecuteStep ==
  ASSUME DaemonInv, NEW m \in mutations, Execute(m)
  PROVE  DaemonInv' /\ NoneServed
<1> DEFINE r == m.repo
           e == [m EXCEPT !.executed = TRUE]
<1>1. /\ ~m.executed /\ mutations' = (mutations \ {m}) \cup {e}
      /\ UNCHANGED <<sessions, starts, begun, ask>>
  BY DEF Execute
<1>2. m \in MutationType /\ TRUE \in BOOLEAN
  BY StateFields, Zenon
<1>3. /\ e \in MutationType /\ e.executed /\ e.id = m.id /\ e.sid = m.sid /\ e.repo = r
      /\ e.write = m.write /\ (e.conflicted <=> m.conflicted)
  BY <1>2 DEF MutationType
<1>4. r \in Repos
  BY <1>2 DEF MutationType
<1> HIDE DEF e
<1>5. PICK v \in DiskState :
         /\ disk' = [disk EXCEPT ![r] = v]
         /\ v.base = disk[r].base \/ v.file = Other
  <2>1. disk[r] \in DiskState
    BY <1>4, StateFields
  <2>2. CASE m.write # NoWrite /\ disk' = [disk EXCEPT ![m.repo].file = m.write]
    <3> DEFINE v == [disk[r] EXCEPT !.file = m.write]
    <3>1. v \in DiskState /\ v.base = disk[r].base
      BY <1>2, <2>1, <2>2 DEF MutationType, DiskState, Contents
    <3>2. disk' = [disk EXCEPT ![r] = v]
      BY <2>2
    <3> HIDE DEF v
    <3> QED BY <3>1, <3>2
  <2>3. CASE disk' = [disk EXCEPT ![m.repo] = [base |-> disk[m.repo].base + 1, file |-> Other]]
    <3> DEFINE v == [base |-> disk[r].base + 1, file |-> Other]
    <3>1. v \in DiskState /\ v.file = Other
      BY <2>1 DEF DiskState, Contents
    <3>2. disk' = [disk EXCEPT ![r] = v]
      BY <2>3
    <3> HIDE DEF v
    <3> QED BY <3>1, <3>2
  <2> QED BY <2>2, <2>3 DEF Execute
<1>6. /\ disk' \in [Repos -> DiskState] /\ disk'[r] = v
      /\ \A q \in Repos \ {r} : disk'[q] = disk[q]
  BY <1>4, <1>5, StateFields
<1>7. /\ mutations' \subseteq MutationType
      /\ \A n \in mutations' : n.id <= begun' /\ n.repo = RepoOf[n.sid]
      /\ Fenced \/ mutations' = {}
  BY <1>1, <1>3, StateFields DEF DaemonInv
<1>8. /\ \A q \in Repos \ {r} : Active(q)' = Active(q)
      /\ Active(r)' = (Active(r) \ {m}) \cup {e} /\ m \in Active(r)
  BY <1>1, <1>3 DEF Active
<1>9. ASSUME NEW u \in Sids
      PROVE  FenceOK(u)'
  <2>1. CASE RepoOf[u] # r
    <3>1. RepoOf[u] \in Repos \ {r}
      BY <2>1, StateFields
    <3> QED BY <1>1, <1>6, <1>8, <3>1, FenceOKElsewhere
  <2>2. CASE RepoOf[u] = r
    <3> DEFINE s == sessions[u]
    <3>1. Fence(u) /\ Fence(u)' /\ sessions'[u] = s
      BY <1>1, <1>8, <2>2 DEF Fence
    <3>2. CASE s.cache.jobs = {}
      BY <3>1, <3>2, FenceOKEmpty
    <3>3. CASE s.cache.jobs # {}
      <4>1. FenceOK(u)
        BY FenceParts DEF DaemonInv, FencePart
      <4>2. PICK n \in mutations :
              /\ Active(RepoOf[u]) = {n} /\ ~n.conflicted /\ n.sid = u /\ n.id = s.mutation
              /\ n.write = s.chain.write
        BY <3>1, <3>3, <4>1 DEF FenceOK
      <4>3. n = m /\ Active(RepoOf[u])' = {e} /\ e \in mutations'
        BY <1>1, <1>8, <2>2, <4>2
      <4>4. \A i \in s.cache.jobs : HasChain(s) /\ s.chain.spec = i
        BY <3>1, <4>1 DEF FenceOK
      <4>5. ASSUME NEW i \in s.cache.jobs, s.tasks[i].at \in {"ran", "done"}
            PROVE  /\ s.tasks[i].val.file = s.chain.write
                   /\ \/ s.tasks[i].val.base = v.base
                      \/ e.executed /\ v.file = Other
        <5>1. s.tasks[i].val.file = s.chain.write /\ s.tasks[i].val.base = disk[RepoOf[u]].base
          BY <1>1, <4>1, <4>2, <4>3, <4>5 DEF FenceOK
        <5> QED BY <1>3, <1>5, <2>2, <5>1
      <4> QED BY <1>3, <1>6, <2>2, <3>1, <4>2, <4>3, <4>4, <4>5 DEF FenceOK
    <3> QED BY <3>2, <3>3
  <2> QED BY <2>1, <2>2
<1>10. \A u \in Sids : MovesOn(sessions[u], sessions[u]) /\ NoNewHit(sessions[u].cache, sessions[u].cache)
  BY StateFields, StaysOn
<1> QED
  BY <1>1, <1>6, <1>7, <1>9, <1>10, StateFields, AllMove

\* The session that ended its mutation.
Ended(s, m, keep) ==
  [s EXCEPT !.completed = @ \cup {[id |-> m.id, preserved |-> keep]}, !.mutation = 0]

LEMMA EndedOK ==
  ASSUME NEW s, SessionOK(s), NEW m \in MutationType, NEW keep \in BOOLEAN,
         NEW d, d = Ended(s, m, keep)
  PROVE  /\ MovesOn(s, d) /\ NoNewHit(s.cache, d.cache) /\ d \in SessionType
         /\ d.inc = s.inc /\ d.cache = s.cache /\ d.tasks = s.tasks /\ d.chain = s.chain
         /\ d.claim = s.claim /\ d.mutation = 0
<1> DEFINE c == s.completed \cup {[id |-> m.id, preserved |-> keep]}
<1>1. s \in SessionType
  BY SessionFields
<1>2. c \in SUBSET [id : Nat, preserved : BOOLEAN]
  BY <1>1 DEF SessionType, MutationType
<1>3. d = [s EXCEPT !.completed = c, !.mutation = 0]
  BY DEF Ended
<1> HIDE DEF c
<1>4. /\ d \in SessionType /\ d.inc = s.inc /\ d.cache = s.cache /\ d.tasks = s.tasks
      /\ d.chain = s.chain /\ d.claim = s.claim /\ d.mutation = 0
  <2> DEFINE C == SUBSET [id : Nat, preserved : BOOLEAN]
  <2>1. SessionType = [inc : Nat, cache : CacheType, tasks : Seq(TaskType), chain : ChainType,
                       claim : Askers \cup {NoAsker}, mutation : Nat, streamed : BOOLEAN, completed : C]
    BY DEF SessionType
  <2>2. c \in C
    BY <1>2
  <2> HIDE DEF C
  <2> DEFINE e == [s EXCEPT !.completed = c]
  <2>3. /\ e \in SessionType /\ e.inc = s.inc /\ e.cache = s.cache /\ e.tasks = s.tasks
        /\ e.chain = s.chain /\ e.claim = s.claim
    BY <1>1, <2>1, <2>2
  <2>4. d = [e EXCEPT !.mutation = 0]
    BY <1>1, <1>3, <2>1
  <2> HIDE DEF e
  <2>5. d \in SessionType
    BY <2>1, <2>3, <2>4
  <2>6. /\ d.inc = s.inc /\ d.cache = s.cache /\ d.tasks = s.tasks
        /\ d.chain = s.chain /\ d.claim = s.claim /\ d.mutation = 0
    BY <2>1, <2>3, <2>4
  <2> QED BY <2>5, <2>6
<1>5. SessionOK(d)
  BY <1>4 DEF SessionOK, HasChain
<1>6. MovesOn(s, s) /\ NoNewHit(s.cache, s.cache)
  BY StaysOn
<1> QED
  BY <1>4, <1>5, <1>6 DEF MovesOn

\* mutation_end (daemon.py:270-290): a preserved chain has read what is now on the
\* disk, because the write it was forked for is there and nothing else changed.
LEMMA MutationEndStep ==
  ASSUME DaemonInv, NEW m \in mutations, NEW success \in BOOLEAN, MutationEnd(m, success)
  PROVE  DaemonInv' /\ NoneServed
<1> DEFINE t == m.sid
           r == m.repo
<1>1. PICK keep \in BOOLEAN : keep = Preserves(m, success)
  <2>1. Preserves(m, success) \in BOOLEAN
    BY Zenon DEF Preserves
  <2> QED BY <2>1
<1>2. PICK ss : ss = Invalidate(sessions, r, IF keep THEN {t} ELSE {})
  OBVIOUS
<1>3. PICK d : d = Ended(ss[t], m, keep)
  OBVIOUS
<1>4. /\ m \in MutationType /\ t \in Sids /\ r \in Repos /\ r = RepoOf[t]
      /\ begun \in Nat /\ \A u \in Sids : SessionOK(sessions[u]) /\ sessions[u].inc \in Nat
  BY StateFields DEF MutationType
<1>5. /\ ss \in [Sids -> SessionType]
      /\ \A u \in Sids :
           /\ MovesOn(sessions[u], ss[u]) /\ NoNewHit(sessions[u].cache, ss[u].cache)
           /\ ss[u].mutation \in {0, sessions[u].mutation}
           /\ ss[u].inc = 0 => ss[u] = NoSession
           /\ RepoOf[u] = r /\ (~keep \/ u # t) => Quiet(ss[u])
           /\ RepoOf[u] # r \/ (keep /\ u = t) => ss[u] = sessions[u]
  <2>1. PICK K : K = IF keep THEN {t} ELSE {}
    OBVIOUS
  <2>2. ss = Invalidate(sessions, r, K) /\ \A u : u \in K <=> keep /\ u = t
    BY <1>2, <2>1
  <2>3. /\ ss \in [Sids -> SessionType]
        /\ \A u \in Sids :
             /\ MovesOn(sessions[u], ss[u]) /\ NoNewHit(sessions[u].cache, ss[u].cache)
             /\ ss[u].mutation \in {0, sessions[u].mutation}
             /\ ss[u].inc = 0 => ss[u] = NoSession
             /\ RepoOf[u] = r /\ u \notin K => Quiet(ss[u])
             /\ RepoOf[u] # r \/ u \in K => ss[u] = sessions[u]
    BY <1>4, <2>2, InvalidateOK
  <2> QED BY <2>2, <2>3
<1>6. /\ sessions[t].inc > 0 /\ mutations' = mutations \ {m}
      /\ UNCHANGED <<starts, begun, disk, ask>>
      /\ sessions' = [ss EXCEPT ![t] = d]
  BY <1>1, <1>2, <1>3, <1>4, <1>5 DEF MutationEnd, Registered, Ended
<1>7. SessionOK(ss[t]) /\ ss[t].inc = sessions[t].inc
  BY <1>4, <1>5 DEF MovesOn
<1>8. /\ MovesOn(ss[t], d) /\ NoNewHit(ss[t].cache, d.cache) /\ d \in SessionType
      /\ d.inc = ss[t].inc /\ d.cache = ss[t].cache /\ d.tasks = ss[t].tasks
      /\ d.chain = ss[t].chain /\ d.claim = ss[t].claim /\ d.mutation = 0
  <2>1. PICK q : q = ss[t]
    OBVIOUS
  <2> QED BY <1>3, <1>4, <1>7, <2>1, EndedOK
<1>9. MovesOn(sessions[t], d) /\ NoNewHit(sessions[t].cache, d.cache)
  BY <1>4, <1>5, <1>8, MovesOnTransitive
<1>10. /\ sessions' \in [Sids -> SessionType] /\ sessions'[t] = d
       /\ \A u \in Sids \ {t} : sessions'[u] = ss[u]
  BY <1>4, <1>5, <1>6, <1>8
<1>11. /\ \A q \in Repos \ {r} : Active(q)' = Active(q)
       /\ Active(r)' = Active(r) \ {m}
  BY <1>6 DEF Active
<1>12. FenceOK(t)'
  <2>1. CASE ~keep
    <3>1. d.cache.jobs = {} /\ ~HasChain(d)
      BY <1>4, <1>5, <1>8, <2>1 DEF Quiet, HasChain
    <3> QED BY <1>4, <1>10, <3>1, FenceOKEmpty
  <2>2. CASE keep
    <3> DEFINE s == sessions[t]
    <3>1. /\ Active(r) = {m} /\ HasChain(s) /\ s.chain.write = m.write /\ disk[r].file = m.write
      BY <1>1, <2>2 DEF Preserves, WriteIsCommitted
    <3>2. ss[t] = s /\ ~Fence(t)'
      BY <1>4, <1>5, <1>11, <2>2, <3>1 DEF Fence
    <3>3. /\ d.cache = s.cache /\ d.tasks = s.tasks /\ d.chain = s.chain
      BY <1>8, <3>2
    <3>4. s.chain.write \in Writes /\ s.chain.write # Other
      BY <1>4, <3>1, SfxDaemonAssumption DEF SessionOK
    <3>5. ASSUME NEW i \in s.cache.jobs, s.tasks[i].at \in {"ran", "done"}
          PROVE  s.tasks[i].val = disk[r]
      <4>1. FenceOK(t)
        BY <1>4, FenceParts DEF DaemonInv, FencePart
      <4>2. s.tasks[i].val.file = disk[r].file /\ s.tasks[i].val.base = disk[r].base
        BY <1>4, <3>1, <3>4, <3>5, <4>1 DEF FenceOK
      <4>3. s.tasks[i] \in TaskType
        BY <1>4, <3>5, SessionFields
      <4>4. s.tasks[i].val \in DiskState /\ disk[r] \in DiskState
        BY <1>4, <4>3, StateFields DEF TaskType
      <4> QED BY <4>2, <4>4 DEF DiskState
    <3>6. \A u : Active(r)' # {u}
      BY <1>11, <3>1
    <3>7. /\ HasChain(d) => disk[r].file = d.chain.write
          /\ \A i \in d.cache.jobs : d.tasks[i].at \in {"ran", "done"} => d.tasks[i].val = disk[r]
      BY <3>1, <3>3, <3>5
    <3>8. sessions'[t] = d /\ disk' = disk /\ RepoOf[t] = r
      BY <1>4, <1>6, <1>10
    <3> QED BY <3>2, <3>6, <3>7, <3>8 DEF FenceOK
  <2> QED BY <2>1, <2>2
<1>13. ASSUME NEW u \in Sids
       PROVE  /\ MovesOn(sessions[u], sessions'[u])
              /\ NoNewHit(sessions[u].cache, sessions'[u].cache)
              /\ sessions'[u].mutation <= begun'
              /\ sessions'[u].inc = 0 => sessions'[u] = NoSession
              /\ FenceOK(u)'
  <2>1. ss[u].mutation <= begun'
    BY <1>4, <1>5, <1>6, StateFields
  <2>2. CASE u = t
    BY <1>4, <1>6, <1>7, <1>8, <1>9, <1>10, <1>12, <2>2
  <2>3. CASE u # t
    <3>1. sessions'[u] = ss[u]
      BY <1>10, <2>3
    <3>2. FenceOK(u)'
      <4>1. CASE RepoOf[u] = r
        BY <1>5, <2>3, <3>1, <4>1, FenceOKEmpty DEF Quiet
      <4>2. CASE RepoOf[u] # r
        <5>1. sessions'[u] = sessions[u] /\ disk' = disk /\ RepoOf[u] \in Repos \ {r}
          BY <1>5, <1>6, <3>1, <4>2, StateFields
        <5> QED BY <1>11, <5>1, FenceOKElsewhere
      <4> QED BY <4>1, <4>2
    <3> QED BY <1>5, <2>1, <3>1, <3>2
  <2> QED BY <2>2, <2>3
<1>14. /\ mutations' \subseteq MutationType
       /\ \A n \in mutations' : n.id <= begun' /\ n.repo = RepoOf[n.sid]
       /\ Fenced \/ mutations' = {}
  BY <1>6, StateFields DEF DaemonInv
<1> QED
  BY <1>6, <1>10, <1>13, <1>14, StateFields, AllMove

\* The task with what it has read.
Ran(k, v) == [k EXCEPT !.at = "ran", !.val = v]
TaskRuns(s, i, v) == [s EXCEPT !.tasks = [s.tasks EXCEPT ![i] = Ran(s.tasks[i], v)]]

TaskRan(s, i, v, d) ==
  /\ d \in SessionType /\ d.inc = s.inc /\ d.cache = s.cache /\ d.chain = s.chain
  /\ d.claim = s.claim /\ d.mutation = s.mutation
  /\ Len(d.tasks) = Len(s.tasks) /\ d.tasks[i].val = v /\ d.tasks[i].at = "ran"
  /\ \A j \in SpecIds(s.cache) :
       /\ d.tasks[j].lane = s.tasks[j].lane /\ d.tasks[j].write = s.tasks[j].write
       /\ j # i => d.tasks[j] = s.tasks[j]

LEMMA TaskRunsFields ==
  ASSUME NEW s, SessionOK(s), NEW i \in SpecIds(s.cache), NEW v \in DiskState,
         NEW d, d = TaskRuns(s, i, v)
  PROVE  TaskRan(s, i, v, d)
<1> DEFINE k == Ran(s.tasks[i], v)
           tasks == [s.tasks EXCEPT ![i] = k]
<1>1. /\ s \in SessionType /\ s.tasks \in Seq(TaskType) /\ i \in 1 .. Len(s.tasks)
      /\ SpecIds(s.cache) = 1 .. Len(s.tasks) /\ s.tasks[i] \in TaskType
  BY SessionFields
<1>2. /\ k \in TaskType /\ k.at = "ran" /\ k.lane = s.tasks[i].lane
      /\ k.write = s.tasks[i].write /\ k.val = v
  BY <1>1 DEF TaskType, Ran
<1> HIDE DEF k
<1>3. /\ tasks \in Seq(TaskType) /\ Len(tasks) = Len(s.tasks)
      /\ \A j \in 1 .. Len(s.tasks) : tasks[j] = IF j = i THEN k ELSE s.tasks[j]
  BY <1>1, <1>2, ExceptSeq
<1>4. d = [s EXCEPT !.tasks = tasks]
  BY DEF TaskRuns, k
<1> HIDE DEF tasks
<1>5. /\ d \in SessionType /\ d.inc = s.inc /\ d.cache = s.cache /\ d.chain = s.chain
      /\ d.tasks = tasks /\ d.claim = s.claim /\ d.mutation = s.mutation
  BY <1>1, <1>3, <1>4 DEF SessionType
<1> QED
  BY <1>1, <1>2, <1>3, <1>5 DEF TaskRan

\* A pool thread reads the repository, or a fork of it: a queued chain task is the
\* hop of the session's chain, so its fork has that chain's write.
LEMMA WorkerRunStep ==
  ASSUME DaemonInv, NEW t \in Sids, NEW i \in sessions[t].cache.jobs, WorkerRun(t, i)
  PROVE  /\ DaemonInv' /\ NoneServed
         /\ sessions'[t].tasks[i].lane = "get" => sessions'[t].tasks[i].val = disk[RepoOf[t]]
         /\ \A u \in Sids : \A j \in sessions'[u].cache.jobs :
              u # t \/ j # i => /\ j \in sessions[u].cache.jobs
                                /\ sessions'[u].tasks[j] = sessions[u].tasks[j]
<1> DEFINE s == sessions[t]
           k == s.tasks[i]
           h == disk[RepoOf[t]]
<1>1. /\ SessionOK(s) /\ s \in SessionType /\ CacheInv(s.cache) /\ i \in SpecIds(s.cache)
      /\ s.cache.jobs \subseteq SpecIds(s.cache) /\ k \in TaskType
      /\ s.chain.spec \in {0} \cup SpecIds(s.cache) /\ 0 \notin SpecIds(s.cache)
      /\ Len(s.tasks) = Len(s.cache.specs) /\ h \in DiskState /\ s.tasks \in Seq(TaskType)
  BY StateFields, SessionFields
<1>2. PICK v \in DiskState : v = IF k.lane = "chain" THEN [h EXCEPT !.file = k.write] ELSE h
  <2>1. CASE k.lane = "chain"
    <3>1. i = s.chain.spec /\ i # 0
      BY <1>1, <2>1 DEF SessionOK, WorkerRun
    <3>2. s.chain.spec # 0 => HasChain(s)
      BY DEF HasChain, NoChain
    <3>3. k.write \in Writes
      BY <1>1, <3>1, <3>2 DEF SessionOK
    <3> QED BY <1>1, <2>1, <3>3 DEF DiskState, Contents
  <2>2. CASE k.lane # "chain"
    BY <1>1, <2>2
  <2> QED BY <2>1, <2>2
<1>3. PICK d : d = TaskRuns(s, i, v)
  OBVIOUS
<1>4. /\ k.at = "queued" /\ UNCHANGED <<starts, mutations, begun, disk, ask>>
      /\ sessions' = [sessions EXCEPT ![t] = d]
  BY <1>2, <1>3 DEF WorkerRun, TaskRuns, Ran
<1>5. /\ d \in SessionType /\ d.inc = s.inc /\ d.cache = s.cache /\ d.chain = s.chain
      /\ d.claim = s.claim /\ d.mutation = s.mutation
      /\ Len(d.tasks) = Len(s.tasks) /\ d.tasks[i].val = v /\ d.tasks[i].at = "ran"
      /\ \A j \in SpecIds(s.cache) :
           /\ d.tasks[j].lane = s.tasks[j].lane /\ d.tasks[j].write = s.tasks[j].write
           /\ j # i => d.tasks[j] = s.tasks[j]
  <2>1. TaskRan(s, i, v, d)
    BY <1>1, <1>3, TaskRunsFields
  <2> QED BY <2>1 DEF TaskRan
<1>6. SessionOK(d)
  <2>1. ASSUME NEW j \in s.cache.jobs
        PROVE  /\ j \in s.cache.finished => d.tasks[j].at = "done"
               /\ d.tasks[j].lane = "chain" /\ j # s.chain.spec =>
                    d.tasks[j].at = "done" /\ s.cache.term[j] \in Hits
    <3>1. /\ j \in SpecIds(s.cache)
          /\ j \in s.cache.finished => s.tasks[j].at = "done"
          /\ s.tasks[j].lane = "chain" /\ j # s.chain.spec =>
               s.tasks[j].at = "done" /\ s.cache.term[j] \in Hits
      BY <1>1 DEF SessionOK
    <3> QED BY <1>4, <1>5, <3>1
  <2>2. HasChain(d) => d.chain.write \in Writes
    BY <1>1, <1>5 DEF SessionOK, HasChain
  <2>3. d.chain.spec # 0 =>
          /\ d.tasks[d.chain.spec].lane = "chain"
          /\ d.tasks[d.chain.spec].write = d.chain.write
          /\ d.chain.spec \in d.cache.jobs => d.cache.term[d.chain.spec] = "none"
    BY <1>1, <1>5 DEF SessionOK
  <2>4. d.chain.hop = NoCall => d.chain.spec = 0
    BY <1>1, <1>5 DEF SessionOK
  <2> QED BY <1>1, <1>5, <2>1, <2>2, <2>3, <2>4 DEF SessionOK
<1>7. MovesOn(s, d) /\ NoNewHit(s.cache, d.cache)
  <2>1. MovesOn(s, s) /\ NoNewHit(s.cache, s.cache)
    BY <1>1, StaysOn
  <2> QED BY <1>5, <1>6, <2>1 DEF MovesOn
<1>8. /\ sessions' \in [Sids -> SessionType] /\ sessions'[t] = d
      /\ \A u \in Sids \ {t} : sessions'[u] = sessions[u]
  BY <1>4, <1>5, StateFields
<1>9. \A r : Active(r)' = Active(r)
  BY <1>4 DEF Active
<1>10. FenceOK(t) /\ (Fence(t)' <=> Fence(t))
  BY <1>9, FenceParts DEF DaemonInv, FencePart, Fence
<1>11. k.lane = "chain" =>
         /\ i = s.chain.spec /\ HasChain(s) /\ k.write = s.chain.write
         /\ v.file = s.chain.write /\ v.base = h.base
         /\ h.file = s.chain.write => v = h
  <2>1. ASSUME k.lane = "chain"
        PROVE  i = s.chain.spec /\ HasChain(s) /\ k.write = s.chain.write
    <3>1. i = s.chain.spec /\ i # 0
      BY <1>1, <1>4, <2>1 DEF SessionOK
    <3>2. s.chain.spec # 0 => HasChain(s)
      BY DEF HasChain, NoChain
    <3> QED BY <1>1, <3>1, <3>2 DEF SessionOK
  <2> QED BY <1>1, <1>2, <2>1 DEF DiskState
<1>12. i = s.chain.spec => k.lane = "chain"
  BY <1>1 DEF SessionOK
<1>13. FenceOK(t)'
  <2>1. ASSUME Fence(t), NEW j \in d.cache.jobs
        PROVE  /\ HasChain(d) /\ d.chain.spec = j
               /\ \E m \in mutations' :
                    /\ Active(RepoOf[t])' = {m} /\ ~m.conflicted
                    /\ m.sid = t /\ m.id = d.mutation /\ m.write = d.chain.write
    <3>1. HasChain(d) <=> HasChain(s)
      BY <1>5 DEF HasChain
    <3> QED BY <1>4, <1>5, <1>9, <1>10, <2>1, <3>1 DEF FenceOK
  <2>2. ASSUME NEW m \in mutations', Active(RepoOf[t])' = {m}, NEW j \in d.cache.jobs,
               d.tasks[j].at \in {"ran", "done"}
        PROVE  /\ d.tasks[j].val.file = d.chain.write
               /\ \/ d.tasks[j].val.base = h.base
                  \/ m.executed /\ h.file = Other
    <3>1. Fence(t) /\ m \in mutations /\ Active(RepoOf[t]) = {m}
      BY <1>4, <1>9, <2>2 DEF Fence
    <3>2. j = s.chain.spec /\ j \in s.cache.jobs
      BY <1>5, <1>10, <2>2, <3>1 DEF FenceOK
    <3>3. CASE j = i
      BY <1>5, <1>11, <1>12, <3>2, <3>3
    <3>4. CASE j # i
      <4>1. d.tasks[j] = s.tasks[j]
        BY <1>1, <1>5, <3>2, <3>4
      <4>2. s.tasks[j].at \in {"ran", "done"}
        BY <2>2, <4>1
      <4>3. /\ s.tasks[j].val.file = s.chain.write
            /\ s.tasks[j].val.base = h.base \/ (m.executed /\ h.file = Other)
        BY <1>10, <3>1, <3>2, <4>2 DEF FenceOK
      <4> QED BY <1>5, <4>1, <4>3
    <3> QED BY <3>3, <3>4
  <2>3. ASSUME Fenced, ~Fence(t)
        PROVE  /\ \A j \in d.cache.jobs :
                    d.tasks[j].at \in {"ran", "done"} => d.tasks[j].val = h
               /\ HasChain(d) => h.file = d.chain.write
    <3>1. HasChain(s) => h.file = s.chain.write
      BY <1>10, <2>3 DEF FenceOK
    <3>2. v = h
      BY <1>2, <1>11, <3>1
    <3>3. ASSUME NEW j \in d.cache.jobs, d.tasks[j].at \in {"ran", "done"}
          PROVE  d.tasks[j].val = h
      <4>1. CASE j = i
        BY <1>5, <3>2, <4>1
      <4>2. CASE j # i
        <5>1. d.tasks[j] = s.tasks[j] /\ j \in s.cache.jobs
          BY <1>1, <1>5, <3>3, <4>2
        <5> QED BY <1>10, <2>3, <3>3, <5>1 DEF FenceOK
      <4> QED BY <4>1, <4>2
    <3> QED BY <1>5, <3>1, <3>3 DEF HasChain
  <2> QED BY <1>4, <1>8, <1>10, <2>1, <2>2, <2>3 DEF FenceOK
<1>14. ASSUME NEW u \in Sids
       PROVE  /\ MovesOn(sessions[u], sessions'[u])
              /\ NoNewHit(sessions[u].cache, sessions'[u].cache)
              /\ sessions'[u].mutation <= begun'
              /\ sessions'[u].inc = 0 => sessions'[u] = NoSession
              /\ FenceOK(u)'
  <2>1. CASE u = t
    <3>1. s.inc # 0
      <4>1. NoSession.cache.jobs = {}
        BY NewSessionOK DEF NoSession
      <4> QED BY <4>1, StateFields
    <3>2. s.mutation <= begun
      BY StateFields
    <3> QED BY <1>4, <1>5, <1>7, <1>8, <1>13, <2>1, <3>1, <3>2
  <2>2. CASE u # t
    <3>1. /\ sessions'[u] = sessions[u] /\ SessionOK(sessions[u]) /\ sessions[u].mutation <= begun
          /\ sessions[u].inc = 0 => sessions[u] = NoSession
      BY <1>8, <2>2, StateFields
    <3>2. FenceOK(u)'
      BY <1>4, <1>9, <3>1, FenceOKElsewhere
    <3>3. MovesOn(sessions[u], sessions[u]) /\ NoNewHit(sessions[u].cache, sessions[u].cache)
      BY <3>1, StaysOn
    <3> QED BY <1>4, <3>1, <3>2, <3>3
  <2> QED BY <2>1, <2>2
<1>15. /\ begun' \in Nat /\ disk' \in [Repos -> DiskState] /\ mutations' \subseteq MutationType
       /\ \A n \in mutations' : n.id <= begun' /\ n.repo = RepoOf[n.sid]
       /\ Fenced \/ mutations' = {}
  BY <1>4, StateFields DEF DaemonInv
<1>16. /\ d.tasks[i].lane = "get" => d.tasks[i].val = h
       /\ \A u \in Sids : \A j \in sessions'[u].cache.jobs :
            u # t \/ j # i => /\ j \in sessions[u].cache.jobs
                              /\ sessions'[u].tasks[j] = sessions[u].tasks[j]
  BY <1>1, <1>2, <1>5, <1>8
<1> QED
  BY <1>4, <1>8, <1>14, <1>15, <1>16, AllMove

-----------------------------------------------------------------------------
(* The theorems *)

\* Daemon.__init__.
LEMMA DaemonInit == Init => DaemonInv
<1> SUFFICES ASSUME Init
             PROVE  DaemonInv
  OBVIOUS
<1>1. /\ SessionOK(NoSession) /\ NoSession.inc = 0 /\ NoSession.mutation = 0
      /\ NoSession.claim = NoAsker /\ NoSession.cache.jobs = {} /\ ~HasChain(NoSession)
      /\ NoSession \in SessionType
  BY NewSessionOK DEF NoSession, SessionOK
<1>2. /\ CacheTypeOK(NoSession.cache) /\ NoSession.chain.spec \in {0} \cup SpecIds(NoSession.cache)
      /\ Len(NoSession.tasks) = Len(NoSession.cache.specs)
  BY <1>1, SessionFields
<1>3. /\ \A t \in Sids : sessions[t] = NoSession
      /\ sessions \in [Sids -> SessionType] /\ mutations = {} /\ begun = 0
      /\ \A a \in Askers : ask[a] = Idle
  BY <1>1 DEF Init
<1>4. /\ starts \in [Sids -> Nat] /\ disk \in [Repos -> DiskState]
      /\ ask \in [Askers -> AskType \cup {Idle}]
  BY DEF Init, DiskState, Contents
<1>5. TypeOK
  <2>1. \A t \in Sids :
          /\ CacheTypeOK(sessions[t].cache)
          /\ sessions[t].chain.spec \in {0} \cup SpecIds(sessions[t].cache)
          /\ Len(sessions[t].tasks) = Len(sessions[t].cache.specs)
          /\ sessions[t].mutation <= begun
          /\ sessions[t].inc = 0 /\ sessions[t] = NoSession
    BY <1>1, <1>2, <1>3
  <2> QED BY <1>3, <1>4, <2>1 DEF TypeOK
<1>6. FenceQuiet /\ FencedReads /\ LiveResultsCurrent /\ ChainWriteCommitted
  BY <1>1, <1>3 DEF FenceQuiet, FencedReads, LiveResultsCurrent, ChainWriteCommitted
<1>7. WaitsBehind /\ ClaimOwned
  BY <1>1, <1>3 DEF WaitsBehind, ClaimOwned, Idle
<1> QED
  BY <1>1, <1>3, <1>5, <1>6, <1>7 DEF DaemonInv

\* Every handler, thread and caller keeps the invariant, and what is served is live.
LEMMA DaemonNext ==
  ASSUME DaemonInv, [Next]_vars
  PROVE  DaemonInv' /\ ServedLive
<1>1. NoneServed => ServedLive
  BY DEF NoneServed, ServedLive
<1>2. CASE UNCHANGED vars
  <2>1. /\ sessions' = sessions /\ starts' = starts /\ mutations' = mutations /\ begun' = begun
        /\ disk' = disk /\ ask' = ask
    BY <1>2 DEF vars
  <2>2. \A t \in Sids : MovesOn(sessions[t], sessions[t]) /\ NoNewHit(sessions[t].cache, sessions[t].cache)
    BY StateFields, StaysOn
  <2>3. \A t \in Sids : FenceOK(t)'
    <3>1. \A r : Active(r)' = Active(r)
      BY <2>1 DEF Active
    <3> QED BY <2>1, <3>1, FenceOKElsewhere
  <2>4. DaemonInv' /\ NoneServed
    <3>1. Fenced \/ mutations = {}
      BY DEF DaemonInv
    <3> QED BY <2>1, <2>2, <2>3, <3>1, StateFields, AllMove
  <2> QED BY <1>1, <2>4
<1>3. CASE Lifecycle
  BY <1>1, <1>3, LifecycleStep
<1>4. CASE Host
  <2>1. ASSUME NEW t \in Sids, NEW w \in Writes \cup {NoWrite}, MutationBegin(t, w)
        PROVE  DaemonInv' /\ NoneServed
    BY <2>1, MutationBeginStep
  <2>2. ASSUME NEW t \in Sids, NEW p \in Predictions, ReportFree(t, p)
        PROVE  DaemonInv' /\ NoneServed
    <3>1. NoCall \in Calls \cup {NoCall}
      OBVIOUS
    <3> QED BY <2>2, <3>1, LaunchStep
  <2>3. ASSUME NEW t \in Sids, NEW p \in Predictions, NEW c \in sessions[t].completed,
               ReportMutation(t, c, p)
        PROVE  DaemonInv' /\ NoneServed
    BY <2>3, ReportMutationStep
  <2>4. ASSUME NEW t \in Sids, NEW p \in Predictions, NEW w \in Writes \cup {NoWrite},
               ReportUnfenced(t, w, p)
        PROVE  DaemonInv' /\ NoneServed
    BY <2>4, ReportUnfencedStep
  <2>5. ASSUME NEW t \in Sids, NEW w \in Writes, UnfencedWrite(t, w)
        PROVE  DaemonInv' /\ NoneServed
    BY <2>5, UnfencedWriteStep
  <2>6. ASSUME NEW t \in Sids, NEW call \in Calls, StreamGet(t, call)
        PROVE  DaemonInv' /\ NoneServed
    <3>1. NoPrediction \in Predictions
      BY DEF NoPrediction, Predictions
    <3> QED BY <2>6, <3>1, LaunchStep
  <2>7. ASSUME NEW t \in Sids, NEW call \in Calls \cup {NoCall}, NEW forks \in BOOLEAN,
               NEW m \in mutations, Feed(t, m, call, forks)
        PROVE  DaemonInv' /\ NoneServed
    BY <2>7, FeedStep
  <2>8. ASSUME NEW t \in Sids, NEW call \in Calls \cup {NoCall}, NEW forks \in BOOLEAN,
               NEW w \in Writes, FeedUnfenced(t, w, call, forks)
        PROVE  DaemonInv' /\ NoneServed
    BY <2>8, FeedUnfencedStep
  <2>9. ASSUME NEW m \in mutations, Execute(m)
        PROVE  DaemonInv' /\ NoneServed
    BY <2>9, ExecuteStep
  <2>10. ASSUME NEW m \in mutations, NEW success \in BOOLEAN, MutationEnd(m, success)
         PROVE  DaemonInv' /\ NoneServed
    BY <2>10, MutationEndStep
  <2> QED
    BY <1>1, <1>4, <2>1, <2>2, <2>3, <2>4, <2>5, <2>6, <2>7, <2>8, <2>9, <2>10, Zenon DEF Host
<1>5. CASE Pool
  BY <1>1, <1>5, ChainFailedStep, WorkerRunStep, WorkerStep DEF Pool
<1>6. CASE Resolve
  <2>1. ASSUME NEW a \in Askers, NEW t \in Sids, NEW call \in Calls, ResolvePlain(a, t, call)
        PROVE  DaemonInv' /\ NoneServed
    BY <2>1, ResolvePlainStep
  <2>2. ASSUME NEW a \in Askers, NEW t \in Sids, NEW call \in Calls, ResolveChain(a, t, call)
        PROVE  DaemonInv' /\ NoneServed
    BY <2>2, ResolveChainStep
  <2>3. ASSUME NEW a \in Askers, NEW t \in Sids, NEW w \in Writes, ResolveEdit(a, t, w)
        PROVE  DaemonInv' /\ NoneServed
    BY <2>3, ResolveEditStep
  <2>4. ASSUME NEW a \in Askers, FinishPlain(a)
        PROVE  DaemonInv' /\ ServedLive
    BY <2>4, FinishPlainStep
  <2>5. ASSUME NEW a \in Askers, NEW completed \in BOOLEAN, FinishChain(a, completed)
        PROVE  DaemonInv' /\ ServedLive
    BY <2>5, FinishChainStep
  <2> QED BY <1>1, <1>6, <2>1, <2>2, <2>3, <2>4, <2>5 DEF Resolve
<1> QED
  BY <1>2, <1>3, <1>4, <1>5, <1>6 DEF Next

\* The inductive invariant holds in every reachable state of the daemon, for any
\* number of sessions, repositories, calls, writes, callers and mutations.
THEOREM DaemonInvHolds == Spec => []DaemonInv
<1>1. Init => DaemonInv
  BY DaemonInit
<1>2. DaemonInv /\ [Next]_vars => DaemonInv'
  BY DaemonNext
<1> QED
  BY <1>1, <1>2, PTL DEF Spec

\* Outside a fence every live job that has read its repository has read what is
\* there now (daemon.py:249-290, 325-331, 433-450).
THEOREM LiveResultsAreCurrent == Spec => []LiveResultsCurrent
<1>1. DaemonInv => LiveResultsCurrent
  BY DEF DaemonInv
<1> QED
  BY <1>1, DaemonInvHolds, PTL

\* A chain that outlives its fence stands on a write that is on the disk
\* (daemon.py:276-283).
THEOREM ChainsStandOnWrites == Spec => []ChainWriteCommitted
<1>1. DaemonInv => ChainWriteCommitted
  BY DEF DaemonInv
<1> QED
  BY <1>1, DaemonInvHolds, PTL

\* A caller inside resolve owns what it waits for, alone, and no claim of a chain
\* outlives its owner (daemon.py:616, 647-670).
THEOREM ClaimsAreOwned == Spec => []ClaimOwned
<1>1. DaemonInv => ClaimOwned
  BY DEF DaemonInv
<1> QED
  BY <1>1, DaemonInvHolds, PTL

\* No handler meets the ValueError of Ledger.terminal.
THEOREM NothingSettledTwice == Spec => []SettledOnce
<1>1. DaemonInv => SettledOnce
  BY DEF DaemonInv, SettledOnce, SessionOK, CacheInv
<1> QED
  BY <1>1, DaemonInvHolds, PTL

\* When hosts declare their mutations, what resolve serves is what the call would
\* answer if it ran now, although the lock was dropped while the caller waited
\* (daemon.py:582-605).
THEOREM ServedResultsAreCurrent == ASSUME Fenced PROVE Spec => ServedIsCurrent
<1> DEFINE Current == \A t \in Sids : \A i \in ServedNow(t) :
                        ~Fence(t) /\ sessions[t].tasks[i].val = disk[RepoOf[t]]
<1>1. DaemonInv /\ [Next]_vars => Current
  <2>1. SUFFICES ASSUME DaemonInv, [Next]_vars
                 PROVE  Current
    OBVIOUS
  <2>2. ServedLive
    BY <2>1, DaemonNext
  <2>3. LiveResultsCurrent
    BY <2>1 DEF DaemonInv
  <2> QED BY <2>2, <2>3 DEF ServedLive, LiveResultsCurrent
<1> HIDE DEF Current
<1>2. DaemonInv /\ [Next]_vars => [Current]_vars
  BY <1>1
<1>3. Spec => [][Current]_vars
  BY <1>2, DaemonInvHolds, PTL DEF Spec
<1> QED
  BY <1>3 DEF ServedIsCurrent, Current

\* A step in which nobody reads, the repositories stay as they are and no report is made
\* leaves the reads current.
LEMMA ReadsStayCurrent ==
  ASSUME ReportedReads, ReadsKept, UNCHANGED <<disk, unreported>>
  PROVE  ReportedReads'
  BY DEF ReportedReads, ReadsKept, NoNewRead, AllReported

\* Hosts report a command, not the write it made: whatever they do in between, a live read
\* of a repository whose writes are all reported has read what is there.
LEMMA ReportsNext ==
  ASSUME DaemonInv, ~Fenced, ~NamedReports, ReportedReads, [Next]_vars
  PROVE  ReportedReads'
<1>1. mutations = {}
  BY DEF DaemonInv
<1>2. CASE UNCHANGED vars
  BY <1>2 DEF vars, ReportedReads, AllReported
<1>3. CASE Lifecycle
  <2>1. UNCHANGED <<disk, unreported>>
    BY <1>3 DEF Lifecycle, Shutdown, SessionStart, SessionEnd
  <2> QED BY <1>3, <2>1, LifecycleStep, ReadsStayCurrent
<1>4. CASE Host
  <2>1. ASSUME NEW t \in Sids, NEW p \in Predictions, ReportFree(t, p)
        PROVE  ReportedReads'
    <3>1. NoCall \in Calls \cup {NoCall} /\ UNCHANGED <<disk, unreported>>
      BY <2>1 DEF ReportFree
    <3> QED BY <2>1, <3>1, LaunchStep, ReadsStayCurrent
  <2>2. ASSUME NEW t \in Sids, NEW call \in Calls, StreamGet(t, call)
        PROVE  ReportedReads'
    <3>1. NoPrediction \in Predictions /\ UNCHANGED <<disk, unreported>>
      BY <2>2 DEF NoPrediction, Predictions, StreamGet
    <3> QED BY <2>2, <3>1, LaunchStep, ReadsStayCurrent
  <2>3. ASSUME NEW t \in Sids, NEW p \in Predictions, NEW c \in sessions[t].completed,
               ReportMutation(t, c, p)
        PROVE  ReportedReads'
    <3>1. UNCHANGED <<disk, unreported>>
      BY <2>3 DEF ReportMutation
    <3> QED BY <2>3, <3>1, ReportMutationStep, ReadsStayCurrent
  <2>4. ASSUME NEW t \in Sids, NEW call \in Calls \cup {NoCall}, NEW forks \in BOOLEAN,
               NEW w \in Writes, FeedUnfenced(t, w, call, forks)
        PROVE  ReportedReads'
    <3>1. UNCHANGED <<disk, unreported>>
      BY <2>4 DEF FeedUnfenced
    <3> QED BY <2>4, <3>1, FeedUnfencedStep, ReadsStayCurrent
  <2>5. ASSUME NEW t \in Sids, NEW p \in Predictions, NEW w \in Writes \cup {NoWrite},
               ReportUnfenced(t, w, p)
        PROVE  ReportedReads'
    <3>1. /\ ReadsKept /\ disk' = disk
          /\ \A u \in Sids : RepoOf[u] = RepoOf[t] => Unread(sessions'[u])
      BY <2>5, ReportUnfencedStep DEF ReportUnfenced
    <3>2. unreported' = unreported \ {[sid |-> t, write |-> w]}
      BY <2>5 DEF ReportUnfenced
    <3>3. \A u \in Sids : RepoOf[u] # RepoOf[t] /\ AllReported(u)' => AllReported(u)
      <4>1. [sid |-> t, write |-> w].sid = t
        OBVIOUS
      <4> QED BY <3>2, <4>1 DEF AllReported
    <3> QED BY <3>1, <3>3 DEF ReportedReads, ReadsKept, NoNewRead, Unread
  <2>6. ASSUME NEW t \in Sids, NEW w \in Writes, UnfencedWrite(t, w)
        PROVE  ReportedReads'
    <3>1. /\ sessions' = sessions /\ unreported' = unreported \cup {[sid |-> t, write |-> w]}
          /\ disk' = [disk EXCEPT ![RepoOf[t]].file = w]
      BY <2>6 DEF UnfencedWrite
    <3>2. ASSUME NEW u \in Sids, AllReported(u)'
          PROVE  AllReported(u) /\ disk'[RepoOf[u]] = disk[RepoOf[u]]
      <4>1. AllReported(u)
        BY <3>1, <3>2 DEF AllReported
      <4>2. [sid |-> t, write |-> w].sid = t /\ [sid |-> t, write |-> w] \in unreported'
        BY <3>1
      <4>3. RepoOf[t] # RepoOf[u]
        BY <3>2, <4>2 DEF AllReported
      <4>4. disk \in [Repos -> DiskState] /\ RepoOf[u] \in Repos
        BY StateFields
      <4> QED BY <3>1, <4>1, <4>3, <4>4
    <3> QED BY <3>1, <3>2 DEF ReportedReads
  <2> QED
    BY <1>1, <1>4, <2>1, <2>2, <2>3, <2>4, <2>5, <2>6, Zenon DEF Host, MutationBegin
<1>5. CASE Pool
  <2>1. ASSUME NEW t \in Sids, ChainFailed(t)
        PROVE  ReportedReads'
    <3>1. UNCHANGED <<disk, unreported>>
      BY <2>1 DEF ChainFailed
    <3> QED BY <2>1, <3>1, ChainFailedStep, ReadsStayCurrent
  <2>2. ASSUME NEW t \in Sids, NEW i \in sessions[t].cache.jobs,
               WorkerReturn(t, i) \/ WorkerRaise(t, i)
        PROVE  ReportedReads'
    <3>1. UNCHANGED <<disk, unreported>>
      BY <2>2 DEF WorkerReturn, WorkerRaise
    <3> QED BY <2>2, <3>1, WorkerStep, ReadsStayCurrent
  <2>3. ASSUME NEW t \in Sids, NEW i \in sessions[t].cache.jobs, WorkerRun(t, i)
        PROVE  ReportedReads'
    <3>1. UNCHANGED <<disk, unreported>>
      BY <2>3 DEF WorkerRun
    <3>2. /\ sessions'[t].tasks[i].lane = "get" => sessions'[t].tasks[i].val = disk[RepoOf[t]]
          /\ \A u \in Sids : \A j \in sessions'[u].cache.jobs :
               u # t \/ j # i => /\ j \in sessions[u].cache.jobs
                                 /\ sessions'[u].tasks[j] = sessions[u].tasks[j]
      BY <2>3, WorkerRunStep
    <3> QED BY <3>1, <3>2 DEF ReportedReads, AllReported
  <2> QED BY <1>5, <2>1, <2>2, <2>3 DEF Pool
<1>6. CASE Resolve
  <2>1. ASSUME NEW a \in Askers, NEW t \in Sids, NEW call \in Calls,
               ResolvePlain(a, t, call) \/ ResolveChain(a, t, call)
        PROVE  ReadsKept /\ UNCHANGED <<disk, unreported>>
    <3>1. UNCHANGED <<disk, unreported>>
      BY <2>1 DEF ResolvePlain, ResolveChain
    <3> QED BY <2>1, <3>1, ResolvePlainStep, ResolveChainStep
  <2>2. ASSUME NEW a \in Askers, NEW t \in Sids, NEW w \in Writes, ResolveEdit(a, t, w)
        PROVE  ReadsKept /\ UNCHANGED <<disk, unreported>>
    <3>1. UNCHANGED <<disk, unreported>>
      BY <2>2 DEF ResolveEdit
    <3> QED BY <2>2, <3>1, ResolveEditStep
  <2>3. ASSUME NEW a \in Askers, FinishPlain(a)
        PROVE  ReadsKept /\ UNCHANGED <<disk, unreported>>
    <3>1. UNCHANGED <<disk, unreported>>
      BY <2>3 DEF FinishPlain
    <3> QED BY <2>3, <3>1, FinishPlainStep
  <2>4. ASSUME NEW a \in Askers, NEW completed \in BOOLEAN, FinishChain(a, completed)
        PROVE  ReadsKept /\ UNCHANGED <<disk, unreported>>
    <3>1. UNCHANGED <<disk, unreported>>
      BY <2>4 DEF FinishChain
    <3> QED BY <2>4, <3>1, FinishChainStep
  <2>5. ReadsKept /\ UNCHANGED <<disk, unreported>>
    BY <1>6, <2>1, <2>2, <2>3, <2>4, Zenon DEF Resolve
  <2> QED BY <2>5, ReadsStayCurrent
<1> QED
  BY <1>2, <1>3, <1>4, <1>5, <1>6 DEF Next

\* When hosts report only the command they ran, a read that is served is current once every
\* write of its repository was reported (README.md:30, daemon.py:315-331).
THEOREM ReportedReadsAreCurrent == ASSUME ~NamedReports PROVE Spec => ReportedReadsCurrent
<1> DEFINE Current == \A t \in Sids : \A i \in ServedNow(t) :
                        sessions[t].tasks[i].lane = "get" /\ AllReported(t)
                        => sessions[t].tasks[i].val = disk[RepoOf[t]]
<1>1. Init => ReportedReads
  <2>1. NoSession.cache.jobs = {}
    BY NewSessionOK DEF NoSession
  <2> QED BY <2>1 DEF Init, ReportedReads
<1>2. DaemonInv /\ ReportedReads /\ [Next]_vars => ReportedReads' /\ Current
  <2>1. SUFFICES ASSUME DaemonInv, ReportedReads, [Next]_vars
                 PROVE  ReportedReads' /\ Current
    OBVIOUS
  <2>2. ReportedReads'
    <3>1. CASE Fenced
      BY <3>1 DEF ReportedReads
    <3>2. CASE ~Fenced
      BY <2>1, <3>2, ReportsNext
    <3> QED BY <3>1, <3>2
  <2>3. ServedLive
    BY <2>1, DaemonNext
  <2>4. LiveResultsCurrent
    BY <2>1 DEF DaemonInv
  <2>5. Current
    BY <2>1, <2>3, <2>4 DEF ServedLive, LiveResultsCurrent, ReportedReads
  <2> QED BY <2>2, <2>5
<1> HIDE DEF Current
<1>3. DaemonInv /\ ReportedReads /\ [Next]_vars => [Current]_vars
  BY <1>2
<1>4. Spec => [][Current]_vars
  BY <1>1, <1>2, <1>3, DaemonInvHolds, PTL DEF Spec
<1> QED
  BY <1>4 DEF ReportedReadsCurrent, Current
=============================================================================
