---------------------------- MODULE CacheProofs ----------------------------
(***************************************************************************)
(* What the methods of Cache and Ledger preserve, for every set of calls.  *)
(* Each lemma says that a method keeps CacheInv and moves the cache on     *)
(* (Moves): specs keep their numbers and keys, the epoch only grows and,   *)
(* within an epoch, so do the serve counts.                                *)
(***************************************************************************)
EXTENDS Cache, SequenceTheorems, WellFoundedInduction, TLAPS

Moves(c, d) ==
  /\ c.epoch <= d.epoch
  /\ Len(c.specs) <= Len(d.specs)
  /\ \A s \in SpecIds(c) : d.specs[s] = c.specs[s]
  /\ d.epoch = c.epoch => \A call \in Calls : c.serve[call] <= d.serve[call]

\* No spec is served between c and d.
NoNewHit(c, d) == \A s \in SpecIds(c) : d.term[s] \in Hits => c.term[s] \in Hits

-----------------------------------------------------------------------------
(* The empty cache of Cache.__init__ satisfies the invariant. *)
LEMMA EmptyCacheInv == CacheInv(EmptyCache)
  BY DEF CacheInv, CacheTypeOK, CacheType, KeysBelow, CountsOrdered, DistinctKeys,
         JobsCurrent, HitsBehind, NoValueError, EmptyCache, SpecIds, Terminals, Hits

(* The components of a well-typed cache. *)
LEMMA CacheFields ==
  ASSUME NEW c, CacheTypeOK(c)
  PROVE  /\ c.epoch \in Nat
         /\ c.put \in [Calls -> Nat] /\ c.serve \in [Calls -> Nat]
         /\ c.specs \in Seq([call : Calls, occ : Nat, epoch : Nat])
         /\ c.term \in Seq(Terminals) /\ Len(c.term) = Len(c.specs)
         /\ SpecIds(c) \subseteq Nat \ {0} /\ Len(c.specs) \in Nat
         /\ \A s \in SpecIds(c) :
              /\ c.specs[s].call \in Calls /\ c.specs[s].occ \in Nat /\ c.specs[s].epoch \in Nat
              /\ c.term[s] \in Terminals
<1>1. /\ c \in CacheType /\ Len(c.term) = Len(c.specs)
  BY DEF CacheTypeOK
<1>2. /\ c.epoch \in Nat
      /\ c.put \in [Calls -> Nat] /\ c.serve \in [Calls -> Nat]
      /\ c.specs \in Seq([call : Calls, occ : Nat, epoch : Nat])
      /\ c.term \in Seq(Terminals)
  BY <1>1 DEF CacheType
<1>3. Len(c.specs) \in Nat /\ SpecIds(c) \subseteq Nat \ {0}
  <2>1. Len(c.specs) \in Nat
    BY <1>2, LenProperties
  <2> QED BY <2>1 DEF SpecIds
<1>4. ASSUME NEW s \in SpecIds(c)
      PROVE  c.specs[s] \in [call : Calls, occ : Nat, epoch : Nat] /\ c.term[s] \in Terminals
  BY <1>1, <1>2, ElementOfSeq DEF SpecIds
<1> QED
  BY <1>1, <1>2, <1>3, <1>4

(* Specs are never forgotten. *)
LEMMA SpecsStay ==
  ASSUME NEW c, NEW d, CacheTypeOK(c), CacheTypeOK(d), Moves(c, d)
  PROVE  SpecIds(c) \subseteq SpecIds(d)
<1>1. Len(c.specs) \in Nat /\ Len(d.specs) \in Nat /\ Len(c.specs) <= Len(d.specs)
  BY CacheFields DEF Moves
<1> QED
  BY <1>1 DEF SpecIds

(* A spec that was behind the serve count stays behind it: the count of its *)
(* epoch only grows, and no later epoch is its own.                         *)
LEMMA BehindStays ==
  ASSUME NEW c, NEW d, CacheInv(c), CacheTypeOK(d), Moves(c, d),
         NEW s \in SpecIds(c), Behind(c, s)
  PROVE  Behind(d, s)
<1>1. CacheTypeOK(c) /\ KeysBelow(c)
  BY DEF CacheInv
<1>2. d.specs[s] = c.specs[s] /\ c.specs[s].epoch <= c.epoch /\ c.epoch <= d.epoch
  BY <1>1 DEF KeysBelow, Moves
<1>3. SUFFICES ASSUME c.specs[s].epoch = d.epoch
               PROVE  c.specs[s].occ < d.serve[c.specs[s].call]
  BY <1>2 DEF Behind
<1>4. c.epoch = d.epoch
  <2>1. c.epoch \in Nat /\ d.epoch \in Nat /\ c.specs[s].epoch \in Nat
    BY <1>1, CacheFields
  <2> QED BY <1>2, <1>3, <2>1
<1>5. c.serve[c.specs[s].call] <= d.serve[c.specs[s].call]
  BY <1>1, <1>4, CacheFields DEF Moves
<1>6. c.specs[s].occ < c.serve[c.specs[s].call]
  BY <1>3, <1>4 DEF Behind
<1>7. /\ c.specs[s].occ \in Nat
      /\ c.serve[c.specs[s].call] \in Nat /\ d.serve[c.specs[s].call] \in Nat
  BY <1>1, CacheFields
<1> QED
  BY <1>5, <1>6, <1>7

-----------------------------------------------------------------------------
(* Ledger.terminal on a spec that nobody settled (ledger.py:16-27).         *)
LEMMA TerminalInv ==
  ASSUME NEW c, CacheInv(c), NEW s \in SpecIds(c), c.term[s] = "none",
         NEW state \in Terminals \ {"none", "ValueError"},
         state \in Hits => Behind(c, s)
  PROVE  /\ CacheInv(Terminal(c, s, state))
         /\ Moves(c, Terminal(c, s, state))
         /\ state \notin Hits => NoNewHit(c, Terminal(c, s, state))
         /\ \A t \in SpecIds(c) \ {s} : Terminal(c, s, state).term[t] = c.term[t]
<1> DEFINE d == Terminal(c, s, state)
           term == [c.term EXCEPT ![s] = state]
<1>1. CacheTypeOK(c)
  BY DEF CacheInv
<1>2. d = [c EXCEPT !.term = term]
  BY DEF Terminal
<1>3. /\ term \in Seq(Terminals) /\ Len(term) = Len(c.specs)
      /\ \A t \in SpecIds(c) : term[t] = IF t = s THEN state ELSE c.term[t]
  <2>1. c.term \in Seq(Terminals) /\ s \in 1 .. Len(c.term) /\ state \in Terminals
    BY <1>1, CacheFields DEF SpecIds
  <2> QED
    BY <2>1, <1>1, CacheFields, ExceptSeq DEF SpecIds
<1>4. /\ d \in CacheType /\ d.term = term
      /\ d.epoch = c.epoch /\ d.put = c.put /\ d.serve = c.serve /\ d.specs = c.specs
      /\ d.jobs = c.jobs /\ d.done = c.done /\ d.finished = c.finished
  BY <1>1, <1>2, <1>3 DEF CacheTypeOK, CacheType
<1> HIDE DEF d, term
<1>5. CacheInv(d)
  BY <1>1, <1>3, <1>4, CacheFields
  DEF CacheInv, CacheTypeOK, KeysBelow, CountsOrdered, DistinctKeys, JobsCurrent,
      HitsBehind, NoValueError, SpecIds, Behind, Hits
<1>6. Moves(c, d)
  <2>1. c.epoch \in Nat /\ Len(c.specs) \in Nat /\ c.serve \in [Calls -> Nat]
    BY <1>1, CacheFields
  <2> QED BY <1>4, <2>1 DEF Moves
<1>7. state \notin Hits => NoNewHit(c, d)
  BY <1>3, <1>4 DEF NoNewHit
<1> QED
  BY <1>3, <1>4, <1>5, <1>6, <1>7 DEF d

-----------------------------------------------------------------------------
(* A method that adds and settles no spec keeps the invariant if it drops   *)
(* jobs at most and moves serve counts forward, up to the put counts.       *)
LEMMA SameSpecsInv ==
  ASSUME NEW c, NEW d, CacheInv(c), CacheTypeOK(d), CountsOrdered(d),
         d.epoch = c.epoch, d.put = c.put, d.specs = c.specs, d.term = c.term,
         d.jobs \subseteq c.jobs,
         \A call \in Calls : c.serve[call] <= d.serve[call]
  PROVE  CacheInv(d) /\ Moves(c, d) /\ NoNewHit(c, d)
<1>1. CacheTypeOK(c)
  BY DEF CacheInv
<1>2. Moves(c, d)
  BY <1>1, CacheFields DEF Moves, SpecIds
<1>3. NoNewHit(c, d)
  BY DEF NoNewHit
<1>4. KeysBelow(d) /\ DistinctKeys(d) /\ JobsCurrent(d) /\ NoValueError(d)
  BY DEF CacheInv, KeysBelow, DistinctKeys, JobsCurrent, NoValueError, SpecIds
<1>5. HitsBehind(d)
  <2>1. SUFFICES ASSUME NEW s \in SpecIds(d), d.term[s] \in Hits
                 PROVE  Behind(d, s)
    BY DEF HitsBehind
  <2>2. s \in SpecIds(c) /\ Behind(c, s)
    BY <2>1 DEF CacheInv, HitsBehind, SpecIds
  <2> QED
    BY <1>2, <2>2, BehindStays
<1> QED
  BY <1>2, <1>3, <1>4, <1>5 DEF CacheInv

(* Cache.complete (cache.py:62-69). *)
LEMMA CompleteInv ==
  ASSUME NEW c, CacheInv(c), NEW s \in SpecIds(c)
  PROVE  /\ CacheInv(Complete(c, s))
         /\ Moves(c, Complete(c, s)) /\ NoNewHit(c, Complete(c, s))
<1> DEFINE d == Complete(c, s)
<1>1. CacheTypeOK(c) /\ CountsOrdered(c)
  BY DEF CacheInv
<1>2. /\ d.epoch = c.epoch /\ d.put = c.put /\ d.serve = c.serve /\ d.specs = c.specs
      /\ d.term = c.term /\ d.jobs = c.jobs
      /\ d \in CacheType /\ d.done \subseteq SpecIds(c) /\ d.finished \subseteq SpecIds(c)
  BY <1>1, CacheFields DEF CacheTypeOK, CacheType, Complete
<1> HIDE DEF d
<1>3. CacheTypeOK(d) /\ CountsOrdered(d)
  BY <1>1, <1>2 DEF CacheTypeOK, CountsOrdered, SpecIds
<1>4. \A call \in Calls : c.serve[call] <= d.serve[call]
  BY <1>1, <1>2, CacheFields
<1> QED
  BY <1>2, <1>3, <1>4, SameSpecsInv DEF d

(* Cache.discard_spec (cache.py:121-127). *)
LEMMA DiscardSpecInv ==
  ASSUME NEW c, CacheInv(c), NEW s \in SpecIds(c)
  PROVE  /\ CacheInv(DiscardSpec(c, s))
         /\ Moves(c, DiscardSpec(c, s)) /\ NoNewHit(c, DiscardSpec(c, s))
<1> DEFINE d == DiscardSpec(c, s)
<1>1. CacheTypeOK(c) /\ CountsOrdered(c)
  BY DEF CacheInv
<1>2. /\ d.epoch = c.epoch /\ d.put = c.put /\ d.serve = c.serve /\ d.specs = c.specs
      /\ d.term = c.term /\ d.jobs \subseteq c.jobs
      /\ d \in CacheType /\ d.done \subseteq SpecIds(c) /\ d.finished \subseteq SpecIds(c)
  BY <1>1, CacheFields DEF CacheTypeOK, CacheType, DiscardSpec
<1> HIDE DEF d
<1>3. CacheTypeOK(d) /\ CountsOrdered(d)
  BY <1>1, <1>2 DEF CacheTypeOK, CountsOrdered, SpecIds
<1>4. \A call \in Calls : c.serve[call] <= d.serve[call]
  BY <1>1, <1>2, CacheFields
<1> QED
  BY <1>2, <1>3, <1>4, SameSpecsInv DEF d

(* Moving on twice. *)
LEMMA MovesTransitive ==
  ASSUME NEW c, NEW t, NEW d, CacheTypeOK(c), CacheTypeOK(t), CacheTypeOK(d),
         Moves(c, t), Moves(t, d)
  PROVE  /\ Moves(c, d) /\ SpecIds(c) \subseteq SpecIds(t)
         /\ NoNewHit(c, t) /\ NoNewHit(t, d) => NoNewHit(c, d)
<1>1. /\ c.epoch \in Nat /\ t.epoch \in Nat /\ d.epoch \in Nat
      /\ Len(c.specs) \in Nat /\ Len(t.specs) \in Nat /\ Len(d.specs) \in Nat
      /\ c.serve \in [Calls -> Nat] /\ t.serve \in [Calls -> Nat] /\ d.serve \in [Calls -> Nat]
  BY CacheFields
<1>2. /\ c.epoch <= t.epoch /\ t.epoch <= d.epoch
      /\ Len(c.specs) <= Len(t.specs) /\ Len(t.specs) <= Len(d.specs)
  BY DEF Moves
<1>3. SpecIds(c) \subseteq SpecIds(t)
  BY <1>1, <1>2 DEF SpecIds
<1>4. \A s \in SpecIds(c) : d.specs[s] = c.specs[s]
  BY <1>3 DEF Moves
<1>5. ASSUME d.epoch = c.epoch, NEW call \in Calls
      PROVE  c.serve[call] <= d.serve[call]
  <2>1. t.epoch = c.epoch /\ d.epoch = t.epoch
    BY <1>1, <1>2, <1>5
  <2>2. c.serve[call] <= t.serve[call] /\ t.serve[call] <= d.serve[call]
    BY <2>1 DEF Moves
  <2>3. c.serve[call] \in Nat /\ t.serve[call] \in Nat /\ d.serve[call] \in Nat
    BY <1>1
  <2> QED
    BY <2>2, <2>3
<1>6. c.epoch <= d.epoch /\ Len(c.specs) <= Len(d.specs)
  BY <1>1, <1>2
<1>7. NoNewHit(c, t) /\ NoNewHit(t, d) => NoNewHit(c, d)
  BY <1>3 DEF NoNewHit
<1> QED
  BY <1>3, <1>4, <1>5, <1>6, <1>7 DEF Moves

(* Daemon._discard_chain and _finish_chain_claim on one spec: settle, drop.  *)
LEMMA GiveUpInv ==
  ASSUME NEW c, CacheInv(c), NEW s \in SpecIds(c)
  PROVE  /\ CacheInv(GiveUp(c, s))
         /\ Moves(c, GiveUp(c, s)) /\ NoNewHit(c, GiveUp(c, s))
<1> DEFINE t == Terminal(c, s, "discarded")
           d == DiscardSpec(t, s)
<1>1. CASE c.term[s] # "none"
  <2>1. GiveUp(c, s) = c
    BY <1>1 DEF GiveUp
  <2>2. Moves(c, c) /\ NoNewHit(c, c)
    BY CacheFields DEF Moves, NoNewHit, CacheInv
  <2> QED
    BY <2>1, <2>2
<1>2. CASE c.term[s] = "none"
  <2>1. GiveUp(c, s) = d
    BY <1>2 DEF GiveUp
  <2>2. CacheInv(t) /\ Moves(c, t) /\ NoNewHit(c, t)
    BY <1>2, TerminalInv DEF Terminals, Hits
  <2>3. s \in SpecIds(t)
    BY <2>2, CacheFields DEF CacheInv, Moves, SpecIds
  <2> HIDE DEF t
  <2>4. CacheInv(d) /\ Moves(t, d) /\ NoNewHit(t, d)
    BY <2>2, <2>3, DiscardSpecInv
  <2> HIDE DEF d
  <2>5. CacheTypeOK(c) /\ CacheTypeOK(t) /\ CacheTypeOK(d)
    BY <2>2, <2>4 DEF CacheInv
  <2>6. Moves(c, d) /\ NoNewHit(c, d)
    BY <2>2, <2>4, <2>5, MovesTransitive
  <2> QED
    BY <2>1, <2>4, <2>6
<1> QED
  BY <1>1, <1>2

-----------------------------------------------------------------------------
(* Cache.claim when it finds a job (cache.py:78-96): the spec was in front of *)
(* the serve count, so nobody waited for it or was served it; now it is behind. *)
LEMMA ClaimInv ==
  ASSUME NEW c, CacheInv(c), NEW call \in Calls, NEW s \in NextClaim(c, call)
  PROVE  /\ s \in SpecIds(c) /\ ~Behind(c, s) /\ Behind(Claim(c, s), s)
         /\ CacheInv(Claim(c, s))
         /\ Moves(c, Claim(c, s)) /\ NoNewHit(c, Claim(c, s))
<1> DEFINE occ == c.specs[s].occ
           serve == [c.serve EXCEPT ![call] = occ + 1]
           d == Claim(c, s)
<1>1. CacheTypeOK(c) /\ CountsOrdered(c)
  BY DEF CacheInv
<1>2. /\ s \in SpecIds(c) /\ c.specs[s].call = call /\ c.specs[s].epoch = c.epoch
      /\ occ \in c.serve[call] .. (c.put[call] - 1)
  BY <1>1 DEF NextClaim, Claimable, CacheTypeOK
<1>3. occ \in Nat /\ c.serve[call] \in Nat /\ c.put[call] \in Nat
  BY <1>1, <1>2, CacheFields
<1>4. c.serve[call] <= occ /\ occ + 1 <= c.put[call] /\ occ + 1 \in Nat
  BY <1>2, <1>3
<1> HIDE DEF occ
<1>5. serve \in [Calls -> Nat] /\ serve[call] = occ + 1
  BY <1>1, <1>4, CacheFields
<1>6. d = [c EXCEPT !.serve = serve]
  BY <1>2 DEF Claim, occ
<1> HIDE DEF serve
<1>7. /\ d.epoch = c.epoch /\ d.put = c.put /\ d.serve = serve /\ d.specs = c.specs
      /\ d.term = c.term /\ d.jobs = c.jobs /\ d.done = c.done /\ d.finished = c.finished
      /\ d \in CacheType
  BY <1>1, <1>5, <1>6 DEF CacheTypeOK, CacheType
<1> HIDE DEF d
<1>8. CacheTypeOK(d)
  BY <1>1, <1>7 DEF CacheTypeOK, SpecIds
<1>9. ASSUME NEW x \in Calls
      PROVE  c.serve[x] <= d.serve[x] /\ d.serve[x] <= d.put[x]
  <2>1. c.serve[x] \in Nat /\ c.put[x] \in Nat /\ c.serve[x] <= c.put[x]
    BY <1>1, CacheFields DEF CountsOrdered
  <2>2. d.serve[x] = IF x = call THEN occ + 1 ELSE c.serve[x]
    BY <1>1, <1>7, CacheFields DEF serve
  <2> QED
    BY <1>3, <1>4, <1>7, <2>1, <2>2
<1>10. CountsOrdered(d)
  BY <1>9 DEF CountsOrdered
<1>11. ~Behind(c, s)
  BY <1>2, <1>3, <1>4 DEF Behind, occ
<1>12. Behind(d, s)
  BY <1>2, <1>3, <1>5, <1>7 DEF Behind, occ
<1> QED
  BY <1>2, <1>7, <1>8, <1>9, <1>10, <1>11, <1>12, SameSpecsInv DEF d

(* Cache.claim when it runs off the end (cache.py:85-94).                    *)
LEMMA ClaimNothingInv ==
  ASSUME NEW c, CacheInv(c), NEW call \in Calls
  PROVE  /\ CacheInv(ClaimNothing(c, call))
         /\ Moves(c, ClaimNothing(c, call)) /\ NoNewHit(c, ClaimNothing(c, call))
<1> DEFINE serve == [c.serve EXCEPT ![call] = c.put[call]]
           d == ClaimNothing(c, call)
<1>1. CacheTypeOK(c) /\ CountsOrdered(c)
  BY DEF CacheInv
<1>2. serve \in [Calls -> Nat]
  BY <1>1, CacheFields
<1>3. \A x \in Calls : serve[x] = IF x = call THEN c.put[x] ELSE c.serve[x]
  BY <1>1, CacheFields
<1>4. d = [c EXCEPT !.serve = serve]
  BY DEF ClaimNothing
<1> HIDE DEF serve
<1>5. /\ d.epoch = c.epoch /\ d.put = c.put /\ d.serve = serve /\ d.specs = c.specs
      /\ d.term = c.term /\ d.jobs = c.jobs /\ d.done = c.done /\ d.finished = c.finished
      /\ d \in CacheType
  BY <1>1, <1>2, <1>4 DEF CacheTypeOK, CacheType
<1> HIDE DEF d
<1>6. CacheTypeOK(d)
  BY <1>1, <1>5 DEF CacheTypeOK, SpecIds
<1>7. \A x \in Calls : c.put[x] \in Nat /\ c.serve[x] \in Nat /\ c.serve[x] <= c.put[x]
  BY <1>1, CacheFields DEF CountsOrdered
<1>8. CountsOrdered(d) /\ \A x \in Calls : c.serve[x] <= d.serve[x]
  BY <1>3, <1>5, <1>7 DEF CountsOrdered
<1> QED
  BY <1>5, <1>6, <1>8, SameSpecsInv DEF d

-----------------------------------------------------------------------------
(* Cache.reserve (cache.py:49-60): the new key is unlike every older one, so *)
(* no job is replaced in the dictionary.                                     *)
LEMMA ReserveInv ==
  ASSUME NEW c, CacheInv(c), NEW call \in Calls
  PROVE  /\ CacheInv(Reserve(c, call))
         /\ Moves(c, Reserve(c, call)) /\ NoNewHit(c, Reserve(c, call))
         /\ Len(Reserve(c, call).specs) = Len(c.specs) + 1
<1> DEFINE n == Len(c.specs) + 1
           Keys == [call : Calls, occ : Nat, epoch : Nat]
           key == NextKey(c, call)
           put == [c.put EXCEPT ![call] = @ + 1]
           specs == Append(c.specs, key)
           term == Append(c.term, "none")
           jobs == {s \in c.jobs : c.specs[s] # key} \cup {n}
           d == Reserve(c, call)
<1>1. CacheTypeOK(c) /\ KeysBelow(c) /\ CountsOrdered(c)
  BY DEF CacheInv
<1>2. /\ key.call = call /\ key.occ = c.put[call] /\ key.epoch = c.epoch
      /\ key \in [call : Calls, occ : Nat, epoch : Nat]
  BY <1>1, CacheFields DEF NextKey
<1>3. d = [c EXCEPT !.put = put, !.specs = specs, !.term = term, !.jobs = jobs]
  BY <1>2 DEF Reserve, ReserveAt
<1> HIDE DEF key
<1>4. /\ put \in [Calls -> Nat]
      /\ \A x \in Calls : put[x] = IF x = call THEN c.put[x] + 1 ELSE c.put[x]
  BY <1>1, CacheFields
<1>5. /\ specs \in Seq([call : Calls, occ : Nat, epoch : Nat])
      /\ Len(specs) = n /\ specs[n] = key
      /\ \A s \in SpecIds(c) : specs[s] = c.specs[s]
  <2>1. c.specs \in Seq(Keys) /\ key \in Keys
    BY <1>1, <1>2, CacheFields
  <2> HIDE DEF Keys
  <2>2. /\ specs \in Seq(Keys)
        /\ Len(specs) = Len(c.specs) + 1 /\ specs[Len(c.specs) + 1] = key
        /\ \A s \in 1 .. Len(c.specs) : specs[s] = c.specs[s]
    BY <2>1, AppendProperties
  <2> QED
    BY <2>2 DEF SpecIds, Keys
<1>6. /\ term \in Seq(Terminals) /\ Len(term) = n /\ term[n] = "none"
      /\ \A s \in SpecIds(c) : term[s] = c.term[s]
  <2>1. c.term \in Seq(Terminals) /\ "none" \in Terminals /\ Len(c.term) = Len(c.specs)
    BY <1>1, CacheFields DEF Terminals
  <2> QED
    BY <2>1, AppendProperties DEF SpecIds
<1>7. n \in Nat \ {0} /\ Len(c.specs) \in Nat /\ SpecIds(c) = 1 .. Len(c.specs)
  BY <1>1, CacheFields DEF SpecIds
<1> HIDE DEF put, specs, term
<1>8. jobs \subseteq 1 .. n /\ jobs \subseteq c.jobs \cup {n}
  BY <1>1, <1>7 DEF CacheTypeOK
<1> HIDE DEF jobs
<1>9. /\ d.epoch = c.epoch /\ d.put = put /\ d.serve = c.serve /\ d.specs = specs
      /\ d.term = term /\ d.jobs = jobs /\ d.done = c.done /\ d.finished = c.finished
      /\ d \in CacheType
  <2>1. c \in CacheType
    BY <1>1 DEF CacheTypeOK
  <2>2. jobs \in SUBSET (Nat \ {0})
    BY <1>7, <1>8
  <2> QED BY <1>3, <1>4, <1>5, <1>6, <2>1, <2>2 DEF CacheType
<1> HIDE DEF d, n
<1>10. SpecIds(d) = SpecIds(c) \cup {n} /\ n \notin SpecIds(c)
  <2>1. SpecIds(d) = 1 .. n
    BY <1>5, <1>9 DEF SpecIds
  <2>2. n = Len(c.specs) + 1
    BY DEF n
  <2> QED BY <1>7, <2>1, <2>2
<1>11. CacheTypeOK(d)
  BY <1>1, <1>5, <1>6, <1>8, <1>9, <1>10 DEF CacheTypeOK
<1>12. Moves(c, d) /\ NoNewHit(c, d)
  <2>1. Len(c.specs) <= Len(d.specs)
    BY <1>5, <1>7, <1>9 DEF n
  <2>2. c.epoch \in Nat /\ \A x \in Calls : c.serve[x] \in Nat
    BY <1>1, CacheFields
  <2>3. c.epoch <= d.epoch /\ \A x \in Calls : c.serve[x] <= d.serve[x]
    BY <1>9, <2>2
  <2> QED
    BY <1>5, <1>6, <1>9, <2>1, <2>3 DEF Moves, NoNewHit
<1>13. ASSUME NEW s \in SpecIds(c)
       PROVE  /\ c.specs[s].epoch <= c.epoch
              /\ c.specs[s].epoch = c.epoch =>
                   /\ c.specs[s].occ < c.put[c.specs[s].call]
                   /\ c.specs[s].occ < put[c.specs[s].call]
              /\ c.specs[s] # key
  <2>1. c.specs[s].call \in Calls /\ c.specs[s].occ \in Nat /\ c.put[c.specs[s].call] \in Nat
    BY <1>1, CacheFields
  <2>2. /\ c.specs[s].epoch <= c.epoch
        /\ c.specs[s].epoch = c.epoch => c.specs[s].occ < c.put[c.specs[s].call]
    BY <1>1 DEF KeysBelow
  <2>3. c.specs[s].epoch = c.epoch => c.specs[s].occ < put[c.specs[s].call]
    BY <1>4, <2>1, <2>2
  <2>4. c.specs[s] # key
    BY <1>2, <2>1, <2>2
  <2> QED
    BY <2>2, <2>3, <2>4
<1>14. KeysBelow(d)
  <2>1. key.epoch <= d.epoch /\ key.occ < d.put[key.call]
    BY <1>1, <1>2, <1>4, <1>9, CacheFields
  <2> QED
    BY <1>5, <1>9, <1>10, <1>13, <2>1 DEF KeysBelow
<1>15. CountsOrdered(d)
  <2>1. \A x \in Calls : c.serve[x] \in Nat /\ c.put[x] \in Nat /\ c.serve[x] <= c.put[x]
    BY <1>1, CacheFields DEF CountsOrdered
  <2> QED
    BY <1>4, <1>9, <2>1 DEF CountsOrdered
<1>16. DistinctKeys(d)
  BY <1>5, <1>9, <1>10, <1>13 DEF DistinctKeys, CacheInv
<1>17. JobsCurrent(d)
  <2>1. \A s \in c.jobs : s \in SpecIds(c) /\ c.specs[s].epoch = c.epoch
    BY <1>1 DEF CacheInv, CacheTypeOK, JobsCurrent
  <2> QED
    BY <1>2, <1>5, <1>8, <1>9, <2>1 DEF JobsCurrent
<1>18. HitsBehind(d)
  <2>1. SUFFICES ASSUME NEW s \in SpecIds(d), d.term[s] \in Hits
                 PROVE  Behind(d, s)
    BY DEF HitsBehind
  <2>2. s \in SpecIds(c) /\ c.term[s] \in Hits
    BY <1>6, <1>9, <1>10, <2>1 DEF Hits
  <2>3. Behind(c, s)
    BY <2>2 DEF CacheInv, HitsBehind
  <2> QED
    BY <1>11, <1>12, <2>2, <2>3, BehindStays
<1>19. NoValueError(d)
  BY <1>6, <1>9, <1>10 DEF NoValueError, CacheInv
<1> QED
  BY <1>5, <1>9, <1>11, <1>12, <1>14, <1>15, <1>16, <1>17, <1>18, <1>19 DEF CacheInv, d, n

(* Cache.bump_epoch (cache.py:129-140): no job is of a later epoch, so none  *)
(* is left, and only specs nobody settled are settled.                       *)
LEMMA BumpEpochInv ==
  ASSUME NEW c, CacheInv(c)
  PROVE  /\ CacheInv(BumpEpoch(c))
         /\ Moves(c, BumpEpoch(c)) /\ NoNewHit(c, BumpEpoch(c))
         /\ BumpEpoch(c).specs = c.specs
<1> DEFINE zero == [call \in Calls |-> 0]
           settled == Unsettled(c, Expired(c))
           term == [s \in SpecIds(c) |-> IF s \notin settled THEN c.term[s]
                                         ELSE IF c.term[s] = "none" THEN "epoch_expired"
                                         ELSE "ValueError"]
           d == BumpEpoch(c)
<1>1. CacheTypeOK(c) /\ KeysBelow(c) /\ JobsCurrent(c)
  BY DEF CacheInv
<1>2. d = [c EXCEPT !.epoch = @ + 1, !.put = zero, !.serve = zero, !.term = term,
                    !.done = @ \cup Expired(c), !.jobs = @ \ Expired(c)]
  BY DEF BumpEpoch, BumpWith
<1>3. ASSUME NEW s \in SpecIds(c)
      PROVE  term[s] = IF s \in settled THEN "epoch_expired" ELSE c.term[s]
  BY DEF Unsettled
<1>4. \A s \in SpecIds(c) : term[s] \in Terminals
  BY <1>1, <1>3, CacheFields DEF Terminals
<1>5. term \in Seq(Terminals) /\ Len(term) = Len(c.specs)
  <2>1. term \in [1 .. Len(c.specs) -> Terminals] /\ Len(c.specs) \in Nat
    BY <1>1, <1>4, CacheFields DEF SpecIds
  <2> HIDE DEF term
  <2>2. term \in Seq(Terminals)
    BY <2>1, SeqDef
  <2> QED
    BY <2>1, <2>2, LenProperties
<1> HIDE DEF term
<1>6. Expired(c) = c.jobs
  BY <1>1, CacheFields DEF Expired, KeysBelow, CacheTypeOK
<1>7. zero \in [Calls -> Nat] /\ c.epoch + 1 \in Nat /\ c.epoch \in Nat
  BY <1>1, CacheFields
<1> HIDE DEF zero, settled
<1>8. /\ d.epoch = c.epoch + 1 /\ d.put = zero /\ d.serve = zero /\ d.specs = c.specs
      /\ d.term = term /\ d.jobs = {} /\ d.done = c.done \cup c.jobs /\ d.finished = c.finished
      /\ d \in CacheType
  <2>1. d = [c EXCEPT !.epoch = c.epoch + 1, !.put = zero, !.serve = zero, !.term = term,
                      !.done = c.done \cup c.jobs, !.jobs = {}]
    BY <1>2, <1>6
  <2> HIDE DEF d
  <2>2. c \in CacheType
    BY <1>1 DEF CacheTypeOK
  <2>3. c.done \cup c.jobs \in SUBSET (Nat \ {0}) /\ {} \in SUBSET (Nat \ {0})
    BY <2>2 DEF CacheType
  <2> QED
    BY <1>5, <1>7, <2>1, <2>2, <2>3 DEF CacheType
<1> HIDE DEF d
<1>9. CacheTypeOK(d) /\ SpecIds(d) = SpecIds(c)
  BY <1>1, <1>5, <1>8 DEF CacheTypeOK, SpecIds
<1>10. Moves(c, d) /\ NoNewHit(c, d)
  BY <1>3, <1>7, <1>8 DEF Moves, NoNewHit, Hits
<1>11. ASSUME NEW s \in SpecIds(d)
       PROVE  d.specs[s].epoch < d.epoch
  <2>1. c.epoch \in Nat /\ c.specs[s].epoch \in Nat
    BY <1>1, <1>9, CacheFields
  <2>2. c.specs[s].epoch <= c.epoch
    BY <1>1, <1>9 DEF KeysBelow
  <2> QED BY <1>8, <2>1, <2>2
<1>12. KeysBelow(d) /\ HitsBehind(d)
  <2>1. d.epoch \in Nat /\ \A s \in SpecIds(d) : d.specs[s].epoch \in Nat
    BY <1>9, CacheFields
  <2>2. \A s \in SpecIds(d) : d.specs[s].epoch <= d.epoch /\ d.specs[s].epoch # d.epoch
    BY <1>11, <2>1
  <2> QED BY <2>2 DEF KeysBelow, HitsBehind, Behind
<1>13. CountsOrdered(d) /\ JobsCurrent(d)
  BY <1>8 DEF CountsOrdered, JobsCurrent, zero
<1>14. DistinctKeys(d)
  BY <1>8, <1>9 DEF DistinctKeys, CacheInv
<1>15. NoValueError(d)
  BY <1>3, <1>8, <1>9 DEF NoValueError, CacheInv
<1> QED
  BY <1>8, <1>9, <1>10, <1>12, <1>13, <1>14, <1>15 DEF CacheInv, d

-----------------------------------------------------------------------------
(* What the methods change and leave alone *)

SameCounts(c, d) == d.epoch = c.epoch /\ d.put = c.put /\ d.serve = c.serve

\* Ledger.terminal settles one spec and touches no job.
LEMMA TerminalEffect ==
  ASSUME NEW c, CacheTypeOK(c), NEW i \in SpecIds(c), NEW state, c.term[i] = "none"
  PROVE  LET d == Terminal(c, i, state)
         IN  /\ d.specs = c.specs /\ d.jobs = c.jobs /\ d.finished = c.finished
             /\ d.done = c.done /\ SameCounts(c, d)
             /\ d.term[i] = state /\ \A j \in SpecIds(c) \ {i} : d.term[j] = c.term[j]
<1>1. c.term \in Seq(Terminals) /\ i \in 1 .. Len(c.term) /\ SpecIds(c) = 1 .. Len(c.term)
  BY CacheFields DEF SpecIds
<1> QED
  BY <1>1 DEF Terminal, SameCounts, CacheTypeOK, CacheType

\* Cache.discard_spec drops one job.
LEMMA DiscardSpecEffect ==
  ASSUME NEW c, CacheTypeOK(c), NEW i
  PROVE  LET d == DiscardSpec(c, i)
         IN  /\ d.specs = c.specs /\ d.jobs = c.jobs \ {i} /\ d.finished = c.finished
             /\ d.term = c.term /\ SameCounts(c, d)
  BY DEF DiscardSpec, SameCounts, CacheTypeOK, CacheType

\* Cache.complete stores the result of a live job.
LEMMA CompleteEffect ==
  ASSUME NEW c, CacheTypeOK(c), NEW i
  PROVE  LET d == Complete(c, i)
         IN  /\ d.specs = c.specs /\ d.jobs = c.jobs /\ d.finished \subseteq c.finished \cup {i}
             /\ d.term = c.term /\ SameCounts(c, d)
  BY DEF Complete, SameCounts, CacheTypeOK, CacheType

\* Giving a speculation up settles and drops it, unless it was settled.
LEMMA GiveUpEffect ==
  ASSUME NEW c, CacheInv(c), NEW i \in SpecIds(c)
  PROVE  LET d == GiveUp(c, i)
         IN  /\ d.specs = c.specs /\ d.finished = c.finished
             /\ d.jobs = IF c.term[i] = "none" THEN c.jobs \ {i} ELSE c.jobs
             /\ d.term[i] = IF c.term[i] = "none" THEN "discarded" ELSE c.term[i]
             /\ \A j \in SpecIds(c) \ {i} : d.term[j] = c.term[j]
             /\ SameCounts(c, d)
<1>1. CASE c.term[i] # "none"
  BY <1>1 DEF GiveUp, SameCounts
<1>2. CASE c.term[i] = "none"
  <2> DEFINE e == Terminal(c, i, "discarded")
  <2>1. /\ e.specs = c.specs /\ e.jobs = c.jobs /\ e.finished = c.finished
        /\ e.term[i] = "discarded" /\ \A j \in SpecIds(c) \ {i} : e.term[j] = c.term[j]
        /\ SameCounts(c, e)
    BY <1>2, TerminalEffect DEF CacheInv
  <2>2. CacheTypeOK(e)
    BY <1>2, TerminalInv DEF CacheInv, Terminals, Hits
  <2>3. GiveUp(c, i) = DiscardSpec(e, i)
    BY <1>2 DEF GiveUp
  <2> HIDE DEF e
  <2> QED
    BY <1>2, <2>1, <2>2, <2>3, DiscardSpecEffect DEF SameCounts
<1> QED
  BY <1>1, <1>2

\* Cache.claim moves a serve count and nothing else.
LEMMA ClaimEffect ==
  ASSUME NEW c, CacheTypeOK(c), NEW i, NEW call
  PROVE  LET d == Claim(c, i)
             e == ClaimNothing(c, call)
         IN  /\ d.specs = c.specs /\ d.jobs = c.jobs /\ d.finished = c.finished /\ d.term = c.term
             /\ d.epoch = c.epoch /\ d.put = c.put
             /\ e.specs = c.specs /\ e.jobs = c.jobs /\ e.finished = c.finished /\ e.term = c.term
             /\ e.epoch = c.epoch /\ e.put = c.put
  BY DEF Claim, ClaimNothing, CacheTypeOK, CacheType

\* d is c with one job more, the n-th spec, unsettled and without a result.
Reserved(c, d, n, call) ==
  /\ d.jobs = c.jobs \cup {n} /\ d.finished = c.finished
  /\ n \notin SpecIds(c) /\ n \notin c.finished /\ n \notin c.jobs
  /\ d.term[n] = "none" /\ \A j \in SpecIds(c) : d.term[j] = c.term[j]
  /\ d.specs = Append(c.specs, NextKey(c, call))
  /\ d.specs[n] = NextKey(c, call) /\ \A j \in SpecIds(c) : d.specs[j] = c.specs[j]
  /\ d.epoch = c.epoch /\ d.serve = c.serve
  /\ d.put = [c.put EXCEPT ![call] = @ + 1]
  /\ Len(d.specs) = n /\ SpecIds(d) = SpecIds(c) \cup {n}

\* Cache.reserve.
LEMMA ReserveEffect ==
  ASSUME NEW c, CacheInv(c), NEW call \in Calls
  PROVE  Reserved(c, Reserve(c, call), Len(c.specs) + 1, call)
<1> DEFINE d == Reserve(c, call)
           n == Len(c.specs) + 1
           key == NextKey(c, call)
<1>0. CacheTypeOK(c) /\ KeysBelow(c)
  BY DEF CacheInv
<1>1. /\ d.jobs = {j \in c.jobs : c.specs[j] # key} \cup {n}
      /\ d.finished = c.finished /\ d.term = Append(c.term, "none")
      /\ d.specs = Append(c.specs, key)
      /\ d.epoch = c.epoch /\ d.serve = c.serve
      /\ d.put = [c.put EXCEPT ![call] = @ + 1]
  BY <1>0 DEF Reserve, ReserveAt, NextKey, CacheTypeOK, CacheType
<1>2. Len(c.specs) \in Nat /\ n \notin SpecIds(c) /\ key \in [call : Calls, occ : Nat, epoch : Nat]
  BY <1>0, CacheFields DEF SpecIds, NextKey
<1>3. c.term \in Seq(Terminals) /\ "none" \in Terminals /\ Len(c.term) = Len(c.specs)
  BY <1>0, CacheFields DEF Terminals
<1>4. ASSUME NEW j \in SpecIds(c) PROVE c.specs[j] # key
  <2>1. c.specs[j].epoch = c.epoch => c.specs[j].occ < c.put[c.specs[j].call]
    BY <1>0 DEF KeysBelow
  <2>2. c.put[call] \in Nat
    BY <1>0, CacheFields
  <2>3. key.epoch = c.epoch /\ key.call = call /\ key.occ = c.put[call]
    BY DEF NextKey
  <2> HIDE DEF key
  <2> QED BY <2>1, <2>2, <2>3
<1> HIDE DEF d, key
<1>5. d.jobs = c.jobs \cup {n}
  BY <1>0, <1>1, <1>4 DEF CacheTypeOK
<1>6. d.term[n] = "none" /\ \A j \in SpecIds(c) : d.term[j] = c.term[j]
  BY <1>1, <1>3, AppendProperties DEF SpecIds
<1>7. d.specs[n] = key /\ \A j \in SpecIds(c) : d.specs[j] = c.specs[j]
  BY <1>0, <1>1, <1>2, CacheFields, AppendProperties DEF SpecIds
<1>8. Len(d.specs) = n /\ SpecIds(d) = SpecIds(c) \cup {n}
  <2>1. Len(d.specs) = n
    BY <1>0, <1>1, <1>2, CacheFields, AppendProperties
  <2> QED
    BY <1>2, <2>1 DEF SpecIds
<1> HIDE DEF n
<1>9. Reserved(c, d, n, call)
  BY <1>0, <1>1, <1>2, <1>5, <1>6, <1>7, <1>8 DEF Reserved, CacheTypeOK, key
<1> QED
  BY <1>9 DEF d, n

\* Cache.bump_epoch leaves no job.
LEMMA BumpEpochEffect ==
  ASSUME NEW c, CacheInv(c)
  PROVE  LET d == BumpEpoch(c)
         IN  /\ d.jobs = {} /\ d.specs = c.specs /\ d.epoch = c.epoch + 1
             /\ \A j \in SpecIds(c) :
                  d.term[j] = IF j \in c.jobs /\ c.term[j] = "none" THEN "epoch_expired"
                              ELSE c.term[j]
<1>1. CacheTypeOK(c) /\ JobsCurrent(c)
  BY DEF CacheInv
<1>2. Expired(c) = c.jobs
  BY <1>1, CacheFields DEF Expired, JobsCurrent, CacheTypeOK
<1> QED
  BY <1>1, <1>2 DEF BumpEpoch, BumpWith, Unsettled, CacheTypeOK, CacheType

-----------------------------------------------------------------------------
(* The walk of Cache.claim over the holes *)

\* Every nonempty set of natural numbers has a least element.
LEMMA LeastNat ==
  ASSUME NEW S \in SUBSET Nat, S # {}
  PROVE  \E m \in S : \A n \in S : m <= n
<1>1. PICK R : R = OpToRel(<, Nat) /\ IsWellFoundedOn(R, Nat)
  BY NatLessThanWellFounded
<1>2. PICK m \in S : \A n \in S : ~(<<n, m>> \in R)
  BY <1>1, WFMin
<1>3. \A n \in S : <<n, m>> \in R <=> n < m
  BY <1>1 DEF OpToRel
<1>4. \A n \in S : n \in Nat /\ ~(n < m) /\ m \in Nat
  BY <1>2, <1>3
<1>5. \A n \in S : m <= n
  BY <1>4
<1> QED
  BY <1>5

\* If something can be claimed the loop of Cache.claim stops at a job.
LEMMA NextClaimExists ==
  ASSUME NEW c, CacheTypeOK(c), NEW call, Claimable(c, call) # {}
  PROVE  NextClaim(c, call) # {}
<1> DEFINE occs == {c.specs[s].occ : s \in Claimable(c, call)}
<1>1. Claimable(c, call) \subseteq SpecIds(c)
  BY DEF Claimable, CacheTypeOK
<1>2. occs \in SUBSET Nat /\ occs # {}
  <2>1. \A s \in SpecIds(c) : c.specs[s].occ \in Nat
    BY CacheFields
  <2> QED BY <1>1, <2>1
<1>3. PICK m \in occs : \A n \in occs : m <= n
  <2> HIDE DEF occs
  <2> QED BY <1>2, LeastNat
<1>4. PICK s \in Claimable(c, call) : m = c.specs[s].occ
  BY <1>3
<1>5. \A t \in Claimable(c, call) : c.specs[s].occ <= c.specs[t].occ
  BY <1>3, <1>4
<1> QED
  BY <1>4, <1>5 DEF NextClaim

\* A claim leaves whatever else could be claimed claimable: it takes the lowest
\* occurrence, and no other job has the same key.
LEMMA ClaimSkipsNone ==
  ASSUME NEW c, CacheInv(c), NEW call, NEW s \in Claimable(c, call),
         NEW other, NEW t \in NextClaim(c, other)
  PROVE  s = t \/ s \in Claimable(Claim(c, t), call)
<1>1. CacheTypeOK(c) /\ s \in SpecIds(c) /\ t \in SpecIds(c) /\ t \in Claimable(c, other)
  BY DEF CacheInv, CacheTypeOK, Claimable, NextClaim
<1>2. PICK d : d = Claim(c, t)
  OBVIOUS
<1>3. /\ d.specs = c.specs /\ d.jobs = c.jobs /\ d.epoch = c.epoch /\ d.put = c.put
      /\ d.serve = [c.serve EXCEPT ![c.specs[t].call] = c.specs[t].occ + 1]
  BY <1>1, <1>2 DEF Claim, CacheTypeOK, CacheType
<1>4. /\ s \in c.jobs /\ c.specs[s].call = call /\ c.specs[s].epoch = c.epoch
      /\ c.specs[s].occ \in c.serve[call] .. (c.put[call] - 1)
      /\ c.specs[t].call = other /\ c.specs[t].epoch = c.epoch
  BY <1>1 DEF Claimable
<1>5. /\ c.serve \in [Calls -> Nat] /\ call \in Calls /\ other \in Calls
      /\ c.specs[s].occ \in Nat /\ c.specs[t].occ \in Nat /\ c.put[call] \in Nat
  BY <1>1, <1>4, CacheFields
<1>6. CASE other # call
  BY <1>2, <1>3, <1>4, <1>5, <1>6 DEF Claimable
<1>7. CASE other = call
  <2>1. c.specs[t].occ <= c.specs[s].occ
    BY <1>7 DEF NextClaim
  <2>2. CASE c.specs[t].occ = c.specs[s].occ
    <3>1. /\ c.specs[s] \in [call : Calls, occ : Nat, epoch : Nat]
          /\ c.specs[t] \in [call : Calls, occ : Nat, epoch : Nat]
      BY <1>1, CacheFields, ElementOfSeq DEF SpecIds
    <3>2. c.specs[s] = c.specs[t]
      BY <1>4, <1>7, <2>2, <3>1
    <3> QED
      BY <1>1, <3>2 DEF CacheInv, DistinctKeys
  <2>3. CASE c.specs[t].occ # c.specs[s].occ
    <3>1. d.serve[call] <= c.specs[s].occ
      BY <1>3, <1>4, <1>5, <1>7, <2>1, <2>3
    <3>2. d.serve[call] \in Nat
      BY <1>3, <1>4, <1>5, <1>7
    <3>3. c.specs[s].occ \in d.serve[call] .. (d.put[call] - 1)
      BY <1>3, <1>4, <1>5, <3>1, <3>2
    <3> QED
      BY <1>2, <1>3, <1>4, <3>3 DEF Claimable
  <2> QED
    BY <2>2, <2>3
<1> QED
  BY <1>6, <1>7

\* A job stays claimable while the epoch and the serve count of its call do not
\* change and it is not dropped.
LEMMA ClaimableStays ==
  ASSUME NEW c, NEW d, CacheTypeOK(c), NEW call, NEW s \in Claimable(c, call), s \in d.jobs,
         d.specs[s] = c.specs[s], d.epoch = c.epoch, d.serve[call] = c.serve[call],
         d.put[call] \in Nat, c.put[call] <= d.put[call]
  PROVE  s \in Claimable(d, call)
<1>1. /\ c.specs[s].call = call /\ c.specs[s].epoch = c.epoch
      /\ c.specs[s].occ \in c.serve[call] .. (c.put[call] - 1)
      /\ s \in SpecIds(c)
  BY DEF Claimable, CacheTypeOK
<1>2. call \in Calls /\ c.put[call] \in Nat /\ c.serve[call] \in Nat /\ c.specs[s].occ \in Nat
  BY <1>1, CacheFields
<1> QED
  BY <1>1, <1>2 DEF Claimable

=============================================================================
