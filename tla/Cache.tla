------------------------------- MODULE Cache -------------------------------
(***************************************************************************)
(* The speculation cache of one session (src/sfx/cache.py) and the ledger  *)
(* it settles speculations in (src/sfx/ledger.py), as operators on one     *)
(* record.  Every method of Cache and Ledger runs under the cache's lock,  *)
(* so each is a function from the old record to the new one; the modules   *)
(* SpecCache and SfxDaemon call them from their actions.                   *)
(*                                                                         *)
(*   epoch     Cache.epoch                                                 *)
(*   put       Cache._put_counts of the current epoch, per call            *)
(*   serve     Cache._serve_counts of the current epoch, per call          *)
(*   specs     every job ever reserved, in the order of spec_id: its key   *)
(*   jobs      Cache.jobs: the specs the dictionary still holds            *)
(*   done      the specs whose Job.done event is set                       *)
(*   finished  the specs whose Job.duration is set (a result was stored)   *)
(*   term      the terminal state the ledger recorded for each spec        *)
(*                                                                         *)
(* Counts of an older epoch are dropped: a count is keyed by self.epoch,   *)
(* which only grows, so the program never reads an old one again.          *)
(* Durations and saved or wasted milliseconds are left out.                *)
(***************************************************************************)
EXTENDS Naturals, Sequences, FiniteSets

CONSTANT
  Calls      \* the (kind, canonical args) pairs a speculation can be for

Hits == {"hit_completed", "hit_promoted"}

\* "none" until the ledger settles the spec.  "ValueError" stands for the
\* exception Ledger.terminal raises on a spec that is already settled.
Terminals == Hits \cup {"none", "discarded", "preempted", "epoch_expired", "ValueError"}

EmptyCache ==
  [epoch |-> 0, put |-> [c \in Calls |-> 0], serve |-> [c \in Calls |-> 0],
   specs |-> << >>, jobs |-> {}, done |-> {}, finished |-> {}, term |-> << >>]

SpecIds(c) == 1 .. Len(c.specs)

-----------------------------------------------------------------------------
(* Ledger.terminal *)

Terminal(c, s, state) ==
  [c EXCEPT !.term[s] = IF @ = "none" THEN state ELSE "ValueError"]

-----------------------------------------------------------------------------
(* Cache.reserve: the next occurrence of the call, at the current epoch.   *)
(* A job whose key is taken replaces the job the dictionary held there.    *)

NextKey(c, call) == [call |-> call, occ |-> c.put[call], epoch |-> c.epoch]

ReserveAt(c, key) ==
  [c EXCEPT !.put[key.call] = @ + 1,
            !.specs = Append(@, key),
            !.term = Append(@, "none"),
            !.jobs = {s \in @ : c.specs[s] # key} \cup {Len(c.specs) + 1}]

\* Numbering a reservation by the live jobs of its call: it would take the
\* number of a job that is still in flight once an earlier one was discarded.
Reserve_CountLive(c, call) ==
  LET live == {s \in c.jobs : c.specs[s].call = call}
  IN  ReserveAt(c, [NextKey(c, call) EXCEPT !.occ = Cardinality(live)])

Reserve(c, call) == ReserveAt(c, NextKey(c, call))

-----------------------------------------------------------------------------
(* Cache.complete: a late completion of a job that was dropped is ignored. *)

Complete(c, s) ==
  IF s \in c.jobs
  THEN [c EXCEPT !.finished = @ \cup {s}, !.done = @ \cup {s}]
  ELSE c

-----------------------------------------------------------------------------
(* Cache.claim.  The while loop walks from the serve count to the first     *)
(* occurrence that still has a job, over the holes that failed and          *)
(* discarded reservations left.                                             *)

Claimable(c, call) ==
  {s \in c.jobs : /\ c.specs[s].call = call
                  /\ c.specs[s].epoch = c.epoch
                  /\ c.specs[s].occ \in c.serve[call] .. (c.put[call] - 1)}

\* Taking any live occurrence and moving the count past it.
NextClaim_Any(c, call) == Claimable(c, call)

\* The job the loop stops at, as a set: empty when it runs off the end.
NextClaim(c, call) ==
  {s \in Claimable(c, call) :
     \A t \in Claimable(c, call) : c.specs[s].occ <= c.specs[t].occ}

\* A claim that leaves the count on the job it hands out.
Claim_NoAdvance(c, s) == [c EXCEPT !.serve[c.specs[s].call] = c.specs[s].occ]

Claim(c, s) == [c EXCEPT !.serve[c.specs[s].call] = c.specs[s].occ + 1]

\* Nothing to claim: the count is left past every hole.
ClaimNothing(c, call) == [c EXCEPT !.serve[call] = c.put[call]]

-----------------------------------------------------------------------------
(* Cache.finish: a claimed job is served only if it is still the job of the *)
(* current epoch, has a result and was not settled in another way.          *)

\* Trusting the claim: whatever the job holds when its event is set.
MayServe_TrustClaim(c, s) == s \in c.done

MayServe(c, s) ==
  /\ s \in c.done
  /\ s \in c.finished
  /\ c.specs[s].epoch = c.epoch
  /\ s \in c.jobs
  /\ c.term[s] = "none"

-----------------------------------------------------------------------------
(* Cache.discard_spec *)

DiscardSpec(c, s) ==
  IF s \in c.jobs
  THEN [c EXCEPT !.jobs = @ \ {s}, !.done = @ \cup {s}]
  ELSE c

\* What the daemon does with a speculation it gives up: settle it if nobody
\* has, then drop the job.
GiveUp(c, s) ==
  IF c.term[s] = "none" THEN DiscardSpec(Terminal(c, s, "discarded"), s) ELSE c

-----------------------------------------------------------------------------
(* Cache.bump_epoch: settle every job that is not settled, wake its waiters *)
(* and drop it.                                                             *)

Expired(c) == {s \in c.jobs : c.specs[s].epoch <= c.epoch}

BumpWith(c, settled, woken, dropped) ==
  [c EXCEPT !.epoch = @ + 1,
            !.put = [call \in Calls |-> 0],
            !.serve = [call \in Calls |-> 0],
            !.term = [s \in SpecIds(c) |->
                        IF s \notin settled THEN c.term[s]
                        ELSE IF c.term[s] = "none" THEN "epoch_expired"
                        ELSE "ValueError"],
            !.done = @ \cup woken,
            !.jobs = @ \ dropped]

Unsettled(c, S) == {s \in S : c.term[s] = "none"}

\* Settling every dropped job, served and preempted ones too.
BumpEpoch_SettleAll(c) == BumpWith(c, Expired(c), Expired(c), Expired(c))

\* Waking the waiters of the jobs it settles only.
BumpEpoch_WakeSettled(c) ==
  BumpWith(c, Unsettled(c, Expired(c)), Unsettled(c, Expired(c)), Expired(c))

BumpEpoch(c) == BumpWith(c, Unsettled(c, Expired(c)), Expired(c), Expired(c))

-----------------------------------------------------------------------------
(* What holds of the record between any two calls                          *)

CacheType ==
  [epoch : Nat, put : [Calls -> Nat], serve : [Calls -> Nat],
   specs : Seq([call : Calls, occ : Nat, epoch : Nat]),
   jobs : SUBSET (Nat \ {0}), done : SUBSET (Nat \ {0}),
   finished : SUBSET (Nat \ {0}), term : Seq(Terminals)]

CacheTypeOK(c) ==
  /\ c \in CacheType
  /\ Len(c.term) = Len(c.specs)
  /\ c.jobs \subseteq SpecIds(c)
  /\ c.done \subseteq SpecIds(c)
  /\ c.finished \subseteq SpecIds(c)

\* A key of this epoch carries a number below the put count of its call.
KeysBelow(c) ==
  \A s \in SpecIds(c) :
    /\ c.specs[s].epoch <= c.epoch
    /\ c.specs[s].epoch = c.epoch => c.specs[s].occ < c.put[c.specs[s].call]

CountsOrdered(c) == \A call \in Calls : c.serve[call] <= c.put[call]

DistinctKeys(c) == \A s, t \in SpecIds(c) : s # t => c.specs[s] # c.specs[t]

JobsCurrent(c) == \A s \in c.jobs : c.specs[s].epoch = c.epoch

\* A spec the serve count has passed is never handed out again.
Behind(c, s) ==
  c.specs[s].epoch = c.epoch => c.specs[s].occ < c.serve[c.specs[s].call]

HitsBehind(c) == \A s \in SpecIds(c) : c.term[s] \in Hits => Behind(c, s)

NoValueError(c) == \A s \in SpecIds(c) : c.term[s] # "ValueError"

CacheInv(c) ==
  /\ CacheTypeOK(c)
  /\ KeysBelow(c)
  /\ CountsOrdered(c)
  /\ DistinctKeys(c)
  /\ JobsCurrent(c)
  /\ HitsBehind(c)
  /\ NoValueError(c)

=============================================================================
