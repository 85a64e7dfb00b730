-------------------------- MODULE LiveAgentProofs --------------------------
(***************************************************************************)
(* The safety of the live agent, for every number of runs, steps, writes   *)
(* and requests that are lost.                                             *)
(***************************************************************************)
EXTENDS LiveAgent, SequenceTheorems, TLAPS

-----------------------------------------------------------------------------
(* The two queues: who leaves one takes its place with it *)

\* The elements of a sequence.
LEMMA InDomain ==
  ASSUME NEW R, NEW q \in Seq(R)
  PROVE  /\ DOMAIN q = 1..Len(q) /\ Len(q) \in Nat
         /\ \A i \in 1..Len(q) : q[i] \in R
         /\ ToSet(q) = {q[i] : i \in 1..Len(q)}
BY LenProperties, ElementOfSeq DEF ToSet

\* A sequence without its i-th element.
LEMMA RemoveAtIs ==
  ASSUME NEW R, NEW q \in Seq(R), NEW i \in 1..Len(q)
  PROVE  /\ RemoveAt(q, i) \in Seq(R)
         /\ Len(RemoveAt(q, i)) = Len(q) - 1
         /\ \A j \in 1..(Len(q) - 1) : RemoveAt(q, i)[j] = IF j < i THEN q[j] ELSE q[j + 1]
<1> DEFINE a == SubSeq(q, 1, i - 1)
           b == SubSeq(q, i + 1, Len(q))
<1>0. Len(q) \in Nat /\ \A j \in 1..Len(q) : q[j] \in R
  BY InDomain
<1>1. /\ a \in Seq(R) /\ Len(a) = i - 1
      /\ \A j \in 1..(i - 1) : a[j] = q[j]
  <2>1. \A j \in 1..(i - 1) : q[j] \in R
    BY <1>0
  <2> QED BY <1>0, <2>1, SubSeqProperties
<1>2. /\ b \in Seq(R) /\ Len(b) = Len(q) - i
      /\ \A j \in 1..(Len(q) - i) : b[j] = q[i + j]
  <2>1. \A j \in (i + 1)..Len(q) : q[j] \in R
    BY <1>0
  <2> QED BY <1>0, <2>1, SubSeqProperties
<1> HIDE DEF a, b
<1>3. /\ a \o b \in Seq(R) /\ Len(a \o b) = Len(a) + Len(b)
      /\ \A j \in 1..(Len(a) + Len(b)) : (a \o b)[j] = IF j <= Len(a) THEN a[j] ELSE b[j - Len(a)]
  BY <1>1, <1>2, ConcatProperties
<1>4. ASSUME NEW j \in 1..(Len(q) - 1)
      PROVE  (a \o b)[j] = IF j < i THEN q[j] ELSE q[j + 1]
  <2>1. CASE j < i
    <3>1. j \in 1..(i - 1) /\ j \in 1..(Len(a) + Len(b)) /\ j <= Len(a)
      BY <1>0, <1>1, <1>2, <2>1
    <3> QED BY <1>1, <1>3, <2>1, <3>1
  <2>2. CASE ~(j < i)
    <3>1. /\ j - Len(a) \in 1..(Len(q) - i) /\ j \in 1..(Len(a) + Len(b)) /\ ~(j <= Len(a))
          /\ i + (j - Len(a)) = j + 1
      BY <1>0, <1>1, <1>2, <2>2
    <3>2. (a \o b)[j] = b[j - Len(a)] /\ b[j - Len(a)] = q[i + (j - Len(a))]
      BY <1>2, <1>3, <3>1
    <3> QED BY <2>2, <3>1, <3>2
  <2> QED BY <2>1, <2>2
<1>5. RemoveAt(q, i) = a \o b
  BY DEF RemoveAt, a, b
<1> QED BY <1>0, <1>1, <1>2, <1>3, <1>4, <1>5

\* What the transport's queue is a sequence of: one request at most of each.
Queued(R, q) ==
  /\ q \in Seq(R)
  /\ \A i, j \in 1..Len(q) : q[i].by = q[j].by => i = j

\* What is queued is a request.
LEMMA QueuedIn ==
  ASSUME NEW R, NEW q, Queued(R, q)
  PROVE  ToSet(q) \subseteq R
BY InDomain DEF Queued

\* Joining the queue.
LEMMA QueuedAppend ==
  ASSUME NEW R, NEW q, Queued(R, q), NEW r \in R, \A x \in ToSet(q) : x.by # r.by
  PROVE  Queued(R, Append(q, r)) /\ ToSet(Append(q, r)) = ToSet(q) \cup {r}
<1>1. q \in Seq(R)
  BY DEF Queued
<1>2. /\ Append(q, r) \in Seq(R) /\ Len(Append(q, r)) = Len(q) + 1
      /\ \A i \in 1..Len(q) : Append(q, r)[i] = q[i]
      /\ Append(q, r)[Len(q) + 1] = r
  BY <1>1, AppendProperties
<1>3. Len(q) \in Nat /\ \A i \in 1..Len(q) : q[i] \in ToSet(q)
  BY <1>1, InDomain
<1>4. Queued(R, Append(q, r))
  BY <1>1, <1>2, <1>3 DEF Queued
<1>5. ToSet(Append(q, r)) = ToSet(q) \cup {r}
  <2>1. ToSet(Append(q, r)) = {Append(q, r)[i] : i \in 1..(Len(q) + 1)}
    BY <1>2, InDomain
  <2>2. ToSet(q) = {q[i] : i \in 1..Len(q)}
    BY <1>1, InDomain
  <2> QED BY <1>2, <1>3, <2>1, <2>2
<1> QED BY <1>4, <1>5

\* Giving up a place, by leaving the queue's head or one further back.
LEMMA QueuedWithout ==
  ASSUME NEW R, NEW q, Queued(R, q), NEW p \in 1..Len(q)
  PROVE  /\ Queued(R, RemoveAt(q, p))
         /\ ToSet(RemoveAt(q, p)) = {x \in ToSet(q) : x.by # q[p].by}
<1>1. q \in Seq(R) /\ Len(q) \in Nat
  BY InDomain DEF Queued
<1> DEFINE t == RemoveAt(q, p)
<1>2. /\ t \in Seq(R) /\ Len(t) = Len(q) - 1
      /\ \A j \in 1..(Len(q) - 1) : t[j] = IF j < p THEN q[j] ELSE q[j + 1]
  BY <1>1, RemoveAtIs
<1> HIDE DEF t
<1>3. Queued(R, t)
  <2> DEFINE at(x) == IF x < p THEN x ELSE x + 1
  <2>1. ASSUME NEW i \in 1..(Len(q) - 1), NEW j \in 1..(Len(q) - 1), t[i].by = t[j].by
        PROVE  i = j
    <3>1. /\ at(i) \in 1..Len(q) /\ at(j) \in 1..Len(q)
          /\ t[i] = q[at(i)] /\ t[j] = q[at(j)]
      BY <1>1, <1>2
    <3>2. q[at(i)].by = q[at(j)].by
      BY <2>1, <3>1
    <3>3. at(i) = at(j)
      <4> HIDE DEF at
      <4> QED BY <3>1, <3>2 DEF Queued
    <3> QED BY <3>3
  <2> QED BY <1>1, <1>2, <2>1 DEF Queued
<1>4. ToSet(t) = {t[i] : i \in 1..(Len(q) - 1)} /\ ToSet(q) = {q[i] : i \in 1..Len(q)}
  BY <1>1, <1>2, InDomain
<1>5. ASSUME NEW x \in ToSet(t) PROVE x \in ToSet(q) /\ x.by # q[p].by
  <2>1. PICK i \in 1..(Len(q) - 1) : x = t[i]
    BY <1>4, <1>5
  <2>2. PICK j \in 1..Len(q) : j # p /\ x = q[j]
    <3>1. CASE i < p
      BY <1>1, <1>2, <2>1, <3>1
    <3>2. CASE ~(i < p)
      <4>1. i + 1 \in 1..Len(q) /\ i + 1 # p /\ x = q[i + 1]
        BY <1>1, <1>2, <2>1, <3>2
      <4> QED BY <4>1
    <3> QED BY <3>1, <3>2
  <2>3. q[j].by # q[p].by
    BY <2>2 DEF Queued
  <2> QED BY <1>4, <2>2, <2>3
<1>6. ASSUME NEW x \in ToSet(q), x.by # q[p].by PROVE x \in ToSet(t)
  <2>1. PICK i \in 1..Len(q) : x = q[i]
    BY <1>4
  <2>2. i # p
    BY <1>6, <2>1
  <2>3. x = t[IF i < p THEN i ELSE i - 1] /\ (IF i < p THEN i ELSE i - 1) \in 1..(Len(q) - 1)
    BY <1>1, <1>2, <2>1, <2>2
  <2> QED BY <1>4, <2>3
<1>7. ToSet(t) = {x \in ToSet(q) : x.by # q[p].by}
  BY <1>5, <1>6
<1> QED BY <1>3, <1>7 DEF t

\* The head leaves.
LEMMA QueuedTail ==
  ASSUME NEW R, NEW q, Queued(R, q), q # << >>
  PROVE  /\ Queued(R, Tail(q)) /\ Head(q) \in ToSet(q) /\ Head(q) \in R
         /\ ToSet(Tail(q)) = {x \in ToSet(q) : x.by # Head(q).by}
<1>1. q \in Seq(R) /\ Len(q) \in Nat /\ Len(q) # 0
  BY InDomain, EmptySeq DEF Queued
<1>2. Head(q) = q[1]
  BY <1>1
<1>3. /\ Tail(q) \in Seq(R) /\ Len(Tail(q)) = Len(q) - 1
      /\ \A i \in 1..(Len(q) - 1) : Tail(q)[i] = q[i + 1]
  BY <1>1, HeadTailProperties
<1>4. /\ RemoveAt(q, 1) \in Seq(R)
      /\ Len(RemoveAt(q, 1)) = Len(q) - 1
      /\ \A j \in 1..(Len(q) - 1) : RemoveAt(q, 1)[j] = IF j < 1 THEN q[j] ELSE q[j + 1]
  <2>1. 1 \in 1..Len(q)
    BY <1>1
  <2> QED BY <1>1, <2>1, RemoveAtIs
<1>5. RemoveAt(q, 1) = Tail(q)
  <2> DEFINE t == RemoveAt(q, 1)  u == Tail(q)
  <2>1. Len(t) = Len(u) /\ \A j \in 1..Len(t) : t[j] = u[j]
    <3>1. Len(t) = Len(u) /\ Len(t) = Len(q) - 1
      BY <1>3, <1>4, Zenon
    <3>2. ASSUME NEW j \in 1..(Len(q) - 1) PROVE t[j] = u[j]
      <4>1. ~(j < 1) /\ t[j] = IF j < 1 THEN q[j] ELSE q[j + 1]
        BY <1>1, <1>4
      <4> QED BY <1>3, <4>1
    <3> HIDE DEF t, u
    <3> QED BY <1>1, <3>1, <3>2
  <2>2. t \in Seq(R) /\ u \in Seq(R)
    BY <1>3, <1>4
  <2> HIDE DEF t, u
  <2>3. t = u
    BY <2>1, <2>2, SeqEqual
  <2> QED BY <2>3 DEF t, u
<1>6. Head(q) \in ToSet(q) /\ Head(q) \in R
  BY <1>1, <1>2, InDomain
<1>7. 1 \in 1..Len(q)
  BY <1>1
<1>8. /\ Queued(R, RemoveAt(q, 1))
      /\ ToSet(RemoveAt(q, 1)) = {x \in ToSet(q) : x.by # q[1].by}
  BY <1>7, QueuedWithout
<1> QED BY <1>2, <1>5, <1>6, <1>8

\* The queue without the place that k has, or does not have.
Left(q, k) == Without(q, {i \in DOMAIN q : q[i].by = k})

\* Who leaves from any place leaves none of his own behind.
LEMMA QueuedLeave ==
  ASSUME NEW R, NEW q, Queued(R, q), NEW k
  PROVE  Queued(R, Left(q, k)) /\ ToSet(Left(q, k)) = {x \in ToSet(q) : x.by # k}
<1> DEFINE places == {i \in DOMAIN q : q[i].by = k}
<1> SUFFICES /\ Queued(R, Without(q, places))
             /\ ToSet(Without(q, places)) = {x \in ToSet(q) : x.by # k}
  BY DEF Left
<1>1. q \in Seq(R) /\ DOMAIN q = 1..Len(q) /\ ToSet(q) = {q[i] : i \in 1..Len(q)}
  BY InDomain DEF Queued
<1>2. CASE places = {}
  <2>1. Without(q, places) = q
    BY <1>2 DEF Without
  <2>2. ToSet(q) = {x \in ToSet(q) : x.by # k}
    BY <1>1, <1>2
  <2> QED BY <2>1, <2>2
<1>3. CASE places # {}
  <2> DEFINE p == CHOOSE i \in places : TRUE
  <2>1. p \in 1..Len(q) /\ q[p].by = k
    BY <1>1, <1>3
  <2>2. Without(q, places) = RemoveAt(q, p)
    BY <1>3 DEF Without
  <2> HIDE DEF p
  <2>3. /\ Queued(R, RemoveAt(q, p))
        /\ ToSet(RemoveAt(q, p)) = {x \in ToSet(q) : x.by # q[p].by}
    BY <2>1, QueuedWithout
  <2> QED BY <2>1, <2>2, <2>3
<1> QED BY <1>2, <1>3

\* A queue of requests is one of more requests.
LEMMA QueuedWiden ==
  ASSUME NEW R, NEW S, NEW q, Queued(R, q), R \subseteq S
  PROVE  Queued(S, q)
BY SeqMonotonic DEF Queued

\* The route lock: nobody is in it twice.
Line(q) == q \in Seq(Sids) /\ \A i, j \in 1..Len(q) : q[i] = q[j] => i = j

\* Line is what TypeOK says of the route lock.
LEMMA LineIs ==
  ASSUME NEW q \in Seq(Sids)
  PROVE  Line(q) <=> IsInjective(q)
BY InDomain DEF Line, IsInjective

\* Waiting for the route lock.
LEMMA LineAppend ==
  ASSUME NEW q, Line(q), NEW k \in Sids, k \notin ToSet(q)
  PROVE  Line(Append(q, k)) /\ ToSet(Append(q, k)) = ToSet(q) \cup {k}
<1>1. q \in Seq(Sids)
  BY DEF Line
<1>2. /\ Append(q, k) \in Seq(Sids) /\ Len(Append(q, k)) = Len(q) + 1
      /\ \A i \in 1..Len(q) : Append(q, k)[i] = q[i]
      /\ Append(q, k)[Len(q) + 1] = k
  BY <1>1, AppendProperties
<1>3. Len(q) \in Nat /\ \A i \in 1..Len(q) : q[i] \in ToSet(q)
  BY <1>1, InDomain
<1>4. Line(Append(q, k))
  BY <1>1, <1>2, <1>3 DEF Line
<1>5. ToSet(Append(q, k)) = ToSet(q) \cup {k}
  <2> DEFINE u == Append(q, k)
  <2>1. u \in Seq(Sids) /\ Len(u) = Len(q) + 1
    BY <1>2
  <2> HIDE DEF u
  <2>2. ToSet(u) = {u[i] : i \in 1..(Len(q) + 1)}
    BY <2>1, InDomain
  <2>3. ToSet(q) = {q[i] : i \in 1..Len(q)}
    BY <1>1, InDomain
  <2>4. (\A i \in 1..Len(q) : u[i] = q[i]) /\ u[Len(q) + 1] = k
    BY <1>2 DEF u
  <2>5. ToSet(u) = ToSet(q) \cup {k}
    <3>1. ASSUME NEW i \in 1..(Len(q) + 1) PROVE u[i] \in ToSet(q) \cup {k}
      <4>1. i \in 1..Len(q) \/ i = Len(q) + 1
        BY <1>3
      <4> QED BY <1>3, <2>4, <4>1
    <3>2. ASSUME NEW i \in 1..Len(q) PROVE q[i] \in ToSet(u)
      <4>1. i \in 1..(Len(q) + 1)
        BY <1>3
      <4> QED BY <2>2, <2>4, <4>1
    <3>3. k \in ToSet(u)
      <4>1. Len(q) + 1 \in 1..(Len(q) + 1)
        BY <1>3
      <4> QED BY <2>2, <2>4, <4>1
    <3> QED BY <2>2, <2>3, <3>1, <3>2, <3>3
  <2> QED BY <2>5 DEF u
<1> QED BY <1>4, <1>5

\* Giving the route lock up, or the wait for it.
LEMMA LineLeave ==
  ASSUME NEW q, Line(q), NEW k
  PROVE  LET t == Without(q, {i \in DOMAIN q : q[i] = k})
         IN  Line(t) /\ ToSet(t) \subseteq ToSet(q) \ {k}
<1> DEFINE places == {i \in DOMAIN q : q[i] = k}
<1>1. /\ q \in Seq(Sids) /\ DOMAIN q = 1..Len(q) /\ Len(q) \in Nat
      /\ ToSet(q) = {q[i] : i \in 1..Len(q)}
  BY InDomain DEF Line
<1>2. CASE places = {}
  <2>1. Without(q, places) = q
    BY <1>2 DEF Without
  <2>2. k \notin ToSet(q)
    BY <1>1, <1>2
  <2> QED BY <2>1, <2>2
<1>3. CASE places # {}
  <2> DEFINE p == CHOOSE i \in places : TRUE
             t == RemoveAt(q, p)
  <2>1. p \in 1..Len(q) /\ q[p] = k
    BY <1>1, <1>3
  <2>2. Without(q, places) = t
    <3> HIDE DEF places
    <3> QED BY <1>3, Zenon DEF Without
  <2> HIDE DEF p
  <2>3. /\ t \in Seq(Sids) /\ Len(t) = Len(q) - 1
        /\ \A j \in 1..(Len(q) - 1) : t[j] = IF j < p THEN q[j] ELSE q[j + 1]
    BY <1>1, <2>1, RemoveAtIs
  <2> HIDE DEF t
  <2>4. Line(t)
    <3> DEFINE at(x) == IF x < p THEN x ELSE x + 1
    <3>1. ASSUME NEW i \in 1..(Len(q) - 1), NEW j \in 1..(Len(q) - 1), t[i] = t[j]
          PROVE  i = j
      <4>1. /\ at(i) \in 1..Len(q) /\ at(j) \in 1..Len(q)
            /\ t[i] = q[at(i)] /\ t[j] = q[at(j)]
        BY <1>1, <2>1, <2>3
      <4>2. at(i) = at(j)
        <5> HIDE DEF at
        <5> QED BY <3>1, <4>1 DEF Line
      <4> QED BY <2>1, <4>2
    <3> QED BY <1>1, <2>3, <3>1 DEF Line
  <2>5. ToSet(t) = {t[i] : i \in 1..(Len(q) - 1)}
    BY <2>3, InDomain
  <2>6. ASSUME NEW i \in 1..(Len(q) - 1) PROVE t[i] \in ToSet(q) \ {k}
    <3> DEFINE j == IF i < p THEN i ELSE i + 1
    <3>1. j \in 1..Len(q) /\ j # p
      BY <1>1, <2>1
    <3>2. t[i] = q[j]
      BY <2>3
    <3> HIDE DEF j
    <3>3. q[j] # q[p]
      BY <2>1, <3>1 DEF Line
    <3> QED BY <1>1, <2>1, <3>1, <3>2, <3>3
  <2>7. ToSet(t) \subseteq ToSet(q) \ {k}
    BY <2>5, <2>6
  <2> QED BY <2>2, <2>4, <2>7
<1> QED BY <1>2, <1>3


-----------------------------------------------------------------------------
(* What the daemon knows, and who owns its fences.  D is the daemon, Q the *)
(* requests that may still reach it, pd the pending edit, cl the calls and *)
(* R the commands that ran.                                                *)

FencesUpTo(n) == [id : 1..n, sid : Sids, write : Writes \cup {NoWrite}, conflicted : BOOLEAN]
DaemonsUpTo(n) ==
  [sessions : SUBSET Sids, fences : SUBSET FencesUpTo(n), begun : {n}, chain : [Sids -> 0..n]]
RequestsUpTo(n) ==
  [by : {0} \cup Sids, op : Ops, sid : Sids, token : 0..n,
   write : Writes \cup {NoWrite}, success : BOOLEAN]
CallAts ==
  {"none", "lock", "begin", "feed", "unfeed", "cancel", "resolve", "exec", "finish", "chain", "report"}
CallKinds == {"none", "start", "delta", "end", "abort", "exec"}
CallsUpTo(n) ==
  [at : CallAts, kind : CallKinds, cmd : Commands \cup {NoCommand}, token : 0..n,
   failed : BOOLEAN, cancelled : BOOLEAN]
EditsUpTo(n) == [token : 0..n, write : Writes \cup {NoWrite}, confirmed : BOOLEAN]

Active(D, t) == \E f \in D.fences : f.id = t
Ended(Q, t) == \E r \in Q : r.op = "mutation_end" /\ r.token = t
Fenced(D, Q, t) == Active(D, t) /\ ~Ended(Q, t)
Holding(c) == c.kind = "exec" /\ c.at \in {"feed", "exec"}

DaemonOK(D) ==
  /\ D.begun \in Nat /\ D \in DaemonsUpTo(D.begun)
  /\ \A f, g \in D.fences : f.id = g.id => f = g

BooksOK(D, Q, R) ==
  /\ Q \subseteq RequestsUpTo(D.begun) /\ R \subseteq 1..D.begun
  /\ \A r \in Q : r.op = "mutation_end" /\ r.success => r.token \in R

ChainOK(D, R) == \A s \in Sids : D.chain[s] # 0 => D.chain[s] \in R \/ Active(D, D.chain[s])

OwnersOK(D, Q, pd, cl) ==
  /\ pd \in EditsUpTo(D.begun) /\ cl \in [Sids -> CallsUpTo(D.begun)]
  /\ pd # NoEdit => Fenced(D, Q, pd.token)
  /\ \A k \in Sids :
       Holding(cl[k]) =>
         /\ Fenced(D, Q, cl[k].token)
         /\ cl[k].token # pd.token
         /\ \A j \in Sids \ {k} : Holding(cl[j]) => cl[j].token # cl[k].token

Core(D, Q, pd, cl, R) ==
  DaemonOK(D) /\ BooksOK(D, Q, R) /\ ChainOK(D, R) /\ OwnersOK(D, Q, pd, cl)

\* The daemon handles requests, and may end the fences they end, no others.
LEMMA CoreOn ==
  ASSUME NEW D, NEW Q, NEW pd, NEW cl, NEW R, Core(D, Q, pd, cl, R),
         NEW E, DaemonOK(E), ChainOK(E, R), D.begun <= E.begun,
         \A f \in D.fences : Ended(Q, f.id) \/ Active(E, f.id)
  PROVE  Core(E, Q, pd, cl, R)
<1>1. /\ D.begun \in Nat /\ E.begun \in Nat /\ 0..D.begun \subseteq 0..E.begun
      /\ 1..D.begun \subseteq 1..E.begun
  BY DEF Core, DaemonOK
<1>2. BooksOK(E, Q, R)
  <2>1. RequestsUpTo(D.begun) \subseteq RequestsUpTo(E.begun)
    BY <1>1 DEF RequestsUpTo
  <2> QED BY <1>1, <2>1 DEF Core, BooksOK
<1>3. \A t : Fenced(D, Q, t) => Fenced(E, Q, t)
  BY DEF Fenced, Active
<1>4. OwnersOK(E, Q, pd, cl)
  <2>1. EditsUpTo(D.begun) \subseteq EditsUpTo(E.begun) /\ CallsUpTo(D.begun) \subseteq CallsUpTo(E.begun)
    BY <1>1 DEF EditsUpTo, CallsUpTo
  <2>2. OwnersOK(D, Q, pd, cl)
    BY DEF Core
  <2>3. pd \in EditsUpTo(E.begun) /\ cl \in [Sids -> CallsUpTo(E.begun)]
    BY <2>1, <2>2 DEF OwnersOK
  <2> QED BY <1>3, <2>2, <2>3 DEF OwnersOK
<1> QED BY <1>2, <1>4 DEF Core

\* A request that is dropped costs nothing.
LEMMA CoreFewer ==
  ASSUME NEW D, NEW Q, NEW pd, NEW cl, NEW R, Core(D, Q, pd, cl, R), NEW P, P \subseteq Q
  PROVE  Core(D, P, pd, cl, R)
<1>1. BooksOK(D, P, R)
  BY DEF Core, BooksOK
<1>2. \A t : Fenced(D, Q, t) => Fenced(D, P, t)
  BY DEF Fenced, Ended
<1>3. OwnersOK(D, P, pd, cl)
  BY <1>2 DEF Core, OwnersOK
<1> QED BY <1>1, <1>3 DEF Core

\* The handlers of the daemon, one by one.
LEMMA TurnBeginCore ==
  ASSUME NEW D, NEW Q, NEW pd, NEW cl, NEW R, Core(D, Q, pd, cl, R), NEW s \in Sids
  PROVE  LET E == TurnBegin(D, s)
         IN  /\ Core(E, Q, pd, cl, R)
             /\ E.begun = D.begun /\ E.fences = D.fences /\ E.sessions = D.sessions \cup {s}
<1> DEFINE E == TurnBegin(D, s)
<1>1. D.begun \in Nat /\ D \in DaemonsUpTo(D.begun)
  BY DEF Core, DaemonOK
<1>2. /\ E.begun = D.begun /\ E.fences = D.fences /\ E.chain = D.chain
      /\ E.sessions = D.sessions \cup {s} /\ E \in DaemonsUpTo(D.begun)
  BY <1>1 DEF DaemonsUpTo, TurnBegin
<1> HIDE DEF E
<1>3. DaemonOK(E) /\ ChainOK(E, R)
  BY <1>2 DEF Core, DaemonOK, ChainOK, Active
<1>4. D.begun <= E.begun /\ \A f \in D.fences : Active(E, f.id)
  BY <1>1, <1>2 DEF Active
<1>5. Core(E, Q, pd, cl, R)
  BY <1>3, <1>4, CoreOn
<1> QED BY <1>2, <1>5 DEF E

\* A mutation that begins gets an id of its own, and no chain is left.
LEMMA MutationBeginCore ==
  ASSUME NEW D, NEW Q, NEW pd, NEW cl, NEW R, Core(D, Q, pd, cl, R), NEW s \in Sids,
         NEW w \in Writes \cup {NoWrite}
  PROVE  LET E == MutationBegin(D, s, w)
         IN  /\ Core(E, Q, pd, cl, R)
             /\ E.begun = D.begun + 1 /\ E.sessions = D.sessions /\ Active(E, D.begun + 1)
             /\ \A g \in E.fences : g.sid = s \/ \E f \in D.fences : f.sid = g.sid
<1> DEFINE E == MutationBegin(D, s, w)
           mark(f) == [f EXCEPT !.conflicted = TRUE]
           new == [id |-> D.begun + 1, sid |-> s, write |-> w, conflicted |-> D.fences # {}]
<1>1. D.begun \in Nat /\ D \in DaemonsUpTo(D.begun) /\ D.fences \subseteq FencesUpTo(D.begun)
  BY DEF Core, DaemonOK, DaemonsUpTo
<1>2. /\ E.begun = D.begun + 1 /\ E.fences = {mark(f) : f \in D.fences} \cup {new}
      /\ E.chain = [t \in Sids |-> 0] /\ E.sessions = D.sessions
      /\ E = [D EXCEPT !.begun = E.begun, !.fences = E.fences, !.chain = E.chain]
  BY <1>1 DEF DaemonsUpTo, MutationBegin
<1>3. ASSUME NEW f \in D.fences
      PROVE  /\ mark(f) \in FencesUpTo(D.begun + 1)
             /\ mark(f).id = f.id /\ mark(f).sid = f.sid /\ f.id # D.begun + 1
  <2>1. f \in FencesUpTo(D.begun)
    BY <1>1
  <2>2. f.id \in 1..D.begun /\ f.id \in 1..(D.begun + 1) /\ f.id # D.begun + 1
    BY <1>1, <2>1 DEF FencesUpTo
  <2> QED BY <2>1, <2>2 DEF FencesUpTo
<1>4. new \in FencesUpTo(D.begun + 1) /\ new.id = D.begun + 1 /\ new.sid = s
  <2>1. (D.fences # {}) \in BOOLEAN
    OBVIOUS
  <2> QED BY <1>1, <2>1 DEF FencesUpTo
<1> HIDE DEF E, mark, new
<1>5. E \in DaemonsUpTo(E.begun) /\ E.begun \in Nat
  <2>1. E.fences \subseteq FencesUpTo(E.begun)
    BY <1>2, <1>3, <1>4
  <2>2. E.chain \in [Sids -> 0..E.begun] /\ E.begun \in Nat
    BY <1>1, <1>2
  <2> QED BY <1>1, <1>2, <2>1, <2>2 DEF DaemonsUpTo
<1>6. ASSUME NEW f \in E.fences, NEW g \in E.fences, f.id = g.id PROVE f = g
  <2>1. \A x, y \in D.fences : x.id = y.id => x = y
    BY DEF Core, DaemonOK
  <2> QED BY <1>2, <1>3, <1>4, <1>6, <2>1
<1>7. DaemonOK(E) /\ ChainOK(E, R)
  BY <1>2, <1>5, <1>6 DEF DaemonOK, ChainOK
<1>8. D.begun <= E.begun /\ \A f \in D.fences : Active(E, f.id)
  BY <1>1, <1>2, <1>3 DEF Active
<1>9. Core(E, Q, pd, cl, R)
  BY <1>7, <1>8, CoreOn
<1>10. Active(E, D.begun + 1) /\ \A g \in E.fences : g.sid = s \/ \E f \in D.fences : f.sid = g.sid
  BY <1>2, <1>3, <1>4 DEF Active
<1> QED BY <1>2, <1>9, <1>10 DEF E

\* The one mutation that kept the chain is a command that ran.
LEMMA MutationEndCore ==
  ASSUME NEW D, NEW Q, NEW pd, NEW cl, NEW R, Core(D, Q, pd, cl, R), NEW r \in Q,
         r.op = "mutation_end", NEW f \in Own(D, r.sid, r.token),
         NEW keep \in BOOLEAN, keep => \A g \in Own(D, r.sid, r.token) : MayKeep(D, g, r.success)
  PROVE  LET E == MutationEnd(D, f, keep)
         IN  /\ Core(E, Q, pd, cl, R)
             /\ E.begun = D.begun /\ E.sessions = D.sessions /\ E.fences \subseteq D.fences
<1> DEFINE E == MutationEnd(D, f, keep)
<1>1. D.begun \in Nat /\ D \in DaemonsUpTo(D.begun) /\ D.fences \subseteq FencesUpTo(D.begun)
  BY DEF Core, DaemonOK, DaemonsUpTo
<1>2. f \in D.fences /\ f.id = r.token /\ f.sid \in Sids
  BY <1>1 DEF Own, FencesUpTo
<1>3. /\ E.begun = D.begun /\ E.fences = D.fences \ {f} /\ E.sessions = D.sessions
      /\ E.chain = [t \in Sids |-> IF keep /\ t = f.sid THEN D.chain[t] ELSE 0]
      /\ E = [D EXCEPT !.fences = E.fences, !.chain = E.chain]
  BY <1>1 DEF DaemonsUpTo, MutationEnd
<1> HIDE DEF E
<1>4. E \in DaemonsUpTo(E.begun)
  <2>1. D.chain \in [Sids -> 0..D.begun]
    BY <1>1 DEF DaemonsUpTo
  <2>2. E.chain \in [Sids -> 0..D.begun]
    <3>1. \A t \in Sids : (IF keep /\ t = f.sid THEN D.chain[t] ELSE 0) \in 0..D.begun
      BY <1>1, <2>1
    <3>2. E.chain = [t \in Sids |-> IF keep /\ t = f.sid THEN D.chain[t] ELSE 0]
      BY <1>3
    <3> QED BY <3>1, <3>2
  <2> QED BY <1>1, <1>3, <2>2 DEF DaemonsUpTo
<1>5. DaemonOK(E)
  BY <1>1, <1>3, <1>4 DEF Core, DaemonOK
<1>6. ChainOK(E, R)
  <2> SUFFICES ASSUME NEW s \in Sids, E.chain[s] # 0 PROVE E.chain[s] \in R
    BY DEF ChainOK
  <2>1. keep /\ s = f.sid /\ E.chain[s] = D.chain[s]
    BY <1>3
  <2>2. r.success /\ D.chain[s] = f.id
    BY <2>1 DEF MayKeep
  <2>3. r.token \in R
    BY <2>2 DEF Core, BooksOK
  <2> QED BY <1>2, <2>1, <2>2, <2>3
<1>7. D.begun <= E.begun /\ \A g \in D.fences : Ended(Q, g.id) \/ Active(E, g.id)
  <2>1. Ended(Q, f.id)
    BY <1>2 DEF Ended
  <2>2. ASSUME NEW g \in D.fences, g # f PROVE Active(E, g.id)
    BY <1>3, <2>2 DEF Active
  <2>3. \A g \in D.fences : Ended(Q, g.id) \/ Active(E, g.id)
    BY <2>1, <2>2
  <2>4. D.begun <= E.begun
    <3>1. E.begun = D.begun
      BY <1>3, Zenon
    <3> QED BY <1>1, <3>1
  <2> QED BY <2>3, <2>4
<1>8. Core(E, Q, pd, cl, R)
  BY <1>5, <1>6, <1>7, CoreOn
<1> QED BY <1>3, <1>8 DEF E

\* A chain stands on the write of an active mutation.
LEMMA FeedWriteCore ==
  ASSUME NEW D, NEW Q, NEW pd, NEW cl, NEW R, Core(D, Q, pd, cl, R), NEW s \in Sids, NEW t, NEW w
  PROVE  LET E == FeedWrite(D, s, t, w)
         IN  /\ Core(E, Q, pd, cl, R)
             /\ E.begun = D.begun /\ E.sessions = D.sessions /\ E.fences = D.fences
<1> DEFINE E == [D EXCEPT !.chain[s] = t]
<1>1. D.begun \in Nat /\ D \in DaemonsUpTo(D.begun) /\ D.fences \subseteq FencesUpTo(D.begun)
  BY DEF Core, DaemonOK, DaemonsUpTo
<1>2. CASE \E f \in Own(D, s, t) : D.fences = {f} /\ ~f.conflicted /\ f.write = w
  <2>1. Active(D, t) /\ t \in 1..D.begun /\ t \in 0..D.begun
    BY <1>1, <1>2 DEF Own, Active, FencesUpTo
  <2>2. /\ E.begun = D.begun /\ E.fences = D.fences /\ E.sessions = D.sessions
        /\ E.chain = [D.chain EXCEPT ![s] = t] /\ E \in DaemonsUpTo(D.begun)
    BY <1>1, <2>1 DEF DaemonsUpTo
  <2>3. FeedWrite(D, s, t, w) = E
    BY <1>2 DEF FeedWrite
  <2>4. D.chain \in [Sids -> 0..D.begun]
    BY <1>1 DEF DaemonsUpTo
  <2> HIDE DEF E
  <2>5. DaemonOK(E)
    BY <2>2 DEF Core, DaemonOK
  <2>6. ChainOK(E, R)
    BY <2>1, <2>2, <2>4 DEF Core, ChainOK, Active
  <2>7. D.begun <= E.begun /\ \A f \in D.fences : Active(E, f.id)
    BY <1>1, <2>2 DEF Active
  <2>8. Core(E, Q, pd, cl, R)
    BY <2>5, <2>6, <2>7, CoreOn
  <2> QED BY <2>2, <2>3, <2>8
<1>3. CASE ~\E f \in Own(D, s, t) : D.fences = {f} /\ ~f.conflicted /\ f.write = w
  <2>1. FeedWrite(D, s, t, w) = D
    BY <1>3 DEF FeedWrite
  <2> QED BY <2>1
<1> QED BY <1>2, <1>3

\* A session that ends takes its chain with it.
LEMMA SessionEndCore ==
  ASSUME NEW D, NEW Q, NEW pd, NEW cl, NEW R, Core(D, Q, pd, cl, R), NEW s \in Sids
  PROVE  LET E == SessionEnd(D, s)
         IN  /\ Core(E, Q, pd, cl, R)
             /\ E.begun = D.begun /\ E.sessions = D.sessions \ {s} /\ E.fences = D.fences
<1> DEFINE E == SessionEnd(D, s)
<1>1. D.begun \in Nat /\ D \in DaemonsUpTo(D.begun) /\ D.chain \in [Sids -> 0..D.begun]
  BY DEF Core, DaemonOK, DaemonsUpTo
<1>2. /\ E.begun = D.begun /\ E.fences = D.fences /\ E.sessions = D.sessions \ {s}
      /\ E.chain = [D.chain EXCEPT ![s] = 0] /\ E \in DaemonsUpTo(D.begun)
  <2>1. [D.chain EXCEPT ![s] = 0] \in [Sids -> 0..D.begun] /\ D.sessions \ {s} \in SUBSET Sids
    BY <1>1 DEF DaemonsUpTo
  <2>2. E = [D EXCEPT !.sessions = D.sessions \ {s}, !.chain = [D.chain EXCEPT ![s] = 0]]
    BY <1>1 DEF DaemonsUpTo, SessionEnd
  <2> QED BY <1>1, <2>1, <2>2 DEF DaemonsUpTo
<1> HIDE DEF E
<1>3. DaemonOK(E)
  BY <1>2 DEF Core, DaemonOK
<1>4. ChainOK(E, R)
  BY <1>1, <1>2 DEF Core, ChainOK, Active
<1>5. D.begun <= E.begun /\ \A f \in D.fences : Active(E, f.id)
  BY <1>1, <1>2 DEF Active
<1>6. Core(E, Q, pd, cl, R)
  BY <1>3, <1>4, <1>5, CoreOn
<1> QED BY <1>2, <1>6 DEF E

\* A session that is over for the daemon.
Clean(D, s) == s \notin D.sessions /\ \A f \in D.fences : f.sid # s

\* Whatever the daemon answers, the books are kept.  A new mutation has a token nobody knew;
\* a session comes back only by its own begin.
LEMMA RepliesCore ==
  ASSUME NEW Q, NEW pd, NEW cl, NEW R, Core(daemon, Q, pd, cl, R),
         NEW r \in Q, r.op # "close", NEW rep \in Replies(r)
  PROVE  /\ Core(rep.daemon, Q, pd, cl, R) /\ daemon.begun <= rep.daemon.begun
         /\ rep.ok \in BOOLEAN
         /\ rep.ok => r.op # "refused"
         /\ r.op = "mutation_begin" /\ rep.ok =>
              rep.val = daemon.begun + 1 /\ rep.daemon.begun = rep.val /\ Active(rep.daemon, rep.val)
         /\ \A s \in Sids :
              Clean(daemon, s) /\ (r.op = "begin" => r.sid # s) => Clean(rep.daemon, s)
         /\ r.op = "end" /\ rep.ok => Clean(rep.daemon, r.sid)
<1> DEFINE Reply(d, ok, val) == [daemon |-> d, ok |-> ok, val |-> val]
           s == r.sid
           Goal == /\ Core(rep.daemon, Q, pd, cl, R) /\ daemon.begun <= rep.daemon.begun
                   /\ rep.ok \in BOOLEAN
                   /\ rep.ok => r.op # "refused"
                   /\ r.op = "mutation_begin" /\ rep.ok =>
                        rep.val = daemon.begun + 1 /\ rep.daemon.begun = rep.val /\ Active(rep.daemon, rep.val)
                   /\ \A t \in Sids :
                        Clean(daemon, t) /\ (r.op = "begin" => r.sid # t) => Clean(rep.daemon, t)
                   /\ r.op = "end" /\ rep.ok => Clean(rep.daemon, r.sid)
<1>0. daemon.begun \in Nat /\ daemon.begun <= daemon.begun /\ daemon.begun <= daemon.begun + 1
  BY DEF Core, DaemonOK
<1>1. /\ s \in Sids /\ r.write \in Writes \cup {NoWrite} /\ r.op \in Ops
  BY DEF Core, BooksOK, RequestsUpTo
<1>2. CASE rep = Reply(daemon, FALSE, 0)
  <2>1. rep.daemon = daemon /\ rep.ok = FALSE
    BY <1>2
  <2> QED BY <2>1, <1>0 DEF Goal
<1>3. CASE r.op = "refused"
  <2>1. rep = Reply(daemon, FALSE, 0)
    BY <1>3 DEF Replies
  <2> QED BY <1>2, <2>1
<1>4. CASE r.op = "begin"
  <2>1. rep = Reply(TurnBegin(daemon, s), TRUE, 0)
    BY <1>4 DEF Replies
  <2>2. rep.daemon = TurnBegin(daemon, s) /\ rep.ok = TRUE
    BY <2>1
  <2>3. /\ Core(rep.daemon, Q, pd, cl, R) /\ rep.daemon.begun = daemon.begun /\ rep.daemon.fences = daemon.fences
        /\ rep.daemon.sessions = daemon.sessions \cup {s}
    BY <1>1, <2>2, TurnBeginCore
  <2> QED BY <1>4, <2>2, <2>3, <1>0 DEF Goal, Clean
<1>5. CASE r.op \notin {"refused", "begin"} /\ s \notin daemon.sessions
  <2>1. rep = Reply(daemon, FALSE, 0)
    BY <1>5 DEF Replies
  <2> QED BY <1>2, <2>1
<1>6. CASE r.op = "mutation_begin" /\ s \in daemon.sessions
  <2>1. rep = Reply(MutationBegin(daemon, s, r.write), TRUE, daemon.begun + 1)
    BY <1>6 DEF Replies
  <2>2. /\ rep.daemon = MutationBegin(daemon, s, r.write) /\ rep.ok = TRUE
        /\ rep.val = daemon.begun + 1
    BY <2>1
  <2>3. /\ Core(rep.daemon, Q, pd, cl, R)
        /\ rep.daemon.begun = daemon.begun + 1 /\ rep.daemon.sessions = daemon.sessions
        /\ Active(rep.daemon, daemon.begun + 1)
        /\ \A g \in rep.daemon.fences : g.sid = s \/ \E f \in daemon.fences : f.sid = g.sid
    BY <1>1, <2>2, MutationBeginCore
  <2>4. \A t \in Sids : Clean(daemon, t) => Clean(rep.daemon, t)
    BY <1>6, <2>3 DEF Clean
  <2> QED BY <1>6, <2>2, <2>3, <2>4, <1>0 DEF Goal
<1>7. CASE r.op = "mutation_end" /\ s \in daemon.sessions
  <2>1. CASE Own(daemon, s, r.token) = {}
    <3>1. rep = Reply(daemon, FALSE, 0)
      BY <1>7, <2>1 DEF Replies
    <3> QED BY <1>2, <3>1
  <2>2. CASE Own(daemon, s, r.token) # {}
    <3>1. PICK f \in Own(daemon, s, r.token),
               keep \in {x \in BOOLEAN : x => \A g \in Own(daemon, s, r.token) :
                                                MayKeep(daemon, g, r.success)} :
                 rep = Reply(MutationEnd(daemon, f, keep), TRUE, IF keep THEN 1 ELSE 0)
      BY <1>7, <2>2 DEF Replies
    <3>2. rep.daemon = MutationEnd(daemon, f, keep) /\ rep.ok = TRUE
      BY <3>1
    <3>3. keep \in BOOLEAN /\ (keep => \A g \in Own(daemon, r.sid, r.token) :
                                         MayKeep(daemon, g, r.success))
      BY <3>1
    <3>4. /\ Core(rep.daemon, Q, pd, cl, R) /\ rep.daemon.begun = daemon.begun /\ rep.daemon.sessions = daemon.sessions
          /\ rep.daemon.fences \subseteq daemon.fences
      BY <1>7, <3>2, <3>3, MutationEndCore
    <3> QED BY <1>7, <3>2, <3>4, <1>0 DEF Goal, Clean
  <2> QED BY <2>1, <2>2
<1>8. CASE r.op = "feed" /\ s \in daemon.sessions
  <2>1. rep = Reply(FeedWrite(daemon, s, r.token, r.write), TRUE, 0)
    BY <1>8 DEF Replies
  <2>2. rep.daemon = FeedWrite(daemon, s, r.token, r.write) /\ rep.ok = TRUE
    BY <2>1
  <2>3. /\ Core(rep.daemon, Q, pd, cl, R) /\ rep.daemon.begun = daemon.begun /\ rep.daemon.fences = daemon.fences
        /\ rep.daemon.sessions = daemon.sessions
    BY <1>1, <2>2, FeedWriteCore
  <2> QED BY <1>8, <2>2, <2>3, <1>0 DEF Goal, Clean
<1>9. CASE r.op \in {"resolve", "report"} /\ s \in daemon.sessions
  <2>1. rep.daemon = daemon /\ rep.ok = TRUE
    <3>1. PICK v \in 0..1 : rep = Reply(daemon, TRUE, v)
      BY <1>9 DEF Replies
    <3> QED BY <3>1
  <2> QED BY <1>9, <2>1, <1>0 DEF Goal
<1>10. CASE r.op = "end" /\ s \in daemon.sessions
  <2>1. CASE \E f \in daemon.fences : f.sid = s
    <3>1. rep = Reply(daemon, FALSE, 0)
      BY <1>10, <2>1 DEF Replies
    <3> QED BY <1>2, <3>1
  <2>2. CASE ~\E f \in daemon.fences : f.sid = s
    <3>1. rep = Reply(SessionEnd(daemon, s), TRUE, 0)
      BY <1>10, <2>2 DEF Replies
    <3>2. rep.daemon = SessionEnd(daemon, s) /\ rep.ok = TRUE
      BY <3>1
    <3>3. /\ Core(rep.daemon, Q, pd, cl, R) /\ rep.daemon.begun = daemon.begun /\ rep.daemon.fences = daemon.fences
          /\ rep.daemon.sessions = daemon.sessions \ {s}
      BY <1>1, <3>2, SessionEndCore
    <3> QED BY <1>10, <2>2, <3>2, <3>3, <1>0 DEF Goal, Clean
  <2> QED BY <2>1, <2>2
<1> QED BY <1>1, <1>3, <1>4, <1>5, <1>6, <1>7, <1>8, <1>9, <1>10 DEF Ops

-----------------------------------------------------------------------------
(* How fences change hands.  A token is free for k if it names a fence that  *)
(* nothing ends and that no other call holds: the pending edit's, its own,   *)
(* or a new one.                                                             *)

Free(D, Q, cl, k, t) ==
  Fenced(D, Q, t) /\ \A j \in Sids \ {k} : Holding(cl[j]) => cl[j].token # t

\* The pending edit's token and the call's own are free for it.
LEMMA FreeTokens ==
  ASSUME NEW D, NEW Q, NEW pd, NEW cl, NEW R, Core(D, Q, pd, cl, R), NEW k \in Sids
  PROVE  /\ pd # NoEdit => Free(D, Q, cl, k, pd.token)
         /\ Holding(cl[k]) => Free(D, Q, cl, k, cl[k].token) /\ cl[k].token # pd.token
         /\ \A t : Free(D, Q, cl, k, t) => t \in 1..D.begun
<1>1. OwnersOK(D, Q, pd, cl)
  BY DEF Core
<1>2. pd # NoEdit => Free(D, Q, cl, k, pd.token)
  BY <1>1 DEF OwnersOK, Free
<1>3. Holding(cl[k]) => Free(D, Q, cl, k, cl[k].token) /\ cl[k].token # pd.token
  BY <1>1 DEF OwnersOK, Free
<1>4. \A t : Free(D, Q, cl, k, t) => t \in 1..D.begun
  BY DEF Free, Fenced, Active, Core, DaemonOK, DaemonsUpTo, FencesUpTo
<1> QED BY <1>2, <1>3, <1>4

\* The token of a mutation that has just begun.
LEMMA FreshToken ==
  ASSUME NEW D, NEW Q, NEW pd, NEW cl, NEW R, Core(D, Q, pd, cl, R),
         NEW E, Active(E, D.begun + 1), NEW k \in Sids
  PROVE  Free(E, Q, cl, k, D.begun + 1) /\ pd.token # D.begun + 1
<1>1. D.begun \in Nat /\ \A n \in 0..D.begun : n # D.begun + 1
  BY DEF Core, DaemonOK
<1>2. ~Ended(Q, D.begun + 1)
  BY <1>1 DEF Ended, Core, BooksOK, RequestsUpTo
<1>3. \A j \in Sids : cl[j].token # D.begun + 1
  BY <1>1 DEF Core, OwnersOK, CallsUpTo
<1>4. pd.token # D.begun + 1
  BY <1>1 DEF Core, OwnersOK, EditsUpTo
<1> QED BY <1>2, <1>3, <1>4 DEF Free, Fenced

\* A token stays free when requests are dropped.
LEMMA FewerFree ==
  ASSUME NEW D, NEW Q, NEW P, P \subseteq Q, NEW cl, NEW k, NEW t, Free(D, Q, cl, k, t)
  PROVE  Free(D, P, cl, k, t)
BY DEF Free, Fenced, Ended

\* One more command that ran.
LEMMA CoreRan ==
  ASSUME NEW D, NEW Q, NEW pd, NEW cl, NEW R, Core(D, Q, pd, cl, R), NEW t \in 1..D.begun
  PROVE  Core(D, Q, pd, cl, R \cup {t})
<1>1. BooksOK(D, Q, R \cup {t}) /\ ChainOK(D, R \cup {t})
  BY DEF Core, BooksOK, ChainOK
<1> QED BY <1>1 DEF Core

\* Call k becomes c, the pending edit pd2, and P is on its way.
LEMMA CoreMove ==
  ASSUME NEW D, NEW Q, NEW pd, NEW cl, NEW R, Core(D, Q, pd, cl, R), NEW k \in Sids,
         NEW c \in CallsUpTo(D.begun), NEW pd2 \in EditsUpTo(D.begun),
         NEW P, P \subseteq RequestsUpTo(D.begun),
         pd2 # NoEdit => Free(D, Q, cl, k, pd2.token),
         Holding(c) => Free(D, Q, cl, k, c.token) /\ c.token # pd2.token,
         \A r \in P : \/ r \in Q \/ r.op # "mutation_end"
                      \/ /\ Free(D, Q, cl, k, r.token) /\ r.token # pd2.token
                         /\ Holding(c) => r.token # c.token
                         /\ r.success => r.token \in R
  PROVE  Core(D, P, pd2, [cl EXCEPT ![k] = c], R)
<1> DEFINE cl2 == [cl EXCEPT ![k] = c]
<1>1. /\ cl \in [Sids -> CallsUpTo(D.begun)] /\ cl2 \in [Sids -> CallsUpTo(D.begun)]
      /\ cl2[k] = c /\ \A j \in Sids \ {k} : cl2[j] = cl[j]
  BY DEF Core, OwnersOK
<1> HIDE DEF cl2
<1>2. BooksOK(D, P, R)
  BY DEF Core, BooksOK
<1>3. ASSUME NEW t, Fenced(D, Q, t),
             \A r \in P : r \in Q \/ r.op # "mutation_end" \/ r.token # t
      PROVE  Fenced(D, P, t)
  BY <1>3 DEF Fenced, Ended
<1>4. pd2 # NoEdit => Fenced(D, P, pd2.token)
  <2> SUFFICES ASSUME pd2 # NoEdit PROVE Fenced(D, P, pd2.token)
    OBVIOUS
  <2>1. Fenced(D, Q, pd2.token)
    BY DEF Free
  <2>2. \A r \in P : r \in Q \/ r.op # "mutation_end" \/ r.token # pd2.token
    OBVIOUS
  <2> QED BY <1>3, <2>1, <2>2
<1>5. ASSUME NEW j \in Sids, Holding(cl2[j])
      PROVE  Fenced(D, P, cl2[j].token) /\ cl2[j].token # pd2.token
  <2>1. CASE j = k
    <3>1. Fenced(D, Q, c.token) /\ c.token # pd2.token
      BY <1>1, <1>5, <2>1 DEF Free
    <3>2. \A r \in P : r \in Q \/ r.op # "mutation_end" \/ r.token # c.token
      BY <1>1, <1>5, <2>1
    <3> QED BY <1>1, <1>3, <2>1, <3>1, <3>2
  <2>2. CASE j # k
    <3>1. cl2[j] = cl[j] /\ Holding(cl[j])
      BY <1>1, <1>5, <2>2
    <3>2. Fenced(D, Q, cl[j].token)
      BY <3>1 DEF Core, OwnersOK
    <3>3. \A t : Free(D, Q, cl, k, t) => cl[j].token # t
      BY <2>2, <3>1 DEF Free
    <3>4. Fenced(D, P, cl[j].token)
      BY <1>3, <3>2, <3>3
    <3>5. cl[j].token # pd2.token
      <4>1. CASE pd2 # NoEdit
        BY <3>3, <4>1
      <4>2. CASE pd2 = NoEdit
        BY <3>2, <4>2 DEF NoEdit, Fenced, Active, Core, DaemonOK, DaemonsUpTo, FencesUpTo
      <4> QED BY <4>1, <4>2
    <3> QED BY <3>1, <3>4, <3>5
  <2> QED BY <2>1, <2>2
<1>6. ASSUME NEW i \in Sids, NEW j \in Sids \ {i}, Holding(cl2[i]), Holding(cl2[j])
      PROVE  cl2[j].token # cl2[i].token
  <2>1. CASE i = k
    BY <1>1, <1>6, <2>1 DEF Free
  <2>2. CASE j = k
    BY <1>1, <1>6, <2>2 DEF Free
  <2>3. CASE i # k /\ j # k
    BY <1>1, <1>6, <2>3 DEF Core, OwnersOK
  <2> QED BY <2>1, <2>2, <2>3
<1>7. OwnersOK(D, P, pd2, cl2)
  BY <1>1, <1>4, <1>5, <1>6 DEF OwnersOK
<1> QED BY <1>2, <1>7 DEF Core, cl2

-----------------------------------------------------------------------------
(* The invariant in these terms *)

RunType ==
  [sid : {0} \cup Sids, at : {"begin", "agent", "cancel", "end", "close", "done"},
   completed : BOOLEAN]
ThreadType ==
  [at : {"start", "stream", "streamed", "exec", "aborting", "failed", "over"},
   step : 0..MaxSteps, cmd : Commands \cup {NoCommand}]

LateOK(l, n) == l \subseteq {r \in RequestsUpTo(n) : r.op \notin {"close", "refused"}}

\* What the invariant says of a state ...
LEMMA InvNow ==
  ASSUME AgentInv
  PROVE  /\ Core(daemon, Outstanding, pending, call, ran)
         /\ run \in RunType /\ thread \in [Sids -> ThreadType]
         /\ call \in [Sids -> CallsUpTo(daemon.begun)]
         /\ Line(route) /\ Queued(RequestsUpTo(daemon.begun), queue)
         /\ LateOK(late, daemon.begun) /\ lost \in 0..MaxLost /\ stopped \subseteq Sids
         /\ daemon.begun \in Nat
<1>1. Requests = RequestsUpTo(daemon.begun)
  BY DEF Requests, RequestsUpTo
<1>2. /\ run \in RunType /\ thread \in [Sids -> ThreadType]
      /\ call \in [Sids -> CallsUpTo(daemon.begun)] /\ pending \in EditsUpTo(daemon.begun)
      /\ route \in Seq(Sids) /\ IsInjective(route)
      /\ queue \in Seq(Requests) /\ \A i, j \in 1..Len(queue) : queue[i].by = queue[j].by => i = j
      /\ late \subseteq {r \in Requests : r.op \notin {"close", "refused"}}
      /\ lost \in 0..MaxLost /\ stopped \subseteq Sids
      /\ daemon.begun \in Nat /\ daemon \in DaemonsUpTo(daemon.begun)
      /\ ran \subseteq 1..daemon.begun
  BY DEF AgentInv, TypeOK, RunType, ThreadType, CallsUpTo, CallAts, CallKinds, EditsUpTo,
         DaemonsUpTo, FencesUpTo
<1>3. Line(route) /\ Queued(RequestsUpTo(daemon.begun), queue) /\ LateOK(late, daemon.begun)
  BY <1>1, <1>2, LineIs DEF Queued, LateOK
<1>4. DaemonOK(daemon) /\ ChainOK(daemon, ran)
  BY <1>2 DEF AgentInv, FencesTold, ChainFenced, DaemonOK, ChainOK, Active
<1>5. BooksOK(daemon, Outstanding, ran)
  <2>1. ToSet(queue) \subseteq Requests /\ Outstanding \subseteq Requests
    BY <1>2, InDomain DEF Outstanding
  <2> QED BY <1>1, <1>2, <2>1 DEF BooksOK, AgentInv, FencesTold
<1>6. OwnersOK(daemon, Outstanding, pending, call)
  BY <1>2 DEF AgentInv, OneOwner, OwnersOK, HasFence, Fenced, Active, Ending, Ended, HoldsFence, Holding
<1> QED BY <1>2, <1>3, <1>4, <1>5, <1>6 DEF Core

\* ... and what it takes to have it in the next.
LEMMA InvAgain ==
  ASSUME Core(daemon', Outstanding', pending', call', ran'),
         run' \in RunType, thread' \in [Sids -> ThreadType],
         Line(route'), Queued(RequestsUpTo(daemon'.begun), queue'),
         LateOK(late', daemon'.begun), lost' \in 0..MaxLost, stopped' \subseteq Sids,
         RequestsMatch', ThreadsInStep', RunsInOrder', Interrupted'
  PROVE  AgentInv'
<1>1. Requests' = RequestsUpTo(daemon'.begun)
  BY DEF Requests, RequestsUpTo
<1>2. /\ DaemonOK(daemon') /\ BooksOK(daemon', Outstanding', ran')
      /\ ChainOK(daemon', ran') /\ OwnersOK(daemon', Outstanding', pending', call')
  BY DEF Core
<1>3. TypeOK'
  <2>1. route' \in Seq(Sids) /\ IsInjective(route')
    BY LineIs DEF Line
  <2>2. /\ queue' \in Seq(Requests') /\ late' \subseteq {r \in Requests' : r.op \notin {"close", "refused"}}
        /\ \A i, j \in 1..Len(queue') : queue'[i].by = queue'[j].by => i = j
    BY <1>1 DEF Queued, LateOK
  <2>3. pending' \in EditsUpTo(daemon'.begun) /\ call' \in [Sids -> CallsUpTo(daemon'.begun)]
    BY <1>2 DEF OwnersOK
  <2>4. daemon'.begun \in Nat /\ daemon' \in DaemonsUpTo(daemon'.begun) /\ ran' \subseteq 1..daemon'.begun
    BY <1>2 DEF DaemonOK, BooksOK
  <2> QED
    BY <2>1, <2>2, <2>3, <2>4
    DEF TypeOK, RunType, ThreadType, CallsUpTo, CallAts, CallKinds, EditsUpTo, DaemonsUpTo, FencesUpTo
<1>4. ChainFenced'
  BY <1>2 DEF ChainFenced, ChainOK, Active
<1>5. FencesTold'
  BY <1>2 DEF FencesTold, DaemonOK, BooksOK
<1>6. OneOwner'
  BY <1>2 DEF OneOwner, OwnersOK, HasFence, Fenced, Active, Ending, Ended, HoldsFence, Holding
<1> QED BY <1>3, <1>4, <1>5, <1>6 DEF AgentInv

-----------------------------------------------------------------------------
(* The steps of a call.  q is the transport's queue without the call's own   *)
(* entry; what the step does to the daemon and to `late` has been done.      *)

Rest(q) == ToSet(q) \cup late'

CallStep(k, q) ==
  /\ AgentInv
  /\ k \in Sids /\ call[k].at # "none"
  /\ Queued(RequestsUpTo(daemon'.begun), q)
  /\ ToSet(q) \subseteq ToSet(queue) /\ \A x \in ToSet(q) : x.by # k
  /\ Core(daemon', Rest(q), pending, call, ran')
  /\ LateOK(late', daemon'.begun)
  /\ \A r \in late' : r \in Outstanding /\ (r.op = "begin" => r \in late)
  /\ lost' \in 0..MaxLost
  /\ run' = run
  /\ stopped' \in {stopped, stopped \ {k}}
  /\ run.sid \in Sids /\ Clean(daemon, run.sid) => Clean(daemon', run.sid)

\* A call that is to come to nothing does not go on otherwise, and one that is told so does not.
Proceeds(k, c) == Doomed(c) \/ (stopped' = stopped /\ ~Doomed(call[k]))

\* The call is c now, and waits for a request of its own if it waits for one.
CallMoves(k, q, c, th) ==
  /\ c \in CallsUpTo(daemon'.begun) /\ call' = [call EXCEPT ![k] = c]
  /\ th \in ThreadType /\ thread' = [thread EXCEPT ![k] = th]
  /\ th.at \in {"stream", "streamed", "exec", "aborting"} \/ c.at # "none" => th.step < MaxSteps
  /\ Line(route') /\ ToSet(route') \subseteq ToSet(route)
  /\ Queued(RequestsUpTo(daemon'.begun), queue')
  /\ \A x \in ToSet(queue') :
       \/ x \in ToSet(q)
       \/ /\ x.by = k /\ x.sid <= run.sid /\ c.at \in {a[1] : a \in Awaits}
          /\ x.op = "refused" \/ <<c.at, x.op>> \in Awaits
  /\ Core(daemon', Outstanding', pending', call', ran')
  /\ \/ c = NoCall /\ k \notin ToSet(route')
     \/ /\ c.at # "none" /\ c.kind = call[k].kind /\ c.cmd = call[k].cmd
        /\ c.at = "exec" => c.kind = "exec"
        /\ c.at = "lock" => ~c.cancelled
        /\ Proceeds(k, c)

\* A call that moves on in this way keeps the invariant.
LEMMA CallMovesKeeps ==
  ASSUME NEW k, NEW q, NEW c, NEW th, CallStep(k, q), CallMoves(k, q, c, th)
  PROVE  AgentInv'
<1>1. /\ run \in RunType /\ thread \in [Sids -> ThreadType]
      /\ call \in [Sids -> CallsUpTo(daemon.begun)] /\ stopped \subseteq Sids
      /\ RequestsMatch /\ ThreadsInStep /\ RunsInOrder /\ Interrupted
  BY InvNow DEF CallStep, AgentInv
<1>2. /\ k \in Sids /\ call[k].at # "none" /\ run' = run
      /\ call' = [call EXCEPT ![k] = c] /\ thread' = [thread EXCEPT ![k] = th]
      /\ ToSet(q) \subseteq ToSet(queue) /\ \A x \in ToSet(q) : x.by # k
  BY DEF CallStep, CallMoves
<1>3. call'[k] = c /\ \A j \in Sids \ {k} : call'[j] = call[j]
  BY <1>1, <1>2
<1>4. thread'[k] = th /\ \A j \in Sids \ {k} : thread'[j] = thread[j]
  BY <1>1, <1>2
<1>5. k # 0
  BY <1>2, LiveAgentAssumption
<1>6. RequestsMatch'
  <2> SUFFICES ASSUME NEW r \in ToSet(queue')
               PROVE  /\ r.by = 0 => r.sid = run.sid /\ <<run.at, r.op>> \in RunAwaits
                      /\ r.by # 0 => \E at \in {a[1] : a \in Awaits} :
                                       /\ call'[r.by].at = at
                                       /\ r.op = "refused" \/ <<at, r.op>> \in Awaits
    BY <1>2 DEF RequestsMatch
  <2>1. CASE r \in ToSet(q)
    <3>1. r \in ToSet(queue) /\ r.by # k /\ r.by \in {0} \cup Sids
      <4>1. r \in RequestsUpTo(daemon'.begun)
        BY <2>1, QueuedIn DEF CallStep
      <4> QED BY <1>2, <2>1, <4>1 DEF RequestsUpTo
    <3>2. r.by # 0 => call'[r.by] = call[r.by]
      BY <1>3, <3>1
    <3>3. /\ r.by = 0 => r.sid = run.sid /\ <<run.at, r.op>> \in RunAwaits
          /\ r.by # 0 => \E at \in {a[1] : a \in Awaits} :
                           /\ call[r.by].at = at
                           /\ r.op = "refused" \/ <<at, r.op>> \in Awaits
      BY <1>1, <3>1 DEF RequestsMatch
    <3> QED BY <3>2, <3>3
  <2>2. CASE /\ r.by = k /\ c.at \in {a[1] : a \in Awaits}
             /\ r.op = "refused" \/ <<c.at, r.op>> \in Awaits
    BY <1>3, <1>5, <2>2
  <2> QED BY <2>1, <2>2 DEF CallMoves
<1>7. ThreadsInStep'
  <2> SUFFICES ASSUME NEW j \in Sids
               PROVE  /\ thread'[j].at \in {"stream", "streamed", "exec", "aborting"} \/ call'[j].at # "none" =>
                           thread'[j].step < MaxSteps
                      /\ call'[j].at # "none" => call'[j].kind # "none"
                      /\ call'[j].at = "exec" => call'[j].kind = "exec"
                      /\ call'[j].kind = "delta" => call'[j].cmd \in Writes
                      /\ call'[j].at = "none" => j \notin ToSet(route')
    BY DEF ThreadsInStep
  <2>1. CASE j = k
    BY <1>1, <1>2, <1>3, <1>4, <2>1 DEF ThreadsInStep, CallMoves, NoCall
  <2>2. CASE j # k
    BY <1>1, <1>3, <1>4, <2>2 DEF ThreadsInStep, CallMoves
  <2> QED BY <2>1, <2>2
<1>8. Outstanding' = ToSet(queue') \cup late'
  BY DEF Outstanding
<1>9. RunsInOrder'
  <2>1. run.at # "done" => run.sid # 0
    BY <1>1 DEF RunsInOrder
  <2>2. \A j \in Sids : call'[j].at # "none" => j <= run.sid
    BY <1>1, <1>2, <1>3 DEF RunsInOrder
  <2>3. ASSUME NEW r \in Outstanding' PROVE r.sid <= run.sid
    <3>1. r \in Outstanding \/ r.sid <= run.sid
      BY <1>2, <1>8 DEF CallMoves, CallStep, Outstanding
    <3> QED BY <1>1, <3>1 DEF RunsInOrder
  <2>4. run.at = "begin" => ~run.completed /\ call'[run.sid].at = "none"
    <3>1. run.at = "begin" => run.sid # k /\ run.sid \in Sids
      BY <1>1, <1>2 DEF RunsInOrder, RunType
    <3> QED BY <1>1, <1>3, <3>1 DEF RunsInOrder
  <2>5. run.at \in {"begin", "agent"} \/ run.completed =>
          \A r \in late' : r.op = "begin" => r.sid # run.sid
    BY <1>1 DEF RunsInOrder, CallStep
  <2>6. run.at \in {"close", "done"} /\ run.completed =>
          run.sid \notin daemon'.sessions /\ \A f \in daemon'.fences : f.sid # run.sid
    <3> SUFFICES ASSUME run.at \in {"close", "done"}, run.completed PROVE Clean(daemon', run.sid)
      BY DEF Clean
    <3>1. Clean(daemon, run.sid)
      BY <1>1 DEF RunsInOrder, Clean
    <3>2. run.sid \in Sids
      <4>1. k <= run.sid
        BY <1>1, <1>2 DEF RunsInOrder
      <4> QED BY <1>1, <1>2, <4>1, LiveAgentAssumption DEF RunType
    <3> QED BY <3>1, <3>2 DEF CallStep
  <2> QED BY <1>2, <2>1, <2>2, <2>3, <2>4, <2>5, <2>6 DEF RunsInOrder
<1>10. Interrupted'
  <2>1. stopped' # {} => stopped' = {run.sid} /\ run.at \in {"cancel", "end"}
    BY <1>1 DEF CallStep, Interrupted
  <2>2. \A j \in Sids : call'[j].at = "lock" => ~call'[j].cancelled
    BY <1>1, <1>3 DEF CallMoves, Interrupted, NoCall
  <2>3. ASSUME NEW j \in Sids, call'[j].at # "none", j \notin stopped', ~(run.at = "agent" /\ j = run.sid)
        PROVE  Doomed(call'[j])
    <3>1. CASE j = k
      BY <1>1, <1>2, <1>3, <2>3, <3>1 DEF CallMoves, NoCall, Proceeds, Interrupted
    <3>2. CASE j # k
      BY <1>1, <1>3, <2>3, <3>2 DEF CallStep, Interrupted
    <3> QED BY <3>1, <3>2
  <2> QED BY <1>2, <2>1, <2>2, <2>3 DEF Interrupted, Doomed
<1>11. run' \in RunType /\ thread' \in [Sids -> ThreadType] /\ stopped' \subseteq Sids
  <2>1. th \in ThreadType
    BY DEF CallMoves
  <2>2. thread' \in [Sids -> ThreadType]
    BY <1>1, <1>2, <2>1
  <2>3. stopped' \subseteq Sids
    BY <1>1 DEF CallStep
  <2> QED BY <1>1, <1>2, <2>2, <2>3
<1> QED BY <1>6, <1>7, <1>9, <1>10, <1>11, InvAgain DEF CallStep, CallMoves

\* What k may hand on: the pending edit's token, its own or a new one.
Mine(k, q, t) == Free(daemon', Rest(q), call, k, t)

PendingMine(k, q) ==
  pending' \in EditsUpTo(daemon'.begun) /\ (pending' # NoEdit => Mine(k, q, pending'.token))

\* What is known of the call and its run.
LEMMA StepFacts ==
  ASSUME NEW k, NEW q, CallStep(k, q)
  PROVE  /\ daemon'.begun \in Nat /\ run.sid \in Sids /\ k \in Sids
         /\ call \in [Sids -> CallsUpTo(daemon'.begun)] /\ call[k] \in CallsUpTo(daemon'.begun)
         /\ pending \in EditsUpTo(daemon'.begun)
         /\ thread \in [Sids -> ThreadType] /\ thread[k].step < MaxSteps
         /\ call[k].at # "none" /\ call[k].kind # "none"
         /\ call[k].at = "exec" => call[k].kind = "exec"
         /\ call[k].kind = "delta" => call[k].cmd \in Writes
         /\ call[k].at = "lock" => ~call[k].cancelled
         /\ Line(route) /\ ToSet(q) \subseteq RequestsUpTo(daemon'.begun)
         /\ Rest(q) \subseteq RequestsUpTo(daemon'.begun)
         /\ pending # NoEdit => Mine(k, q, pending.token)
         /\ Holding(call[k]) => Mine(k, q, call[k].token) /\ call[k].token # pending.token
         /\ \A t : Mine(k, q, t) => t \in 1..daemon'.begun
<1>1. Core(daemon', Rest(q), pending, call, ran') /\ k \in Sids /\ call[k].at # "none" /\ AgentInv
  BY DEF CallStep
<1>2. /\ daemon'.begun \in Nat /\ pending \in EditsUpTo(daemon'.begun)
      /\ call \in [Sids -> CallsUpTo(daemon'.begun)] /\ Rest(q) \subseteq RequestsUpTo(daemon'.begun)
  BY <1>1 DEF Core, DaemonOK, BooksOK, OwnersOK
<1>3. /\ thread \in [Sids -> ThreadType] /\ Line(route) /\ run \in RunType
      /\ ThreadsInStep /\ RunsInOrder /\ Interrupted
  BY <1>1, InvNow DEF AgentInv
<1>4. run.sid \in Sids
  BY <1>1, <1>3, LiveAgentAssumption DEF RunsInOrder, RunType
<1>5. /\ pending # NoEdit => Mine(k, q, pending.token)
      /\ Holding(call[k]) => Mine(k, q, call[k].token) /\ call[k].token # pending.token
      /\ \A t : Mine(k, q, t) => t \in 1..daemon'.begun
  BY <1>1, FreeTokens DEF Mine
<1>6. ToSet(q) \subseteq RequestsUpTo(daemon'.begun)
  BY QueuedIn DEF CallStep
<1>7. /\ thread[k].step < MaxSteps /\ call[k].kind # "none"
      /\ call[k].at = "exec" => call[k].kind = "exec"
      /\ call[k].kind = "delta" => call[k].cmd \in Writes
      /\ call[k].at = "lock" => ~call[k].cancelled
  BY <1>1, <1>3 DEF ThreadsInStep, Interrupted
<1> QED BY <1>1, <1>2, <1>3, <1>4, <1>5, <1>6, <1>7

\* A call that goes to an await on a request.
LEMMA AwaitKeeps ==
  ASSUME NEW k, NEW q, CallStep(k, q), PendingMine(k, q),
         NEW c \in CallsUpTo(daemon'.begun), NEW op, NEW token \in 0..daemon'.begun,
         NEW write \in Writes \cup {NoWrite}, NEW success \in BOOLEAN,
         Await(k, c, q, op, token, write, success),
         <<c.at, op>> \in Awaits, c.kind = call[k].kind, c.cmd = call[k].cmd,
         Proceeds(k, [c EXCEPT !.cancelled = FALSE]),
         Holding(c) => Mine(k, q, c.token) /\ c.token # pending'.token,
         op = "mutation_end" =>
           Mine(k, q, token) /\ token # pending'.token /\ ~Holding(c) /\ (success => token \in ran')
  PROVE  AgentInv'
<1> DEFINE c1 == [c EXCEPT !.cancelled = FALSE]
           r == Request(k, op, run.sid, token, write, success)
           n == daemon'.begun
           P == Rest(q) \cup {r}
<1>1. /\ k \in Sids /\ run.sid \in Sids /\ thread \in [Sids -> ThreadType] /\ thread[k].step < MaxSteps
      /\ Line(route) /\ Rest(q) \subseteq RequestsUpTo(n)
  BY StepFacts
<1>2. /\ c1 \in CallsUpTo(n) /\ c1.at = c.at /\ c1.kind = c.kind /\ c1.cmd = c.cmd
      /\ c1.token = c.token /\ (Holding(c1) <=> Holding(c))
  BY DEF CallsUpTo, Holding
<1>3. c.at \notin {"none", "exec", "lock"} /\ op \in Ops
  BY DEF Awaits, Ops
<1>4. /\ r \in RequestsUpTo(n) /\ r.by = k /\ r.sid = run.sid /\ r.op = op
      /\ r.token = token /\ r.success = success
  BY <1>1, <1>3 DEF Request, RequestsUpTo
<1>5. call' = [call EXCEPT ![k] = c1] /\ queue' = Append(q, r) /\ thread' = thread /\ route' = route
  BY DEF Await
<1> HIDE DEF c1, r
<1>6. /\ Queued(RequestsUpTo(n), queue')
      /\ ToSet(queue') = ToSet(q) \cup {r}
  <2>1. Queued(RequestsUpTo(n), q) /\ \A x \in ToSet(q) : x.by # r.by
    BY <1>4 DEF CallStep
  <2> QED BY <1>4, <1>5, <2>1, QueuedAppend
<1>7. Outstanding' = P
  BY <1>6 DEF Outstanding, Rest
<1>8. Core(daemon', P, pending', [call EXCEPT ![k] = c1], ran')
  <2>1. Core(daemon', Rest(q), pending, call, ran')
    BY DEF CallStep
  <2>2. P \subseteq RequestsUpTo(n)
    BY <1>1, <1>4
  <2>3. /\ pending' \in EditsUpTo(n)
        /\ pending' # NoEdit => Free(daemon', Rest(q), call, k, pending'.token)
    BY DEF PendingMine, Mine
  <2>4. Holding(c1) => Free(daemon', Rest(q), call, k, c1.token) /\ c1.token # pending'.token
    BY <1>2 DEF Mine
  <2>5. \A x \in P : \/ x \in Rest(q) \/ x.op # "mutation_end"
                     \/ /\ Free(daemon', Rest(q), call, k, x.token) /\ x.token # pending'.token
                        /\ Holding(c1) => x.token # c1.token
                        /\ x.success => x.token \in ran'
    BY <1>2, <1>4 DEF Mine
  <2> HIDE DEF P
  <2> QED BY <1>1, <1>2, <2>1, <2>2, <2>3, <2>4, <2>5, CoreMove
<1>9. CallMoves(k, q, c1, thread[k])
  <2>1. thread' = [thread EXCEPT ![k] = thread[k]] /\ thread[k] \in ThreadType
    BY <1>1, <1>5
  <2>2. Core(daemon', Outstanding', pending', call', ran')
    BY <1>5, <1>7, <1>8
  <2>3. Proceeds(k, c1)
    BY DEF c1
  <2>4. r.sid <= run.sid /\ c1.at \in {a[1] : a \in Awaits} /\ <<c1.at, r.op>> \in Awaits
    <3>1. <<c1.at, r.op>> \in Awaits
      BY <1>2, <1>4
    <3> QED BY <1>1, <1>4, <3>1, LiveAgentAssumption DEF Awaits
  <2> QED BY <1>1, <1>2, <1>3, <1>4, <1>5, <1>6, <2>1, <2>2, <2>3, <2>4 DEF CallMoves
<1> QED BY <1>9, CallMovesKeeps

\* The model thread goes on in its step, or to the next one.
LEMMA AfterType ==
  ASSUME NEW th \in ThreadType, th.step < MaxSteps, NEW kind \in CallKinds \ {"none"}, NEW ok \in BOOLEAN
  PROVE  LET t == After(th, kind, ok)
         IN  /\ t \in ThreadType
             /\ t.at \in {"stream", "streamed", "exec", "aborting"} => t.step < MaxSteps
<1> DEFINE next == CASE ~ok /\ kind \notin {"exec", "abort"} -> "aborting"
                     [] kind = "abort" \/ (~ok /\ kind = "exec") -> "failed"
                     [] ok /\ kind = "start" -> "stream"
                     [] ok /\ kind = "delta" -> "streamed"
                     [] ok /\ kind = "end" -> IF th.cmd = NoCommand THEN "over" ELSE "exec"
                     [] ok /\ kind = "exec" -> "start"
           t == [th EXCEPT !.at = next, !.step = IF next = "start" THEN @ + 1 ELSE @]
<1>1. next \in {"start", "stream", "streamed", "exec", "aborting", "failed", "over"}
  BY DEF CallKinds
<1>2. After(th, kind, ok) = t
  BY DEF After
<1> HIDE DEF next
<1>3. th.step \in 0..MaxSteps /\ MaxSteps \in Nat
  BY LiveAgentAssumption DEF ThreadType
<1>4. t.at = next /\ t.step = IF next = "start" THEN th.step + 1 ELSE th.step
  BY DEF ThreadType
<1>5. t \in ThreadType
  <2>1. (IF next = "start" THEN th.step + 1 ELSE th.step) \in 0..MaxSteps
    BY <1>3
  <2> QED BY <1>1, <2>1 DEF ThreadType
<1> QED BY <1>2, <1>4, <1>5

\* A call that ends.
LEMMA LeaveKeeps ==
  ASSUME NEW k, NEW q, CallStep(k, q), PendingMine(k, q), NEW ok \in BOOLEAN, Leave(k, ok, q)
  PROVE  AgentInv'
<1> DEFINE th == After(thread[k], call[k].kind, ok)
           n == daemon'.begun
<1>1. /\ k \in Sids /\ n \in Nat /\ thread \in [Sids -> ThreadType] /\ thread[k].step < MaxSteps
      /\ call[k].kind \in CallKinds \ {"none"} /\ Line(route)
      /\ Rest(q) \subseteq RequestsUpTo(n)
  BY StepFacts DEF CallsUpTo
<1>2. th \in ThreadType /\ (th.at \in {"stream", "streamed", "exec", "aborting"} => th.step < MaxSteps)
  BY <1>1, AfterType
<1> HIDE DEF th
<1>3. /\ call' = [call EXCEPT ![k] = NoCall] /\ queue' = q
      /\ route' = Unlocked(k) /\ thread' = [thread EXCEPT ![k] = th]
  <2>1. thread' = [thread EXCEPT ![k] = After(@, call[k].kind, ok)]
    BY DEF Leave
  <2>2. thread' = [thread EXCEPT ![k] = th]
    BY <1>1, <2>1 DEF th
  <2> QED BY <2>2 DEF Leave
<1>4. Line(route') /\ ToSet(route') \subseteq ToSet(route) /\ k \notin ToSet(route')
  <2>1. Line(Unlocked(k)) /\ ToSet(Unlocked(k)) \subseteq ToSet(route) \ {k}
    <3>1. Line(route)
      BY <1>1
    <3> QED BY <3>1, LineLeave DEF Unlocked
  <2> QED BY <1>3, <2>1
<1>5. NoCall \in CallsUpTo(n) /\ ~Holding(NoCall) /\ NoCall.at = "none"
  BY <1>1 DEF NoCall, CallsUpTo, CallAts, CallKinds, Holding
<1>6. Outstanding' = Rest(q)
  BY <1>3 DEF Outstanding, Rest
<1>7. Core(daemon', Rest(q), pending', [call EXCEPT ![k] = NoCall], ran')
  <2>1. Core(daemon', Rest(q), pending, call, ran')
    BY DEF CallStep
  <2>2. /\ pending' \in EditsUpTo(n)
        /\ pending' # NoEdit => Free(daemon', Rest(q), call, k, pending'.token)
    BY DEF PendingMine, Mine
  <2> HIDE DEF n
  <2> QED BY <1>1, <1>5, <2>1, <2>2, CoreMove DEF n
<1>8. CallMoves(k, q, NoCall, th)
  <2>1. Queued(RequestsUpTo(n), queue')
    BY <1>3 DEF CallStep
  <2>2. Core(daemon', Outstanding', pending', call', ran')
    BY <1>3, <1>6, <1>7
  <2> QED BY <1>2, <1>3, <1>4, <1>5, <2>1, <2>2 DEF CallMoves
<1> QED BY <1>8, CallMovesKeeps

\* A call that starts its command, behind a token of its own.
LEMMA ExecuteKeeps ==
  ASSUME NEW k, NEW q, CallStep(k, q), PendingMine(k, q), NEW token,
         Execute(k, token, q), call[k].kind = "exec", stopped' = stopped, ~Doomed(call[k]),
         Mine(k, q, token), token # pending'.token
  PROVE  AgentInv'
<1> DEFINE c == [call[k] EXCEPT !.at = "exec", !.token = token]
           n == daemon'.begun
<1>1. /\ k \in Sids /\ n \in Nat /\ thread \in [Sids -> ThreadType] /\ thread[k].step < MaxSteps
      /\ call \in [Sids -> CallsUpTo(n)] /\ call[k] \in CallsUpTo(n) /\ Line(route)
      /\ Rest(q) \subseteq RequestsUpTo(n) /\ token \in 1..n
  BY StepFacts
<1>2. /\ c \in CallsUpTo(n) /\ c.at = "exec" /\ c.kind = "exec" /\ c.cmd = call[k].cmd
      /\ c.token = token
  <2>1. token \in 0..n
    BY <1>1
  <2> QED BY <1>1, <2>1 DEF CallsUpTo, CallAts
<1>3. call' = [call EXCEPT ![k] = c] /\ queue' = q /\ thread' = thread /\ route' = route
  BY <1>1 DEF Execute
<1>4. Proceeds(k, c)
  BY DEF Proceeds
<1> HIDE DEF c
<1>5. Outstanding' = Rest(q)
  BY <1>3 DEF Outstanding, Rest
<1>6. Core(daemon', Rest(q), pending', [call EXCEPT ![k] = c], ran')
  <2>1. Core(daemon', Rest(q), pending, call, ran')
    BY DEF CallStep
  <2>2. /\ pending' \in EditsUpTo(n)
        /\ pending' # NoEdit => Free(daemon', Rest(q), call, k, pending'.token)
    BY DEF PendingMine, Mine
  <2>3. Free(daemon', Rest(q), call, k, c.token) /\ c.token # pending'.token
    BY <1>2 DEF Mine
  <2> HIDE DEF n
  <2> QED BY <1>1, <1>2, <2>1, <2>2, <2>3, CoreMove DEF n
<1>7. CallMoves(k, q, c, thread[k])
  <2>1. Queued(RequestsUpTo(n), queue')
    BY <1>3 DEF CallStep
  <2>2. Core(daemon', Outstanding', pending', call', ran')
    BY <1>3, <1>5, <1>6
  <2>3. thread' = [thread EXCEPT ![k] = thread[k]] /\ thread[k] \in ThreadType
    BY <1>1, <1>3
  <2> QED BY <1>1, <1>2, <1>3, <1>4, <2>1, <2>2, <2>3 DEF CallMoves
<1> QED BY <1>7, CallMovesKeeps

-----------------------------------------------------------------------------
(* The parts of coroutines *)

\* An edit that stays pending, or goes.
LEMMA SamePending ==
  ASSUME NEW k, NEW q, CallStep(k, q), pending' = pending \/ pending' = NoEdit
  PROVE  PendingMine(k, q)
<1>1. NoEdit \in EditsUpTo(daemon'.begun)
  BY StepFacts DEF NoEdit, EditsUpTo
<1> QED BY <1>1, StepFacts DEF PendingMine

\* _cancel_pending_edit: the token goes to the request that ends it.
LEMMA CancelPendingKeeps ==
  ASSUME NEW k, NEW q, CallStep(k, q), NEW at \in {"cancel", "unfeed"}, pending # NoEdit,
         CancelPending(k, at, q),
         at = "unfeed" \/ (stopped' = stopped /\ ~Doomed(call[k]))
  PROVE  AgentInv'
<1> DEFINE c == [call[k] EXCEPT !.at = at]
<1>1. pending' = NoEdit /\ Await(k, c, q, "mutation_end", pending.token, NoWrite, FALSE)
  BY DEF CancelPending
<1>2. /\ call[k] \in CallsUpTo(daemon'.begun) /\ Mine(k, q, pending.token)
      /\ pending.token \in 0..daemon'.begun /\ pending.token # 0
  BY StepFacts
<1>3. /\ c \in CallsUpTo(daemon'.begun) /\ c.at = at /\ c.kind = call[k].kind /\ c.cmd = call[k].cmd
      /\ ~Holding(c) /\ <<c.at, "mutation_end">> \in Awaits
  BY <1>2 DEF CallsUpTo, CallAts, Holding, Awaits
<1>4. Proceeds(k, [c EXCEPT !.cancelled = FALSE])
  <2>1. [c EXCEPT !.cancelled = FALSE].at = at
    BY <1>3 DEF CallsUpTo
  <2> QED BY <2>1 DEF Proceeds, Doomed
<1>5. PendingMine(k, q)
  BY <1>1, SamePending
<1>6. pending.token # pending'.token
  BY <1>1, <1>2 DEF NoEdit
<1> HIDE DEF c
<1> QED BY <1>1, <1>2, <1>3, <1>4, <1>5, <1>6, AwaitKeeps

\* A wait for a request that ends nothing, by a call that holds no fence while it waits.
LEMMA PlainAwaitKeeps ==
  ASSUME NEW k, NEW q, CallStep(k, q), PendingMine(k, q),
         stopped' = stopped, ~Doomed(call[k]),
         NEW at, NEW op, <<at, op>> \in Awaits, op # "mutation_end", at # "feed" \/ call[k].kind # "exec",
         NEW token \in 0..daemon'.begun, NEW write \in Writes \cup {NoWrite},
         Await(k, [call[k] EXCEPT !.at = at], q, op, token, write, FALSE)
  PROVE  AgentInv'
<1> DEFINE c == [call[k] EXCEPT !.at = at]
<1>1. call[k] \in CallsUpTo(daemon'.begun)
  BY StepFacts
<1>2. /\ c \in CallsUpTo(daemon'.begun) /\ c.at = at /\ c.kind = call[k].kind /\ c.cmd = call[k].cmd
      /\ ~Holding(c) /\ <<c.at, op>> \in Awaits
  BY <1>1 DEF CallsUpTo, CallAts, Holding, Awaits
<1>3. Proceeds(k, [c EXCEPT !.cancelled = FALSE])
  BY DEF Proceeds
<1> HIDE DEF c
<1>4. Await(k, c, q, op, token, write, FALSE)
  BY DEF c
<1> QED BY <1>2, <1>3, <1>4, AwaitKeeps

\* _authoritative, asking for a fence.
LEMMA BeginMutationKeeps ==
  ASSUME NEW k, NEW q, CallStep(k, q), stopped' = stopped, ~Doomed(call[k]), BeginMutation(k, q)
  PROVE  AgentInv'
<1> DEFINE w == IF call[k].cmd \in Writes THEN call[k].cmd ELSE NoWrite
<1>1. /\ Await(k, [call[k] EXCEPT !.at = "begin"], q, "mutation_begin", 0, w, FALSE)
      /\ pending' = pending
  BY DEF BeginMutation
<1>2. w \in Writes \cup {NoWrite} /\ 0 \in 0..daemon'.begun
  BY StepFacts
<1>3. <<"begin", "mutation_begin">> \in Awaits
  BY DEF Awaits
<1> HIDE DEF w
<1> QED BY <1>1, <1>2, <1>3, SamePending, PlainAwaitKeeps

\* _route_one: the pending edit's token goes to the command.
LEMMA RouteOneKeeps ==
  ASSUME NEW k, NEW q, CallStep(k, q), stopped' = stopped, ~Doomed(call[k]),
         call[k].kind = "exec", RouteOne(k, q)
  PROVE  AgentInv'
<1>1. CASE pending # NoEdit /\ Execute(k, pending.token, q) /\ pending' = NoEdit
  <2>1. Mine(k, q, pending.token) /\ pending.token # 0
    BY <1>1, StepFacts
  <2>2. pending.token # pending'.token
    BY <1>1, <2>1 DEF NoEdit
  <2> QED BY <1>1, <2>1, <2>2, SamePending, ExecuteKeeps
<1>2. CASE BeginMutation(k, q)
  BY <1>2, BeginMutationKeeps
<1>3. CASE /\ Await(k, [call[k] EXCEPT !.at = "resolve"], q, "resolve", 0, NoWrite, FALSE)
           /\ UNCHANGED pending
  <2>1. 0 \in 0..daemon'.begun /\ <<"resolve", "resolve">> \in Awaits
    BY StepFacts DEF Awaits
  <2> QED BY <1>3, <2>1, SamePending, PlainAwaitKeeps
<1> QED BY <1>1, <1>2, <1>3 DEF RouteOne

\* An exception or the cancellation at an await.
LEMMA ThrowKeeps ==
  ASSUME NEW k, NEW q, CallStep(k, q), Throw(k, q)
  PROVE  AgentInv'
<1> DEFINE c == [call[k] EXCEPT !.at = "finish", !.failed = TRUE]
<1>1. CASE pending # NoEdit /\ CancelPending(k, "unfeed", q)
  BY <1>1, CancelPendingKeeps
<1>2. CASE /\ call[k].kind = "exec" /\ call[k].at \in {"feed", "exec"} /\ UNCHANGED pending
           /\ Await(k, c, q, "mutation_end", call[k].token, NoWrite, FALSE)
  <2>1. /\ call[k] \in CallsUpTo(daemon'.begun) /\ Holding(call[k])
        /\ Mine(k, q, call[k].token) /\ call[k].token # pending'.token
    BY <1>2, StepFacts DEF Holding
  <2>2. /\ c \in CallsUpTo(daemon'.begun) /\ c.at = "finish" /\ c.kind = call[k].kind
        /\ c.cmd = call[k].cmd /\ ~Holding(c) /\ <<c.at, "mutation_end">> \in Awaits /\ c.failed
    BY <2>1 DEF CallsUpTo, CallAts, Holding, Awaits
  <2>3. Proceeds(k, [c EXCEPT !.cancelled = FALSE])
    <3>1. [c EXCEPT !.cancelled = FALSE].at = "finish" /\ [c EXCEPT !.cancelled = FALSE].failed
      BY <2>2 DEF CallsUpTo
    <3> QED BY <3>1 DEF Proceeds, Doomed
  <2>4. call[k].token \in 0..daemon'.begun
    BY <2>1 DEF CallsUpTo
  <2> HIDE DEF c
  <2> QED BY <1>2, <2>1, <2>2, <2>3, <2>4, SamePending, AwaitKeeps
<1>3. CASE Leave(k, FALSE, q) /\ UNCHANGED pending
  BY <1>3, SamePending, LeaveKeeps
<1> QED BY <1>1, <1>2, <1>3 DEF Throw

\* The answer to the call's own request: a new mutation's token is the call's to keep.
Answers(k, q, val) ==
  /\ stopped' = stopped /\ ~call[k].cancelled
  /\ call[k].at \in {a[1] : a \in Awaits}
  /\ call[k].at = "begin" => Mine(k, q, val) /\ val # pending.token

\* Going on with the answer.
LEMMA ResumeKeeps ==
  ASSUME NEW k, NEW q, NEW val, CallStep(k, q), Answers(k, q, val), Resume(k, val, q)
  PROVE  AgentInv'
<1> DEFINE c == call[k]
           n == daemon'.begun
<1>1. /\ c \in CallsUpTo(n) /\ n \in Nat /\ (c.kind = "delta" => c.cmd \in Writes)
      /\ stopped' = stopped /\ ~c.cancelled
      /\ Holding(c) => Mine(k, q, c.token) /\ c.token # pending.token
  BY StepFacts DEF Answers
<1>2. c.token \in 0..n /\ 0 \in 0..n
  BY <1>1 DEF CallsUpTo
<1>3. c.at = "begin" => Mine(k, q, val) /\ val \in 1..n /\ val \in 0..n /\ val # pending.token
  BY StepFacts DEF Answers
<1>4. c.at \notin {"unfeed", "finish"} => ~Doomed(c)
  BY <1>1 DEF Doomed
<1>5. c.at = "finish" /\ ~c.failed => ~Doomed(c)
  BY <1>1 DEF Doomed
<1>6. \A a \in {<<"feed", "feed">>, <<"chain", "resolve">>, <<"report", "report">>} : a \in Awaits
  BY DEF Awaits
<1>7. CASE /\ c.kind = "delta" /\ c.at = "begin"
           /\ pending' = [token |-> val, write |-> c.cmd, confirmed |-> FALSE]
           /\ Await(k, [c EXCEPT !.at = "feed"], q, "feed", val, c.cmd, FALSE)
  <2>1. PendingMine(k, q)
    BY <1>1, <1>3, <1>7 DEF PendingMine, EditsUpTo
  <2> QED BY <1>1, <1>3, <1>4, <1>6, <1>7, <2>1, PlainAwaitKeeps
<1>8. CASE (\E ok \in BOOLEAN : Leave(k, ok, q)) /\ UNCHANGED pending
  BY <1>8, SamePending, LeaveKeeps
<1>9. CASE c.kind = "exec" /\ c.at = "cancel" /\ RouteOne(k, q)
  BY <1>1, <1>4, <1>9, RouteOneKeeps
<1>10. CASE c.at = "resolve" /\ BeginMutation(k, q)
  BY <1>1, <1>4, <1>10, BeginMutationKeeps
<1>11. CASE /\ c.kind = "exec" /\ c.at = "begin" /\ c.cmd \in Writes
            /\ Await(k, [c EXCEPT !.at = "feed", !.token = val], q, "feed", val, c.cmd, FALSE)
            /\ UNCHANGED pending
  <2> DEFINE d == [c EXCEPT !.at = "feed", !.token = val]
  <2>1. /\ d \in CallsUpTo(n) /\ d.at = "feed" /\ d.kind = c.kind /\ d.cmd = c.cmd /\ d.token = val
    BY <1>1, <1>3, <1>11 DEF CallsUpTo, CallAts
  <2>2. Proceeds(k, [d EXCEPT !.cancelled = FALSE])
    BY <1>1, <1>4, <1>11 DEF Proceeds
  <2> HIDE DEF d
  <2>3. Await(k, d, q, "feed", val, c.cmd, FALSE)
    BY <1>11 DEF d
  <2> QED BY <1>1, <1>3, <1>6, <1>11, <2>1, <2>2, <2>3, SamePending, AwaitKeeps
<1>12. CASE c.kind = "exec" /\ c.at = "begin" /\ Execute(k, val, q) /\ UNCHANGED pending
  BY <1>1, <1>3, <1>4, <1>12, SamePending, ExecuteKeeps
<1>13. CASE c.kind = "exec" /\ c.at = "feed" /\ Execute(k, c.token, q) /\ UNCHANGED pending
  <2>1. Holding(c)
    BY <1>13 DEF Holding
  <2> QED BY <1>1, <1>4, <1>13, <2>1, SamePending, ExecuteKeeps
<1>14. CASE /\ c.at = "finish" /\ ~c.failed /\ UNCHANGED pending
            /\ Await(k, [c EXCEPT !.at = "chain"], q, "resolve", 0, NoWrite, FALSE)
  BY <1>1, <1>2, <1>5, <1>6, <1>14, SamePending, PlainAwaitKeeps
<1>15. CASE /\ c.at = "chain" \/ (c.at = "finish" /\ ~c.failed)
            /\ UNCHANGED pending
            /\ Await(k, [c EXCEPT !.at = "report"], q, "report", c.token, NoWrite, FALSE)
  BY <1>1, <1>2, <1>4, <1>5, <1>6, <1>15, SamePending, PlainAwaitKeeps
<1> HIDE DEF n
<1> QED
  BY <1>7, <1>8, <1>9, <1>10, <1>11, <1>12, <1>13, <1>14, <1>15 DEF Resume

-----------------------------------------------------------------------------
(* The actions of a call *)

\* A call that waits for a lock or runs its command has no request in the queue.
LEMMA HereStep ==
  ASSUME AgentInv, NEW k \in Sids, call[k].at \in {"lock", "exec"},
         UNCHANGED <<run, stopped, late, lost, daemon>>,
         Core(daemon, Outstanding, pending, call, ran')
  PROVE  CallStep(k, queue)
<1>1. /\ Queued(RequestsUpTo(daemon.begun), queue) /\ LateOK(late, daemon.begun) /\ lost \in 0..MaxLost
      /\ RequestsMatch
  BY InvNow DEF AgentInv
<1>2. ASSUME NEW x \in ToSet(queue) PROVE x.by # k
  <2>1. k # 0 /\ call[k].at \notin {a[1] : a \in Awaits}
    BY LiveAgentAssumption DEF Awaits
  <2> QED BY <1>1, <2>1 DEF RequestsMatch
<1>3. Rest(queue) = Outstanding
  BY DEF Rest, Outstanding
<1> QED BY <1>1, <1>2, <1>3 DEF CallStep, Outstanding

\* _stream_event, once it has the route lock.
LEMMA StreamEventKeeps ==
  ASSUME AgentInv, NEW k \in Sids, StreamEvent(k)
  PROVE  AgentInv'
<1>1. /\ call[k].at = "lock" /\ UNCHANGED <<run, stopped, late, lost, daemon, ran>>
  BY DEF StreamEvent, Holds
<1>2. CallStep(k, queue)
  BY <1>1, InvNow, HereStep
<1>3. stopped' = stopped /\ ~Doomed(call[k])
  BY <1>1, <1>2, StepFacts DEF Doomed
<1>4. CASE pending # NoEdit /\ CancelPending(k, "cancel", queue)
  BY <1>2, <1>3, <1>4, CancelPendingKeeps
<1>5. CASE /\ pending # NoEdit /\ pending' = [pending EXCEPT !.confirmed = TRUE]
           /\ Leave(k, TRUE, queue)
  <2>1. pending \in EditsUpTo(daemon'.begun) /\ Mine(k, queue, pending.token)
    BY <1>2, <1>5, StepFacts
  <2>2. pending' \in EditsUpTo(daemon'.begun) /\ pending'.token = pending.token
    BY <1>5, <2>1 DEF EditsUpTo
  <2>3. PendingMine(k, queue)
    BY <2>1, <2>2 DEF PendingMine
  <2> QED BY <1>2, <1>5, <2>3, LeaveKeeps
<1>6. CASE /\ call[k].kind = "delta" /\ UNCHANGED pending
           /\ Await(k, [call[k] EXCEPT !.at = "begin"], queue, "mutation_begin", 0, call[k].cmd, FALSE)
  <2>1. <<"begin", "mutation_begin">> \in Awaits
    BY DEF Awaits
  <2>2. call[k].cmd \in Writes /\ 0 \in 0..daemon'.begun
    BY <1>2, <1>6, StepFacts
  <2> QED BY <1>2, <1>3, <1>6, <2>1, <2>2, SamePending, PlainAwaitKeeps
<1>7. CASE Leave(k, TRUE, queue) /\ UNCHANGED pending
  BY <1>2, <1>7, SamePending, LeaveKeeps
<1> QED BY <1>4, <1>5, <1>6, <1>7 DEF StreamEvent

\* _route, once it has the route lock.
LEMMA RouteKeeps ==
  ASSUME AgentInv, NEW k \in Sids, Route(k)
  PROVE  AgentInv'
<1>1. /\ call[k].at = "lock" /\ call[k].kind = "exec"
      /\ UNCHANGED <<run, stopped, late, lost, daemon, ran>>
  BY DEF Route, Holds
<1>2. CallStep(k, queue)
  BY <1>1, InvNow, HereStep
<1>3. stopped' = stopped /\ ~Doomed(call[k])
  BY <1>1, <1>2, StepFacts DEF Doomed
<1>4. CASE pending # NoEdit /\ CancelPending(k, "cancel", queue)
  BY <1>2, <1>3, <1>4, CancelPendingKeeps
<1>5. CASE RouteOne(k, queue)
  BY <1>1, <1>2, <1>3, <1>5, RouteOneKeeps
<1> QED BY <1>4, <1>5 DEF Route

\* The command of a call ends: its token goes to the request that ends the fence.
LEMMA ExecEndsKeeps ==
  ASSUME AgentInv, NEW k \in Sids, ExecEnds(k)
  PROVE  AgentInv'
<1> DEFINE c == [call[k] EXCEPT !.at = "finish"]
           n == daemon.begun
<1>1. call[k].at = "exec" /\ UNCHANGED <<run, stopped, late, lost, daemon>>
  BY DEF ExecEnds
<1>2. CASE Throw(k, queue) /\ UNCHANGED ran
  BY <1>1, <1>2, InvNow, HereStep, ThrowKeeps
<1>3. ASSUME NEW success \in BOOLEAN, ~call[k].cancelled,
             ran' = IF success THEN ran \cup {call[k].token} ELSE ran,
             Await(k, c, queue, "mutation_end", call[k].token, NoWrite, success),
             UNCHANGED pending
      PROVE  AgentInv'
  <2>1. Core(daemon, Outstanding, pending, call, ran) /\ call \in [Sids -> CallsUpTo(n)] /\ ThreadsInStep
    BY InvNow DEF AgentInv
  <2>2. call[k].kind = "exec" /\ Holding(call[k])
    BY <1>1, <2>1 DEF ThreadsInStep, Holding
  <2>3. call[k].token \in 1..n
    BY <2>1, <2>2, FreeTokens
  <2>4. Core(daemon, Outstanding, pending, call, ran')
    BY <1>3, <2>1, <2>3, CoreRan
  <2>5. CallStep(k, queue)
    BY <1>1, <2>4, HereStep
  <2>6. /\ call[k] \in CallsUpTo(daemon'.begun)
        /\ Mine(k, queue, call[k].token) /\ call[k].token # pending'.token
    BY <1>3, <2>2, <2>5, StepFacts
  <2>7. /\ c \in CallsUpTo(daemon'.begun) /\ c.at = "finish" /\ c.kind = call[k].kind
        /\ c.cmd = call[k].cmd /\ ~Holding(c) /\ <<c.at, "mutation_end">> \in Awaits
    BY <2>6 DEF CallsUpTo, CallAts, Holding, Awaits
  <2>8. Proceeds(k, [c EXCEPT !.cancelled = FALSE])
    BY <1>1, <1>3 DEF Proceeds, Doomed
  <2>9. call[k].token \in 0..daemon'.begun /\ (success => call[k].token \in ran')
    BY <1>3, <2>6 DEF CallsUpTo
  <2> HIDE DEF c
  <2> QED BY <1>3, <2>5, <2>6, <2>7, <2>8, <2>9, SamePending, AwaitKeeps
<1> QED BY <1>1, <1>2, <1>3 DEF ExecEnds

\* The head of the queue is the request of a call.
LEMMA HeadIs ==
  ASSUME AgentInv, queue # << >>, NEW k \in Sids, Head(queue).by = k
  PROVE  /\ Head(queue) \in Outstanding
         /\ call[k].at # "none" /\ call[k].at \in {a[1] : a \in Awaits}
         /\ Head(queue).op = "refused" \/ <<call[k].at, Head(queue).op>> \in Awaits
         /\ Head(queue).op \notin {"close", "begin"}
         /\ Queued(RequestsUpTo(daemon.begun), Tail(queue))
         /\ ToSet(Tail(queue)) \subseteq ToSet(queue) /\ \A x \in ToSet(Tail(queue)) : x.by # k
<1>1. Queued(RequestsUpTo(daemon.begun), queue) /\ RequestsMatch
  BY InvNow DEF AgentInv
<1>2. /\ Queued(RequestsUpTo(daemon.begun), Tail(queue)) /\ Head(queue) \in ToSet(queue)
      /\ ToSet(Tail(queue)) = {x \in ToSet(queue) : x.by # k}
  BY <1>1, QueuedTail
<1>3. /\ call[k].at \in {a[1] : a \in Awaits}
      /\ Head(queue).op = "refused" \/ <<call[k].at, Head(queue).op>> \in Awaits
  <2>1. k # 0
    BY LiveAgentAssumption
  <2> QED BY <1>1, <1>2, <2>1 DEF RequestsMatch
<1>4. call[k].at # "none" /\ Head(queue).op \notin {"close", "begin"}
  BY <1>3 DEF Awaits
<1> QED BY <1>2, <1>3, <1>4 DEF Outstanding

\* The request of a call is answered.
LEMMA CallRepliedKeeps ==
  ASSUME AgentInv, NEW k \in Sids, CallReplied(k)
  PROVE  AgentInv'
<1> DEFINE h == Head(queue)
           q == Tail(queue)
<1>1. queue # << >> /\ h.by = k /\ UNCHANGED <<run, stopped, late, lost, ran>>
  BY DEF CallReplied
<1>2. PICK rep \in Replies(h) :
        /\ daemon' = rep.daemon
        /\ IF rep.ok /\ ~call[k].cancelled THEN Resume(k, rep.val, q) ELSE Throw(k, q)
  BY DEF CallReplied
<1>3. /\ h \in Outstanding /\ call[k].at # "none" /\ call[k].at \in {a[1] : a \in Awaits}
      /\ h.op = "refused" \/ <<call[k].at, h.op>> \in Awaits
      /\ h.op \notin {"close", "begin"}
      /\ Queued(RequestsUpTo(daemon.begun), q)
      /\ ToSet(q) \subseteq ToSet(queue) /\ \A x \in ToSet(q) : x.by # k
  BY <1>1, HeadIs
<1>4. /\ Core(daemon, Outstanding, pending, call, ran)
      /\ LateOK(late, daemon.begun) /\ lost \in 0..MaxLost
  BY InvNow
<1>5. /\ Core(daemon', Outstanding, pending, call, ran) /\ daemon.begun <= daemon'.begun
      /\ rep.ok \in BOOLEAN
      /\ rep.ok => h.op # "refused"
      /\ h.op = "mutation_begin" /\ rep.ok =>
           rep.val = daemon.begun + 1 /\ Active(daemon', daemon.begun + 1)
      /\ \A s \in Sids : Clean(daemon, s) => Clean(daemon', s)
  <2> HIDE DEF h
  <2> QED BY <1>2, <1>3, <1>4, RepliesCore
<1> HIDE DEF h, q
<1>6. Rest(q) \subseteq Outstanding
  BY <1>1, <1>3 DEF Rest, Outstanding
<1>7. daemon.begun \in Nat /\ daemon'.begun \in Nat /\ RequestsUpTo(daemon.begun) \subseteq RequestsUpTo(daemon'.begun)
  <2>2. daemon.begun \in Nat /\ daemon'.begun \in Nat
    BY <1>4, <1>5 DEF Core, DaemonOK
  <2>3. 0..daemon.begun \subseteq 0..daemon'.begun
    BY <1>5, <2>2
  <2> QED BY <2>2, <2>3 DEF RequestsUpTo
<1>8. CallStep(k, q)
  <2>1. Core(daemon', Rest(q), pending, call, ran)
    BY <1>5, <1>6, CoreFewer
  <2>2. Queued(RequestsUpTo(daemon'.begun), q) /\ LateOK(late, daemon'.begun)
    BY <1>3, <1>4, <1>7, QueuedWiden DEF LateOK
  <2> QED BY <1>1, <1>3, <1>4, <1>5, <2>1, <2>2 DEF CallStep, Outstanding
<1>9. CASE ~(rep.ok /\ ~call[k].cancelled)
  BY <1>2, <1>8, <1>9, ThrowKeeps
<1>10. CASE rep.ok /\ ~call[k].cancelled
  <2>1. ASSUME call[k].at = "begin" PROVE Mine(k, q, rep.val) /\ rep.val # pending.token
    <3>1. h.op = "mutation_begin"
      BY <1>3, <1>5, <1>10, <2>1 DEF Awaits
    <3>2. /\ Free(daemon', Outstanding, call, k, daemon.begun + 1)
          /\ pending.token # daemon.begun + 1 /\ rep.val = daemon.begun + 1
      BY <1>4, <1>5, <1>10, <3>1, FreshToken
    <3> QED BY <1>6, <3>2, FewerFree DEF Mine
  <2>2. Answers(k, q, rep.val)
    BY <1>1, <1>3, <1>10, <2>1 DEF Answers
  <2> QED BY <1>2, <1>8, <1>10, <2>2, ResumeKeeps
<1> QED BY <1>9, <1>10

\* The request of a call is given up, and may be handled late.
LEMMA CallTimedOutKeeps ==
  ASSUME AgentInv, NEW k \in Sids, CallTimedOut(k)
  PROVE  AgentInv'
<1> DEFINE h == Head(queue)
           q == Tail(queue)
<1>1. /\ queue # << >> /\ h.by = k /\ h.op \notin {"close", "refused"} /\ lost < MaxLost
      /\ late' = late \cup {h} /\ lost' = lost + 1 /\ Throw(k, q)
      /\ UNCHANGED <<run, stopped, daemon, ran>>
  BY DEF CallTimedOut, Timeout
<1>2. /\ h \in Outstanding /\ call[k].at # "none" /\ h.op # "begin"
      /\ Queued(RequestsUpTo(daemon.begun), q)
      /\ ToSet(q) \subseteq ToSet(queue) /\ \A x \in ToSet(q) : x.by # k
  BY <1>1, HeadIs
<1>3. /\ Core(daemon, Outstanding, pending, call, ran)
      /\ LateOK(late, daemon.begun) /\ lost \in 0..MaxLost
  BY InvNow
<1> HIDE DEF h, q
<1>4. Core(daemon', Rest(q), pending, call, ran')
  <2>1. Rest(q) \subseteq Outstanding
    BY <1>1, <1>2 DEF Rest, Outstanding
  <2> QED BY <1>1, <1>3, <2>1, CoreFewer
<1>5. LateOK(late', daemon'.begun)
  BY <1>1, <1>2, <1>3 DEF LateOK, Core, BooksOK
<1>6. lost' \in 0..MaxLost
  BY <1>1, <1>3, LiveAgentAssumption
<1>7. CallStep(k, q)
  BY <1>1, <1>2, <1>4, <1>5, <1>6 DEF CallStep, Outstanding
<1> QED BY <1>1, <1>7, ThrowKeeps

\* A queue that k has left.
LEMMA UnqueuedIs ==
  ASSUME AgentInv, NEW k
  PROVE  /\ Queued(RequestsUpTo(daemon.begun), Unqueued(k))
         /\ ToSet(Unqueued(k)) = {x \in ToSet(queue) : x.by # k}
<1>1. Unqueued(k) = Left(queue, k)
  BY DEF Unqueued, Left
<1> QED BY <1>1, InvNow, QueuedLeave

\* The cancellation reaches the call.
LEMMA CancelDeliveredKeeps ==
  ASSUME AgentInv, NEW k \in Sids, CancelDelivered(k)
  PROVE  AgentInv'
<1> DEFINE waiting == \E i \in 2..Len(queue) : queue[i].by = k
           inwait  == waiting \/ call[k].at = "lock"
           q == Unqueued(k)
           n == daemon.begun
<1>1. k \in stopped /\ stopped' = stopped \ {k} /\ UNCHANGED <<run, late, lost, daemon, ran>>
  BY DEF CancelDelivered
<1>2. \/ inwait /\ Throw(k, q)
      \/ /\ ~inwait
         /\ call' = IF call[k].at = "none" THEN call ELSE [call EXCEPT ![k].cancelled = TRUE]
         /\ UNCHANGED <<thread, route, pending, queue>>
  BY DEF CancelDelivered
<1>3. /\ Core(daemon, Outstanding, pending, call, ran) /\ Queued(RequestsUpTo(n), queue)
      /\ run \in RunType /\ thread \in [Sids -> ThreadType] /\ call \in [Sids -> CallsUpTo(n)]
      /\ Line(route) /\ LateOK(late, n) /\ lost \in 0..MaxLost /\ stopped \subseteq Sids
      /\ RequestsMatch /\ ThreadsInStep /\ RunsInOrder /\ Interrupted
  BY InvNow DEF AgentInv
<1>4. Queued(RequestsUpTo(n), q) /\ ToSet(q) = {x \in ToSet(queue) : x.by # k}
  BY UnqueuedIs
<1> HIDE DEF q
<1>5. ASSUME call[k].at # "none" PROVE CallStep(k, q)
  <2>1. Rest(q) \subseteq Outstanding
    BY <1>1, <1>4 DEF Rest, Outstanding
  <2>2. Core(daemon', Rest(q), pending, call, ran')
    BY <1>1, <1>3, <2>1, CoreFewer
  <2> QED BY <1>1, <1>3, <1>4, <1>5, <2>2 DEF CallStep, Outstanding
<1>6. CASE inwait /\ Throw(k, q)
  <2>1. call[k].at # "none"
    <3>1. CASE waiting
      <4>1. PICK i \in 1..Len(queue) : queue[i].by = k
        BY <1>3, <3>1, InDomain DEF Queued
      <4>2. queue[i] \in ToSet(queue) /\ k # 0
        BY <1>3, <4>1, InDomain, LiveAgentAssumption DEF Queued
      <4>3. call[k].at \in {a[1] : a \in Awaits}
        BY <1>3, <4>1, <4>2 DEF RequestsMatch
      <4> QED BY <4>3 DEF Awaits
    <3>2. CASE call[k].at = "lock"
      BY <3>2
    <3> QED BY <1>6, <3>1, <3>2
  <2> QED BY <1>5, <1>6, <2>1, ThrowKeeps
<1>7. CASE call[k].at # "none" /\ call[k].at # "lock" /\ UNCHANGED <<thread, route, pending, queue>>
           /\ call' = [call EXCEPT ![k].cancelled = TRUE]
  <2> DEFINE c == [call[k] EXCEPT !.cancelled = TRUE]
  <2>1. call' = [call EXCEPT ![k] = c]
    BY <1>3, <1>7
  <2>2. /\ c \in CallsUpTo(n) /\ c.at = call[k].at /\ c.kind = call[k].kind /\ c.cmd = call[k].cmd
        /\ c.token = call[k].token /\ c.cancelled /\ (Holding(c) <=> Holding(call[k]))
    BY <1>3 DEF CallsUpTo, Holding
  <2> HIDE DEF c
  <2>3. Outstanding' = Outstanding
    BY <1>1, <1>7 DEF Outstanding
  <2>4. Core(daemon, Outstanding, pending, [call EXCEPT ![k] = c], ran)
    <3>1. /\ pending # NoEdit => Free(daemon, Outstanding, call, k, pending.token)
          /\ Holding(c) => Free(daemon, Outstanding, call, k, c.token) /\ c.token # pending.token
      BY <1>3, <2>2, FreeTokens
    <3>2. pending \in EditsUpTo(n) /\ Outstanding \subseteq RequestsUpTo(n)
      BY <1>3 DEF Core, OwnersOK, BooksOK
    <3> QED BY <1>3, <2>2, <3>1, <3>2, CoreMove
  <2>5. \A x \in ToSet(queue') :
          \/ x \in ToSet(q)
          \/ /\ x.by = k /\ x.sid <= run.sid /\ c.at \in {a[1] : a \in Awaits}
             /\ x.op = "refused" \/ <<c.at, x.op>> \in Awaits
    <3> SUFFICES ASSUME NEW x \in ToSet(queue), x.by = k
                 PROVE  /\ x.sid <= run.sid /\ c.at \in {a[1] : a \in Awaits}
                        /\ x.op = "refused" \/ <<c.at, x.op>> \in Awaits
      BY <1>4, <1>7
    <3>1. k # 0 /\ x \in Outstanding
      BY LiveAgentAssumption DEF Outstanding
    <3> QED BY <1>3, <2>2, <3>1 DEF RequestsMatch, RunsInOrder
  <2>6. Proceeds(k, c)
    BY <2>2 DEF Proceeds, Doomed
  <2>7. CallMoves(k, q, c, thread[k])
    <3>1. thread' = [thread EXCEPT ![k] = thread[k]] /\ thread[k] \in ThreadType /\ thread[k].step < MaxSteps
      BY <1>3, <1>7 DEF ThreadsInStep
    <3>2. Core(daemon', Outstanding', pending', call', ran')
      BY <1>1, <1>7, <2>1, <2>3, <2>4
    <3>3. /\ c.at = "exec" => c.kind = "exec"
          /\ c.at # "lock" /\ c.at # "none"
      BY <1>3, <1>7, <2>2 DEF ThreadsInStep
    <3> QED BY <1>1, <1>3, <1>7, <2>1, <2>2, <2>5, <2>6, <3>1, <3>2, <3>3 DEF CallMoves
  <2> QED BY <1>5, <1>7, <2>7, CallMovesKeeps
<1>8. CASE call[k].at = "none" /\ UNCHANGED <<call, thread, route, pending, queue>>
  <2>1. Outstanding' = Outstanding
    BY <1>1, <1>8 DEF Outstanding
  <2>2. RequestsMatch' /\ ThreadsInStep' /\ RunsInOrder'
    BY <1>1, <1>3, <1>8, <2>1 DEF RequestsMatch, ThreadsInStep, RunsInOrder
  <2>3. Interrupted'
    BY <1>1, <1>3, <1>8 DEF Interrupted
  <2> QED BY <1>1, <1>3, <1>8, <2>1, <2>2, <2>3, InvAgain
<1> QED BY <1>2, <1>6, <1>7, <1>8

\* The model thread makes a call.
LEMMA IssueKeeps ==
  ASSUME AgentInv, NEW k \in Sids, NEW kind \in CallKinds \ {"none"}, NEW cmd \in Commands \cup {NoCommand},
         kind = "delta" => cmd \in Writes, thread[k].step < MaxSteps, Issue(k, kind, cmd)
  PROVE  AgentInv'
<1> DEFINE c == [NoCall EXCEPT !.at = "lock", !.kind = kind, !.cmd = cmd]
           n == daemon.begun
<1>1. /\ run.at = "agent" /\ run.sid = k /\ call[k].at = "none"
      /\ call' = [call EXCEPT ![k] = c] /\ thread' = [thread EXCEPT ![k].cmd = cmd]
      /\ route' = Append(route, k)
      /\ UNCHANGED <<run, pending, stopped, queue, late, lost, daemon, ran>>
  BY DEF Issue
<1>2. /\ Core(daemon, Outstanding, pending, call, ran) /\ Queued(RequestsUpTo(n), queue)
      /\ run \in RunType /\ thread \in [Sids -> ThreadType] /\ call \in [Sids -> CallsUpTo(n)]
      /\ Line(route) /\ LateOK(late, n) /\ lost \in 0..MaxLost /\ stopped \subseteq Sids /\ n \in Nat
      /\ RequestsMatch /\ ThreadsInStep /\ RunsInOrder /\ Interrupted
  BY InvNow DEF AgentInv
<1>3. /\ c \in CallsUpTo(n) /\ c.at = "lock" /\ c.kind = kind /\ c.cmd = cmd /\ ~c.cancelled
      /\ ~Holding(c)
  <2>1. NoCall \in CallsUpTo(n) /\ ~NoCall.cancelled
    BY <1>2 DEF NoCall, CallsUpTo, CallAts, CallKinds
  <2>2. /\ c \in CallsUpTo(n) /\ c.at = "lock" /\ c.kind = kind /\ c.cmd = cmd
        /\ c.cancelled = NoCall.cancelled
    BY <2>1 DEF CallsUpTo, CallAts
  <2> QED BY <2>1, <2>2 DEF Holding
<1> HIDE DEF c
<1>4. call'[k] = c /\ \A j \in Sids \ {k} : call'[j] = call[j]
  BY <1>1, <1>2
<1>5. /\ thread' \in [Sids -> ThreadType] /\ thread'[k].step = thread[k].step
      /\ \A j \in Sids \ {k} : thread'[j] = thread[j]
  <2> DEFINE th == [thread[k] EXCEPT !.cmd = cmd]
  <2>1. thread' = [thread EXCEPT ![k] = th]
    BY <1>1
  <2>2. th \in ThreadType /\ th.step = thread[k].step
    BY <1>2 DEF ThreadType
  <2> HIDE DEF th
  <2> QED BY <1>2, <2>1, <2>2
<1>6. Line(route') /\ ToSet(route') = ToSet(route) \cup {k}
  <2>1. k \notin ToSet(route)
    BY <1>1, <1>2 DEF ThreadsInStep
  <2> QED BY <1>1, <1>2, <2>1, LineAppend
<1>7. Outstanding' = Outstanding
  BY <1>1 DEF Outstanding
<1>8. Core(daemon, Outstanding, pending, [call EXCEPT ![k] = c], ran)
  <2>1. pending # NoEdit => Free(daemon, Outstanding, call, k, pending.token)
    BY <1>2, FreeTokens
  <2>2. pending \in EditsUpTo(n) /\ Outstanding \subseteq RequestsUpTo(n)
    BY <1>2 DEF Core, OwnersOK, BooksOK
  <2> QED BY <1>2, <1>3, <2>1, <2>2, CoreMove
<1>9. RequestsMatch'
  <2>1. \A r \in ToSet(queue) : r.by # k
    <3>1. k # 0 /\ call[k].at \notin {a[1] : a \in Awaits}
      BY <1>1, LiveAgentAssumption DEF Awaits
    <3> QED BY <1>2, <3>1 DEF RequestsMatch
  <2>2. \A r \in ToSet(queue) : r.by \in {0} \cup Sids
    <3>1. ToSet(queue) \subseteq RequestsUpTo(n)
      BY <1>2, QueuedIn
    <3> QED BY <3>1 DEF RequestsUpTo
  <2>3. \A r \in ToSet(queue) : r.by # 0 => call'[r.by] = call[r.by]
    BY <1>4, <2>1, <2>2
  <2> QED BY <1>1, <1>2, <2>3 DEF RequestsMatch
<1>10. ThreadsInStep'
  <2> SUFFICES ASSUME NEW j \in Sids
               PROVE  /\ thread'[j].at \in {"stream", "streamed", "exec", "aborting"} \/ call'[j].at # "none" =>
                           thread'[j].step < MaxSteps
                      /\ call'[j].at # "none" => call'[j].kind # "none"
                      /\ call'[j].at = "exec" => call'[j].kind = "exec"
                      /\ call'[j].kind = "delta" => call'[j].cmd \in Writes
                      /\ call'[j].at = "none" => j \notin ToSet(route')
    BY DEF ThreadsInStep
  <2>1. CASE j = k
    BY <1>3, <1>4, <1>5, <2>1
  <2>2. CASE j # k
    BY <1>2, <1>4, <1>5, <1>6, <2>2 DEF ThreadsInStep
  <2> QED BY <2>1, <2>2
<1>11. RunsInOrder'
  <2>1. \A j \in Sids : call'[j].at # "none" => j <= run.sid
    BY <1>1, <1>2, <1>4, LiveAgentAssumption DEF RunsInOrder
  <2> QED BY <1>1, <1>2, <1>7, <2>1 DEF RunsInOrder
<1>12. Interrupted'
  BY <1>1, <1>2, <1>3, <1>4 DEF Interrupted
<1> QED BY <1>1, <1>2, <1>5, <1>6, <1>7, <1>8, <1>9, <1>10, <1>11, <1>12, InvAgain

\* Each step of the model thread makes one.
LEMMA ModelStepKeeps ==
  ASSUME AgentInv, NEW k \in Sids, ModelStep(k)
  PROVE  AgentInv'
<1> DEFINE th == thread[k]
<1>1. th \in ThreadType /\ ThreadsInStep
  BY InvNow DEF AgentInv
<1>2. th.at \in {"stream", "streamed", "exec", "aborting"} => th.step < MaxSteps
  BY <1>1 DEF ThreadsInStep
<1>3. PICK kind \in CallKinds \ {"none"}, cmd \in Commands \cup {NoCommand} :
        (kind = "delta" => cmd \in Writes) /\ th.step < MaxSteps /\ Issue(k, kind, cmd)
  <2>1. CASE th.at = "start" /\ th.step < MaxSteps /\ Issue(k, "start", NoCommand)
    BY <2>1 DEF CallKinds
  <2>2. CASE th.at = "stream" /\ \E w \in Writes : Issue(k, "delta", w)
    BY <1>2, <2>2 DEF CallKinds, Commands
  <2>3. CASE th.at \in {"stream", "streamed"} /\ \E c \in Commands \cup {NoCommand} : Issue(k, "end", c)
    BY <1>2, <2>3 DEF CallKinds
  <2>4. CASE th.at \in {"stream", "streamed", "aborting"} /\ Issue(k, "abort", NoCommand)
    BY <1>2, <2>4 DEF CallKinds
  <2>5. CASE th.at = "exec" /\ Issue(k, "exec", th.cmd)
    BY <1>1, <1>2, <2>5 DEF CallKinds, ThreadType
  <2> QED BY <2>1, <2>2, <2>3, <2>4, <2>5 DEF ModelStep
<1> QED BY <1>3, IssueKeeps

-----------------------------------------------------------------------------
(* The run itself *)

\* The run sends P instead of Q, which may end the pending edit's fence.
LEMMA RunCore ==
  ASSUME NEW D, NEW Q, NEW pd, NEW cl, NEW R, Core(D, Q, pd, cl, R), NEW k \in Sids,
         NEW pd2 \in {pd, NoEdit}, NEW P, P \subseteq RequestsUpTo(D.begun),
         \A r \in P : \/ r \in Q \/ r.op # "mutation_end"
                      \/ pd # NoEdit /\ pd2 = NoEdit /\ r.token = pd.token /\ ~r.success
  PROVE  Core(D, P, pd2, cl, R)
<1>1. /\ D.begun \in Nat /\ pd \in EditsUpTo(D.begun) /\ cl \in [Sids -> CallsUpTo(D.begun)]
  BY DEF Core, DaemonOK, OwnersOK
<1>2. NoEdit \in EditsUpTo(D.begun) /\ NoEdit.token = 0
  BY <1>1 DEF NoEdit, EditsUpTo
<1>3. /\ pd # NoEdit => Free(D, Q, cl, k, pd.token)
      /\ Holding(cl[k]) => Free(D, Q, cl, k, cl[k].token) /\ cl[k].token # pd.token
      /\ \A t : Free(D, Q, cl, k, t) => t # 0
  BY FreeTokens
<1>4. Holding(cl[k]) => Free(D, Q, cl, k, cl[k].token) /\ cl[k].token # pd2.token
  BY <1>2, <1>3
<1>5. \A r \in P : \/ r \in Q \/ r.op # "mutation_end"
                   \/ /\ Free(D, Q, cl, k, r.token) /\ r.token # pd2.token
                      /\ Holding(cl[k]) => r.token # cl[k].token
                      /\ r.success => r.token \in R
  BY <1>2, <1>3
<1>6. Core(D, P, pd2, [cl EXCEPT ![k] = cl[k]], R)
  <2>1. pd2 \in EditsUpTo(D.begun) /\ cl[k] \in CallsUpTo(D.begun)
    BY <1>1, <1>2
  <2>2. pd2 # NoEdit => Free(D, Q, cl, k, pd2.token)
    BY <1>3
  <2> QED BY <1>4, <1>5, <2>1, <2>2, CoreMove
<1>7. [cl EXCEPT ![k] = cl[k]] = cl
  BY <1>1
<1> QED BY <1>6, <1>7

\* A step of the run; q is the queue without its own request, and what the step
\* does to the daemon and to `late` has been done.
RunMoves(q) ==
  /\ AgentInv
  /\ UNCHANGED <<thread, call, route, ran>>
  /\ Queued(RequestsUpTo(daemon'.begun), q)
  /\ ToSet(q) \subseteq ToSet(queue) /\ \A x \in ToSet(q) : x.by # 0
  /\ Core(daemon', Rest(q), pending, call, ran)
  /\ LateOK(late', daemon'.begun) /\ late' \subseteq Outstanding
  /\ lost' \in 0..MaxLost

\* Where it goes: to the next await, with its request, or to the agent.
RunGoes(q) ==
  /\ run' \in RunType /\ run'.sid \in Sids /\ run.sid <= run'.sid
  /\ run'.at = "begin" => ~run'.completed /\ call[run'.sid].at = "none"
  /\ run'.at \in {"begin", "agent"} \/ run'.completed =>
       \A r \in late' : r.op = "begin" => r.sid # run'.sid
  /\ run'.at \in {"close", "done"} /\ run'.completed => Clean(daemon', run'.sid)
  /\ pending' \in {pending, NoEdit}
  /\ \/ run'.at = "agent" /\ queue' = q
     \/ \E r \in RequestsUpTo(daemon'.begun) :
          /\ queue' = Append(q, r)
          /\ r.by = 0 /\ r.sid = run'.sid /\ <<run'.at, r.op>> \in RunAwaits
          /\ r.op = "mutation_end" =>
               pending # NoEdit /\ pending' = NoEdit /\ r.token = pending.token /\ ~r.success
  /\ stopped' \subseteq Sids /\ Interrupted'

\* The requests it has sent.
Sends(q, new) ==
  /\ Queued(RequestsUpTo(daemon'.begun), queue') /\ ToSet(queue') = ToSet(q) \cup new
  /\ new \subseteq RequestsUpTo(daemon'.begun)
  /\ \A r \in new :
       /\ r.by = 0 /\ r.sid = run'.sid /\ <<run'.at, r.op>> \in RunAwaits
       /\ r.op = "mutation_end" =>
            pending # NoEdit /\ pending' = NoEdit /\ r.token = pending.token /\ ~r.success

\* A step of the run that goes on in this way keeps the invariant.
LEMMA RunKeeps ==
  ASSUME NEW q, RunMoves(q), RunGoes(q)
  PROVE  AgentInv'
<1> DEFINE n == daemon'.begun
<1>1. /\ run \in RunType /\ thread \in [Sids -> ThreadType] /\ Line(route)
      /\ RequestsMatch /\ ThreadsInStep /\ RunsInOrder
  BY InvNow DEF RunMoves, AgentInv
<1>2. UNCHANGED <<thread, call, route, ran>>
  BY DEF RunMoves
<1>3. PICK new : Sends(q, new)
  <2>1. CASE queue' = q
    <3>1. Sends(q, {})
      BY <2>1 DEF Sends, RunMoves
    <3> QED BY <3>1
  <2>2. ASSUME NEW r \in RequestsUpTo(n), queue' = Append(q, r),
               r.by = 0, r.sid = run'.sid, <<run'.at, r.op>> \in RunAwaits,
               r.op = "mutation_end" =>
                 pending # NoEdit /\ pending' = NoEdit /\ r.token = pending.token /\ ~r.success
        PROVE  \E new : Sends(q, new)
    <3>1. Queued(RequestsUpTo(n), q) /\ \A x \in ToSet(q) : x.by # r.by
      BY <2>2 DEF RunMoves
    <3>2. Queued(RequestsUpTo(n), queue') /\ ToSet(queue') = ToSet(q) \cup {r}
      BY <2>2, <3>1, QueuedAppend
    <3>3. Sends(q, {r})
      BY <2>2, <3>2 DEF Sends
    <3> QED BY <3>3
  <2> QED BY <2>1, <2>2 DEF RunGoes
<1>4. Outstanding' = Rest(q) \cup new
  BY <1>3 DEF Outstanding, Rest, Sends
<1>5. Core(daemon', Rest(q) \cup new, pending', call, ran)
  <2>1. Core(daemon', Rest(q), pending, call, ran) /\ run'.sid \in Sids /\ pending' \in {pending, NoEdit}
    BY DEF RunMoves, RunGoes
  <2>2. Rest(q) \cup new \subseteq RequestsUpTo(n)
    BY <1>3, <2>1 DEF Core, BooksOK, Sends
  <2>3. \A r \in Rest(q) \cup new :
          \/ r \in Rest(q) \/ r.op # "mutation_end"
          \/ pending # NoEdit /\ pending' = NoEdit /\ r.token = pending.token /\ ~r.success
    BY <1>3 DEF Sends
  <2> QED BY <2>1, <2>2, <2>3, RunCore
<1>6. RequestsMatch'
  <2> SUFFICES ASSUME NEW r \in ToSet(queue')
               PROVE  /\ r.by = 0 => r.sid = run'.sid /\ <<run'.at, r.op>> \in RunAwaits
                      /\ r.by # 0 => \E at \in {a[1] : a \in Awaits} :
                                       /\ call[r.by].at = at
                                       /\ r.op = "refused" \/ <<at, r.op>> \in Awaits
    BY <1>2 DEF RequestsMatch
  <2>1. CASE r \in ToSet(q)
    <3>1. r \in ToSet(queue) /\ r.by # 0
      BY <2>1 DEF RunMoves
    <3> QED BY <1>1, <3>1 DEF RequestsMatch
  <2>2. CASE r \in new
    BY <1>3, <2>2 DEF Sends
  <2> QED BY <1>3, <2>1, <2>2 DEF Sends
<1>7. ThreadsInStep'
  BY <1>1, <1>2 DEF ThreadsInStep
<1>8. RunsInOrder'
  <2>1. run \in RunType /\ run' \in RunType /\ run.sid <= run'.sid /\ run'.sid \in Nat /\ run'.sid # 0
        /\ run.sid \in Nat
    BY <1>1, LiveAgentAssumption DEF RunGoes, RunType
  <2>2. \A j \in Sids : call[j].at # "none" => j <= run'.sid
    BY <1>1, <2>1, LiveAgentAssumption DEF RunsInOrder
  <2>3. \A r \in Outstanding' : r.sid <= run'.sid
    <3> SUFFICES ASSUME NEW r \in Outstanding' PROVE r.sid <= run'.sid
      OBVIOUS
    <3>1. r.sid \in Nat
      BY <1>4, <1>5, LiveAgentAssumption DEF Core, BooksOK, RequestsUpTo
    <3>2. r \in Outstanding \/ r.sid = run'.sid
      BY <1>3, <1>4 DEF RunMoves, Rest, Outstanding, Sends
    <3>3. r \in Outstanding => r.sid <= run.sid
      BY <1>1 DEF RunsInOrder
    <3> QED BY <2>1, <3>1, <3>2, <3>3
  <2>4. /\ run'.at = "begin" => ~run'.completed /\ call[run'.sid].at = "none"
        /\ run'.at \in {"begin", "agent"} \/ run'.completed =>
             \A r \in late' : r.op = "begin" => r.sid # run'.sid
        /\ run'.at \in {"close", "done"} /\ run'.completed => Clean(daemon', run'.sid)
    BY DEF RunGoes
  <2> QED BY <1>2, <2>1, <2>2, <2>3, <2>4 DEF RunsInOrder, Clean
<1>9. Core(daemon', Outstanding', pending', call', ran')
  BY <1>2, <1>4, <1>5
<1>10. /\ run' \in RunType /\ Interrupted' /\ stopped' \subseteq Sids /\ lost' \in 0..MaxLost
       /\ LateOK(late', n)
  BY DEF RunGoes, RunMoves
<1>11. thread' \in [Sids -> ThreadType] /\ Line(route')
  BY <1>1, <1>2
<1>12. Queued(RequestsUpTo(n), queue')
  BY <1>3 DEF Sends
<1> QED BY <1>6, <1>7, <1>8, <1>9, <1>10, <1>11, <1>12, InvAgain

\* The finally clause; a call that the run leaves behind has been told.
LEMMA CleanupKeeps ==
  ASSUME NEW q, RunMoves(q), run.at \in {"begin", "agent"}, run.sid \in Sids,
         NEW completed \in BOOLEAN, Cleanup(q, completed),
         completed => \A r \in late' : r.op = "begin" => r.sid # run.sid,
         stopped' \subseteq {run.sid},
         \A k \in Sids : call[k].at # "none" /\ k \notin stopped' => Doomed(call[k])
  PROVE  AgentInv'
<1> DEFINE n == daemon'.begun
<1>1. run \in RunType /\ Interrupted /\ call' = call
  BY InvNow DEF RunMoves, AgentInv
<1>2. pending \in EditsUpTo(n) /\ n \in Nat
  BY DEF RunMoves, Core, DaemonOK, OwnersOK
<1>3. CASE /\ pending # NoEdit /\ pending' = NoEdit
           /\ run' = [run EXCEPT !.at = "cancel", !.completed = completed]
           /\ queue' = Append(q, Request(0, "mutation_end", run.sid, pending.token, NoWrite, FALSE))
  <2> DEFINE r == Request(0, "mutation_end", run.sid, pending.token, NoWrite, FALSE)
  <2>1. /\ r \in RequestsUpTo(n) /\ r.by = 0 /\ r.sid = run.sid /\ r.op = "mutation_end"
        /\ r.token = pending.token /\ ~r.success
    BY <1>2 DEF RequestsUpTo, EditsUpTo, Ops, Request
  <2>2. run' \in RunType /\ run'.at = "cancel" /\ run'.sid = run.sid /\ run'.completed = completed
    BY <1>1, <1>3 DEF RunType
  <2>3. <<run'.at, r.op>> \in RunAwaits
    BY <2>1, <2>2 DEF RunAwaits
  <2>4. queue' = Append(q, r)
    BY <1>3
  <2> HIDE DEF r
  <2>5. Interrupted'
    BY <1>1, <2>2 DEF Interrupted, Doomed
  <2>6. run.sid <= run'.sid
    BY <2>2, LiveAgentAssumption
  <2>7. RunGoes(q)
    BY <1>3, <2>1, <2>2, <2>3, <2>4, <2>5, <2>6 DEF RunGoes
  <2> QED BY <2>7, RunKeeps
<1>4. CASE /\ run' = [run EXCEPT !.at = "end", !.completed = completed]
           /\ queue' = Append(q, Plain(0, "end", run.sid))
           /\ UNCHANGED pending
  <2> DEFINE r == Plain(0, "end", run.sid)
  <2>1. r \in RequestsUpTo(n) /\ r.by = 0 /\ r.sid = run.sid /\ r.op = "end"
    BY <1>2 DEF RequestsUpTo, Ops, Request, Plain
  <2>2. run' \in RunType /\ run'.at = "end" /\ run'.sid = run.sid /\ run'.completed = completed
    BY <1>1, <1>4 DEF RunType
  <2>3. <<run'.at, r.op>> \in RunAwaits
    BY <2>1, <2>2 DEF RunAwaits
  <2>4. queue' = Append(q, r)
    BY <1>4
  <2> HIDE DEF r
  <2>5. Interrupted'
    BY <1>1, <2>2 DEF Interrupted, Doomed
  <2>6. run.sid <= run'.sid
    BY <2>2, LiveAgentAssumption
  <2>7. RunGoes(q)
    BY <1>4, <2>1, <2>2, <2>3, <2>4, <2>5, <2>6 DEF RunGoes
  <2> QED BY <2>7, RunKeeps
<1> QED BY <1>3, <1>4 DEF Cleanup

\* The next run begins: nothing of its own is on the way.
LEMMA StartRunKeeps ==
  ASSUME AgentInv, StartRun
  PROVE  AgentInv'
<1> DEFINE s == run.sid + 1
           r == Plain(0, "begin", s)
           n == daemon.begun
<1>1. /\ run.at = "done" /\ run.sid < Runs
      /\ run' = [sid |-> s, at |-> "begin", completed |-> FALSE]
      /\ pending' = NoEdit /\ queue' = Append(queue, r)
      /\ UNCHANGED <<thread, call, route, stopped, late, lost, daemon, ran>>
  BY DEF StartRun
<1>2. /\ Core(daemon, Outstanding, pending, call, ran) /\ run \in RunType
      /\ Queued(RequestsUpTo(n), queue) /\ LateOK(late, n) /\ lost \in 0..MaxLost
      /\ stopped \subseteq Sids /\ n \in Nat
      /\ RequestsMatch /\ RunsInOrder /\ Interrupted
  BY InvNow DEF AgentInv
<1>3. s \in Sids /\ run.sid \in Nat /\ run.sid <= s /\ ~(s <= run.sid)
  BY <1>1, <1>2, LiveAgentAssumption DEF RunType
<1>4. /\ r \in RequestsUpTo(n) /\ r.by = 0 /\ r.sid = s /\ r.op = "begin"
  BY <1>2, <1>3 DEF RequestsUpTo, Ops, Request, Plain
<1> HIDE DEF r, s
<1>5. RunMoves(queue)
  <2>1. \A x \in ToSet(queue) : x.by # 0
    BY <1>1, <1>2 DEF RequestsMatch, RunAwaits
  <2>2. Rest(queue) = Outstanding
    BY <1>1 DEF Rest, Outstanding
  <2> QED BY <1>1, <1>2, <2>1, <2>2 DEF RunMoves, Outstanding
<1>6. call[s].at = "none" /\ \A x \in late : x.sid # s
  BY <1>2, <1>3 DEF RunsInOrder, Outstanding
<1>7. Interrupted'
  BY <1>1, <1>2 DEF Interrupted, Doomed
<1>8. run' \in RunType /\ run'.sid = s /\ run'.at = "begin" /\ ~run'.completed
  BY <1>1, <1>3 DEF RunType
<1>9. <<"begin", "begin">> \in RunAwaits
  BY DEF RunAwaits
<1>10. RunGoes(queue)
  BY <1>1, <1>2, <1>3, <1>4, <1>6, <1>7, <1>8, <1>9 DEF RunGoes
<1> QED BY <1>5, <1>10, RunKeeps

\* While the wrapped agent runs, the run itself has nothing in the queue.
LEMMA AgentRuns ==
  ASSUME AgentInv, run.at = "agent", UNCHANGED <<thread, call, route, ran, late, lost, daemon>>
  PROVE  /\ RunMoves(queue) /\ run.sid \in Sids /\ stopped = {}
         /\ \A r \in late' : r.op = "begin" => r.sid # run.sid
         /\ \A k \in Sids \ {run.sid} : call[k].at # "none" => Doomed(call[k])
<1>1. /\ Core(daemon, Outstanding, pending, call, ran) /\ run \in RunType
      /\ Queued(RequestsUpTo(daemon.begun), queue) /\ LateOK(late, daemon.begun) /\ lost \in 0..MaxLost
      /\ RequestsMatch /\ RunsInOrder /\ Interrupted
  BY InvNow DEF AgentInv
<1>2. \A x \in ToSet(queue) : x.by # 0
  BY <1>1 DEF RequestsMatch, RunAwaits
<1>3. Rest(queue) = Outstanding
  BY DEF Rest, Outstanding
<1>4. RunMoves(queue)
  BY <1>1, <1>2, <1>3 DEF RunMoves, Outstanding
<1>5. run.sid \in Sids /\ stopped = {}
  BY <1>1, LiveAgentAssumption DEF RunsInOrder, RunType, Interrupted
<1>6. /\ \A r \in late' : r.op = "begin" => r.sid # run.sid
      /\ \A k \in Sids \ {run.sid} : call[k].at # "none" => Doomed(call[k])
  BY <1>1, <1>5 DEF RunsInOrder, Interrupted
<1> QED BY <1>4, <1>5, <1>6

\* The wrapped agent is done, and so is its call.
LEMMA AgentReturnsKeeps ==
  ASSUME AgentInv, AgentReturns
  PROVE  AgentInv'
<1>1. /\ run.at = "agent" /\ call[run.sid].at = "none"
      /\ Cleanup(queue, thread[run.sid].at # "failed")
      /\ UNCHANGED <<thread, call, route, stopped, late, lost, daemon, ran>>
  BY DEF AgentReturns
<1>2. /\ RunMoves(queue) /\ run.sid \in Sids /\ stopped = {}
      /\ \A r \in late' : r.op = "begin" => r.sid # run.sid
      /\ \A k \in Sids \ {run.sid} : call[k].at # "none" => Doomed(call[k])
  BY <1>1, AgentRuns
<1>3. \A k \in Sids : call[k].at # "none" /\ k \notin stopped' => Doomed(call[k])
  BY <1>1, <1>2
<1>4. (thread[run.sid].at # "failed") \in BOOLEAN
  OBVIOUS
<1> DEFINE completed == thread[run.sid].at # "failed"
<1>5. Cleanup(queue, completed) /\ completed \in BOOLEAN
  BY <1>1, <1>4
<1> HIDE DEF completed
<1> QED BY <1>1, <1>2, <1>3, <1>5, CleanupKeeps

\* The run is cancelled, and its call is to be told.
LEMMA InterruptKeeps ==
  ASSUME AgentInv, Interrupt
  PROVE  AgentInv'
<1>1. /\ run.at = "agent" /\ Cleanup(queue, FALSE)
      /\ stopped' = IF call[run.sid].at = "none" THEN stopped ELSE stopped \cup {run.sid}
      /\ UNCHANGED <<thread, call, route, late, lost, daemon, ran>>
  BY DEF Interrupt
<1>2. /\ RunMoves(queue) /\ run.sid \in Sids /\ stopped = {}
      /\ \A k \in Sids \ {run.sid} : call[k].at # "none" => Doomed(call[k])
  BY <1>1, AgentRuns
<1>3. \A k \in Sids : call[k].at # "none" /\ k \notin stopped' => Doomed(call[k])
  BY <1>1, <1>2
<1>4. stopped' \subseteq {run.sid}
  BY <1>1, <1>2
<1> QED BY <1>1, <1>2, <1>3, <1>4, CleanupKeeps

\* The answer to the run's request, or none.
LEMMA RunAfterKeeps ==
  ASSUME NEW q, RunMoves(q), NEW ok \in BOOLEAN, RunAfter(ok, q),
         stopped = {}, stopped' = {}, ok => late' = late,
         run.at = "end" /\ ok => Clean(daemon', run.sid)
  PROVE  AgentInv'
<1> DEFINE n == daemon'.begun
<1>1. run \in RunType /\ RunsInOrder /\ Interrupted /\ call' = call /\ n \in Nat
  BY InvNow DEF RunMoves, AgentInv, Core, DaemonOK
<1>2. ASSUME run.at # "done"
      PROVE  run.sid \in Sids /\ run.sid <= run.sid
  BY <1>1, <1>2, LiveAgentAssumption DEF RunsInOrder, RunType
<1>3. run.at # "agent" => \A k \in Sids : call[k].at # "none" => Doomed(call[k])
  BY <1>1 DEF Interrupted
<1>4. CASE /\ run.at = "begin" /\ ok /\ run' = [run EXCEPT !.at = "agent"] /\ queue' = q
           /\ UNCHANGED pending
  <2>1. run' \in RunType /\ run'.at = "agent" /\ run'.sid = run.sid /\ ~run'.completed
    BY <1>1, <1>4 DEF RunType, RunsInOrder
  <2>2. Interrupted'
    BY <1>1, <1>3, <1>4, <2>1 DEF Interrupted, Doomed
  <2>3. RunGoes(q)
    BY <1>1, <1>2, <1>4, <2>1, <2>2 DEF RunGoes, RunsInOrder
  <2> QED BY <2>3, RunKeeps
<1>5. CASE run.at = "begin" /\ Cleanup(q, FALSE)
  BY <1>2, <1>3, <1>5, CleanupKeeps
<1>6. CASE /\ run.at = "cancel" /\ run' = [run EXCEPT !.at = "end", !.completed = @ /\ ok]
           /\ queue' = Append(q, Plain(0, "end", run.sid)) /\ UNCHANGED pending
  <2> DEFINE r == Plain(0, "end", run.sid)
  <2>1. r \in RequestsUpTo(n) /\ r.by = 0 /\ r.sid = run.sid /\ r.op = "end"
    BY <1>1, <1>2, <1>6 DEF RequestsUpTo, Ops, Request, Plain
  <2>2. /\ run' \in RunType /\ run'.at = "end" /\ run'.sid = run.sid
        /\ run'.completed => run.completed /\ ok
    BY <1>1, <1>6 DEF RunType
  <2>3. <<"end", "end">> \in RunAwaits
    BY DEF RunAwaits
  <2>4. queue' = Append(q, r)
    BY <1>6
  <2> HIDE DEF r
  <2>5. Interrupted'
    BY <1>1, <1>3, <1>6, <2>2 DEF Interrupted, Doomed
  <2>6. RunGoes(q)
    BY <1>1, <1>2, <1>6, <2>1, <2>2, <2>3, <2>4, <2>5 DEF RunGoes, RunsInOrder
  <2> QED BY <2>6, RunKeeps
<1>7. CASE /\ run.at = "end" /\ run' = [run EXCEPT !.at = "close", !.completed = @ /\ ok]
           /\ queue' = Append(q, Plain(0, "close", run.sid)) /\ UNCHANGED pending
  <2> DEFINE r == Plain(0, "close", run.sid)
  <2>1. r \in RequestsUpTo(n) /\ r.by = 0 /\ r.sid = run.sid /\ r.op = "close"
    BY <1>1, <1>2, <1>7 DEF RequestsUpTo, Ops, Request, Plain
  <2>2. /\ run' \in RunType /\ run'.at = "close" /\ run'.sid = run.sid
        /\ run'.completed => run.completed /\ ok
    BY <1>1, <1>7 DEF RunType
  <2>3. <<"close", "close">> \in RunAwaits
    BY DEF RunAwaits
  <2>4. queue' = Append(q, r)
    BY <1>7
  <2> HIDE DEF r
  <2>5. Interrupted'
    BY <1>1, <1>3, <1>7, <2>2 DEF Interrupted, Doomed
  <2>6. RunGoes(q)
    BY <1>1, <1>2, <1>7, <2>1, <2>2, <2>3, <2>4, <2>5 DEF RunGoes, RunsInOrder
  <2> QED BY <2>6, RunKeeps
<1> QED BY <1>4, <1>5, <1>6, <1>7 DEF RunAfter

\* The head of the queue is the run's request.
LEMMA RunHead ==
  ASSUME AgentInv, queue # << >>, Head(queue).by = 0
  PROVE  /\ Head(queue) \in Outstanding /\ Head(queue).sid = run.sid
         /\ <<run.at, Head(queue).op>> \in RunAwaits
         /\ Queued(RequestsUpTo(daemon.begun), Tail(queue))
         /\ ToSet(Tail(queue)) \subseteq ToSet(queue) /\ \A x \in ToSet(Tail(queue)) : x.by # 0
<1>1. Queued(RequestsUpTo(daemon.begun), queue) /\ RequestsMatch
  BY InvNow DEF AgentInv
<1>2. /\ Queued(RequestsUpTo(daemon.begun), Tail(queue)) /\ Head(queue) \in ToSet(queue)
      /\ ToSet(Tail(queue)) = {x \in ToSet(queue) : x.by # 0}
  BY <1>1, QueuedTail
<1> QED BY <1>1, <1>2 DEF RequestsMatch, Outstanding

\* The run's request is answered.
LEMMA RunRepliedKeeps ==
  ASSUME AgentInv, RunReplied
  PROVE  AgentInv'
<1> DEFINE h == Head(queue)
           q == Tail(queue)
<1>1. /\ queue # << >> /\ h.by = 0 /\ h.op # "close" /\ stopped = {}
      /\ UNCHANGED <<thread, call, route, stopped, late, lost, ran>>
  BY DEF RunReplied
<1>2. PICK rep \in Replies(h) : daemon' = rep.daemon /\ RunAfter(rep.ok, q)
  BY DEF RunReplied
<1>3. /\ h \in Outstanding /\ h.sid = run.sid /\ <<run.at, h.op>> \in RunAwaits
      /\ Queued(RequestsUpTo(daemon.begun), q)
      /\ ToSet(q) \subseteq ToSet(queue) /\ \A x \in ToSet(q) : x.by # 0
  BY <1>1, RunHead
<1>4. /\ Core(daemon, Outstanding, pending, call, ran)
      /\ LateOK(late, daemon.begun) /\ lost \in 0..MaxLost
  BY InvNow
<1> HIDE DEF h, q
<1>5. /\ Core(daemon', Outstanding, pending, call, ran) /\ daemon.begun <= daemon'.begun
      /\ rep.ok \in BOOLEAN
      /\ h.op = "end" /\ rep.ok => Clean(daemon', h.sid)
  BY <1>1, <1>2, <1>3, <1>4, RepliesCore
<1>6. Core(daemon', Rest(q), pending, call, ran)
  <2>1. Rest(q) \subseteq Outstanding
    BY <1>1, <1>3 DEF Rest, Outstanding
  <2> QED BY <1>5, <2>1, CoreFewer
<1>7. RequestsUpTo(daemon.begun) \subseteq RequestsUpTo(daemon'.begun)
  <2>1. daemon.begun \in Nat /\ daemon'.begun \in Nat
    BY <1>4, <1>5 DEF Core, DaemonOK
  <2>2. 0..daemon.begun \subseteq 0..daemon'.begun
    BY <1>5, <2>1
  <2> QED BY <2>2 DEF RequestsUpTo
<1>8. Queued(RequestsUpTo(daemon'.begun), q) /\ LateOK(late, daemon'.begun)
  BY <1>3, <1>4, <1>7, QueuedWiden DEF LateOK
<1>9. RunMoves(q)
  BY <1>1, <1>3, <1>4, <1>6, <1>8 DEF RunMoves, Outstanding
<1>10. run.at = "end" /\ rep.ok => Clean(daemon', run.sid)
  BY <1>3, <1>5 DEF RunAwaits
<1> QED BY <1>1, <1>2, <1>5, <1>9, <1>10, RunAfterKeeps

\* The run's request is given up: what it began is not counted as completed.
LEMMA RunTimedOutKeeps ==
  ASSUME AgentInv, RunTimedOut
  PROVE  AgentInv'
<1> DEFINE h == Head(queue)
           q == Tail(queue)
<1>1. /\ queue # << >> /\ h.by = 0 /\ h.op \notin {"close", "refused"} /\ lost < MaxLost /\ stopped = {}
      /\ late' = late \cup {h} /\ lost' = lost + 1 /\ RunAfter(FALSE, q)
      /\ UNCHANGED <<thread, call, route, stopped, daemon, ran>>
  BY DEF RunTimedOut, Timeout
<1>2. /\ h \in Outstanding
      /\ Queued(RequestsUpTo(daemon.begun), q)
      /\ ToSet(q) \subseteq ToSet(queue) /\ \A x \in ToSet(q) : x.by # 0
  BY <1>1, RunHead
<1>3. /\ Core(daemon, Outstanding, pending, call, ran)
      /\ LateOK(late, daemon.begun) /\ lost \in 0..MaxLost
  BY InvNow
<1> HIDE DEF h, q
<1>4. Core(daemon', Rest(q), pending, call, ran)
  <2>1. Rest(q) \subseteq Outstanding
    BY <1>1, <1>2 DEF Rest, Outstanding
  <2> QED BY <1>1, <1>3, <2>1, CoreFewer
<1>5. LateOK(late', daemon'.begun)
  BY <1>1, <1>2, <1>3 DEF LateOK, Core, BooksOK
<1>6. lost' \in 0..MaxLost
  BY <1>1, <1>3, LiveAgentAssumption
<1>7. RunMoves(q)
  BY <1>1, <1>2, <1>4, <1>5, <1>6 DEF RunMoves, Outstanding
<1> QED BY <1>1, <1>7, RunAfterKeeps

\* Whoever waits behind aclose is refused, and so asks the daemon nothing any more.
LEMMA ClosedKeeps ==
  ASSUME AgentInv, Closed
  PROVE  AgentInv'
<1> DEFINE h == Head(queue)
           n == daemon.begun
           R == RequestsUpTo(n)
           refuse(x) == [x EXCEPT !.op = "refused"]
<1>1. /\ queue # << >> /\ h.op = "close"
      /\ queue' = [i \in 1..(Len(queue) - 1) |-> refuse(queue[i + 1])]
      /\ run' = [run EXCEPT !.at = "done"]
      /\ UNCHANGED <<thread, call, route, pending, stopped, late, lost, daemon, ran>>
  BY DEF Closed
<1>2. /\ Core(daemon, Outstanding, pending, call, ran) /\ Queued(R, queue)
      /\ run \in RunType /\ thread \in [Sids -> ThreadType]
      /\ Line(route) /\ LateOK(late, n) /\ lost \in 0..MaxLost /\ stopped \subseteq Sids
      /\ RequestsMatch /\ ThreadsInStep /\ RunsInOrder /\ Interrupted
  BY InvNow DEF AgentInv
<1>3. h.by = 0
  <2>1. h \in R
    BY <1>1, <1>2, QueuedTail
  <2>2. ASSUME NEW k \in Sids, h.by = k PROVE FALSE
    BY <1>1, <2>2, HeadIs
  <2> QED BY <2>1, <2>2 DEF RequestsUpTo
<1>4. run.at = "close"
  <2>1. <<run.at, h.op>> \in RunAwaits
    BY <1>1, <1>3, RunHead
  <2> QED BY <1>1, <2>1 DEF RunAwaits
<1>5. /\ queue \in Seq(R) /\ Len(queue) \in Nat /\ Len(queue) # 0 /\ h = queue[1]
      /\ \A i \in 1..Len(queue) : queue[i] \in R /\ queue[i] \in ToSet(queue)
      /\ \A i, j \in 1..Len(queue) : queue[i].by = queue[j].by => i = j
  BY <1>1, <1>2, InDomain, EmptySeq DEF Queued
<1>6. \A x \in R : /\ refuse(x) \in R /\ refuse(x).by = x.by /\ refuse(x).sid = x.sid
                   /\ refuse(x).op = "refused"
  BY DEF RequestsUpTo, Ops
<1> HIDE DEF h, R, refuse
<1>7. \A i \in 1..(Len(queue) - 1) : i + 1 \in 1..Len(queue) /\ i + 1 # 1 /\ queue[i + 1] \in R
  BY <1>5
<1>8. /\ queue' \in Seq(R) /\ Len(queue') = Len(queue) - 1
      /\ \A i \in 1..(Len(queue) - 1) : queue'[i] = refuse(queue[i + 1])
  <2>1. Len(queue) - 1 \in Nat
    BY <1>5
  <2>2. \A i \in 1..(Len(queue) - 1) : refuse(queue[i + 1]) \in R
    BY <1>6, <1>7
  <2>3. queue' \in [1..(Len(queue) - 1) -> R]
    BY <1>1, <2>2
  <2> QED BY <1>1, <2>1, <2>3
<1>9. Queued(R, queue')
  <2> SUFFICES ASSUME NEW i \in 1..(Len(queue) - 1), NEW j \in 1..(Len(queue) - 1),
                      queue'[i].by = queue'[j].by
               PROVE  i = j
    BY <1>8 DEF Queued
  <2>1. queue[i + 1].by = queue[j + 1].by
    BY <1>6, <1>7, <1>8
  <2>2. i + 1 = j + 1
    BY <1>5, <1>7, <2>1
  <2> QED BY <2>2
<1>10. ASSUME NEW y \in ToSet(queue')
       PROVE  \E x \in ToSet(queue) : x.by # 0 /\ y \in R /\ y.by = x.by /\ y.sid = x.sid /\ y.op = "refused"
  <2>1. PICK i \in 1..(Len(queue) - 1) : y = refuse(queue[i + 1])
    <3>1. ToSet(queue') = {queue'[i] : i \in 1..(Len(queue) - 1)}
      BY <1>8, InDomain
    <3> QED BY <1>8, <1>10, <3>1
  <2>2. queue[i + 1] \in ToSet(queue) /\ queue[i + 1] \in R /\ queue[i + 1].by # 0
    BY <1>3, <1>5, <1>7
  <2> QED BY <1>6, <2>1, <2>2
<1>11. Outstanding' = ToSet(queue') \cup late
  BY <1>1 DEF Outstanding
<1>12. Core(daemon, Outstanding', pending, call, ran)
  <2>1. run.sid \in Sids
    BY <1>2, <1>4, LiveAgentAssumption DEF RunsInOrder, RunType
  <2>2. Outstanding' \subseteq RequestsUpTo(n)
    BY <1>2, <1>10, <1>11 DEF LateOK, R
  <2>3. \A r \in Outstanding' : r \in Outstanding \/ r.op # "mutation_end"
    BY <1>10, <1>11 DEF Outstanding
  <2> QED BY <1>2, <2>1, <2>2, <2>3, RunCore
<1>13. RequestsMatch'
  <2> SUFFICES ASSUME NEW y \in ToSet(queue')
               PROVE  /\ y.by # 0
                      /\ \E at \in {a[1] : a \in Awaits} :
                           call[y.by].at = at /\ (y.op = "refused" \/ <<at, y.op>> \in Awaits)
    BY <1>1 DEF RequestsMatch
  <2>1. PICK x \in ToSet(queue) : x.by # 0 /\ y.by = x.by /\ y.op = "refused"
    BY <1>10
  <2> QED BY <1>2, <2>1 DEF RequestsMatch
<1>14. run' \in RunType /\ run'.at = "done" /\ run'.sid = run.sid /\ run'.completed = run.completed
  BY <1>1, <1>2 DEF RunType
<1>15. ThreadsInStep'
  BY <1>1, <1>2 DEF ThreadsInStep
<1>16. RunsInOrder'
  <2>1. \A r \in Outstanding' : r.sid <= run.sid
    <3> SUFFICES ASSUME NEW r \in Outstanding' PROVE r.sid <= run.sid
      OBVIOUS
    <3>1. \E x \in Outstanding : r.sid = x.sid
      BY <1>10, <1>11 DEF Outstanding
    <3> QED BY <1>2, <3>1 DEF RunsInOrder
  <2> QED BY <1>1, <1>2, <1>4, <1>14, <2>1 DEF RunsInOrder
<1>17. Interrupted'
  BY <1>1, <1>2, <1>4, <1>14 DEF Interrupted, Doomed
<1>18. Queued(RequestsUpTo(daemon'.begun), queue')
  BY <1>1, <1>9 DEF R
<1> QED BY <1>1, <1>2, <1>12, <1>13, <1>14, <1>15, <1>16, <1>17, <1>18, InvAgain

\* A request its client gave up reaches the daemon after all.
LEMMA LateHandledKeeps ==
  ASSUME AgentInv, NEW r \in late, LateHandled(r)
  PROVE  AgentInv'
<1> DEFINE n == daemon.begun
<1>1. /\ late' = late \ {r}
      /\ UNCHANGED <<run, thread, call, route, pending, stopped, queue, lost, ran>>
  BY DEF LateHandled
<1>2. PICK rep \in Replies(r) : daemon' = rep.daemon
  BY DEF LateHandled
<1>3. /\ Core(daemon, Outstanding, pending, call, ran) /\ Queued(RequestsUpTo(n), queue)
      /\ run \in RunType /\ thread \in [Sids -> ThreadType]
      /\ Line(route) /\ LateOK(late, n) /\ lost \in 0..MaxLost /\ stopped \subseteq Sids
      /\ RequestsMatch /\ ThreadsInStep /\ RunsInOrder /\ Interrupted
  BY InvNow DEF AgentInv
<1>4. r \in Outstanding /\ r.op # "close"
  BY <1>3 DEF Outstanding, LateOK
<1>5. /\ Core(daemon', Outstanding, pending, call, ran) /\ daemon.begun <= daemon'.begun
      /\ \A s \in Sids : Clean(daemon, s) /\ (r.op = "begin" => r.sid # s) => Clean(daemon', s)
  BY <1>2, <1>3, <1>4, RepliesCore
<1>6. Outstanding' \subseteq Outstanding
  BY <1>1 DEF Outstanding
<1>7. Core(daemon', Outstanding', pending', call', ran')
  BY <1>1, <1>5, <1>6, CoreFewer
<1>8. RequestsUpTo(n) \subseteq RequestsUpTo(daemon'.begun)
  <2>1. n \in Nat /\ daemon'.begun \in Nat
    BY <1>3, <1>5 DEF Core, DaemonOK
  <2>2. 0..n \subseteq 0..daemon'.begun
    BY <1>5, <2>1
  <2> QED BY <2>2 DEF RequestsUpTo
<1>9. Queued(RequestsUpTo(daemon'.begun), queue') /\ LateOK(late', daemon'.begun)
  <2>1. Queued(RequestsUpTo(daemon'.begun), queue)
    BY <1>3, <1>8, QueuedWiden
  <2> QED BY <1>1, <1>3, <1>8, <2>1 DEF LateOK
<1>10. RequestsMatch' /\ ThreadsInStep' /\ Interrupted'
  BY <1>1, <1>3 DEF RequestsMatch, ThreadsInStep, Interrupted, Doomed
<1>11. RunsInOrder'
  <2>1. run.at \in {"close", "done"} /\ run.completed => Clean(daemon', run.sid)
    <3> SUFFICES ASSUME run.at \in {"close", "done"}, run.completed PROVE Clean(daemon', run.sid)
      OBVIOUS
    <3>1. Clean(daemon, run.sid) /\ (r.op = "begin" => r.sid # run.sid)
      BY <1>3 DEF RunsInOrder, Clean
    <3>2. CASE run.sid \in Sids
      BY <1>5, <3>1, <3>2
    <3>3. CASE run.sid \notin Sids
      BY <1>5, <3>3 DEF Clean, Core, DaemonOK, DaemonsUpTo, FencesUpTo
    <3> QED BY <3>2, <3>3
  <2> QED BY <1>1, <1>3, <1>6, <2>1 DEF RunsInOrder, Clean
<1> QED BY <1>1, <1>3, <1>7, <1>9, <1>10, <1>11, InvAgain

-----------------------------------------------------------------------------
(* The theorems *)

\* Nothing has begun.
LEMMA InitKeeps == Init => AgentInv
<1> SUFFICES ASSUME Init PROVE AgentInv
  OBVIOUS
<1>1. /\ run = [sid |-> 0, at |-> "done", completed |-> FALSE]
      /\ thread = [k \in Sids |-> [at |-> "start", step |-> 0, cmd |-> NoCommand]]
      /\ call = [k \in Sids |-> NoCall] /\ route = << >> /\ pending = NoEdit
      /\ stopped = {} /\ queue = << >> /\ late = {} /\ lost = 0 /\ daemon = NoSessions /\ ran = {}
  BY DEF Init
<1>2. ToSet(<< >>) = {} /\ Len(<< >>) = 0
  BY EmptySeq DEF ToSet
<1>3. Outstanding = {}
  BY <1>1, <1>2 DEF Outstanding
<1>4. /\ daemon.begun = 0 /\ daemon.sessions = {} /\ daemon.fences = {}
      /\ daemon.chain = [s \in Sids |-> 0]
      /\ daemon = [sessions |-> {}, fences |-> {}, begun |-> 0, chain |-> [s \in Sids |-> 0]]
  BY <1>1 DEF NoSessions
<1>5. \A k \in Sids : call[k] = NoCall /\ ~HoldsFence(k) /\ call[k].at = "none"
  BY <1>1 DEF NoCall, HoldsFence
<1>6. TypeOK
  <2>1. run \in [sid : {0} \cup Sids,
                 at : {"begin", "agent", "cancel", "end", "close", "done"}, completed : BOOLEAN]
    BY <1>1
  <2>2. thread \in [Sids -> [at : {"start", "stream", "streamed", "exec", "aborting", "failed", "over"},
                             step : 0..MaxSteps, cmd : Commands \cup {NoCommand}]]
    BY <1>1, LiveAgentAssumption
  <2>3. call \in [Sids -> [at : {"none", "lock", "begin", "feed", "unfeed", "cancel", "resolve",
                                 "exec", "finish", "chain", "report"},
                           kind : {"none", "start", "delta", "end", "abort", "exec"},
                           cmd : Commands \cup {NoCommand}, token : 0..daemon.begun,
                           failed : BOOLEAN, cancelled : BOOLEAN]]
    BY <1>1, <1>4 DEF NoCall
  <2>4. pending \in [token : 0..daemon.begun, write : Writes \cup {NoWrite}, confirmed : BOOLEAN]
    BY <1>1, <1>4 DEF NoEdit
  <2>5. route \in Seq(Sids) /\ IsInjective(route)
    BY <1>1, <1>2 DEF IsInjective
  <2>6. queue \in Seq(Requests) /\ \A i, j \in 1..Len(queue) : queue[i].by = queue[j].by => i = j
    BY <1>1, <1>2
  <2>7. /\ late \subseteq {r \in Requests : r.op \notin {"close", "refused"}}
        /\ lost \in 0..MaxLost /\ stopped \subseteq Sids
    BY <1>1, LiveAgentAssumption
  <2>8. /\ daemon.begun \in Nat
        /\ daemon \in [sessions : SUBSET Sids,
                       fences : SUBSET [id : 1..daemon.begun, sid : Sids,
                                        write : Writes \cup {NoWrite}, conflicted : BOOLEAN],
                       begun : {daemon.begun}, chain : [Sids -> 0..daemon.begun]]
        /\ ran \subseteq 1..daemon.begun
    BY <1>1, <1>4
  <2> QED BY <2>1, <2>2, <2>3, <2>4, <2>5, <2>6, <2>7, <2>8 DEF TypeOK
<1>7. ChainFenced /\ OneOwner /\ FencesTold
  BY <1>1, <1>3, <1>4, <1>5 DEF ChainFenced, OneOwner, FencesTold
<1>8. RequestsMatch /\ ThreadsInStep
  BY <1>1, <1>2, <1>5 DEF RequestsMatch, ThreadsInStep, NoCall
<1>9. RunsInOrder /\ Interrupted
  BY <1>1, <1>3, <1>5 DEF RunsInOrder, Interrupted
<1> QED BY <1>6, <1>7, <1>8, <1>9 DEF AgentInv

\* Every step of the live agent keeps the invariant.
LEMMA NextKeeps == AgentInv /\ [Next]_vars => AgentInv'
<1> SUFFICES ASSUME AgentInv, [Next]_vars PROVE AgentInv'
  OBVIOUS
<1>1. CASE StartRun
  BY <1>1, StartRunKeeps
<1>2. CASE AgentReturns
  BY <1>2, AgentReturnsKeeps
<1>3. CASE Interrupt
  BY <1>3, InterruptKeeps
<1>4. CASE RunStep
  BY <1>4, RunRepliedKeeps, RunTimedOutKeeps, ClosedKeeps DEF RunStep
<1>5. ASSUME NEW k \in Sids, ModelStep(k) \/ Step(k) PROVE AgentInv'
  <2>1. CASE ModelStep(k)
    BY <2>1, ModelStepKeeps
  <2>2. CASE StreamEvent(k)
    BY <2>2, StreamEventKeeps
  <2>3. CASE Route(k)
    BY <2>3, RouteKeeps
  <2>4. CASE ExecEnds(k)
    BY <2>4, ExecEndsKeeps
  <2>5. CASE CallReplied(k)
    BY <2>5, CallRepliedKeeps
  <2>6. CASE CallTimedOut(k)
    BY <2>6, CallTimedOutKeeps
  <2>7. CASE CancelDelivered(k)
    BY <2>7, CancelDeliveredKeeps
  <2> QED BY <1>5, <2>1, <2>2, <2>3, <2>4, <2>5, <2>6, <2>7 DEF Step
<1>6. ASSUME NEW r \in late, LateHandled(r) PROVE AgentInv'
  BY <1>6, LateHandledKeeps
<1>7. CASE UNCHANGED vars
  <2>1. TypeOK' /\ ChainFenced' /\ FencesTold'
    BY <1>7 DEF vars, AgentInv, TypeOK, Requests, ChainFenced, FencesTold, Outstanding
  <2>2. OneOwner' /\ RequestsMatch' /\ ThreadsInStep'
    BY <1>7 DEF vars, AgentInv, OneOwner, HoldsFence, HasFence, Ending, Outstanding,
                RequestsMatch, ThreadsInStep
  <2>3. RunsInOrder' /\ Interrupted'
    BY <1>7 DEF vars, AgentInv, RunsInOrder, Outstanding, Interrupted, Doomed
  <2> QED BY <2>1, <2>2, <2>3 DEF AgentInv
<1> QED BY <1>1, <1>2, <1>3, <1>4, <1>5, <1>6, <1>7 DEF Next

\* The books of the live agent hold in every state: the daemon's fences have one owner each,
\* requests match the coroutine that waits for them, and a call whose run is over comes to
\* nothing (sfx_live_agent.py, control_transport.py).
THEOREM AgentInvHolds == Spec => []AgentInv
<1>1. Init => AgentInv
  BY InitKeeps
<1>2. AgentInv /\ [Next]_vars => AgentInv'
  BY NextKeeps
<1> QED BY <1>1, <1>2, PTL DEF Spec

\* A command runs only behind an active fence of its own (_authoritative, original_exec).
THEOREM FencedExecutionHolds == Spec => []FencedExecution
<1>1. AgentInv => FencedExecution
  BY DEF AgentInv, ThreadsInStep, OneOwner, HoldsFence, HasFence, FencedExecution
<1> QED BY <1>1, AgentInvHolds, PTL

\* A run that is recorded as completed left nothing at the daemon (the finally clause of run).
THEOREM CompletedMeansCleanHolds == Spec => []CompletedMeansClean
<1>1. AgentInv => CompletedMeansClean
  BY DEF AgentInv, RunsInOrder, CompletedMeansClean
<1> QED BY <1>1, AgentInvHolds, PTL

-----------------------------------------------------------------------------
(* Where a command starts *)

\* A step of call k leaves the others alone, and starts a command only in going on.
Starts(k, goes) ==
  /\ \A j \in Sids \ {k} : call'[j] = call[j]
  /\ call'[k].at = "exec" => goes

\* Who waits for a request starts no command.
LEMMA AwaitStarts ==
  ASSUME AgentInv, NEW k \in Sids, NEW c, NEW q, NEW op, NEW token, NEW write, NEW success,
         NEW at \in CallAts \ {"exec"}, NEW x, x \in CallsUpTo(daemon.begun),
         \/ c = [x EXCEPT !.at = at]
         \/ c = [x EXCEPT !.at = at, !.failed = TRUE]
         \/ \E t : c = [x EXCEPT !.at = at, !.token = t],
         Await(k, c, q, op, token, write, success)
  PROVE  Starts(k, FALSE)
<1>1. call \in [Sids -> CallsUpTo(daemon.begun)]
  BY InvNow
<1>2. call' = [call EXCEPT ![k] = [c EXCEPT !.cancelled = FALSE]]
  BY DEF Await
<1>3. [c EXCEPT !.cancelled = FALSE].at = at
  BY DEF CallsUpTo
<1> QED BY <1>1, <1>2, <1>3 DEF Starts

\* Nor who leaves.
LEMMA LeaveStarts ==
  ASSUME AgentInv, NEW k \in Sids, NEW q, NEW ok, Leave(k, ok, q)
  PROVE  Starts(k, FALSE)
<1>1. call \in [Sids -> CallsUpTo(daemon.begun)]
  BY InvNow
<1> QED BY <1>1 DEF Leave, Starts, NoCall

\* Only Execute does.
LEMMA ExecuteStarts ==
  ASSUME AgentInv, NEW k \in Sids, NEW q, NEW t, Execute(k, t, q)
  PROVE  Starts(k, TRUE)
<1>1. call \in [Sids -> CallsUpTo(daemon.begun)]
  BY InvNow
<1> QED BY <1>1 DEF Execute, Starts

\* In _route_one a command may start.
LEMMA RouteOneStarts ==
  ASSUME AgentInv, NEW k \in Sids, NEW q, RouteOne(k, q)
  PROVE  Starts(k, TRUE)
<1>1. call[k] \in CallsUpTo(daemon.begun)
  BY InvNow
<1>2. CASE \E t : Execute(k, t, q)
  BY <1>2, ExecuteStarts
<1>3. CASE \/ BeginMutation(k, q)
           \/ Await(k, [call[k] EXCEPT !.at = "resolve"], q, "resolve", 0, NoWrite, FALSE)
  <2>1. {"begin", "resolve"} \subseteq CallAts \ {"exec"}
    BY DEF CallAts
  <2>2. PICK at \in {"begin", "resolve"}, op \in Ops, w \in Writes \cup {NoWrite} :
          Await(k, [call[k] EXCEPT !.at = at], q, op, 0, w, FALSE)
    BY <1>3 DEF BeginMutation, Ops
  <2>3. Starts(k, FALSE)
    BY <1>1, <2>1, <2>2, AwaitStarts
  <2> QED BY <2>3 DEF Starts
<1> QED BY <1>2, <1>3 DEF RouteOne

\* After an exception or a cancellation none does.
LEMMA ThrowStarts ==
  ASSUME AgentInv, NEW k \in Sids, NEW q, Throw(k, q)
  PROVE  Starts(k, FALSE)
<1>1. call[k] \in CallsUpTo(daemon.begun) /\ {"unfeed", "finish"} \subseteq CallAts \ {"exec"}
  BY InvNow DEF CallAts
<1>2. CASE CancelPending(k, "unfeed", q)
  BY <1>1, <1>2, AwaitStarts DEF CancelPending
<1>3. CASE Await(k, [call[k] EXCEPT !.at = "finish", !.failed = TRUE], q,
                 "mutation_end", call[k].token, NoWrite, FALSE)
  BY <1>1, <1>3, AwaitStarts
<1>4. CASE Leave(k, FALSE, q)
  BY <1>4, LeaveStarts
<1> QED BY <1>2, <1>3, <1>4 DEF Throw

\* A call goes on to its command from three of its awaits.
LEMMA ResumeStarts ==
  ASSUME AgentInv, NEW k \in Sids, NEW q, NEW val, ~call[k].cancelled, Resume(k, val, q)
  PROVE  Starts(k, call[k].at \in {"begin", "feed", "cancel"})
<1> DEFINE c == call[k]
           goes == call[k].at \in {"begin", "feed", "cancel"}
<1>1. c \in CallsUpTo(daemon.begun) /\ {"begin", "feed", "chain", "report"} \subseteq CallAts \ {"exec"}
  BY InvNow DEF CallAts
<1>2. CASE \E ok : Leave(k, ok, q)
  BY <1>2, LeaveStarts DEF Starts
<1>3. CASE c.at = "cancel" /\ RouteOne(k, q)
  BY <1>3, RouteOneStarts DEF Starts
<1>4. CASE c.at \in {"begin", "feed"} /\ \E t : Execute(k, t, q)
  BY <1>4, ExecuteStarts DEF Starts
<1>5. CASE BeginMutation(k, q)
  <2>1. PICK w : Await(k, [c EXCEPT !.at = "begin"], q, "mutation_begin", 0, w, FALSE)
    BY <1>5 DEF BeginMutation
  <2> QED BY <1>1, <2>1, AwaitStarts DEF Starts
<1>6. CASE Await(k, [c EXCEPT !.at = "feed"], q, "feed", val, c.cmd, FALSE)
  BY <1>1, <1>6, AwaitStarts DEF Starts
<1>7. CASE Await(k, [c EXCEPT !.at = "feed", !.token = val], q, "feed", val, c.cmd, FALSE)
  BY <1>1, <1>7, AwaitStarts DEF Starts
<1>8. CASE \/ Await(k, [c EXCEPT !.at = "chain"], q, "resolve", 0, NoWrite, FALSE)
           \/ Await(k, [c EXCEPT !.at = "report"], q, "report", c.token, NoWrite, FALSE)
  BY <1>1, <1>8, AwaitStarts DEF Starts
<1> QED BY <1>2, <1>3, <1>4, <1>5, <1>6, <1>7, <1>8 DEF Resume

\* It is a call that is not to come to nothing.
LEMMA CommandStarts ==
  ASSUME AgentInv, [Next]_vars, NEW k \in Sids, call[k].at # "exec", call'[k].at = "exec"
  PROVE  call[k].at # "none" /\ ~Doomed(call[k])
<1>1. call \in [Sids -> CallsUpTo(daemon.begun)] /\ Interrupted /\ RequestsMatch
  BY InvNow DEF AgentInv
<1>2. call' # call
  OBVIOUS
<1>3. PICK j \in Sids : ModelStep(j) \/ Step(j)
  BY <1>2
  DEF Next, vars, StartRun, AgentReturns, Interrupt, RunStep, RunReplied, RunTimedOut, Closed, LateHandled
<1>4. CASE ModelStep(j)
  <2>1. \E kind, cmd : Issue(j, kind, cmd)
    BY <1>4 DEF ModelStep
  <2>2. PICK c : call' = [call EXCEPT ![j] = c] /\ c.at = "lock"
    BY <2>1 DEF Issue, NoCall
  <2> QED BY <1>1, <2>2
<1>5. CASE StreamEvent(j)
  <2>1. call[j] \in CallsUpTo(daemon.begun) /\ {"cancel", "begin"} \subseteq CallAts \ {"exec"}
    BY <1>1 DEF CallAts
  <2>2. Starts(j, FALSE)
    <3>1. CASE \E ok : Leave(j, ok, queue)
      BY <3>1, LeaveStarts
    <3>2. CASE CancelPending(j, "cancel", queue)
      BY <2>1, <3>2, AwaitStarts DEF CancelPending
    <3>3. CASE Await(j, [call[j] EXCEPT !.at = "begin"], queue, "mutation_begin", 0, call[j].cmd, FALSE)
      BY <2>1, <3>3, AwaitStarts
    <3> QED BY <1>5, <3>1, <3>2, <3>3 DEF StreamEvent
  <2> QED BY <2>2 DEF Starts
<1>6. CASE Route(j)
  <2>1. Starts(j, TRUE)
    <3>1. CASE CancelPending(j, "cancel", queue)
      <4>1. call[j] \in CallsUpTo(daemon.begun) /\ "cancel" \in CallAts \ {"exec"}
        BY <1>1 DEF CallAts
      <4> QED BY <3>1, <4>1, AwaitStarts DEF CancelPending, Starts
    <3>2. CASE RouteOne(j, queue)
      BY <3>2, RouteOneStarts
    <3> QED BY <1>6, <3>1, <3>2 DEF Route
  <2>2. k = j /\ call[k].at = "lock" /\ ~call[k].cancelled
    BY <1>1, <1>6, <2>1 DEF Starts, Route, Holds, Interrupted
  <2> QED BY <2>2 DEF Doomed
<1>7. CASE ExecEnds(j)
  <2>1. call[j] \in CallsUpTo(daemon.begun) /\ "finish" \in CallAts \ {"exec"}
    BY <1>1 DEF CallAts
  <2>2. Starts(j, FALSE)
    BY <1>7, <2>1, AwaitStarts, ThrowStarts DEF ExecEnds
  <2> QED BY <2>2 DEF Starts
<1>8. CASE CallTimedOut(j)
  BY <1>8, ThrowStarts DEF CallTimedOut, Starts
<1>9. CASE CancelDelivered(j)
  <2>1. CASE Throw(j, Unqueued(j))
    BY <2>1, ThrowStarts DEF Starts
  <2>2. CASE call' = [call EXCEPT ![j].cancelled = TRUE]
    BY <1>1, <2>2 DEF CallsUpTo
  <2> QED BY <1>2, <1>9, <2>1, <2>2 DEF CancelDelivered
<1>10. CASE CallReplied(j)
  <2>1. CASE Throw(j, Tail(queue))
    BY <2>1, ThrowStarts DEF Starts
  <2>2. CASE ~call[j].cancelled /\ \E val : Resume(j, val, Tail(queue))
    <3>1. Starts(j, call[j].at \in {"begin", "feed", "cancel"})
      BY <2>2, ResumeStarts
    <3>2. k = j /\ call[k].at \in {"begin", "feed", "cancel"}
      BY <3>1 DEF Starts
    <3> QED BY <2>2, <3>2 DEF Doomed
  <2> QED BY <1>10, <2>1, <2>2 DEF CallReplied
<1> QED BY <1>3, <1>4, <1>5, <1>6, <1>7, <1>8, <1>9, <1>10 DEF Step

\* No command starts for a run that has returned: the model's late answer finds its call
\* told to give up before the next run can begin (_run_coroutine, the finally clause of run).
THEOREM NoLateCommandHolds == Spec => NoLateCommand
<1>1. AgentInv /\ [Next]_vars =>
        [\A k \in Sids : call[k].at # "exec" /\ call'[k].at = "exec" =>
                           k = run.sid /\ run.at # "done"]_vars
  <2> SUFFICES ASSUME AgentInv, [Next]_vars, NEW k \in Sids, call[k].at # "exec", call'[k].at = "exec"
               PROVE  k = run.sid /\ run.at # "done"
    OBVIOUS
  <2>1. call[k].at # "none" /\ ~Doomed(call[k])
    BY CommandStarts
  <2> QED BY <2>1 DEF AgentInv, Interrupted
<1> QED BY <1>1, AgentInvHolds, PTL DEF Spec, NoLateCommand
=============================================================================
