-------------------------- MODULE CloudEnricherProofs --------------------------
(***************************************************************************)
(* What the cloud enricher promises, for any requests, keys, threads,      *)
(* bounds and times: the variables keep their types and the cache its      *)
(* bound, a key is asked for by one call at a time, the count of pending   *)
(* calls is never below them, and no minute sees more calls than the       *)
(* budget allows.                                                          *)
(***************************************************************************)
EXTENDS CloudEnricher, FiniteSetTheorems, FunctionTheorems, SequenceTheorems, WellFoundedInduction,
        TLAPS

-----------------------------------------------------------------------------
(* Types.                                                                   *)

Entries   == [key : Keys, at : Nat]
ReqSteps  == [pc : {"new", "answered", "failed", "dropped", "skipped", "raised"}]
             \cup [pc : {"submitting", "waiting", "calling"}, key : Keys]
WorkSteps == {Idle} \cup [pc : {"calling"}, key : Keys]
             \cup [pc : {"telling"}, waiters : SUBSET Requests]

Types ==
  /\ mode \in {"sync", "async"} /\ closed \in BOOLEAN /\ pool \in {"none", "up", "down"}
  /\ cache \in Seq(Entries) /\ inflight \in [Keys -> SUBSET Requests] /\ calls \in Seq(Nat)
  /\ pending \in Int /\ queue \in Seq(Keys)
  /\ worker \in [Workers -> WorkSteps] /\ req \in [Requests -> ReqSteps]
  /\ now \in Nat /\ started \in Seq(Nat)

-----------------------------------------------------------------------------
(* The cache.                                                               *)

\* One entry per key, none from the future, and no more than fit.
CacheKept ==
  /\ \A i, j \in DOMAIN cache : cache[i].key = cache[j].key => i = j
  /\ \A i \in DOMAIN cache : cache[i].at <= now
  /\ Len(cache) <= CacheSize

-----------------------------------------------------------------------------
(* The budget.                                                              *)

Ordered == /\ \A i, j \in DOMAIN started : i <= j => started[i] <= started[j]
           /\ \A i \in DOMAIN started : started[i] <= now

\* What the enricher remembers are the latest calls, and what it has forgotten is a
\* minute old.
Dropped == Len(started) - Len(calls)
Remembers ==
  /\ Len(calls) <= Len(started)
  /\ \A i \in DOMAIN calls : calls[i] = started[Dropped + i]
  /\ \A i \in 1 .. Dropped : started[i] + Minute <= now

\* A budget's worth of calls takes a minute.
Spaced == \A i \in DOMAIN started :
            i + Budget <= Len(started) => started[i] + Minute <= started[i + Budget]

BudgetInv == /\ Ordered
             /\ Budget = 0 => calls = <<>>
             /\ Budget > 0 => Remembers /\ Spaced

-----------------------------------------------------------------------------
(* Calls and keys.                                                          *)

Submitting(q) == req[q].pc = "submitting"
Calling(w)    == worker[w].pc = "calling"

\* What is being submitted, is queued or is called is in flight, and its key is no
\* other's.
Exclusive ==
  /\ \A q \in Requests : Submitting(q) => /\ inflight[req[q].key] # NoCall
                                          /\ \A p \in Requests \ {q} : Submitting(p) => req[p].key # req[q].key
  /\ \A i \in DOMAIN queue : /\ inflight[queue[i]] # NoCall
                             /\ \A j \in DOMAIN queue \ {i} : queue[j] # queue[i]
                             /\ \A q \in Requests : Submitting(q) => req[q].key # queue[i]
  /\ \A w \in Workers : Calling(w) => /\ inflight[worker[w].key] # NoCall
                                      /\ \A v \in Workers \ {w} : Calling(v) => worker[v].key # worker[w].key
                                      /\ \A i \in DOMAIN queue : queue[i] # worker[w].key
                                      /\ \A q \in Requests : Submitting(q) => req[q].key # worker[w].key

\* Who waits for a call has asked before, and submits that call if any; who is told does
\* not submit.
Waiters ==
  /\ \A k \in Keys : \A q \in inflight[k] : req[q].pc # "new" /\ (Submitting(q) => req[q].key = k)
  /\ \A w \in Workers : worker[w].pc = "telling" =>
       \A q \in worker[w].waiters : req[q].pc # "new" /\ ~Submitting(q)

\* The count, and who is counted.
Submitters == {q \in Requests : Submitting(q)}
Busy       == {w \in Workers : worker[w] # Idle}
UnderWay   == Cardinality(Submitters) + Len(queue) + Cardinality(Busy)
Counted ==
  /\ pool = "down" => closed
  /\ pending <= MaxPending
  /\ pending >= UnderWay
  /\ ~closed => pending = UnderWay

-----------------------------------------------------------------------------
(* Sequences.                                                               *)

\* A non-empty set of naturals has a least element.
LEMMA Least ==
  ASSUME NEW J \in SUBSET Nat, J # {}
  PROVE  \E m \in J : \A j \in J : m <= j
<1> DEFINE T == {0 .. j : j \in J}
           F == FiniteSubsetsOf(Nat)
           R == StrictSubsetOrdering(Nat)
<1>1. IsWellFoundedOn(R, F)
  BY FS_StrictSubsetOrderingWellFounded
<1>2. T \subseteq F
  <2>1. \A j \in J : 0 .. j \in SUBSET Nat /\ IsFiniteSet(0 .. j)
    BY FS_Interval
  <2> QED BY <2>1 DEF FiniteSubsetsOf
<1>3. T # {}
  OBVIOUS
<1>4. PICK x \in T : \A y \in T : <<y, x>> \notin R
  <2> HIDE DEF T, F, R
  <2> QED BY <1>1, <1>2, <1>3, WFMin
<1>5. PICK m \in J : x = 0 .. m
  OBVIOUS
<1>6. ASSUME NEW j \in J, j < m PROVE FALSE
  <2>1. 0 .. j \in SUBSET Nat /\ 0 .. m \in SUBSET Nat /\ 0 .. j \subseteq 0 .. m
    BY <1>6
  <2>2. m \in 0 .. m /\ m \notin 0 .. j
    BY <1>6
  <2>3. <<0 .. j, 0 .. m>> \in R
    BY <2>1, <2>2 DEF StrictSubsetOrdering
  <2> QED BY <1>4, <1>5, <2>3
<1> QED BY <1>6

\* A sequence without its p-th element.
LEMMA RemovedAt ==
  ASSUME NEW S, NEW s \in Seq(S), NEW p \in 1 .. Len(s)
  PROVE  LET w == SubSeq(s, 1, p - 1) \o SubSeq(s, p + 1, Len(s)) IN
         /\ w \in Seq(S) /\ Len(w) = Len(s) - 1
         /\ \A i \in 1 .. Len(s) - 1 : w[i] = s[IF i < p THEN i ELSE i + 1]
<1> DEFINE u == SubSeq(s, 1, p - 1)
           v == SubSeq(s, p + 1, Len(s))
<1>1. Len(s) \in Nat
  OBVIOUS
<1>2. u \in Seq(S) /\ Len(u) = p - 1 /\ \A i \in 1 .. p - 1 : u[i] = s[i]
  BY <1>1
<1>3. v \in Seq(S) /\ Len(v) = Len(s) - p /\ \A i \in 1 .. Len(s) - p : v[i] = s[p + i]
  BY <1>1
<1> HIDE DEF u, v
<1>4. /\ u \o v \in Seq(S) /\ Len(u \o v) = Len(u) + Len(v)
      /\ \A i \in 1 .. Len(u) + Len(v) : (u \o v)[i] = IF i <= Len(u) THEN u[i] ELSE v[i - Len(u)]
  BY <1>2, <1>3, ConcatProperties
<1>5. ASSUME NEW i \in 1 .. Len(s) - 1 PROVE (u \o v)[i] = s[IF i < p THEN i ELSE i + 1]
  <2>1. CASE i < p
    BY <1>1, <1>2, <1>3, <1>4, <1>5, <2>1
  <2>2. CASE i >= p
    <3>1. i - (p - 1) \in 1 .. Len(s) - p /\ p + (i - (p - 1)) = i + 1
      BY <1>1, <2>2
    <3>2. (u \o v)[i] = v[i - (p - 1)]
      BY <1>1, <1>2, <1>3, <1>4, <1>5, <2>2
    <3> QED BY <1>3, <2>2, <3>1, <3>2
  <2>3. i < p \/ i >= p
    BY <1>1
  <2> QED BY <2>1, <2>2, <2>3
<1>6. u \o v \in Seq(S) /\ Len(u \o v) = Len(s) - 1
  BY <1>1, <1>2, <1>3, <1>4
<1> QED BY <1>5, <1>6 DEF u, v

\* What follows the first n elements.
LEMMA Suffix ==
  ASSUME NEW S, NEW s \in Seq(S), NEW n \in 0 .. Len(s)
  PROVE  LET w == SubSeq(s, n + 1, Len(s)) IN
         /\ w \in Seq(S) /\ Len(w) = Len(s) - n
         /\ \A i \in 1 .. Len(s) - n : w[i] = s[n + i]
OBVIOUS

LEMMA Appended ==
  ASSUME NEW S, NEW s \in Seq(S), NEW e \in S
  PROVE  /\ Append(s, e) \in Seq(S) /\ Len(Append(s, e)) = Len(s) + 1
         /\ \A i \in 1 .. Len(s) : Append(s, e)[i] = s[i]
         /\ Append(s, e)[Len(s) + 1] = e
OBVIOUS

LEMMA Headed ==
  ASSUME NEW S, NEW s \in Seq(S), s # <<>>
  PROVE  /\ Tail(s) \in Seq(S) /\ Len(Tail(s)) = Len(s) - 1 /\ Len(s) >= 1
         /\ Head(s) = s[1] /\ Head(s) \in S
         /\ \A i \in 1 .. Len(s) - 1 : Tail(s)[i] = s[i + 1]
OBVIOUS

-----------------------------------------------------------------------------
(* The cache.                                                               *)

\* Entries of different keys, none from the future.
Fit(c) ==
  /\ c \in Seq(Entries)
  /\ \A i, j \in 1 .. Len(c) : c[i].key = c[j].key => i = j
  /\ \A i \in 1 .. Len(c) : c[i].at <= now

LEMMA WithoutFits ==
  ASSUME Fit(cache), NEW k \in Keys
  PROVE  LET w == Without(k) IN
         /\ Fit(w) /\ \A i \in 1 .. Len(w) : w[i].key # k
         /\ Len(w) <= Len(cache) /\ (k \in Cached => Len(w) = Len(cache) - 1)
         /\ k \in Cached => Entry(k) \in Entries /\ Entry(k).key = k /\ Entry(k).at <= now
<1>1. cache \in Seq(Entries) /\ DOMAIN cache = 1 .. Len(cache) /\ Len(cache) \in Nat
  BY DEF Fit
<1>2. CASE k \notin Cached
  <2>1. Without(k) = cache
    BY <1>2 DEF Without
  <2>2. \A i \in 1 .. Len(cache) : cache[i].key # k
    BY <1>1, <1>2 DEF Cached
  <2>3. Fit(Without(k)) /\ \A i \in 1 .. Len(Without(k)) : Without(k)[i].key # k
    BY <2>1, <2>2
  <2>4. Len(Without(k)) <= Len(cache)
    BY <1>1, <2>1
  <2> QED BY <1>2, <2>3, <2>4
<1>3. CASE k \in Cached
  <2> DEFINE p == Place(k)
             w == Without(k)
  <2>1. p \in 1 .. Len(cache) /\ cache[p].key = k
    <3>1. \E i \in DOMAIN cache : cache[i].key = k
      BY <1>3 DEF Cached
    <3> QED BY <1>1, <3>1 DEF Place
  <2>2. w = SubSeq(cache, 1, p - 1) \o SubSeq(cache, p + 1, Len(cache))
    BY <1>3 DEF Without
  <2>3. Entry(k) \in Entries /\ Entry(k).key = k /\ Entry(k).at <= now
    BY <1>1, <2>1 DEF Fit, Entry
  <2> HIDE DEF p, w
  <2>4. /\ w \in Seq(Entries) /\ Len(w) = Len(cache) - 1
        /\ \A i \in 1 .. Len(cache) - 1 : w[i] = cache[IF i < p THEN i ELSE i + 1]
    BY <1>1, <2>1, <2>2, RemovedAt
  <2>5. \A i \in 1 .. Len(w) : \E x \in 1 .. Len(cache) \ {p} : x = (IF i < p THEN i ELSE i + 1) /\ w[i] = cache[x]
    BY <1>1, <2>1, <2>4
  <2>6. \A i \in 1 .. Len(w) : w[i].key # k /\ w[i].at <= now
    BY <2>1, <2>5 DEF Fit
  <2>7. ASSUME NEW i \in 1 .. Len(w), NEW j \in 1 .. Len(w), w[i].key = w[j].key PROVE i = j
    <3>1. PICK x \in 1 .. Len(cache) : x = (IF i < p THEN i ELSE i + 1) /\ w[i] = cache[x]
      BY <2>5
    <3>2. PICK y \in 1 .. Len(cache) : y = (IF j < p THEN j ELSE j + 1) /\ w[j] = cache[y]
      BY <2>5
    <3>3. x = y
      BY <2>7, <3>1, <3>2 DEF Fit
    <3> QED BY <1>1, <2>1, <2>4, <3>1, <3>2, <3>3
  <2> QED BY <1>1, <2>3, <2>4, <2>6, <2>7 DEF Fit, w
<1> QED BY <1>2, <1>3

\* An entry goes to the end of those of the other keys.
LEMMA PlacedLast ==
  ASSUME NEW c, Fit(c), NEW e \in Entries, e.at <= now, \A i \in 1 .. Len(c) : c[i].key # e.key
  PROVE  Fit(Append(c, e)) /\ Len(Append(c, e)) = Len(c) + 1
<1> DEFINE a == Append(c, e)
<1>1. /\ a \in Seq(Entries) /\ Len(a) = Len(c) + 1 /\ Len(c) \in Nat
      /\ a[Len(c) + 1] = e
      /\ \A i \in 1 .. Len(c) : a[i] = c[i]
  BY Appended DEF Fit
<1> HIDE DEF a
<1>2. \A i \in 1 .. Len(a) : a[i].at <= now
  <2>1. \A i \in 1 .. Len(a) : i \in 1 .. Len(c) \/ i = Len(c) + 1
    BY <1>1
  <2>2. \A i \in 1 .. Len(c) : a[i].at <= now
    BY <1>1 DEF Fit
  <2>3. a[Len(c) + 1].at <= now
    BY <1>1
  <2> QED BY <2>1, <2>2, <2>3
<1>3. ASSUME NEW i \in 1 .. Len(a), NEW j \in 1 .. Len(a), a[i].key = a[j].key PROVE i = j
  BY <1>1, <1>3 DEF Fit
<1> QED BY <1>1, <1>2, <1>3 DEF Fit, a

LEMMA NewestFits ==
  ASSUME NEW c, Fit(c), NEW n \in Nat PROVE Fit(Newest(c, n)) /\ Len(Newest(c, n)) <= n
<1>1. c \in Seq(Entries) /\ Len(c) \in Nat
  BY DEF Fit
<1>2. CASE Len(c) <= n
  BY <1>2 DEF Newest
<1>3. CASE Len(c) > n
  <2> DEFINE d == Len(c) - n
             w == SubSeq(c, d + 1, Len(c))
  <2>1. d \in 0 .. Len(c)
    BY <1>1, <1>3
  <2>2. Newest(c, n) = w
    BY <1>1, <1>3 DEF Newest
  <2> HIDE DEF d
  <2>3. w \in Seq(Entries) /\ Len(w) = Len(c) - d /\ \A i \in 1 .. Len(c) - d : w[i] = c[d + i]
    BY <1>1, <2>1, Suffix
  <2> HIDE DEF w
  <2>4. Fit(w)
    <3>1. \A i \in 1 .. Len(w) : d + i \in 1 .. Len(c) /\ w[i] = c[d + i]
      BY <1>1, <2>1, <2>3
    <3>2. ASSUME NEW i \in 1 .. Len(w), NEW j \in 1 .. Len(w), w[i].key = w[j].key PROVE i = j
      <4>1. d + i = d + j
        BY <3>1, <3>2 DEF Fit
      <4> QED BY <1>1, <2>1, <4>1
    <3>3. \A i \in 1 .. Len(w) : w[i].at <= now
      BY <3>1 DEF Fit
    <3> QED BY <2>3, <3>2, <3>3 DEF Fit
  <2> QED BY <1>1, <2>2, <2>3, <2>4 DEF d
<1> QED BY <1>1, <1>2, <1>3

\* Looking a key up and putting a result keep the cache's promise.
LEMMA CacheMoves ==
  ASSUME Types, Fit(cache), Len(cache) <= CacheSize, NEW k \in Keys
  PROVE  /\ Fit(Looked(k)) /\ Len(Looked(k)) <= CacheSize
         /\ Fit(Put(k)) /\ Len(Put(k)) <= CacheSize
<1> DEFINE w == Without(k)
<1>1. /\ Fit(w) /\ (\A i \in 1 .. Len(w) : w[i].key # k)
      /\ Len(w) <= Len(cache) /\ (k \in Cached => Len(w) = Len(cache) - 1)
      /\ k \in Cached => Entry(k) \in Entries /\ Entry(k).key = k /\ Entry(k).at <= now
  BY WithoutFits
<1> HIDE DEF w
<1>2. Len(w) \in Nat /\ Len(cache) \in Nat /\ CacheSize \in Nat
  BY <1>1, EnricherAssumption DEF Fit
<1>3. Fit(Looked(k)) /\ Len(Looked(k)) <= CacheSize
  <2>1. CASE Looked(k) = cache
    BY <2>1
  <2>2. CASE Looked(k) = w
    BY <1>1, <1>2, <2>2
  <2>3. CASE Looked(k) = Append(w, Entry(k)) /\ Held(k)
    BY <1>1, <1>2, <2>3, PlacedLast DEF Held
  <2> QED BY <2>1, <2>2, <2>3 DEF Looked, w
<1>4. Fit(Put(k)) /\ Len(Put(k)) <= CacheSize
  <2>1. CASE Ttl = 0
    BY <2>1 DEF Put
  <2>2. CASE Ttl # 0
    <3> DEFINE e == [key |-> k, at |-> now]
               a == Append(w, e)
    <3>1. e \in Entries /\ e.key = k /\ e.at <= now
      BY DEF Entries, Types
    <3> HIDE DEF e
    <3>2. Fit(a)
      BY <1>1, <3>1, PlacedLast
    <3>3. Put(k) = Newest(a, CacheSize)
      BY <2>2 DEF Put, e, w
    <3> QED BY <1>2, <3>2, <3>3, NewestFits
  <2> QED BY <2>1, <2>2
<1> QED BY <1>3, <1>4

-----------------------------------------------------------------------------
(* The budget.                                                              *)

\* What is forgotten is a minute old, and what comes next is not.
LEMMA ForgottenIs ==
  ASSUME Types
  PROVE  LET n == Forgotten(Minute) IN
         /\ n \in 0 .. Len(calls) /\ \A i \in 1 .. n : calls[i] + Minute <= now
         /\ Recent \in Seq(Nat) /\ Len(Recent) = Len(calls) - n
         /\ \A i \in 1 .. Len(calls) - n : Recent[i] = calls[n + i]
<1> DEFINE n == Forgotten(Minute)
           Stops(x) == /\ \A i \in 1 .. x : now - calls[i] >= Minute
                       /\ x < Len(calls) => now - calls[x + 1] < Minute
           J == {i \in 1 .. Len(calls) : now - calls[i] < Minute}
<1>1. calls \in Seq(Nat) /\ Len(calls) \in Nat /\ now \in Nat /\ Minute \in Nat
  BY EnricherAssumption DEF Types
<1>2. \A i \in 1 .. Len(calls) : calls[i] \in Nat
  BY <1>1
<1>3. \E x \in 0 .. Len(calls) : Stops(x)
  <2>1. CASE J = {}
    <3>1. Stops(Len(calls))
      BY <1>1, <1>2, <2>1
    <3> QED BY <1>1, <3>1
  <2>2. CASE J # {}
    <3>1. J \in SUBSET Nat
      BY <1>1
    <3>2. PICK m \in J : \A j \in J : m <= j
      <4> HIDE DEF J
      <4> QED BY <2>2, <3>1, Least
    <3>3. m - 1 \in 0 .. Len(calls) /\ (m - 1) + 1 = m
      BY <1>1, <3>1
    <3>4. Stops(m - 1)
      BY <1>1, <1>2, <3>2, <3>3
    <3> QED BY <3>3, <3>4
  <2> QED BY <2>1, <2>2
<1>4. n \in 0 .. Len(calls) /\ Stops(n)
  BY <1>3 DEF Forgotten
<1> HIDE DEF n
<1>5. \A i \in 1 .. n : calls[i] + Minute <= now
  BY <1>1, <1>2, <1>4
<1>6. Recent = SubSeq(calls, n + 1, Len(calls))
  BY DEF Recent, n
<1>7. /\ Recent \in Seq(Nat) /\ Len(Recent) = Len(calls) - n
      /\ \A i \in 1 .. Len(calls) - n : Recent[i] = calls[n + i]
  BY <1>1, <1>4, <1>6, Suffix
<1> QED BY <1>4, <1>5, <1>7 DEF n

-----------------------------------------------------------------------------
(* Types.                                                                   *)

Cacheable == Fit(cache) /\ Len(cache) <= CacheSize

LEMMA CacheableIs == ASSUME Types PROVE CacheKept <=> Cacheable
<1>1. cache \in Seq(Entries) /\ DOMAIN cache = 1 .. Len(cache)
  BY DEF Types
<1> QED BY <1>1 DEF CacheKept, Cacheable, Fit

(* What a step may do to the cache. *)
LEMMA CacheSteps ==
  ASSUME [Next]_vars
  PROVE  \/ cache' = cache /\ now' = now
         \/ (\E k \in Keys : cache' \in {Looked(k), Put(k)}) /\ now' = now
         \/ Tick
         \/ (\E q \in Requests : req[q].pc = "calling" /\ cache' = Put(req[q].key)) /\ now' = now
         \/ (\E w \in Workers : worker[w].pc = "calling" /\ cache' = Put(worker[w].key)) /\ now' = now
<1>1. ASSUME NEW q \in Requests, NEW k \in Keys,
             AnswerNow(q, k) \/ Join(q, k) \/ Skip(q, k) \/ Accept(q, k)
      PROVE  cache' \in {cache, Looked(k)} /\ now' = now
  BY <1>1 DEF AnswerNow, Join, Skip, Accept, Missed
<1>2. ASSUME NEW q \in Requests, NEW o \in Outcomes, CallInline(q, o)
      PROVE  req[q].pc = "calling" /\ cache' \in {cache, Put(req[q].key)} /\ now' = now
  BY <1>2 DEF CallInline
<1>3. ASSUME NEW w \in Workers, NEW o \in Outcomes, Return(w, o)
      PROVE  worker[w].pc = "calling" /\ cache' \in {cache, Put(worker[w].key)} /\ now' = now
  BY <1>3 DEF Return
<1>4. ASSUME \/ \E q \in Requests : Submit(q)
             \/ \E w \in Workers : Take(w) \/ Settle(w) \/ \E q \in Requests : Tell(w, q)
             \/ Close \/ (\E wait \in BOOLEAN : Shutdown(wait)) \/ UNCHANGED vars
      PROVE  cache' = cache /\ now' = now
  BY <1>4 DEF Submit, Take, Settle, Tell, Close, Shutdown, book, vars
<1> QED BY <1>1, <1>2, <1>3, <1>4 DEF Next

LEMMA CacheStep ==
  ASSUME Types, CacheKept, [Next]_vars PROVE CacheKept'
<1>1. Cacheable
  BY CacheableIs
<1>2. ASSUME NEW k \in Keys PROVE /\ Fit(Looked(k)) /\ Len(Looked(k)) <= CacheSize
                                  /\ Fit(Put(k)) /\ Len(Put(k)) <= CacheSize
  BY <1>1, CacheMoves DEF Cacheable
<1>3. \A q \in Requests : req[q].pc = "calling" => req[q].key \in Keys
  BY DEF Types, ReqSteps
<1>4. \A w \in Workers : worker[w].pc = "calling" => worker[w].key \in Keys
  BY DEF Types, WorkSteps, Idle
<1>5. ASSUME NEW c, Fit(c), Len(c) <= CacheSize, cache' = c, now' = now PROVE CacheKept'
  BY <1>5 DEF CacheKept, Fit
<1>6. CASE Tick
  <2>1. cache' = cache /\ now' = now + 1 /\ now \in Nat
    BY <1>6 DEF Tick, Types, book
  <2>2. ASSUME NEW i \in DOMAIN cache PROVE cache[i].at \in Nat
    <3>1. cache[i] \in Entries
      BY DEF Types
    <3> QED BY <3>1 DEF Entries
  <2> QED BY <2>1, <2>2 DEF CacheKept
<1>7. CASE (\E k \in Keys : cache' \in {Looked(k), Put(k)}) /\ now' = now
  BY <1>2, <1>5, <1>7
<1>8. CASE cache' = cache /\ now' = now
  BY <1>1, <1>5, <1>8 DEF Cacheable
<1> QED BY <1>3, <1>4, <1>6, <1>7, <1>8, CacheSteps

(* Every step keeps the types. *)
LEMMA TypesStep ==
  ASSUME Types, CacheKept, [Next]_vars PROVE Types'
<1>0. /\ cache \in Seq(Entries) /\ inflight \in [Keys -> SUBSET Requests] /\ calls \in Seq(Nat)
      /\ queue \in Seq(Keys) /\ worker \in [Workers -> WorkSteps] /\ req \in [Requests -> ReqSteps]
      /\ now \in Nat /\ started \in Seq(Nat) /\ pending \in Int
  BY DEF Types
<1>1. cache' \in Seq(Entries)
  <2>1. Cacheable
    BY CacheableIs
  <2>2. \A k \in Keys : Looked(k) \in Seq(Entries) /\ Put(k) \in Seq(Entries)
    BY <2>1, CacheMoves DEF Cacheable, Fit
  <2>3. \A q \in Requests : req[q].pc = "calling" => req[q].key \in Keys
    BY <1>0 DEF ReqSteps
  <2>4. \A w \in Workers : worker[w].pc = "calling" => worker[w].key \in Keys
    BY DEF Types, WorkSteps, Idle
  <2>5. Tick => cache' = cache
    BY DEF Tick, book
  <2> QED BY <1>0, <2>2, <2>3, <2>4, <2>5, CacheSteps
<1>2. Recent \in Seq(Nat) /\ Taken \in Seq(Nat)
  BY <1>0, ForgottenIs, Appended DEF Taken
<1>3. ASSUME NEW q \in Requests, NEW state \in ReqSteps, Becomes(q, state) PROVE req' \in [Requests -> ReqSteps]
  BY <1>0, <1>3 DEF Becomes
<1>4. \A pc \in {"new", "answered", "failed", "dropped", "skipped", "raised"} : [pc |-> pc] \in ReqSteps
  BY DEF ReqSteps
<1>5. \A pc \in {"submitting", "waiting", "calling"}, k \in Keys : [pc |-> pc, key |-> k] \in ReqSteps
  BY DEF ReqSteps
<1>6. ASSUME NEW q \in Requests, NEW k \in Keys, AnswerNow(q, k) PROVE Types'
  <2>1. req' \in [Requests -> ReqSteps]
    BY <1>3, <1>4, <1>6 DEF AnswerNow, Skipped
  <2> QED BY <1>1, <1>6, <2>1 DEF Types, AnswerNow
<1>7. ASSUME NEW q \in Requests, NEW k \in Keys, Join(q, k) PROVE Types'
  <2>1. req' \in [Requests -> ReqSteps]
    BY <1>3, <1>5, <1>7 DEF Join
  <2>2. inflight' \in [Keys -> SUBSET Requests]
    BY <1>0, <1>7 DEF Join
  <2> QED BY <1>1, <1>7, <2>1, <2>2 DEF Types, Join
<1>8. ASSUME NEW q \in Requests, NEW k \in Keys, Skip(q, k) PROVE Types'
  <2>1. req' \in [Requests -> ReqSteps]
    BY <1>3, <1>4, <1>8 DEF Skip, Skipped
  <2>2. calls' \in Seq(Nat)
    BY <1>0, <1>2, <1>8 DEF Skip
  <2> QED BY <1>1, <1>8, <2>1, <2>2 DEF Types, Skip
<1>9. ASSUME NEW q \in Requests, NEW k \in Keys, Accept(q, k) PROVE Types'
  <2>1. calls' \in Seq(Nat) /\ started' \in Seq(Nat)
    BY <1>0, <1>2, <1>9, Appended DEF Accept
  <2>2. CASE mode = "sync"
    <3>1. req' \in [Requests -> ReqSteps]
      BY <1>3, <1>5, <1>9, <2>2 DEF Accept
    <3> QED BY <1>1, <1>9, <2>1, <2>2, <3>1 DEF Types, Accept
  <2>3. CASE mode # "sync"
    <3>1. req' \in [Requests -> ReqSteps]
      BY <1>3, <1>5, <1>9, <2>3 DEF Accept
    <3>2. inflight' \in [Keys -> SUBSET Requests]
      <4>1. {q} \in SUBSET Requests
        OBVIOUS
      <4>2. inflight' = [inflight EXCEPT ![k] = {q}]
        BY <1>9, <2>3 DEF Accept
      <4> QED BY <1>0, <4>1, <4>2
    <3>3. pool' = "up" /\ pending' \in Int
      BY <1>0, <1>9, <2>3 DEF Accept
    <3> QED BY <1>1, <1>9, <2>1, <3>1, <3>2, <3>3 DEF Types, Accept
  <2> QED BY <2>2, <2>3
<1>10. ASSUME NEW q \in Requests, Submit(q) PROVE Types'
  <2>1. req[q] \in [pc : {"submitting", "waiting", "calling"}, key : Keys]
    BY <1>0, <1>10 DEF Submit, ReqSteps
  <2>2. [req[q] EXCEPT !.pc = "waiting"] \in ReqSteps /\ req[q].key \in Keys
    BY <2>1 DEF ReqSteps
  <2>3. req' \in [Requests -> ReqSteps]
    BY <1>3, <1>4, <1>10, <2>2 DEF Submit
  <2>4. queue' \in Seq(Keys)
    <3>1. queue' = queue \/ queue' = Append(queue, req[q].key)
      BY <1>10 DEF Submit
    <3>2. Append(queue, req[q].key) \in Seq(Keys)
      BY <1>0, <2>2, Appended
    <3> QED BY <1>0, <3>1, <3>2
  <2> QED BY <1>10, <2>3, <2>4 DEF Types, Submit, book
<1>11. ASSUME NEW q \in Requests, NEW o \in Outcomes, CallInline(q, o) PROVE Types'
  <2>1. req' \in [Requests -> ReqSteps]
    BY <1>3, <1>4, <1>11 DEF CallInline
  <2> QED BY <1>1, <1>11, <2>1 DEF Types, CallInline
<1>12. ASSUME NEW w \in Workers, Take(w) PROVE Types'
  <2>1. Tail(queue) \in Seq(Keys) /\ Head(queue) \in Keys
    BY <1>0, <1>12, Headed DEF Take
  <2>2. [pc |-> "calling", key |-> Head(queue)] \in WorkSteps
    BY <2>1 DEF WorkSteps
  <2>3. worker' \in [Workers -> WorkSteps]
    BY <1>0, <1>12, <2>2 DEF Take
  <2> QED BY <1>12, <2>1, <2>3 DEF Types, Take, book
<1>13. ASSUME NEW w \in Workers, NEW o \in Outcomes, Return(w, o) PROVE Types'
  <2> DEFINE k == worker[w].key
             ws == IF o = "error" THEN {} ELSE inflight[k]
  <2>1. k \in Keys
    BY <1>0, <1>13 DEF Return, WorkSteps, Idle
  <2>2. inflight[k] \subseteq Requests /\ ws \in SUBSET Requests
    BY <1>0, <2>1
  <2>3. worker' = [worker EXCEPT ![w] = [pc |-> "telling", waiters |-> ws]]
    BY <1>13 DEF Return
  <2>4. inflight' = [inflight EXCEPT ![k] = {}]
    BY <1>13 DEF Return, Released, NoCall
  <2>5. req' \in [Requests -> ReqSteps]
    BY <1>0, <1>4, <1>13 DEF Return
  <2> HIDE DEF k, ws
  <2>6. [pc |-> "telling", waiters |-> ws] \in WorkSteps
    BY <2>2 DEF WorkSteps
  <2>7. worker' \in [Workers -> WorkSteps] /\ inflight' \in [Keys -> SUBSET Requests]
    BY <1>0, <2>1, <2>3, <2>4, <2>6
  <2> QED BY <1>1, <1>13, <2>5, <2>7 DEF Types, Return
<1>14. ASSUME NEW w \in Workers, NEW q \in Requests, Tell(w, q) PROVE Types'
  <2>1. worker[w] \in [pc : {"telling"}, waiters : SUBSET Requests]
    BY <1>0, <1>14 DEF Tell, WorkSteps, Idle
  <2>2. [worker[w] EXCEPT !.waiters = @ \ {q}] \in WorkSteps
    BY <2>1 DEF WorkSteps
  <2>3. worker' \in [Workers -> WorkSteps]
    BY <1>0, <1>14, <2>2 DEF Tell
  <2>4. req' \in [Requests -> ReqSteps]
    BY <1>3, <1>4, <1>14 DEF Tell
  <2> QED BY <1>14, <2>3, <2>4 DEF Types, Tell, book
<1>15. ASSUME NEW w \in Workers, Settle(w) PROVE Types'
  <2>1. worker' \in [Workers -> WorkSteps] /\ pending' \in Int
    BY <1>0, <1>15 DEF Settle, WorkSteps
  <2> QED BY <1>15, <2>1 DEF Types, Settle
<1>16. CASE Close
  BY <1>16 DEF Types, Close, book
<1>17. ASSUME NEW wait \in BOOLEAN, Shutdown(wait) PROVE Types'
  <2>1. queue' \in Seq(Keys)
    BY <1>0, <1>17 DEF Shutdown
  <2> QED BY <1>17, <2>1 DEF Types, Shutdown, book
<1>18. CASE Tick
  <2>1. now' \in Nat
    BY <1>0, <1>18 DEF Tick
  <2> QED BY <1>18, <2>1 DEF Types, Tick, book
<1>19. CASE UNCHANGED vars
  BY <1>19 DEF Types, vars, book
<1> QED BY <1>6, <1>7, <1>8, <1>9, <1>10, <1>11, <1>12, <1>13, <1>14, <1>15, <1>16, <1>17, <1>18, <1>19 DEF Next

-----------------------------------------------------------------------------
(* The budget.                                                              *)

\* A list of calls remembers the latest, and leaves out what is a minute old.
RemembersIn(c) ==
  /\ c \in Seq(Nat) /\ Len(c) <= Len(started)
  /\ \A i \in 1 .. Len(c) : c[i] = started[Len(started) - Len(c) + i]
  /\ \A i \in 1 .. Len(started) - Len(c) : started[i] + Minute <= now

LEMMA RemembersIs == ASSUME Types PROVE Remembers <=> RemembersIn(calls)
<1>1. calls \in Seq(Nat) /\ DOMAIN calls = 1 .. Len(calls)
  BY DEF Types
<1> QED BY <1>1 DEF Remembers, RemembersIn, Dropped

LEMMA RecentRemembers == ASSUME Types, RemembersIn(calls) PROVE RemembersIn(Recent)
<1> DEFINE n == Forgotten(Minute)
           d == Len(started) - Len(calls)
<1>1. /\ n \in 0 .. Len(calls) /\ \A i \in 1 .. n : calls[i] + Minute <= now
      /\ Recent \in Seq(Nat) /\ Len(Recent) = Len(calls) - n
      /\ \A i \in 1 .. Len(calls) - n : Recent[i] = calls[n + i]
  BY ForgottenIs
<1> HIDE DEF n
<1>2. Len(calls) \in Nat /\ Len(started) \in Nat
  BY DEF Types
<1>3. /\ d \in Nat /\ \A i \in 1 .. Len(calls) : calls[i] = started[d + i]
      /\ \A i \in 1 .. d : started[i] + Minute <= now
  BY <1>2 DEF RemembersIn
<1>4. Len(started) - Len(Recent) = d + n
  BY <1>1, <1>2
<1> HIDE DEF d
<1>5. ASSUME NEW i \in 1 .. Len(Recent) PROVE Recent[i] = started[d + n + i]
  <2>1. n + i \in 1 .. Len(calls) /\ d + (n + i) = d + n + i
    BY <1>1, <1>2, <1>3
  <2>2. calls[n + i] = started[d + (n + i)]
    BY <1>3, <2>1
  <2> QED BY <1>1, <2>1, <2>2
<1>6. ASSUME NEW i \in 1 .. d + n PROVE started[i] + Minute <= now
  <2>1. CASE i <= d
    BY <1>1, <1>3, <2>1
  <2>2. CASE i > d
    <3>1. i - d \in 1 .. n /\ i - d \in 1 .. Len(calls) /\ d + (i - d) = i
      BY <1>1, <1>2, <1>3, <2>2
    <3> QED BY <1>1, <1>3, <3>1
  <2>3. i <= d \/ i > d
    BY <1>1, <1>3
  <2> QED BY <2>1, <2>2, <2>3
<1>7. Len(Recent) <= Len(started)
  BY <1>1, <1>2, <1>3, <1>4
<1> QED BY <1>1, <1>4, <1>5, <1>6, <1>7 DEF RemembersIn

(* What a step may do to the calls. *)
LEMMA BudgetSteps ==
  ASSUME [Next]_vars
  PROVE  \/ calls' = calls /\ started' = started /\ now' = now
         \/ calls' = (IF Budget = 0 THEN calls ELSE Recent) /\ started' = started /\ now' = now
         \/ Affordable /\ calls' = Taken /\ started' = Append(started, now) /\ now' = now
         \/ calls' = calls /\ started' = started /\ now' = now + 1
<1>1. ASSUME NEW q \in Requests, NEW k \in Keys, Skip(q, k)
      PROVE  calls' = (IF Budget = 0 THEN calls ELSE Recent) /\ started' = started /\ now' = now
  BY <1>1 DEF Skip, Affordable
<1>2. ASSUME NEW q \in Requests, NEW k \in Keys, Accept(q, k)
      PROVE  Affordable /\ calls' = Taken /\ started' = Append(started, now) /\ now' = now
  BY <1>2 DEF Accept
<1>3. ASSUME Tick PROVE calls' = calls /\ started' = started /\ now' = now + 1
  BY <1>3 DEF Tick, book
<1>4. ASSUME NEW q \in Requests, NEW k \in Keys, AnswerNow(q, k) \/ Join(q, k)
      PROVE  calls' = calls /\ started' = started /\ now' = now
  BY <1>4 DEF AnswerNow, Join
<1>5. ASSUME \/ \E q \in Requests : Submit(q) \/ \E o \in Outcomes : CallInline(q, o)
             \/ \E w \in Workers : \/ Take(w) \/ Settle(w)
                                   \/ \E o \in Outcomes : Return(w, o)
                                   \/ \E q \in Requests : Tell(w, q)
             \/ Close \/ (\E wait \in BOOLEAN : Shutdown(wait)) \/ UNCHANGED vars
      PROVE  calls' = calls /\ started' = started /\ now' = now
  BY <1>5 DEF Submit, CallInline, Take, Settle, Return, Tell, Close, Shutdown, book, vars
<1> QED BY <1>1, <1>2, <1>3, <1>4, <1>5 DEF Next

(* Every step keeps the budget's invariant. *)
LEMMA BudgetStep ==
  ASSUME Types, BudgetInv, [Next]_vars, Types' PROVE BudgetInv'
<1>0. /\ started \in Seq(Nat) /\ Len(started) \in Nat /\ DOMAIN started = 1 .. Len(started)
      /\ calls \in Seq(Nat) /\ now \in Nat /\ Minute \in Nat /\ Budget \in Nat
      /\ \A i \in 1 .. Len(started) : started[i] \in Nat
  <2>1. started \in Seq(Nat) /\ calls \in Seq(Nat) /\ now \in Nat
    BY DEF Types
  <2>2. Minute \in Nat /\ Budget \in Nat
    BY EnricherAssumption
  <2> QED BY <2>1, <2>2
<1>1. /\ \A i, j \in 1 .. Len(started) : i <= j => started[i] <= started[j]
      /\ \A i \in 1 .. Len(started) : started[i] <= now
  BY <1>0 DEF BudgetInv, Ordered
<1>2. Budget > 0 => RemembersIn(calls) /\ RemembersIn(Recent)
  BY RemembersIs, RecentRemembers DEF BudgetInv
<1>3. Budget > 0 => \A i \in 1 .. Len(started) :
                      i + Budget <= Len(started) => started[i] + Minute <= started[i + Budget]
  BY <1>0 DEF BudgetInv, Spaced
<1>4. ASSUME NEW c, RemembersIn(c) \/ Budget = 0, Budget = 0 => c = <<>>,
             calls' = c, started' = started, now' \in {now, now + 1}
      PROVE  BudgetInv'
  <2>1. Ordered'
    BY <1>0, <1>1, <1>4 DEF Ordered
  <2>2. Budget > 0 => Spaced'
    BY <1>0, <1>3, <1>4 DEF Spaced
  <2>3. ASSUME Budget > 0 PROVE Remembers'
    <3>1. RemembersIn(c)
      BY <1>4, <2>3
    <3>2. Len(c) \in Nat /\ DOMAIN c = 1 .. Len(c)
      BY <3>1 DEF RemembersIn
    <3>3. ASSUME NEW i \in 1 .. Len(started) - Len(c) PROVE started[i] + Minute <= now'
      <4>1. i \in 1 .. Len(started) /\ started[i] + Minute <= now
        BY <1>0, <3>1, <3>2 DEF RemembersIn
      <4> QED BY <1>0, <1>4, <4>1
    <3>4. Len(c) <= Len(started) /\ \A i \in DOMAIN c : c[i] = started[Len(started) - Len(c) + i]
      BY <3>1, <3>2 DEF RemembersIn
    <3> QED BY <1>4, <3>3, <3>4 DEF Remembers, Dropped
  <2> QED BY <1>4, <2>1, <2>2, <2>3 DEF BudgetInv
<1>5. CASE Affordable /\ calls' = Taken /\ started' = Append(started, now) /\ now' = now
  <2>1. /\ Len(started') = Len(started) + 1 /\ DOMAIN started' = 1 .. Len(started) + 1
        /\ \A i \in 1 .. Len(started) : started'[i] = started[i]
        /\ started'[Len(started) + 1] = now
    BY <1>0, <1>5
  <2>2. Ordered'
    <3>1. \A i \in 1 .. Len(started) + 1 : i \in 1 .. Len(started) \/ i = Len(started) + 1
      BY <1>0
    <3>2. \A i \in 1 .. Len(started) + 1 : started'[i] <= now
      BY <1>0, <1>1, <2>1, <3>1
    <3>3. ASSUME NEW i \in 1 .. Len(started) + 1, NEW j \in 1 .. Len(started) + 1, i <= j
          PROVE  started'[i] <= started'[j]
      <4>1. CASE j = Len(started) + 1
        BY <2>1, <3>2, <4>1
      <4>2. CASE j \in 1 .. Len(started)
        <5>1. i \in 1 .. Len(started)
          BY <1>0, <3>3, <4>2
        <5> QED BY <1>1, <2>1, <3>3, <4>2, <5>1
      <4> QED BY <3>1, <4>1, <4>2
    <3> QED BY <1>5, <2>1, <3>2, <3>3 DEF Ordered
  <2>3. ASSUME Budget > 0 PROVE Remembers' /\ Spaced'
    <3> DEFINE d == Len(started) - Len(Recent)
    <3>1. /\ Recent \in Seq(Nat) /\ Len(Recent) \in Nat /\ Len(Recent) <= Len(started)
          /\ \A i \in 1 .. Len(Recent) : Recent[i] = started[d + i]
          /\ \A i \in 1 .. d : started[i] + Minute <= now
      BY <1>2, <2>3 DEF RemembersIn
    <3>2. d \in Nat /\ d + (Len(Recent) + 1) = Len(started) + 1
      BY <1>0, <3>1
    <3>3. Len(Recent) < Budget
      BY <2>3, <1>5 DEF Affordable
    <3>4. calls' = Append(Recent, now)
      BY <2>3, <1>5 DEF Taken
    <3>5. /\ Len(calls') = Len(Recent) + 1 /\ DOMAIN calls' = 1 .. Len(Recent) + 1
          /\ \A i \in 1 .. Len(Recent) : calls'[i] = Recent[i]
          /\ calls'[Len(Recent) + 1] = now
      BY <1>0, <3>1, <3>4
    <3>6. Len(started') - Len(calls') = d
      BY <1>0, <2>1, <3>1, <3>5
    <3> HIDE DEF d
    <3>7. ASSUME NEW i \in 1 .. Len(Recent) + 1 PROVE calls'[i] = started'[d + i]
      <4>1. CASE i = Len(Recent) + 1
        BY <2>1, <3>2, <3>5, <4>1
      <4>2. CASE i \in 1 .. Len(Recent)
        <5>1. d + i \in 1 .. Len(started)
          BY <1>0, <3>1, <3>2, <4>2
        <5> QED BY <2>1, <3>1, <3>5, <4>2, <5>1
      <4> QED BY <3>1, <4>1, <4>2
    <3>8. ASSUME NEW i \in 1 .. d PROVE started'[i] + Minute <= now
      <4>1. i \in 1 .. Len(started)
        BY <1>0, <3>1, <3>2
      <4> QED BY <2>1, <3>1, <4>1
    <3>9. Remembers'
      <4>1. Len(calls') <= Len(started')
        BY <1>0, <2>1, <3>1, <3>5
      <4> QED BY <1>5, <3>5, <3>6, <3>7, <3>8, <4>1 DEF Remembers, Dropped
    <3>10. ASSUME NEW i \in 1 .. Len(started) + 1, i + Budget <= Len(started) + 1
           PROVE  started'[i] + Minute <= started'[i + Budget]
      <4>1. i \in 1 .. Len(started)
        BY <1>0, <2>3, <3>10
      <4>2. CASE i + Budget <= Len(started)
        <5>1. i + Budget \in 1 .. Len(started)
          BY <1>0, <4>1, <4>2
        <5> QED BY <1>3, <2>1, <2>3, <4>1, <4>2, <5>1
      <4>3. CASE i + Budget = Len(started) + 1
        <5>1. i \in 1 .. d
          BY <1>0, <3>1, <3>2, <3>3, <4>1, <4>3
        <5> QED BY <2>1, <3>8, <4>3, <5>1
      <4>4. i + Budget <= Len(started) \/ i + Budget = Len(started) + 1
        <5>1. Len(started) \in Nat /\ Budget \in Nat /\ i \in Nat
          BY <1>0, <4>1
        <5>2. i + Budget <= Len(started) + 1
          BY <3>10
        <5> QED BY <5>1, <5>2
      <4> QED BY <4>2, <4>3, <4>4
    <3>11. Spaced'
      BY <2>1, <3>10 DEF Spaced
    <3> QED BY <3>9, <3>11
  <2>4. Budget = 0 => calls' = <<>>
    BY <1>5 DEF Taken, BudgetInv
  <2> QED BY <2>2, <2>3, <2>4 DEF BudgetInv
<1>6. Budget = 0 => calls = <<>>
  BY DEF BudgetInv
<1>7. Budget > 0 \/ Budget = 0
  BY <1>0
<1>8. CASE calls' = calls /\ started' = started /\ now' \in {now, now + 1}
  BY <1>2, <1>4, <1>6, <1>7, <1>8
<1>9. CASE calls' = (IF Budget = 0 THEN calls ELSE Recent) /\ started' = started /\ now' = now
  <2>1. CASE Budget = 0
    BY <1>4, <1>6, <1>9, <2>1
  <2>2. CASE Budget > 0
    BY <1>2, <1>4, <1>9, <2>2
  <2> QED BY <1>7, <2>1, <2>2
<1> QED BY <1>5, <1>8, <1>9, BudgetSteps

-----------------------------------------------------------------------------
(* Calls and keys.                                                          *)

\* What the steps of requests and workers hold.
LEMMA Shapes ==
  ASSUME Types
  PROVE  /\ \A q \in Requests : Submitting(q) => req[q].key \in Keys
         /\ \A w \in Workers : Calling(w) => worker[w].key \in Keys
         /\ \A i \in DOMAIN queue : queue[i] \in Keys
         /\ \A k \in Keys : \A q \in inflight[k] : q \in Requests
         /\ \A w \in Workers : worker[w].pc = "telling" => \A q \in worker[w].waiters : q \in Requests
<1>1. ASSUME NEW q \in Requests, Submitting(q) PROVE req[q].key \in Keys
  <2>1. req[q] \in ReqSteps
    BY DEF Types
  <2> QED BY <1>1, <2>1 DEF ReqSteps, Submitting
<1>2. ASSUME NEW w \in Workers
      PROVE  /\ Calling(w) => worker[w].key \in Keys
             /\ worker[w].pc = "telling" => worker[w].waiters \subseteq Requests
  <2>1. worker[w] \in WorkSteps
    BY DEF Types
  <2> QED BY <2>1 DEF WorkSteps, Idle, Calling
<1>3. \A i \in DOMAIN queue : queue[i] \in Keys
  BY DEF Types
<1>4. ASSUME NEW k \in Keys PROVE \A q \in inflight[k] : q \in Requests
  <2>1. inflight[k] \in SUBSET Requests
    BY DEF Types
  <2> QED BY <2>1
<1>5. ASSUME NEW w \in Workers, worker[w].pc = "telling", NEW q \in worker[w].waiters PROVE q \in Requests
  BY <1>2, <1>5
<1> QED BY <1>1, <1>2, <1>3, <1>4, <1>5

\* Nothing more is submitted, queued or called, and what is in flight stays.
LEMMA ExclusiveFrame ==
  ASSUME Types, Exclusive, queue' \in {queue, <<>>},
         \A q \in Requests : Submitting(q)' => Submitting(q) /\ req'[q].key = req[q].key,
         \A w \in Workers : Calling(w)' => Calling(w) /\ worker'[w].key = worker[w].key,
         \A k \in Keys : inflight[k] # NoCall => inflight'[k] # NoCall
  PROVE  Exclusive'
<1>1. /\ \A q \in Requests : Submitting(q) => req[q].key \in Keys
      /\ \A w \in Workers : Calling(w) => worker[w].key \in Keys
      /\ \A i \in DOMAIN queue : queue[i] \in Keys
  BY Shapes
<1>2. \A i \in DOMAIN queue' : i \in DOMAIN queue /\ queue'[i] = queue[i]
  OBVIOUS
<1>3. ASSUME NEW q \in Requests, Submitting(q)'
      PROVE  /\ inflight'[req'[q].key] # NoCall
             /\ \A p \in Requests \ {q} : Submitting(p)' => req'[p].key # req'[q].key
  BY <1>1, <1>3 DEF Exclusive
<1>4. ASSUME NEW i \in DOMAIN queue'
      PROVE  /\ inflight'[queue'[i]] # NoCall
             /\ \A j \in DOMAIN queue' \ {i} : queue'[j] # queue'[i]
             /\ \A q \in Requests : Submitting(q)' => req'[q].key # queue'[i]
  BY <1>1, <1>2, <1>4 DEF Exclusive
<1>5. ASSUME NEW w \in Workers, Calling(w)'
      PROVE  /\ inflight'[worker'[w].key] # NoCall
             /\ \A v \in Workers \ {w} : Calling(v)' => worker'[v].key # worker'[w].key
             /\ \A i \in DOMAIN queue' : queue'[i] # worker'[w].key
             /\ \A q \in Requests : Submitting(q)' => req'[q].key # worker'[w].key
  BY <1>1, <1>2, <1>5 DEF Exclusive
<1> QED BY <1>3, <1>4, <1>5 DEF Exclusive

\* Nobody starts to submit, and who newly waits or is told has asked and does not submit.
Asked(q) == req[q].pc # "new"
LEMMA WaitersFrame ==
  ASSUME Types, Waiters,
         \A q \in Requests : Submitting(q)' => Submitting(q) /\ req'[q].key = req[q].key,
         \A q \in Requests : Asked(q) => Asked(q)',
         \A k \in Keys : \A q \in inflight'[k] : q \in inflight[k] \/ (Asked(q)' /\ ~Submitting(q)'),
         \A w \in Workers : worker'[w].pc = "telling" => \A q \in worker'[w].waiters :
           \/ worker[w].pc = "telling" /\ q \in worker[w].waiters
           \/ q \in Requests /\ Asked(q)' /\ ~Submitting(q)'
  PROVE  Waiters'
<1>1. /\ \A k \in Keys : \A q \in inflight[k] : q \in Requests
      /\ \A w \in Workers : worker[w].pc = "telling" => \A q \in worker[w].waiters : q \in Requests
  BY Shapes
<1>2. \A k \in Keys : \A q \in inflight'[k] : Asked(q)' /\ (Submitting(q)' => req'[q].key = k)
  BY <1>1 DEF Waiters, Asked
<1>3. \A w \in Workers : worker'[w].pc = "telling" =>
        \A q \in worker'[w].waiters : Asked(q)' /\ ~Submitting(q)'
  BY <1>1 DEF Waiters, Asked
<1> QED BY <1>2, <1>3 DEF Waiters, Asked

\* The call of a key nobody asks for is accepted.
LEMMA ExclusiveAccept ==
  ASSUME Types, Exclusive, Waiters, NEW q \in Requests, NEW k \in Keys, Accept(q, k), mode # "sync"
  PROVE  Exclusive' /\ Waiters'
<1>1. /\ req[q].pc = "new" /\ inflight[k] = NoCall
      /\ req' = [req EXCEPT ![q] = [pc |-> "submitting", key |-> k]]
      /\ inflight' = [inflight EXCEPT ![k] = {q}] /\ queue' = queue /\ worker' = worker
  BY DEF Accept, Missed, Shared, Becomes
<1>2. /\ \A p \in Requests : Submitting(p) => req[p].key \in Keys
      /\ \A w \in Workers : Calling(w) => worker[w].key \in Keys
      /\ \A i \in DOMAIN queue : queue[i] \in Keys
  BY Shapes
<1>3. /\ req'[q].pc = "submitting" /\ req'[q].key = k /\ Submitting(q)' /\ ~Submitting(q)
      /\ \A p \in Requests \ {q} : req'[p] = req[p] /\ (Submitting(p)' <=> Submitting(p))
      /\ inflight'[k] = {q} /\ \A x \in Keys \ {k} : inflight'[x] = inflight[x]
  BY <1>1 DEF Types, Submitting
<1>4. \A w \in Workers : Calling(w)' <=> Calling(w)
  BY <1>1 DEF Calling
<1>5. /\ \A p \in Requests : Submitting(p) => req[p].key # k
      /\ \A w \in Workers : Calling(w) => worker[w].key # k
      /\ \A i \in DOMAIN queue : queue[i] # k
  BY <1>1 DEF Exclusive
<1>6. \A x \in Keys : inflight[x] # NoCall => inflight'[x] # NoCall
  BY <1>1, <1>3 DEF NoCall
<1>7. ASSUME NEW p \in Requests, Submitting(p)'
      PROVE  /\ inflight'[req'[p].key] # NoCall
             /\ \A r \in Requests \ {p} : Submitting(r)' => req'[r].key # req'[p].key
  <2>1. CASE p = q
    BY <1>3, <1>5, <2>1 DEF NoCall
  <2>2. CASE p # q
    BY <1>2, <1>3, <1>5, <1>6, <1>7, <2>2 DEF Exclusive
  <2> QED BY <2>1, <2>2
<1>8. ASSUME NEW i \in DOMAIN queue'
      PROVE  /\ inflight'[queue'[i]] # NoCall
             /\ \A j \in DOMAIN queue' \ {i} : queue'[j] # queue'[i]
             /\ \A p \in Requests : Submitting(p)' => req'[p].key # queue'[i]
  BY <1>1, <1>2, <1>3, <1>5, <1>6, <1>8 DEF Exclusive
<1>9. ASSUME NEW w \in Workers, Calling(w)'
      PROVE  /\ inflight'[worker'[w].key] # NoCall
             /\ \A v \in Workers \ {w} : Calling(v)' => worker'[v].key # worker'[w].key
             /\ \A i \in DOMAIN queue' : queue'[i] # worker'[w].key
             /\ \A p \in Requests : Submitting(p)' => req'[p].key # worker'[w].key
  BY <1>1, <1>2, <1>3, <1>4, <1>5, <1>6, <1>9 DEF Exclusive
<1>10. Exclusive'
  BY <1>7, <1>8, <1>9 DEF Exclusive
<1>11. /\ \A x \in Keys : \A p \in inflight[x] : p \in Requests
       /\ \A w \in Workers : worker[w].pc = "telling" => \A p \in worker[w].waiters : p \in Requests
  BY Shapes
<1>12. \A x \in Keys : \A p \in inflight'[x] : req'[p].pc # "new" /\ (Submitting(p)' => req'[p].key = x)
  BY <1>1, <1>3, <1>11 DEF Waiters
<1>13. \A w \in Workers : worker'[w].pc = "telling" =>
         \A p \in worker'[w].waiters : req'[p].pc # "new" /\ ~Submitting(p)'
  BY <1>1, <1>3, <1>11 DEF Waiters
<1> QED BY <1>10, <1>12, <1>13 DEF Waiters

\* What was submitted is queued.
LEMMA ExclusiveSubmit ==
  ASSUME Types, Exclusive, NEW q \in Requests, Submit(q), pool # "down"
  PROVE  Exclusive'
<1> DEFINE k == req[q].key
           n == Len(queue)
<1>1. /\ Submitting(q) /\ queue' = Append(queue, k)
      /\ req' = [req EXCEPT ![q] = [req[q] EXCEPT !.pc = "waiting"]]
      /\ inflight' = inflight /\ worker' = worker
  BY DEF Submit, Becomes, book, Submitting
<1>2. k \in Keys /\ queue \in Seq(Keys) /\ n \in Nat /\ DOMAIN queue = 1 .. n
  BY <1>1, Shapes DEF Types
<1>3. /\ req[q] \in [pc : {"submitting", "waiting", "calling"}, key : Keys]
      /\ req'[q].pc = "waiting"
  <2>1. req[q] \in [pc : {"submitting", "waiting", "calling"}, key : Keys]
    BY <1>1 DEF Types, ReqSteps, Submitting
  <2> QED BY <1>1, <2>1 DEF Types
<1>4. ~Submitting(q)' /\ \A p \in Requests \ {q} : req'[p] = req[p] /\ (Submitting(p)' <=> Submitting(p))
  BY <1>1, <1>3 DEF Types, Submitting
<1>5. /\ Len(queue') = n + 1 /\ DOMAIN queue' = 1 .. n + 1
      /\ \A i \in 1 .. n : queue'[i] = queue[i]
      /\ queue'[n + 1] = k
  BY <1>1, <1>2
<1>6. \A w \in Workers : Calling(w)' <=> Calling(w)
  BY <1>1 DEF Calling
<1>7. \A i \in 1 .. n + 1 : i \in 1 .. n \/ i = n + 1
  BY <1>2
<1>8. /\ inflight[k] # NoCall
      /\ \A p \in Requests \ {q} : Submitting(p) => req[p].key # k
      /\ \A i \in 1 .. n : queue[i] # k
      /\ \A w \in Workers : Calling(w) => worker[w].key # k
  BY <1>1, <1>2 DEF Exclusive
<1>9. \A i \in 1 .. n : /\ inflight[queue[i]] # NoCall
                        /\ \A j \in 1 .. n \ {i} : queue[j] # queue[i]
                        /\ \A p \in Requests : Submitting(p) => req[p].key # queue[i]
  BY <1>2 DEF Exclusive
<1> HIDE DEF k, n
<1>10. ASSUME NEW p \in Requests, Submitting(p)'
       PROVE  /\ inflight'[req'[p].key] # NoCall
              /\ \A r \in Requests \ {p} : Submitting(r)' => req'[r].key # req'[p].key
  BY <1>1, <1>4, <1>10 DEF Exclusive
<1>11. ASSUME NEW i \in DOMAIN queue'
       PROVE  /\ inflight'[queue'[i]] # NoCall
              /\ \A j \in DOMAIN queue' \ {i} : queue'[j] # queue'[i]
              /\ \A p \in Requests : Submitting(p)' => req'[p].key # queue'[i]
  <2>1. CASE i \in 1 .. n
    BY <1>1, <1>4, <1>5, <1>7, <1>8, <1>9, <2>1
  <2>2. CASE i = n + 1
    BY <1>1, <1>4, <1>5, <1>7, <1>8, <2>2
  <2> QED BY <1>5, <1>7, <2>1, <2>2
<1>12. ASSUME NEW w \in Workers, Calling(w)'
       PROVE  /\ inflight'[worker'[w].key] # NoCall
              /\ \A v \in Workers \ {w} : Calling(v)' => worker'[v].key # worker'[w].key
              /\ \A i \in DOMAIN queue' : queue'[i] # worker'[w].key
              /\ \A p \in Requests : Submitting(p)' => req'[p].key # worker'[w].key
  <2>1. \A i \in DOMAIN queue' : queue'[i] # worker[w].key
    BY <1>2, <1>5, <1>6, <1>7, <1>8, <1>12 DEF Exclusive
  <2> QED BY <1>1, <1>4, <1>6, <1>12, <2>1 DEF Exclusive
<1> QED BY <1>10, <1>11, <1>12 DEF Exclusive

\* A worker takes the first of the queue.
LEMMA ExclusiveTake ==
  ASSUME Types, Exclusive, NEW w \in Workers, Take(w)
  PROVE  Exclusive'
<1> DEFINE k == Head(queue)
           n == Len(queue)
<1>1. /\ worker[w] = Idle /\ queue # <<>> /\ queue' = Tail(queue)
      /\ worker' = [worker EXCEPT ![w] = [pc |-> "calling", key |-> k]]
      /\ inflight' = inflight /\ req' = req
  BY DEF Take, book
<1>2. /\ n \in Nat /\ n >= 1 /\ DOMAIN queue = 1 .. n /\ k = queue[1]
      /\ queue' \in Seq(Keys) /\ Len(queue') = n - 1
      /\ \A i \in 1 .. n - 1 : queue'[i] = queue[i + 1]
  BY <1>1, Headed DEF Types
<1>3. DOMAIN queue' = 1 .. n - 1
  BY <1>2
<1>4. /\ \A i \in 1 .. n : /\ inflight[queue[i]] # NoCall
                           /\ \A j \in 1 .. n \ {i} : queue[j] # queue[i]
                           /\ \A p \in Requests : Submitting(p) => req[p].key # queue[i]
      /\ \A v \in Workers, i \in 1 .. n : Calling(v) => queue[i] # worker[v].key
  BY <1>2 DEF Exclusive
<1>5. /\ worker'[w].pc = "calling" /\ worker'[w].key = k /\ ~Calling(w)
      /\ \A v \in Workers \ {w} : worker'[v] = worker[v] /\ (Calling(v)' <=> Calling(v))
  BY <1>1 DEF Types, Calling, Idle
<1> HIDE DEF k, n
<1>6. \A i \in 1 .. n - 1 : i + 1 \in 1 .. n /\ i + 1 # 1
  BY <1>2
<1>7. 1 \in 1 .. n
  BY <1>2
<1>8. \A q \in Requests : Submitting(q)' <=> Submitting(q)
  BY <1>1 DEF Submitting
<1>9. ASSUME NEW q \in Requests, Submitting(q)'
      PROVE  /\ inflight'[req'[q].key] # NoCall
             /\ \A p \in Requests \ {q} : Submitting(p)' => req'[p].key # req'[q].key
  BY <1>1, <1>8, <1>9 DEF Exclusive
<1>10. ASSUME NEW i \in DOMAIN queue'
       PROVE  /\ inflight'[queue'[i]] # NoCall
              /\ \A j \in DOMAIN queue' \ {i} : queue'[j] # queue'[i]
              /\ \A q \in Requests : Submitting(q)' => req'[q].key # queue'[i]
  <2>1. i \in 1 .. n - 1 /\ i + 1 \in 1 .. n /\ queue'[i] = queue[i + 1]
    BY <1>2, <1>3, <1>6
  <2>2. ASSUME NEW j \in DOMAIN queue' \ {i} PROVE queue'[j] # queue'[i]
    <3>1. j \in 1 .. n - 1 /\ j + 1 \in 1 .. n /\ queue'[j] = queue[j + 1] /\ j + 1 # i + 1
      BY <1>2, <1>3, <1>6, <2>1
    <3> QED BY <1>4, <2>1, <3>1
  <2> QED BY <1>1, <1>4, <1>8, <2>1, <2>2
<1>11. ASSUME NEW v \in Workers, Calling(v)'
       PROVE  /\ inflight'[worker'[v].key] # NoCall
              /\ \A u \in Workers \ {v} : Calling(u)' => worker'[u].key # worker'[v].key
              /\ \A i \in DOMAIN queue' : queue'[i] # worker'[v].key
              /\ \A q \in Requests : Submitting(q)' => req'[q].key # worker'[v].key
  <2>1. CASE v = w
    <3>1. \A i \in DOMAIN queue' : queue'[i] # k
      BY <1>2, <1>3, <1>4, <1>6, <1>7
    <3>2. \A u \in Workers \ {w} : Calling(u)' => worker'[u].key # k
      BY <1>2, <1>4, <1>5, <1>7
    <3> QED BY <1>1, <1>2, <1>4, <1>5, <1>7, <1>8, <2>1, <3>1, <3>2
  <2>2. CASE v # w
    <3>1. Calling(v) /\ worker'[v] = worker[v]
      BY <1>5, <1>11, <2>2
    <3>2. \A i \in DOMAIN queue' : queue'[i] # worker[v].key
      BY <1>2, <1>3, <1>4, <1>6, <3>1
    <3>3. ASSUME NEW u \in Workers \ {v}, Calling(u)' PROVE worker'[u].key # worker[v].key
      <4>1. CASE u = w
        BY <1>2, <1>4, <1>5, <1>7, <3>1, <4>1
      <4>2. CASE u # w
        BY <1>5, <3>1, <3>3, <4>2 DEF Exclusive
      <4> QED BY <4>1, <4>2
    <3> QED BY <1>1, <1>8, <3>1, <3>2, <3>3 DEF Exclusive
  <2> QED BY <2>1, <2>2
<1> QED BY <1>9, <1>10, <1>11 DEF Exclusive

\* A call returns, and its key is no longer in flight.
LEMMA ExclusiveReturn ==
  ASSUME Types, Exclusive, Waiters, NEW w \in Workers, NEW o \in Outcomes, Return(w, o)
  PROVE  Exclusive' /\ Waiters'
<1> DEFINE k == worker[w].key
           told == IF o = "error" THEN {} ELSE inflight[k]
<1>1. /\ Calling(w) /\ queue' = queue
      /\ inflight' = [inflight EXCEPT ![k] = NoCall]
      /\ worker' = [worker EXCEPT ![w] = [pc |-> "telling", waiters |-> told]]
      /\ req' = IF o = "error"
                THEN [q \in Requests |-> IF q \in inflight[k] THEN [pc |-> "dropped"] ELSE req[q]]
                ELSE req
  BY DEF Return, Released, Calling
<1>2. k \in Keys /\ inflight[k] \subseteq Requests
  BY <1>1, Shapes
<1>3. told \subseteq inflight[k]
  OBVIOUS
<1>4. /\ \A q \in Requests : Submitting(q) => req[q].key # k
      /\ \A i \in DOMAIN queue : queue[i] # k
      /\ \A v \in Workers \ {w} : Calling(v) => worker[v].key # k
  BY <1>1 DEF Exclusive
<1>5. \A q \in inflight[k] : req[q].pc # "new" /\ ~Submitting(q)
  BY <1>2, <1>4 DEF Waiters
<1> HIDE DEF k, told
<1>6. \A q \in Requests : req'[q] = req[q] \/ (req'[q] = [pc |-> "dropped"] /\ q \in inflight[k])
  BY <1>1
<1>7. \A q \in Requests : /\ Submitting(q)' <=> Submitting(q)
                          /\ Submitting(q)' => req'[q].key = req[q].key
                          /\ Asked(q) => Asked(q)'
  BY <1>5, <1>6 DEF Submitting, Asked
<1>8. /\ worker'[w].pc = "telling" /\ worker'[w].waiters = told
      /\ \A v \in Workers \ {w} : worker'[v] = worker[v]
  BY <1>1 DEF Types
<1>9. ~Calling(w)' /\ \A v \in Workers \ {w} : Calling(v)' <=> Calling(v)
  BY <1>8 DEF Calling
<1>10. /\ inflight'[k] = {} /\ \A x \in Keys \ {k} : inflight'[x] = inflight[x]
  BY <1>1, <1>2 DEF Types, NoCall
<1>11. /\ \A q \in Requests : Submitting(q) => req[q].key \in Keys
       /\ \A v \in Workers : Calling(v) => worker[v].key \in Keys
       /\ \A i \in DOMAIN queue : queue[i] \in Keys
  BY Shapes
<1>12. ASSUME NEW q \in Requests, Submitting(q)'
       PROVE  /\ inflight'[req'[q].key] # NoCall
              /\ \A p \in Requests \ {q} : Submitting(p)' => req'[p].key # req'[q].key
  BY <1>4, <1>7, <1>10, <1>11, <1>12 DEF Exclusive
<1>13. ASSUME NEW i \in DOMAIN queue'
       PROVE  /\ inflight'[queue'[i]] # NoCall
              /\ \A j \in DOMAIN queue' \ {i} : queue'[j] # queue'[i]
              /\ \A q \in Requests : Submitting(q)' => req'[q].key # queue'[i]
  BY <1>1, <1>4, <1>7, <1>10, <1>11, <1>13 DEF Exclusive
<1>14. ASSUME NEW v \in Workers, Calling(v)'
       PROVE  /\ inflight'[worker'[v].key] # NoCall
              /\ \A u \in Workers \ {v} : Calling(u)' => worker'[u].key # worker'[v].key
              /\ \A i \in DOMAIN queue' : queue'[i] # worker'[v].key
              /\ \A q \in Requests : Submitting(q)' => req'[q].key # worker'[v].key
  BY <1>1, <1>4, <1>7, <1>8, <1>9, <1>10, <1>11, <1>14 DEF Exclusive
<1>15. Exclusive'
  BY <1>12, <1>13, <1>14 DEF Exclusive
<1>16. \A q \in Requests : Submitting(q)' => Submitting(q) /\ req'[q].key = req[q].key
  BY <1>7
<1>17. \A x \in Keys : \A q \in inflight'[x] : q \in inflight[x]
  BY <1>2, <1>10
<1>18. ASSUME NEW v \in Workers, worker'[v].pc = "telling", NEW q \in worker'[v].waiters
       PROVE  \/ worker[v].pc = "telling" /\ q \in worker[v].waiters
              \/ q \in Requests /\ Asked(q)' /\ ~Submitting(q)'
  <2>1. CASE v = w
    <3>1. q \in Requests /\ req[q].pc # "new" /\ ~Submitting(q)
      BY <1>2, <1>3, <1>5, <1>8, <1>18, <2>1
    <3> QED BY <1>7, <3>1 DEF Asked
  <2>2. CASE v # w
    BY <1>8, <1>18, <2>2
  <2> QED BY <2>1, <2>2
<1>19. \A q \in Requests : Asked(q) => Asked(q)'
  BY <1>7
<1>20. Waiters'
  BY <1>16, <1>17, <1>18, <1>19, WaitersFrame
<1> QED BY <1>15, <1>20

(* Every step keeps keys to one call, and who waits to who has asked. *)
LEMMA ExclusiveStep ==
  ASSUME Types, Exclusive, Waiters, [Next]_vars PROVE Exclusive' /\ Waiters'
<1> DEFINE Kept == \A q \in Requests : Submitting(q)' => Submitting(q) /\ req'[q].key = req[q].key
           Known == \A q \in Requests : Asked(q) => Asked(q)'
<1>1. ASSUME NEW q \in Requests, NEW s, Becomes(q, s), s.pc \notin {"new", "submitting"}
      PROVE  Kept /\ Known /\ Asked(q)' /\ ~Submitting(q)'
  <2>1. req'[q] = s /\ \A p \in Requests \ {q} : req'[p] = req[p]
    BY <1>1 DEF Becomes, Types
  <2> QED BY <1>1, <2>1 DEF Submitting, Asked
<1>2. ASSUME req' = req PROVE Kept /\ Known
  BY <1>2 DEF Submitting, Asked
<1>3. ASSUME worker' = worker
      PROVE  \A w \in Workers : Calling(w)' => Calling(w) /\ worker'[w].key = worker[w].key
  BY <1>3 DEF Calling
<1>4. ASSUME Kept, Known, queue' \in {queue, <<>>}, inflight' = inflight, worker' = worker
      PROVE  Exclusive' /\ Waiters'
  <2>1. Exclusive'
    BY <1>3, <1>4, ExclusiveFrame
  <2>2. Waiters'
    BY <1>4, WaitersFrame
  <2> QED BY <2>1, <2>2
<1>5. ASSUME NEW q \in Requests, NEW k \in Keys, AnswerNow(q, k) PROVE Exclusive' /\ Waiters'
  <2>1. PICK s \in {Skipped, [pc |-> "answered"]} : Becomes(q, s)
    BY <1>5 DEF AnswerNow
  <2>2. Kept /\ Known
    BY <1>1, <2>1 DEF Skipped
  <2> HIDE DEF Kept, Known
  <2> QED BY <1>4, <1>5, <2>2 DEF AnswerNow
<1>6. ASSUME NEW q \in Requests, NEW k \in Keys, Join(q, k) PROVE Exclusive' /\ Waiters'
  <2>1. Kept /\ Known /\ Asked(q)' /\ ~Submitting(q)'
    BY <1>1, <1>6 DEF Join
  <2>2. inflight' = [inflight EXCEPT ![k] = @ \cup {q}] /\ queue' = queue /\ worker' = worker
    BY <1>6 DEF Join
  <2>3. \A x \in Keys : inflight[x] \subseteq inflight'[x] /\ inflight'[x] \subseteq inflight[x] \cup {q}
    BY <2>2 DEF Types
  <2>4. \A x \in Keys : inflight[x] # NoCall => inflight'[x] # NoCall
    BY <2>3 DEF NoCall
  <2>5. Exclusive'
    BY <1>3, <2>1, <2>2, <2>4, ExclusiveFrame
  <2>6. \A x \in Keys : \A p \in inflight'[x] : p \in inflight[x] \/ (Asked(p)' /\ ~Submitting(p)')
    BY <2>1, <2>3
  <2>7. Waiters'
    BY <2>1, <2>2, <2>6, WaitersFrame
  <2> QED BY <2>5, <2>7
<1>7. ASSUME NEW q \in Requests, NEW k \in Keys, Skip(q, k) PROVE Exclusive' /\ Waiters'
  <2>1. Kept /\ Known
    BY <1>1, <1>7 DEF Skip, Skipped
  <2> HIDE DEF Kept, Known
  <2> QED BY <1>4, <1>7, <2>1 DEF Skip
<1>8. ASSUME NEW q \in Requests, NEW k \in Keys, Accept(q, k) PROVE Exclusive' /\ Waiters'
  <2>1. CASE mode # "sync"
    BY <1>8, <2>1, ExclusiveAccept
  <2>2. CASE mode = "sync"
    <3>1. Becomes(q, [pc |-> "calling", key |-> k]) /\ UNCHANGED <<inflight, queue, worker>>
      BY <1>8, <2>2 DEF Accept
    <3>2. Kept /\ Known
      BY <1>1, <3>1
    <3> HIDE DEF Kept, Known
    <3> QED BY <1>4, <3>1, <3>2
  <2> QED BY <2>1, <2>2
<1>9. ASSUME NEW q \in Requests, Submit(q) PROVE Exclusive' /\ Waiters'
  <2>1. req[q] \in [pc : {"submitting", "waiting", "calling"}, key : Keys]
    <3>1. req[q] \in ReqSteps
      BY DEF Types
    <3> QED BY <1>9, <3>1 DEF ReqSteps, Submit
  <2>2. PICK s \in {[pc |-> "raised"], [req[q] EXCEPT !.pc = "waiting"]} : Becomes(q, s)
    BY <1>9 DEF Submit
  <2>3. s.pc \notin {"new", "submitting"}
    BY <2>1, <2>2
  <2>4. Kept /\ Known
    BY <1>1, <2>2, <2>3
  <2>5. inflight' = inflight /\ worker' = worker
    BY <1>9 DEF Submit, book
  <2> HIDE DEF Kept, Known
  <2>6. CASE pool = "down"
    BY <1>4, <1>9, <2>4, <2>5, <2>6 DEF Submit
  <2>7. CASE pool # "down"
    <3>1. Exclusive'
      BY <1>9, <2>7, ExclusiveSubmit
    <3>2. Waiters'
      BY <2>4, <2>5, WaitersFrame DEF Kept, Known
    <3> QED BY <3>1, <3>2
  <2> QED BY <2>6, <2>7
<1>10. ASSUME NEW q \in Requests, NEW o \in Outcomes, CallInline(q, o) PROVE Exclusive' /\ Waiters'
  <2>1. Kept /\ Known
    <3>1. PICK s \in {[pc |-> "failed"], [pc |-> "answered"]} : Becomes(q, s)
      BY <1>10 DEF CallInline
    <3> QED BY <1>1, <3>1
  <2> HIDE DEF Kept, Known
  <2> QED BY <1>4, <1>10, <2>1 DEF CallInline
<1>11. ASSUME NEW w \in Workers, Take(w) PROVE Exclusive' /\ Waiters'
  <2>1. Exclusive'
    BY <1>11, ExclusiveTake
  <2>2. inflight' = inflight /\ req' = req /\ worker' = [worker EXCEPT ![w] = [pc |-> "calling", key |-> Head(queue)]]
    BY <1>11 DEF Take, book
  <2>3. worker'[w].pc = "calling" /\ \A v \in Workers \ {w} : worker'[v] = worker[v]
    BY <2>2 DEF Types
  <2>4. Waiters'
    BY <1>2, <2>2, <2>3, WaitersFrame
  <2> QED BY <2>1, <2>4
<1>12. ASSUME NEW w \in Workers, NEW o \in Outcomes, Return(w, o) PROVE Exclusive' /\ Waiters'
  BY <1>12, ExclusiveReturn
<1>13. ASSUME NEW w \in Workers, NEW q \in Requests, Tell(w, q) PROVE Exclusive' /\ Waiters'
  <2>1. worker[w] \in [pc : {"telling"}, waiters : SUBSET Requests]
    <3>1. worker[w] \in WorkSteps
      BY DEF Types
    <3> QED BY <1>13, <3>1 DEF WorkSteps, Idle, Tell
  <2>2. /\ inflight' = inflight /\ queue' = queue
        /\ worker' = [worker EXCEPT ![w] = [worker[w] EXCEPT !.waiters = @ \ {q}]]
    BY <1>13 DEF Tell, book
  <2>3. /\ worker'[w].pc = "telling" /\ worker'[w].waiters = worker[w].waiters \ {q}
        /\ \A v \in Workers \ {w} : worker'[v] = worker[v]
    <3>1. worker'[w] = [worker[w] EXCEPT !.waiters = @ \ {q}]
      BY <2>2 DEF Types
    <3>2. \A v \in Workers \ {w} : worker'[v] = worker[v]
      BY <2>2 DEF Types
    <3> QED BY <2>1, <3>1, <3>2
  <2>4. Kept /\ Known
    BY <1>1, <1>13 DEF Tell
  <2>5. \A v \in Workers : Calling(v)' => Calling(v) /\ worker'[v].key = worker[v].key
    BY <2>3 DEF Calling
  <2>6. Exclusive'
    BY <2>2, <2>4, <2>5, ExclusiveFrame
  <2>7. ASSUME NEW v \in Workers, worker'[v].pc = "telling", NEW p \in worker'[v].waiters
        PROVE  worker[v].pc = "telling" /\ p \in worker[v].waiters
    BY <2>1, <2>3, <2>7
  <2>8. Waiters'
    BY <2>2, <2>4, <2>7, WaitersFrame
  <2> QED BY <2>6, <2>8
<1>14. ASSUME NEW w \in Workers, Settle(w) PROVE Exclusive' /\ Waiters'
  <2>1. inflight' = inflight /\ queue' = queue /\ req' = req /\ worker' = [worker EXCEPT ![w] = Idle]
    BY <1>14 DEF Settle
  <2>2. worker'[w].pc = "idle" /\ \A v \in Workers \ {w} : worker'[v] = worker[v]
    BY <2>1 DEF Types, Idle
  <2>3. \A v \in Workers : Calling(v)' => Calling(v) /\ worker'[v].key = worker[v].key
    BY <2>2 DEF Calling
  <2>4. Exclusive'
    BY <1>2, <2>1, <2>3, ExclusiveFrame
  <2>5. Waiters'
    BY <1>2, <2>1, <2>2, WaitersFrame
  <2> QED BY <2>4, <2>5
<1>15. ASSUME Close \/ (\E wait \in BOOLEAN : Shutdown(wait)) \/ Tick \/ UNCHANGED vars
       PROVE  Exclusive' /\ Waiters'
  <2>1. req' = req /\ inflight' = inflight /\ worker' = worker /\ queue' \in {queue, <<>>}
    BY <1>15 DEF Close, Shutdown, Tick, vars, book
  <2>2. Kept /\ Known
    BY <1>2, <2>1
  <2> HIDE DEF Kept, Known
  <2> QED BY <1>4, <2>1, <2>2
<1> HIDE DEF Kept, Known
<1> QED BY <1>5, <1>6, <1>7, <1>8, <1>9, <1>10, <1>11, <1>12, <1>13, <1>14, <1>15 DEF Next

-----------------------------------------------------------------------------
(* The count.                                                               *)

LEMMA CountedSets ==
  ASSUME Types
  PROVE  /\ IsFiniteSet(Submitters) /\ Cardinality(Submitters) \in Nat
         /\ IsFiniteSet(Busy) /\ Cardinality(Busy) \in Nat /\ Len(queue) \in Nat
<1>1. IsFiniteSet(Requests) /\ IsFiniteSet(Workers)
  BY EnricherAssumption
<1>2. Submitters \subseteq Requests /\ Busy \subseteq Workers
  BY DEF Submitters, Busy
<1>3. IsFiniteSet(Submitters) /\ IsFiniteSet(Busy)
  BY <1>1, <1>2, FS_Subset
<1>4. Len(queue) \in Nat
  BY DEF Types
<1> QED BY <1>3, <1>4, FS_CardinalityType

\* A count that grows as what it counts grows, or by more.
LEMMA Outgrows == \A p, u, pp, uu \in Int : p >= u /\ pp - uu >= p - u => pp >= uu
OBVIOUS
LEMMA KeepsUp  == \A p, u, pp, uu \in Int : p = u /\ pp - uu = p - u => pp = uu
OBVIOUS

\* What a step adds to the calls under way it adds to the count, or more once closed.
LEMMA CountedFrame ==
  ASSUME Types, Counted, UnderWay' \in Int, pending' \in Int,
         pending' - UnderWay' >= pending - UnderWay,
         closed \/ pending' - UnderWay' = pending - UnderWay,
         pending' <= MaxPending, closed' = closed, pool' = "down" => closed
  PROVE  Counted'
<1>1. UnderWay \in Int /\ pending \in Int
  BY CountedSets DEF Types, UnderWay
<1>2. pending >= UnderWay /\ (~closed => pending = UnderWay)
  BY DEF Counted
<1>3. pending' >= UnderWay'
  BY <1>1, <1>2, Outgrows, Zenon
<1>4. ~closed => pending' = UnderWay'
  BY <1>1, <1>2, KeepsUp, Zenon
<1> QED BY <1>3, <1>4 DEF Counted

\* Every step keeps the count.
LEMMA CountedStep ==
  ASSUME Types, Exclusive, Waiters, Counted, [Next]_vars PROVE Counted'
<1> DEFINE C == Cardinality(Submitters)
           B == Cardinality(Busy)
<1>0. /\ IsFiniteSet(Submitters) /\ C \in Nat /\ IsFiniteSet(Busy) /\ B \in Nat /\ Len(queue) \in Nat
      /\ pending \in Int /\ pending <= MaxPending /\ (pool = "down" => closed)
      /\ UnderWay = C + Len(queue) + B
  BY CountedSets DEF Types, Counted, UnderWay
<1>u. UnderWay' = C' + Len(queue') + B'
  BY DEF UnderWay
<1>1. ASSUME req' = req PROVE C' = C
  <2>1. Submitters' = Submitters
    BY <1>1 DEF Submitters, Submitting
  <2> QED BY <2>1
<1>2. ASSUME worker' = worker PROVE B' = B
  <2>1. Busy' = Busy
    BY <1>2 DEF Busy
  <2> QED BY <2>1
<1>3. ASSUME NEW q \in Requests, NEW s, Becomes(q, s), ~Submitting(q), s.pc # "submitting" PROVE C' = C
  <2>1. req'[q] = s /\ \A p \in Requests \ {q} : req'[p] = req[p]
    BY <1>3 DEF Becomes, Types
  <2>2. Submitters' = Submitters
    BY <1>3, <2>1 DEF Submitters, Submitting
  <2> QED BY <2>2
<1>4. ASSUME NEW q \in Requests, NEW s, Becomes(q, s), ~Submitting(q), s.pc = "submitting" PROVE C' = C + 1
  <2>1. req'[q] = s /\ \A p \in Requests \ {q} : req'[p] = req[p]
    BY <1>4 DEF Becomes, Types
  <2>2. Submitters' = Submitters \cup {q} /\ q \notin Submitters
    BY <1>4, <2>1 DEF Submitters, Submitting
  <2>3. Cardinality(Submitters \cup {q}) = Cardinality(Submitters) + 1
    BY <1>0, <2>2, FS_AddElement
  <2> QED BY <2>2, <2>3
<1>5. ASSUME NEW q \in Requests, NEW s, Becomes(q, s), Submitting(q), s.pc # "submitting" PROVE C' = C - 1
  <2>1. req'[q] = s /\ \A p \in Requests \ {q} : req'[p] = req[p]
    BY <1>5 DEF Becomes, Types
  <2>2. Submitters' = Submitters \ {q} /\ q \in Submitters
    BY <1>5, <2>1 DEF Submitters, Submitting
  <2>3. Cardinality(Submitters \ {q}) = Cardinality(Submitters) - 1
    BY <1>0, <2>2, FS_RemoveElement
  <2> QED BY <2>2, <2>3
<1>6. ASSUME NEW w \in Workers, NEW s, worker' = [worker EXCEPT ![w] = s], worker[w] # Idle, s # Idle PROVE B' = B
  <2>1. worker'[w] = s /\ \A v \in Workers \ {w} : worker'[v] = worker[v]
    BY <1>6 DEF Types
  <2>2. Busy' = Busy
    BY <1>6, <2>1 DEF Busy
  <2> QED BY <2>2
<1> HIDE DEF C, B
<1>7. ASSUME C' = C, B' = B, queue' = queue, pending' = pending, closed' = closed, pool' = pool PROVE Counted'
  <2>1. UnderWay' = UnderWay /\ UnderWay \in Int
    BY <1>0, <1>u, <1>7
  <2> QED BY <1>0, <1>7, <2>1, CountedFrame
<1>8. ASSUME NEW q \in Requests, NEW k \in Keys, AnswerNow(q, k) PROVE Counted'
  <2>1. PICK s \in {Skipped, [pc |-> "answered"]} : Becomes(q, s)
    BY <1>8 DEF AnswerNow
  <2>2. C' = C
    BY <1>3, <1>8, <2>1 DEF Skipped, AnswerNow, Submitting
  <2> QED BY <1>2, <1>7, <1>8, <2>2 DEF AnswerNow
<1>9. ASSUME NEW q \in Requests, NEW k \in Keys, Join(q, k) PROVE Counted'
  <2>1. C' = C
    BY <1>3, <1>9 DEF Join, Missed, Submitting
  <2> QED BY <1>2, <1>7, <1>9, <2>1 DEF Join
<1>10. ASSUME NEW q \in Requests, NEW k \in Keys, Skip(q, k) PROVE Counted'
  <2>1. C' = C
    BY <1>3, <1>10 DEF Skip, Skipped, Missed, Submitting
  <2> QED BY <1>2, <1>7, <1>10, <2>1 DEF Skip
<1>11. ASSUME NEW q \in Requests, NEW k \in Keys, Accept(q, k) PROVE Counted'
  <2>1. ~Submitting(q) /\ queue' = queue /\ closed' = closed /\ B' = B
    BY <1>2, <1>11 DEF Accept, Missed, Submitting
  <2>2. CASE mode = "sync"
    <3>1. C' = C
      BY <1>3, <1>11, <2>1, <2>2 DEF Accept
    <3> QED BY <1>7, <1>11, <2>1, <2>2, <3>1 DEF Accept
  <2>3. CASE mode # "sync"
    <3>1. C' = C + 1
      BY <1>4, <1>11, <2>1, <2>3 DEF Accept
    <3>2. pending' = pending + 1 /\ pool' = "up" /\ pending < MaxPending
      <4>1. mode = "async"
        BY <2>3 DEF Types
      <4>2. MaxPending \in Nat
        BY EnricherAssumption
      <4> QED BY <1>0, <1>11, <2>3, <4>1, <4>2 DEF Accept, Full
    <3>3. pending' <= MaxPending
      BY <1>0, <3>2, EnricherAssumption
    <3>4. UnderWay' = UnderWay + 1 /\ UnderWay \in Int
      BY <1>0, <1>u, <2>1, <3>1
    <3>5. pending' - UnderWay' = pending - UnderWay /\ UnderWay' \in Int /\ pending' \in Int
      BY <1>0, <3>2, <3>4
    <3>6. pending' - UnderWay' >= pending - UnderWay
      BY <1>0, <3>4, <3>5
    <3> QED BY <2>1, <3>2, <3>3, <3>5, <3>6, CountedFrame
  <2> QED BY <2>2, <2>3
<1>12. ASSUME NEW q \in Requests, Submit(q) PROVE Counted'
  <2>1. req[q] \in [pc : {"submitting", "waiting", "calling"}, key : Keys] /\ req[q].key \in Keys
    <3>1. req[q] \in ReqSteps
      BY DEF Types
    <3> QED BY <1>12, <3>1 DEF ReqSteps, Submit
  <2>2. PICK s \in {[pc |-> "raised"], [req[q] EXCEPT !.pc = "waiting"]} : Becomes(q, s)
    BY <1>12 DEF Submit
  <2>3. s.pc # "submitting" /\ Submitting(q)
    BY <1>12, <2>1, <2>2 DEF Submit, Submitting
  <2>4. C' = C - 1
    BY <1>5, <2>2, <2>3
  <2>5. closed' = closed /\ pool' = pool /\ pending' = pending /\ B' = B
    BY <1>2, <1>12 DEF Submit, book
  <2>6. CASE pool = "down"
    <3>1. UnderWay' = UnderWay - 1 /\ UnderWay \in Int /\ closed
      BY <1>0, <1>u, <1>12, <2>4, <2>5, <2>6 DEF Submit
    <3>2. pending' - UnderWay' >= pending - UnderWay /\ UnderWay' \in Int
      BY <1>0, <2>5, <3>1
    <3> QED BY <1>0, <2>5, <3>1, <3>2, CountedFrame
  <2>7. CASE pool # "down"
    <3>1. Len(queue') = Len(queue) + 1
      BY <1>12, <2>7 DEF Submit, Types
    <3>2. UnderWay' = UnderWay /\ UnderWay \in Int
      BY <1>0, <1>u, <2>4, <2>5, <3>1
    <3> QED BY <1>0, <2>5, <3>2, CountedFrame
  <2> QED BY <2>6, <2>7
<1>13. ASSUME NEW q \in Requests, NEW o \in Outcomes, CallInline(q, o) PROVE Counted'
  <2>1. PICK s \in {[pc |-> "failed"], [pc |-> "answered"]} : Becomes(q, s)
    BY <1>13 DEF CallInline
  <2>2. C' = C
    BY <1>3, <1>13, <2>1 DEF CallInline, Submitting
  <2> QED BY <1>2, <1>7, <1>13, <2>2 DEF CallInline
<1>14. ASSUME NEW w \in Workers, Take(w) PROVE Counted'
  <2>1. C' = C /\ closed' = closed /\ pool' = pool /\ pending' = pending
    BY <1>1, <1>14 DEF Take, book
  <2>2. queue \in Seq(Keys) /\ queue # <<>> /\ queue' = Tail(queue)
    BY <1>14 DEF Types, Take
  <2>3. Len(queue') = Len(queue) + (-1)
    BY <1>0, <2>2, Headed
  <2>4. /\ worker[w] = Idle /\ worker'[w].pc = "calling"
        /\ \A v \in Workers \ {w} : worker'[v] = worker[v]
    BY <1>14 DEF Take, Types
  <2>5. Busy' = Busy \cup {w} /\ w \notin Busy
    <3>1. worker'[w] # Idle
      BY <2>4 DEF Idle
    <3> QED BY <2>4, <3>1 DEF Busy
  <2>6. B' = B + 1
    <3>1. Cardinality(Busy \cup {w}) = Cardinality(Busy) + 1
      BY <1>0, <2>5, FS_AddElement
    <3> QED BY <2>5, <3>1 DEF B
  <2>7. UnderWay' = UnderWay /\ UnderWay \in Int
    BY <1>0, <1>u, <2>1, <2>3, <2>6
  <2> QED BY <1>0, <2>1, <2>7, CountedFrame
<1>15. ASSUME NEW w \in Workers, NEW o \in Outcomes, Return(w, o) PROVE Counted'
  <2> DEFINE k == worker[w].key
             told == IF o = "error" THEN {} ELSE inflight[k]
  <2>1. Calling(w) /\ k \in Keys
    BY <1>15, Shapes DEF Return, Calling
  <2>2. \A q \in inflight[k] : q \in Requests /\ ~Submitting(q)
    <3>1. \A q \in Requests : Submitting(q) => req[q].key # k
      BY <2>1 DEF Exclusive
    <3>2. \A q \in inflight[k] : q \in Requests /\ (Submitting(q) => req[q].key = k)
      BY <2>1, Shapes DEF Waiters
    <3> QED BY <3>1, <3>2
  <2>3. \A q \in Requests : req'[q] = req[q] \/ (req'[q] = [pc |-> "dropped"] /\ q \in inflight[k])
    BY <1>15 DEF Return
  <2>4. Submitters' = Submitters
    BY <2>2, <2>3 DEF Submitters, Submitting
  <2>5. worker' = [worker EXCEPT ![w] = [pc |-> "telling", waiters |-> told]]
    BY <1>15 DEF Return
  <2> HIDE DEF k, told
  <2>6. worker[w] # Idle /\ [pc |-> "telling", waiters |-> told] # Idle
    <3>1. worker[w].pc = "calling"
      BY <2>1 DEF Calling
    <3>2. [pc |-> "telling", waiters |-> told].pc = "telling" /\ Idle.pc = "idle"
      BY DEF Idle
    <3>3. \A x : x.pc # Idle.pc => x # Idle
      OBVIOUS
    <3> QED BY <3>1, <3>2, <3>3
  <2>7. B' = B
    BY <1>6, <2>5, <2>6
  <2>8. C' = C
    BY <2>4 DEF C
  <2> QED BY <1>7, <1>15, <2>7, <2>8 DEF Return
<1>16. ASSUME NEW w \in Workers, NEW q \in Requests, Tell(w, q) PROVE Counted'
  <2>1. ~Submitting(q)
    BY <1>16 DEF Tell, Waiters
  <2>2. C' = C
    BY <1>3, <1>16, <2>1 DEF Tell
  <2>3. worker[w] \in [pc : {"telling"}, waiters : SUBSET Requests]
    <3>1. worker[w] \in WorkSteps
      BY DEF Types
    <3> QED BY <1>16, <3>1 DEF WorkSteps, Idle, Tell
  <2>4. PICK s : s = [worker[w] EXCEPT !.waiters = @ \ {q}]
    OBVIOUS
  <2>5. worker' = [worker EXCEPT ![w] = s]
    BY <1>16, <2>4 DEF Tell
  <2>6. s.pc = "telling"
    BY <2>3, <2>4
  <2>7. s # Idle /\ worker[w] # Idle
    BY <2>3, <2>6 DEF Idle
  <2>8. B' = B
    BY <1>6, <2>5, <2>7
  <2> QED BY <1>7, <1>16, <2>2, <2>8 DEF Tell, book
<1>17. ASSUME NEW w \in Workers, Settle(w) PROVE Counted'
  <2>1. C' = C /\ closed' = closed /\ pool' = pool /\ queue' = queue /\ pending' = pending - 1
    BY <1>1, <1>17 DEF Settle
  <2>2. worker[w].pc = "telling" /\ worker'[w] = Idle /\ \A v \in Workers \ {w} : worker'[v] = worker[v]
    BY <1>17 DEF Settle, AllTold, Types
  <2>3. Busy' = Busy \ {w} /\ w \in Busy
    <3>1. worker[w] # Idle
      BY <2>2 DEF Idle
    <3> QED BY <2>2, <3>1 DEF Busy
  <2>4. B' = B - 1
    <3>1. Cardinality(Busy \ {w}) = Cardinality(Busy) - 1
      BY <1>0, <2>3, FS_RemoveElement
    <3> QED BY <2>3, <3>1 DEF B
  <2>5. UnderWay' = UnderWay - 1 /\ UnderWay \in Int
    BY <1>0, <1>u, <2>1, <2>4
  <2>6. pending' \in Int /\ UnderWay' \in Int /\ pending' - UnderWay' = pending - UnderWay
    BY <1>0, <2>1, <2>5
  <2>7. pending' - UnderWay' >= pending - UnderWay
    BY <1>0, <2>5, <2>6
  <2>8. pending' <= MaxPending
    <3>1. MaxPending \in Int
      BY EnricherAssumption
    <3> QED BY <1>0, <2>1, <3>1
  <2> QED BY <1>0, <2>1, <2>6, <2>7, <2>8, CountedFrame
<1>18. CASE Close
  <2>1. C' = C /\ B' = B /\ queue' = queue /\ pending' = pending /\ closed'
    BY <1>1, <1>2, <1>18 DEF Close, book
  <2>2. pending >= C + Len(queue) + B
    BY DEF Counted, UnderWay, C, B
  <2> QED BY <1>0, <2>1, <2>2, <1>u DEF Counted
<1>19. ASSUME NEW wait \in BOOLEAN, Shutdown(wait) PROVE Counted'
  <2>1. C' = C /\ B' = B /\ queue' \in {queue, <<>>} /\ pending' = pending /\ closed' /\ closed
    BY <1>1, <1>2, <1>19 DEF Shutdown, book
  <2>2. Len(queue') \in Nat /\ Len(queue') <= Len(queue)
    BY <1>0, <2>1
  <2>3. pending >= C + Len(queue) + B
    BY DEF Counted, UnderWay, C, B
  <2>4. pending >= C + Len(queue') + B
    BY <1>0, <2>2, <2>3
  <2>5. pending' >= UnderWay'
    BY <1>u, <2>1, <2>4
  <2>6. pending' <= MaxPending
    BY <1>0, <2>1
  <2> QED BY <2>1, <2>5, <2>6 DEF Counted
<1>20. CASE Tick \/ UNCHANGED vars
  <2>1. /\ req' = req /\ worker' = worker /\ queue' = queue /\ pending' = pending
        /\ closed' = closed /\ pool' = pool
    BY <1>20 DEF Tick, vars, book
  <2> QED BY <1>1, <1>2, <1>7, <2>1
<1> QED BY <1>8, <1>9, <1>10, <1>11, <1>12, <1>13, <1>14, <1>15, <1>16, <1>17, <1>18, <1>19, <1>20 DEF Next

-----------------------------------------------------------------------------
(* The theorems.                                                            *)

EnricherInv == Types /\ CacheKept /\ BudgetInv /\ Exclusive /\ Waiters /\ Counted

LEMMA InitInv == ASSUME Init PROVE EnricherInv
<1>1. /\ mode \in {"sync", "async"} /\ closed = FALSE /\ pool = "none"
      /\ cache = <<>> /\ inflight = [k \in Keys |-> NoCall] /\ calls = <<>> /\ pending = 0
      /\ queue = <<>> /\ worker = [w \in Workers |-> Idle]
      /\ req = [q \in Requests |-> [pc |-> "new"]]
      /\ now = 0 /\ started = <<>>
  BY DEF Init
<1>2. Types
  <2>1. cache \in Seq(Entries) /\ calls \in Seq(Nat) /\ queue \in Seq(Keys) /\ started \in Seq(Nat)
    BY <1>1
  <2>2. [pc |-> "new"] \in ReqSteps /\ Idle \in WorkSteps
    BY DEF ReqSteps, WorkSteps
  <2>3. /\ req \in [Requests -> ReqSteps] /\ worker \in [Workers -> WorkSteps]
        /\ inflight \in [Keys -> SUBSET Requests]
    BY <1>1, <2>2 DEF NoCall
  <2>4. pending \in Int /\ now \in Nat
    BY <1>1
  <2>5. closed \in BOOLEAN
    BY <1>1
  <2>6. pool \in {"none", "up", "down"}
    BY <1>1
  <2> QED BY <1>1, <2>1, <2>3, <2>4, <2>5, <2>6 DEF Types
<1>3. CacheKept
  BY <1>1, EnricherAssumption DEF CacheKept
<1>4. BudgetInv
  BY <1>1, EnricherAssumption DEF BudgetInv, Ordered, Remembers, Dropped, Spaced
<1>5. /\ \A q \in Requests : req[q].pc = "new" /\ ~Submitting(q)
      /\ \A w \in Workers : worker[w] = Idle /\ worker[w].pc = "idle" /\ ~Calling(w)
  BY <1>1 DEF Submitting, Calling, Idle
<1>6. Exclusive /\ Waiters
  BY <1>1, <1>5 DEF Exclusive, Waiters, NoCall
<1>7. Counted
  <2>1. Submitters = {} /\ Busy = {}
    BY <1>5 DEF Submitters, Busy
  <2>2. UnderWay = 0
    BY <1>1, <2>1, FS_EmptySet DEF UnderWay
  <2> QED BY <1>1, <2>2, EnricherAssumption DEF Counted
<1> QED BY <1>2, <1>3, <1>4, <1>6, <1>7 DEF EnricherInv

LEMMA StepInv == ASSUME EnricherInv, [Next]_vars PROVE EnricherInv'
<1>1. Types'
  BY TypesStep DEF EnricherInv
<1> QED BY <1>1, CacheStep, BudgetStep, ExclusiveStep, CountedStep DEF EnricherInv

LEMMA Inductive == Spec => []EnricherInv
<1>1. Init => EnricherInv
  BY InitInv
<1>2. EnricherInv /\ [Next]_vars => EnricherInv'
  BY StepInv
<1> QED BY <1>1, <1>2, PTL DEF Spec

\* The cache holds as many keys as entries.
LEMMA CachedCount == ASSUME Types, CacheKept PROVE Cardinality(Cached) = Len(cache)
<1> DEFINE n == Len(cache)
           f == [i \in 1 .. n |-> cache[i].key]
<1>1. n \in Nat /\ DOMAIN cache = 1 .. n
  BY DEF Types
<1>2. f \in [1 .. n -> Cached]
  BY <1>1 DEF Cached
<1>3. \A i, j \in 1 .. n : f[i] = f[j] => i = j
  BY <1>1 DEF CacheKept
<1>4. \A k \in Cached : \E i \in 1 .. n : f[i] = k
  BY <1>1 DEF Cached
<1> HIDE DEF f
<1>5. f \in Bijection(1 .. n, Cached)
  BY <1>2, <1>3, <1>4 DEF Bijection, Injection, Surjection, IsInjective
<1>6. IsFiniteSet(1 .. n) /\ Cardinality(1 .. n) = n
  <2>1. IsFiniteSet(1 .. n) /\ Cardinality(1 .. n) = IF 1 > n THEN 0 ELSE n - 1 + 1
    BY <1>1, FS_Interval
  <2> QED BY <1>1, <2>1
<1>7. Cardinality(1 .. n) = Cardinality(Cached)
  BY <1>5, <1>6, FS_Bijection DEF ExistsBijection
<1> QED BY <1>6, <1>7

\* The variables keep their types, the cache its bound and one entry per key, no entry or
\* call lies in the future, and the count of pending calls stays between nothing and
\* max_pending: request(), _run() and the clock they read.
THEOREM EnricherTypeCorrect == Spec => []TypeOK
<1>1. ASSUME EnricherInv PROVE TypeOK
  <2>1. Types /\ CacheKept /\ BudgetInv /\ Counted
    BY <1>1 DEF EnricherInv
  <2>2. \A i \in DOMAIN cache : cache[i].key \in Keys /\ cache[i].at \in 0 .. now
    <3>1. ASSUME NEW i \in DOMAIN cache PROVE cache[i].key \in Keys /\ cache[i].at \in Nat
      <4>1. cache[i] \in Entries
        BY <2>1 DEF Types
      <4> QED BY <4>1 DEF Entries
    <3> QED BY <2>1, <3>1 DEF Types, CacheKept
  <2>3. Cardinality(Cached) = Len(cache) /\ Len(cache) <= CacheSize
    BY <2>1, CachedCount DEF CacheKept
  <2>4. \A i \in DOMAIN calls : calls[i] \in 0 .. now
    <3>1. calls \in Seq(Nat) /\ started \in Seq(Nat) /\ now \in Nat
      BY <2>1 DEF Types
    <3>2. CASE Budget = 0
      <4>1. DOMAIN calls = {}
        BY <2>1, <3>2 DEF BudgetInv
      <4> QED BY <4>1
    <3>3. CASE Budget # 0
      <4>1. RemembersIn(calls) /\ Ordered
        BY <2>1, <3>3, RemembersIs, EnricherAssumption DEF BudgetInv
      <4>2. ASSUME NEW i \in DOMAIN calls PROVE calls[i] <= now
        <5>1. /\ i \in 1 .. Len(calls) /\ Len(calls) \in Nat /\ Len(started) \in Nat
              /\ Len(calls) <= Len(started) /\ DOMAIN started = 1 .. Len(started)
          BY <3>1, <4>1 DEF RemembersIn
        <5>2. Len(started) - Len(calls) + i \in DOMAIN started
          BY <5>1
        <5> QED BY <4>1, <5>1, <5>2 DEF RemembersIn, Ordered
      <4> QED BY <3>1, <4>2
    <3> QED BY <3>2, <3>3
  <2>5. pending \in 0 .. MaxPending
    <3>1. UnderWay \in Nat /\ pending \in Int /\ MaxPending \in Nat
      BY <2>1, CountedSets, EnricherAssumption DEF UnderWay, Types
    <3> QED BY <2>1, <3>1 DEF Counted
  <2>6. \A i \in DOMAIN queue : queue[i] \in Keys
    BY <2>1 DEF Types
  <2> QED BY <2>1, <2>2, <2>3, <2>4, <2>5, <2>6 DEF TypeOK, Types, ReqSteps, WorkSteps
<1> QED BY <1>1, Inductive, PTL

\* Two threads never make the same call at once, nor is one queued beside it: a key is in
\* _inflight from the request that was accepted until its call has returned.
THEOREM EnricherOneCallPerKey == Spec => []OneCallPerKey
<1>1. EnricherInv => OneCallPerKey
  BY DEF EnricherInv, Exclusive, Calling, OneCallPerKey
<1> QED BY <1>1, Inductive, PTL

\* wait_idle() is honest: _pending is never below the calls accepted and not finished, and
\* until close() it is exactly their number.
THEOREM EnricherPendingCounts == Spec => []PendingCounts
<1>1. EnricherInv => PendingCounts
  BY DEF EnricherInv, Counted, UnderWay, Submitters, Busy, Submitting, PendingCounts, Accepted
<1> QED BY <1>1, Inductive, PTL

\* No minute, wherever it begins, sees more calls accepted than calls_per_minute:
\* _take_budget() forgets a call only when a minute has passed since.
THEOREM EnricherBudgetKept == Spec => []BudgetKept
<1>1. ASSUME EnricherInv, Budget > 0, NEW i \in DOMAIN started
      PROVE  Cardinality({j \in DOMAIN started : started[j] \in started[i] .. started[i] + Minute - 1}) <= Budget
  <2> DEFINE J == {j \in DOMAIN started : started[j] \in started[i] .. started[i] + Minute - 1}
  <2>1. /\ started \in Seq(Nat) /\ Len(started) \in Nat /\ DOMAIN started = 1 .. Len(started)
        /\ \A j \in 1 .. Len(started) : started[j] \in Nat
    BY <1>1 DEF EnricherInv, Types
  <2>2. Minute \in Nat /\ Minute > 0 /\ Budget \in Nat
    BY EnricherAssumption
  <2>3. /\ \A x, y \in 1 .. Len(started) : x <= y => started[x] <= started[y]
        /\ \A x \in 1 .. Len(started) : x + Budget <= Len(started) => started[x] + Minute <= started[x + Budget]
    BY <1>1, <2>1 DEF EnricherInv, BudgetInv, Ordered, Spaced
  <2>4. J \in SUBSET Nat /\ i \in J
    BY <1>1, <2>1, <2>2
  <2>5. PICK m \in J : \A j \in J : m <= j
    <3> HIDE DEF J
    <3> QED BY <2>4, Least
  <2>6. J \subseteq m .. m + Budget - 1
    <3>1. ASSUME NEW j \in J, j >= m + Budget PROVE FALSE
      <4>1. /\ m \in 1 .. Len(started) /\ j \in 1 .. Len(started) /\ m + Budget \in 1 .. Len(started)
            /\ m + Budget <= Len(started)
        BY <2>1, <2>2, <3>1
      <4>2. started[m] + Minute <= started[m + Budget] /\ started[m + Budget] <= started[j]
        BY <2>3, <3>1, <4>1
      <4>3. started[i] <= started[m] /\ started[j] <= started[i] + Minute - 1
        BY <1>1, <2>1, <2>2, <4>1
      <4>4. started[i] \in Nat /\ started[m] \in Nat /\ started[j] \in Nat /\ started[m + Budget] \in Nat
        BY <1>1, <2>1, <4>1
      <4> QED BY <2>2, <4>2, <4>3, <4>4
    <3>2. ASSUME NEW j \in J PROVE j \in m .. m + Budget - 1
      <4>1. j \in Nat /\ m \in Nat /\ m <= j /\ ~(j >= m + Budget)
        BY <2>4, <2>5, <3>1
      <4> QED BY <2>2, <4>1
    <3> QED BY <3>2
  <2>7. IsFiniteSet(m .. m + Budget - 1) /\ Cardinality(m .. m + Budget - 1) = Budget
    <3>1. m \in Int /\ m + Budget - 1 \in Int /\ m <= m + Budget - 1
      BY <1>1, <2>2, <2>4
    <3>2. (m + Budget - 1) - m + 1 = Budget
      BY <2>2, <3>1
    <3>3. /\ IsFiniteSet(m .. m + Budget - 1)
          /\ Cardinality(m .. m + Budget - 1)
               = IF m > m + Budget - 1 THEN 0 ELSE (m + Budget - 1) - m + 1
      <4> DEFINE b == m + Budget - 1
      <4>1. m \in Int /\ b \in Int
        BY <3>1
      <4> HIDE DEF b
      <4>2. IsFiniteSet(m .. b) /\ Cardinality(m .. b) = IF m > b THEN 0 ELSE b - m + 1
        BY <4>1, FS_Interval
      <4> QED BY <4>2 DEF b
    <3>4. ~(m > m + Budget - 1)
      BY <3>1
    <3> QED BY <3>2, <3>3, <3>4
  <2> HIDE DEF J
  <2>8. Cardinality(J) <= Cardinality(m .. m + Budget - 1)
    BY <2>6, <2>7, FS_Subset
  <2>9. Cardinality(J) <= Budget
    BY <2>7, <2>8
  <2> QED BY <2>9 DEF J
<1>2. EnricherInv => BudgetKept
  BY <1>1 DEF BudgetKept
<1> QED BY <1>2, Inductive, PTL
=============================================================================
