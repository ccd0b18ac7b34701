---------------------------- MODULE CloudEnricher ----------------------------
(***************************************************************************)
(* The enricher of the stealth loop (stealth/cloud_worker.py): best-effort *)
(* cloud calls on a small thread pool, with a result cache, one call per   *)
(* key in flight, a budget of calls per minute and a bound on the calls    *)
(* accepted and not yet finished.  One lock covers each step of the        *)
(* bookkeeping; calls and callbacks run outside it.                        *)
(***************************************************************************)
EXTENDS Integers, Sequences, FiniteSets

CONSTANTS
  Requests,    \* calls of request(), each with its callback
  Keys,        \* what they ask for
  Workers,     \* the pool's threads
  MaxPending,  \* max_pending
  Budget,      \* calls_per_minute; 0 disables it
  Minute,      \* the budget's window (60 s), in ticks
  Ttl,         \* cache_ttl_s, in ticks; 0 disables the cache
  CacheSize,   \* cache_size
  MaxTime      \* bound on the clock

ASSUME EnricherAssumption ==
  /\ {MaxPending, Minute, CacheSize} \subseteq Nat \ {0}
  /\ {Budget, Ttl, MaxTime} \subseteq Nat
  /\ IsFiniteSet(Requests) /\ IsFiniteSet(Workers)

VARIABLES
  mode,      \* "sync" or "async"
  closed,    \* _closed
  pool,      \* the executor: "none", "up" or "down"
  cache,     \* _cache: [key, at], the least recently used first
  inflight,  \* _inflight: the callbacks waiting for a key's call
  calls,     \* _calls: when the budget was taken
  pending,   \* _pending
  queue,     \* the pool's queue, by key
  worker,    \* what each thread is in the middle of
  req,       \* what became of each request
  now,
  started    \* history: when calls were made or accepted

book == <<cache, inflight, calls, pending>>
vars == <<mode, closed, pool, book, queue, worker, req, now, started>>

Idle    == [pc |-> "idle"]
Skipped == [pc |-> "skipped"]
NoCall  == {}                                 \* no entry in _inflight
Cached  == {cache[i].key : i \in DOMAIN cache}

TypeOK ==
  /\ mode \in {"sync", "async"} /\ closed \in BOOLEAN /\ pool \in {"none", "up", "down"}
  /\ \A i \in DOMAIN cache : cache[i].key \in Keys /\ cache[i].at \in 0 .. now
  /\ Cardinality(Cached) = Len(cache) /\ Len(cache) <= CacheSize
  /\ inflight \in [Keys -> SUBSET Requests]
  /\ \A i \in DOMAIN calls : calls[i] \in 0 .. now
  /\ pending \in 0 .. MaxPending
  /\ \A i \in DOMAIN queue : queue[i] \in Keys
  /\ worker \in [Workers -> {Idle} \cup [pc : {"calling"}, key : Keys]
                                   \cup [pc : {"telling"}, waiters : SUBSET Requests]]
  /\ req \in [Requests -> [pc : {"new", "answered", "failed", "dropped", "skipped", "raised"}]
                          \cup [pc : {"submitting", "waiting", "calling"}, key : Keys]]

Init ==
  /\ mode \in {"sync", "async"} /\ closed = FALSE /\ pool = "none"
  /\ cache = <<>> /\ inflight = [k \in Keys |-> NoCall] /\ calls = <<>> /\ pending = 0
  /\ queue = <<>> /\ worker = [w \in Workers |-> Idle]
  /\ req = [q \in Requests |-> [pc |-> "new"]]
  /\ now = 0 /\ started = <<>>

-----------------------------------------------------------------------------
(* The bookkeeping under the lock.                                          *)

Place(k)    == CHOOSE i \in DOMAIN cache : cache[i].key = k
Entry(k)    == cache[Place(k)]
Without(k)  == IF k \notin Cached THEN cache
               ELSE SubSeq(cache, 1, Place(k) - 1) \o SubSeq(cache, Place(k) + 1, Len(cache))
Held(k)     == Ttl > 0 /\ k \in Cached
Expired(k)  == now - Entry(k).at > Ttl

\* _cache_get(): a hit becomes the most recently used, a stale entry goes.
Looked(k) == IF ~Held(k) THEN cache
             ELSE IF Expired(k) THEN Without(k) ELSE Append(Without(k), Entry(k))
Hit(k)    == Held(k) /\ ~Expired(k)

Newest(s, n) == IF Len(s) <= n THEN s ELSE SubSeq(s, Len(s) - n + 1, Len(s))
Unbounded(k) == Append(Without(k), [key |-> k, at |-> now])   \* mutant: nothing is evicted

\* _cache_put() of a result that is not None.
Put(k) == IF Ttl = 0 THEN cache
          ELSE Newest(Append(Without(k), [key |-> k, at |-> now]), CacheSize)

\* _take_budget(): from the oldest on, what lies a minute back is forgotten first.
Forgotten(minute) == CHOOSE n \in 0 .. Len(calls) :
                       /\ \A i \in 1 .. n : now - calls[i] >= minute
                       /\ n < Len(calls) => now - calls[n + 1] < minute
HalfMinute  == SubSeq(calls, Forgotten(Minute - 1) + 1, Len(calls))   \* mutant: forgets early
Recent      == SubSeq(calls, Forgotten(Minute) + 1, Len(calls))
Affordable  == Budget = 0 \/ Len(Recent) < Budget
Taken       == IF Budget = 0 THEN calls ELSE Append(Recent, now)

Becomes(q, state) == req' = [req EXCEPT ![q] = state]

-----------------------------------------------------------------------------
(* request().                                                               *)

\* Refused because closed, or answered from the cache before it returns.
AnswerNow(q, k) ==
  /\ req[q].pc = "new"
  /\ \/ closed /\ Becomes(q, Skipped) /\ UNCHANGED cache
     \/ ~closed /\ Hit(k) /\ Becomes(q, [pc |-> "answered"]) /\ cache' = Looked(k)
  /\ UNCHANGED <<mode, closed, pool, inflight, calls, pending, queue, worker, now, started>>

Missed(q, k) == req[q].pc = "new" /\ ~closed /\ ~Hit(k) /\ cache' = Looked(k)

Unshared(k) == FALSE                                  \* mutant: every request makes its call
Shared(k)   == inflight[k] # NoCall

JoinCounted(q, k) ==                                  \* mutant: who joins is counted too
  /\ Missed(q, k) /\ Shared(k) /\ pending' = pending + 1
  /\ inflight' = [inflight EXCEPT ![k] = @ \cup {q}]
  /\ Becomes(q, [pc |-> "waiting", key |-> k])
  /\ UNCHANGED <<mode, closed, pool, calls, queue, worker, now, started>>
Join(q, k) ==
  /\ Missed(q, k) /\ Shared(k)
  /\ inflight' = [inflight EXCEPT ![k] = @ \cup {q}]
  /\ Becomes(q, [pc |-> "waiting", key |-> k])
  /\ UNCHANGED <<mode, closed, pool, calls, pending, queue, worker, now, started>>

Full == mode = "async" /\ pending >= MaxPending

\* No budget left, or too many pending: the budget taken is put back.
Skip(q, k) ==
  /\ Missed(q, k) /\ ~Shared(k)
  /\ \/ ~Affordable /\ calls' = Recent
     \/ Affordable /\ Full /\ calls' = IF Budget = 0 THEN calls ELSE Recent
  /\ Becomes(q, Skipped)
  /\ UNCHANGED <<mode, closed, pool, inflight, pending, queue, worker, now, started>>

Accept(q, k) ==
  /\ Missed(q, k) /\ ~Shared(k) /\ Affordable /\ ~Full
  /\ calls' = Taken /\ started' = Append(started, now)
  /\ IF mode = "sync"
     THEN /\ Becomes(q, [pc |-> "calling", key |-> k])
          /\ UNCHANGED <<pool, inflight, pending>>
     ELSE /\ Becomes(q, [pc |-> "submitting", key |-> k])
          /\ pool' = "up"
          /\ inflight' = [inflight EXCEPT ![k] = {q}]
          /\ pending' = pending + 1
  /\ UNCHANGED <<mode, closed, queue, worker, now>>

\* executor.submit(), without the lock: it raises once the pool is down, and what was
\* counted stays counted.
Submit(q) ==
  /\ req[q].pc = "submitting"
  /\ IF pool = "down"
     THEN Becomes(q, [pc |-> "raised"]) /\ UNCHANGED queue
     ELSE /\ Becomes(q, [req[q] EXCEPT !.pc = "waiting"])
          /\ queue' = Append(queue, req[q].key)
  /\ UNCHANGED <<mode, closed, pool, book, worker, now, started>>

\* In sync mode the caller makes the call itself, and an error is its answer.
CallInline(q, outcome) ==
  /\ req[q].pc = "calling"
  /\ Becomes(q, [pc |-> IF outcome = "error" THEN "failed" ELSE "answered"])
  /\ cache' = IF outcome = "value" THEN Put(req[q].key) ELSE cache
  /\ UNCHANGED <<mode, closed, pool, inflight, calls, pending, queue, worker, now, started>>

-----------------------------------------------------------------------------
(* The pool.                                                                *)

Take(w) ==
  /\ worker[w] = Idle /\ queue # <<>>
  /\ worker' = [worker EXCEPT ![w] = [pc |-> "calling", key |-> Head(queue)]]
  /\ queue' = Tail(queue)
  /\ UNCHANGED <<mode, closed, pool, book, req, now, started>>

OnlyOnSuccess(k, outcome) ==                          \* mutant: an error keeps the key
  IF outcome = "error" THEN inflight ELSE [inflight EXCEPT ![k] = NoCall]
Released(k, outcome) == [inflight EXCEPT ![k] = NoCall]

\* The call ends.  After an exception the callbacks are dropped, and nobody is told.
Return(w, outcome) ==
  LET k == worker[w].key IN
  /\ worker[w].pc = "calling"
  /\ inflight' = Released(k, outcome)
  /\ cache' = IF outcome = "value" THEN Put(k) ELSE cache
  /\ worker' = [worker EXCEPT ![w] = [pc |-> "telling", waiters |->
                                        IF outcome = "error" THEN {} ELSE inflight[k]]]
  /\ req' = IF outcome = "error"
            THEN [q \in Requests |-> IF q \in inflight[k] THEN [pc |-> "dropped"] ELSE req[q]]
            ELSE req
  /\ UNCHANGED <<mode, closed, pool, calls, pending, queue, now, started>>

Tell(w, q) ==
  /\ worker[w].pc = "telling" /\ q \in worker[w].waiters
  /\ worker' = [worker EXCEPT ![w].waiters = @ \ {q}]
  /\ Becomes(q, [pc |-> "answered"])
  /\ UNCHANGED <<mode, closed, pool, book, queue, now, started>>

AllTold(w)       == worker[w].pc = "telling" /\ worker[w].waiters = {}

Settle(w) ==
  /\ AllTold(w)
  /\ worker' = [worker EXCEPT ![w] = Idle]
  /\ pending' = pending - 1
  /\ UNCHANGED <<mode, closed, pool, cache, inflight, calls, queue, req, now, started>>

-----------------------------------------------------------------------------
(* close(): refuse what comes, then shut the pool down.                     *)

Close ==
  /\ ~closed /\ closed' = TRUE
  /\ UNCHANGED <<mode, pool, book, queue, worker, req, now, started>>

\* Without wait, what is still queued is cancelled and never runs.
Shutdown(wait) ==
  /\ closed /\ pool = "up"
  /\ pool' = "down"
  /\ queue' = IF wait THEN queue ELSE <<>>
  /\ UNCHANGED <<mode, closed, book, worker, req, now, started>>

Tick ==
  /\ now < MaxTime /\ now' = now + 1
  /\ UNCHANGED <<mode, closed, pool, book, queue, worker, req, started>>

Outcomes == {"value", "none", "error"}

Next ==
  \/ \E q \in Requests, k \in Keys : AnswerNow(q, k) \/ Join(q, k) \/ Skip(q, k) \/ Accept(q, k)
  \/ \E q \in Requests : Submit(q) \/ \E o \in Outcomes : CallInline(q, o)
  \/ \E w \in Workers : \/ Take(w) \/ Settle(w)
                        \/ \E o \in Outcomes : Return(w, o)
                        \/ \E q \in Requests : Tell(w, q)
  \/ Close \/ \E wait \in BOOLEAN : Shutdown(wait)
  \/ Tick

Spec == Init /\ [][Next]_vars

\* Callers and worker threads are scheduled, and every cloud call ends.
Fairness ==
  /\ \A q \in Requests : WF_vars(Submit(q)) /\ WF_vars(\E o \in Outcomes : CallInline(q, o))
  /\ \A w \in Workers : /\ WF_vars(Take(w)) /\ WF_vars(Settle(w))
                        /\ WF_vars(\E o \in Outcomes : Return(w, o))
                        /\ WF_vars(\E q \in Requests : Tell(w, q))

FairSpec == Spec /\ Fairness

-----------------------------------------------------------------------------
Accepted == Cardinality({q \in Requests : req[q].pc = "submitting"}) + Len(queue)
            + Cardinality({w \in Workers : worker[w] # Idle})

\* wait_idle() is honest: the count is never below the calls accepted and not finished,
\* so when it returns every callback has run; until close() it is exact.
PendingCounts == pending >= Accepted /\ (~closed => pending = Accepted)

\* Two threads never make the same call at once, nor is one queued beside it.
OneCallPerKey ==
  /\ \A v, w \in Workers :
       worker[v].pc = "calling" /\ worker[w].pc = "calling" /\ v # w
         => worker[v].key # worker[w].key
  /\ \A i \in DOMAIN queue : \A w \in Workers :
       worker[w].pc = "calling" => worker[w].key # queue[i]

\* No minute, wherever it begins, sees more calls accepted than the budget allows.
BudgetKept ==
  Budget > 0 => \A i \in DOMAIN started :
    Cardinality({j \in DOMAIN started : started[j] \in started[i] .. started[i] + Minute - 1})
      <= Budget

\* A request that was accepted, or joined one that was, does not wait for ever: its callback
\* runs, or is dropped when the call raised, of which the requester learns nothing, unless
\* the enricher is closed; then close(wait=False) may cancel its call.
WaitersReleased ==
  \A q \in Requests :
    req[q].pc = "waiting" ~> (req[q].pc \in {"answered", "dropped"} \/ closed)
=============================================================================
