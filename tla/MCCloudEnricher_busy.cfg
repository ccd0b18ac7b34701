\* Three requests for two keys, two threads, a budget of two calls in two ticks, one close.
SPECIFICATION FairSpec
CONSTANTS
  Requests = {q1, q2, q3}
  Keys = {k1, k2}
  Workers = {w1, w2}
  MaxPending = 2
  Budget = 2
  Minute = 2
  Ttl = 1
  CacheSize = 1
  MaxTime = 2
CHECK_DEADLOCK FALSE
INVARIANTS
  TypeOK
  PendingCounts
  OneCallPerKey
  BudgetKept
PROPERTY
  WaitersReleased
