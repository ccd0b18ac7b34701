\* One ask, two deciders on either surface, a sync; mirrors may fail; the operator keeps looking.
SPECIFICATION FairSpec
CONSTANTS
  a1 = a1  a2 = a2
  Asks = {a1}
  Callers = {t1, t2}
  Syncers = {s1}
  MaxPending = 1
  Ttl = 2
  MaxTime = 4
  MirrorMayFail = TRUE
  ImportMayFail = FALSE
INVARIANTS
  TypeOK
  NeverAhead
  PendingIsVisible
PROPERTY
  EveryAskCloses
