\* Two store objects on one ledger file: callers d1 and c1 share one, d2 has its own.
SPECIFICATION Spec
CONSTANTS
  d1 = d1  d2 = d2  c1 = c1  s1 = s1  s2 = s2  a1 = a1  a2 = a2
  Ids = {a1}
  Entities = {e1}
  Actions = {post, get}
  Reads = {get}
  Callers = {d1, d2, c1}
  StoreOf <- MCTwoStores
  Ttls = {1}
  MaxTime = 2
INVARIANTS
  TypeOK
  UsesCoveredByGrants
  VerdictStands
