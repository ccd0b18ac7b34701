\* Every caller goes through the one store object of its process.
SPECIFICATION Spec
CONSTANTS
  d1 = d1  d2 = d2  c1 = c1  s1 = s1  s2 = s2  a1 = a1  a2 = a2
  Ids = {a1, a2}
  Entities = {e1}
  Actions = {post, get}
  Reads = {get}
  Callers = {d1, c1}
  StoreOf <- MCOneStore
  Ttls = {1}
  MaxTime = 2
INVARIANTS
  SingleUse
PROPERTIES
  ImplementsGrant
