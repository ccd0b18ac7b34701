\* Refreshes, logins, imports, revocations and restarts on one connection.
SPECIFICATION Spec
CONSTANTS
  e1 = e1  e2 = e2  c1 = c1  c2 = c2  c3 = c3
  Engines = {e1, e2}
  Callers = {c1, c2, c3}
  EngineOf <- MCEngineOf
  Browser = {b}
  Device = {d}
  MaxTokens = 3
  MaxCrashes = 1
SYMMETRY MCSharers
CHECK_DEADLOCK FALSE
INVARIANTS
  TypeOK
  RefusalsExplained
  LastWordStands
  CodePresentedOnce
