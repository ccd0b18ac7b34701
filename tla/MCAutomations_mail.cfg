\* A mail automation that logs.
SPECIFICATION Spec
CONSTANTS
  Autos = {mail}
  Cron = {}
  Writes = {}
  Callers = {c1}
  Poller = poller
  Runs = {}
  Messages = {m1, m2, m3}
  FirstNumber = 2
  FetchMax = 2
  MaxSeen = 3
  MaxFirings = 4
  MaxGrants = 1
  MaxStrikes = 2
  MaxCrashes = 1
SYMMETRY MCSymmetry
CHECK_DEADLOCK FALSE
INVARIANTS
  TypeOK
  RefiresAreExplained
