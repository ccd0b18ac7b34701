\* A cron automation that writes; two consoles execute what it parked.
SPECIFICATION Spec
CONSTANTS
  Autos = {cron}
  Cron = {cron}
  Writes = {cron}
  Callers = {c1, c2}
  Poller = poller
  Runs = {r1, r2}
  Messages = {}
  FirstNumber = 1
  FetchMax = 3
  MaxSeen = 1
  MaxFirings = 1
  MaxGrants = 2
  MaxStrikes = 1
  MaxCrashes = 1
SYMMETRY MCSymmetry
CHECK_DEADLOCK FALSE
INVARIANTS
  CallsAreApproved
  CronFiresOnce
