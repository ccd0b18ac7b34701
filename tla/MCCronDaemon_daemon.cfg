\* A console with an object of its own, one on the daemon's, and the daemon, over one
\* schedule, with two restarts.
SPECIFICATION FairSpec
CONSTANTS
  Jobs = {j1}
  Console = {c1, c2}
  Hosted = {c2}
  Loops = {1}
  Hooks = {h1}
  MaxDue = 2
  MaxRestarts = 2
CHECK_DEADLOCK FALSE
INVARIANTS
  TypeOK
  FileIsTheWriters
  DueOnce
  StoppedIsQuiet
PROPERTIES
  DueRuns
