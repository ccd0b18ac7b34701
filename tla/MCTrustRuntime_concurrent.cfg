\* Mutators of two processes, none of which stops half way.
SPECIFICATION Spec
CONSTANTS
  Runs = {r1}
  Checkpoints = {k1, k2}
  Linked = {}
  Procs = {p1, p2}
  Keys = {}
  Secretive = {}
  StepStatuses = {"completed"}
  MaxAppends = 7
  MayCrash = FALSE
  TornAppends = FALSE
SYMMETRY MCProcs
CHECK_DEADLOCK FALSE
INVARIANTS
  TypeOK
  IndexAccurate
  DeniedStaysDown
  ResumesOnce
PROPERTIES
  ResolvedIsFinal
