\* Mutators that die between two writes, and appends that leave half a line.
SPECIFICATION Spec
CONSTANTS
  Runs = {r1}
  Checkpoints = {k1}
  Linked = {k1}
  Procs = {p1, p2}
  Keys = {x, y}
  Secretive = {y}
  StepStatuses = {"completed"}
  MaxAppends = 4
  MayCrash = TRUE
  TornAppends = TRUE
SYMMETRY MCProcs
CHECK_DEADLOCK FALSE
INVARIANTS
  ChainVerifies
  KeysUnique
  PendingBlocksResume
  LedgerAgrees
