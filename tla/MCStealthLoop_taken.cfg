\* One intervention of either origin, two operators, takeovers, commands and a restart.
SPECIFICATION Spec
CONSTANTS
  Items = {i}
  Operators = {o1, o2}
  Workers = 1
  MaxAttempts = 2
  MaxTakeovers = 2
  MaxCommands = 1
  MaxCrashes = 1
SYMMETRY MCSymmetry
CHECK_DEADLOCK FALSE
INVARIANTS
  TypeOK
  OutcomesExplained
  DeliveredIsClosed
  RestoredAsFound
