SPECIFICATION Spec
CONSTANTS
  Names = {n1, n2}
  LateEvents = FALSE
  MaxSessions = 2
  MaxFaults = 3
INVARIANTS
  TypeOK
  RemovedOnlyWhenOnTape
  InStep
  NoLeftovers
CHECK_DEADLOCK FALSE
