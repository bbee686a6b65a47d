SPECIFICATION Spec
CONSTANTS
  Sources = {1, 2}
  Priority <- MCPriority
  ExtraDest = TRUE
  ExtrasFirst = FALSE
  Files = {1, 2}
  MaxTime = 3
  MaxFaults = 2
  MaxCalls = 1
INVARIANTS
  TypeOK
  DeletedWasCopied
  ClearedWasCopied
  StaleIsPending
PROPERTIES
  OldestFirst
  AskedIsCopied
CHECK_DEADLOCK FALSE
