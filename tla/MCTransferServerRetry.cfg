SPECIFICATION Spec
CONSTANTS
  Sources = {1, 2}
  Priority <- MCPriority
  ExtraDest = TRUE
  ExtrasFirst = FALSE
  Files = {1, 2}
  MaxTime = 3
  MaxFaults = 1
  MaxCalls = 1
PROPERTIES
  RetriedUntilCopied
CHECK_DEADLOCK FALSE
