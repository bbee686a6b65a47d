SPECIFICATION Spec
CONSTANTS
  MaxRecordings = 2
  NumThreads = 2
  Notable = {"dropped", "failure"}
INVARIANTS
  TypeOK
  AliveWhileUsed
  ReportIsFinal
  CurrentIsStoppable
  ControlEndsUnlessLost
PROPERTIES
  FilesAreCopied
CHECK_DEADLOCK FALSE
