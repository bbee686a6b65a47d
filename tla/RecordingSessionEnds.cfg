SPECIFICATION Spec
CONSTANTS
    MaxSessions = 2
    MaxFaults = 2
INVARIANTS
    SessionEndsByChoice
CHECK_DEADLOCK FALSE
