SPECIFICATION Spec
CONSTANTS
    MaxSessions = 2
    MaxFaults = 2
INVARIANTS
    TypeOK
    EndIsQuiet
    RecordingWatched
PROPERTIES
    AbortEnds
CHECK_DEADLOCK FALSE
