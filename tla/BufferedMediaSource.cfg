CONSTANTS
    Size = 2
    NumStreams = 2
    SourceLength = 3
    SeekPositions = {0, 2, 4}
    Faults = {"read", "late", "seek", "wait", "spurious"}
    MaxFaults = 2
    Nothing = Nothing
SPECIFICATION FairSpec
INVARIANT TypeOK
INVARIANT TargetInStep
INVARIANT RingHoldsFrames
INVARIANT EofExact
INVARIANT DeliveredRight
INVARIANT FailsOnlyOnFault
PROPERTY CallReturnsUnlessWakeupMissed
CHECK_DEADLOCK FALSE
