CONSTANTS
    NumFrames = 2
    Streams = {video, audio}
    NULL = NULL
    NoFrame = NoFrame
    MaxFrames = 4
    MaxResets = 1
SPECIFICATION FairSpec
INVARIANT TypeOK
INVARIANT FrameOwnership
INVARIANT WriterSlotExclusive
PROPERTY WriterBufferStable
PROPERTY ImplementsFrameQueue
PROPERTY CallReturnsUnlessWakeupMissed
CHECK_DEADLOCK FALSE
