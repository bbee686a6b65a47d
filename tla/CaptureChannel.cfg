CONSTANTS
    RingLen = 4
    FifoDepth = 2
    GoodFrames = 2
    MaxRecover = 2
    MaxTick = 9
    MaxSleep = 2
    MaxLosses = 3
    Blank = Blank
    NoVideo = NoVideo
SPECIFICATION Spec
INVARIANT TypeOK
INVARIANT PublishedIntact
INVARIANT TimecodeKeepsUp
CHECK_DEADLOCK FALSE
