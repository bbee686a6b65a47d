CONSTANTS
    RingLen = 4
    FifoDepth = 1
    GoodFrames = 1
    MaxRecover = 2
    MaxTick = 6
    MaxSleep = 1
    MaxLosses = 0
    Blank = Blank
    NoVideo = NoVideo
    Threads = {t1, t2}
    SearchGuard = 2
    MaxAhead = 1
    MaxPostRoll = 0
SPECIFICATION RecSpec
SYMMETRY ThreadSymmetry
PROPERTY OverwriteNoted
CHECK_DEADLOCK FALSE
