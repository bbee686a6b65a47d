SPECIFICATION FairSpec
CONSTANTS
    NumFrames = 2
    Streams = {video, audio}
    NULL = NULL
    NoFrame = NoFrame
    MaxFrames = 4
    MaxResets = 1
PROPERTY WaitingPlayerIsServed
CHECK_DEADLOCK FALSE
