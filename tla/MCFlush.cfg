SPECIFICATION Spec
CONSTANTS
    Files <- UpTo4
    Frames <- MCFrames
    Delays <- MCDelays
    UB = {"survive", "crash"}
INVARIANT FlushedFramesSaved
CHECK_DEADLOCK FALSE
