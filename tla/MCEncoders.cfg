SPECIFICATION FairSpec
CONSTANTS
    Files <- UpTo4
    Delays <- MCDelays
    MaxCopies = 2
    UB = {"survive", "crash"}
INVARIANTS EachFrameOnce StampsRise
PROPERTY AllFramesOut
CHECK_DEADLOCK FALSE
