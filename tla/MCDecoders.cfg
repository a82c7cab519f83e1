SPECIFICATION Spec
CONSTANTS
    Files <- UpTo4
    Frames <- MCFrames
    Delays <- MCDelays
    UB = {"survive", "crash"}
INVARIANTS WrittenInOrder AsManyAsDecoded
CHECK_DEADLOCK FALSE
