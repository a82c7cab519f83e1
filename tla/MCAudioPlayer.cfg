SPECIFICATION FairSpec
CONSTANTS
    Tracks <- AllTracks
    Clicks = 2
    MaxLost = 1
    UB = {"survive", "crash"}
INVARIANTS OneBufferEach SoundInOrder OwnContexts
PROPERTY TrackEnds
CHECK_DEADLOCK FALSE
