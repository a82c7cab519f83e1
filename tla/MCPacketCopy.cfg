CONSTANTS
    Files <- MCFiles
    Formats <- MCFormats
    Flv <- FlvFormat
    RawBase = 1
    MaxDelta = 4
    NoPts = NoPts
SPECIFICATION Spec
INVARIANTS CopiedOnce InOrder BufferBounded OwnHeader OnlyKnownCrashes
CHECK_DEADLOCK FALSE
