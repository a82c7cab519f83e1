SPECIFICATION FairSpec
CONSTANTS
    VideoFiles <- Video
    AudioFiles <- Audio
    NoPts = NoPts
    Us = 2
    IntSpan = 16
INVARIANTS TypeOK CopiedInOrder Interleaved OnlyTailLost RawStampsRise
PROPERTY Ends
CHECK_DEADLOCK FALSE
