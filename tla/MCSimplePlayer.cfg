SPECIFICATION Spec
CONSTANTS
    Clips   <- Mixed
    Clicks  = 2
    Delay   = 1
    MaxLost = 1
    UB      = {"survive", "crash"}
INVARIANTS TypeOK Exclusive PicturesConserved PicturesInOrder FlushComplete
PROPERTY NoOverrun
CHECK_DEADLOCK FALSE
