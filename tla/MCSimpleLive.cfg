SPECIFICATION FairSpec
CONSTANTS
    Clips   <- One
    Clicks  = 1
    Delay   = 1
    MaxLost = 1
    UB      = {"survive", "crash"}
PROPERTY RequestDraws
CHECK_DEADLOCK FALSE
