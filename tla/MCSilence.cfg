SPECIFICATION Spec
CONSTANTS
    Medias  <- Short
    MaxLost = 0
    UB      = {"survive"}
INVARIANT SilenceIsSilent
CHECK_DEADLOCK FALSE
