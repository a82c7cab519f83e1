SPECIFICATION FairSpec
CONSTANTS
    Medias  <- Short
    MaxLost = 0
    UB      = {"survive"}
PROPERTIES SoundPlayed DuePictureShown
CHECK_DEADLOCK FALSE
