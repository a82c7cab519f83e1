SPECIFICATION Spec
CONSTANTS
    Clicks = 2
    Playlists <- MCPlaylists
    MaxPics = 1
    MaxRaces = 1
    UB = {"survive", "crash"}
INVARIANTS OpensAlone MutexesKept SoundKept OnlyRacesKill
CHECK_DEADLOCK FALSE
