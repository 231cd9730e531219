SPECIFICATION Spec
CONSTANTS
    Depth = 29
    Beyond = 9
    SizeBits = 12
    Files <- MCFiles
    Starts <- MCStarts
    Stale <- MCStale
INVARIANTS BlocksAreRestored PlaysTheTrack
PROPERTIES ReadingEnds
CHECK_DEADLOCK FALSE
