SPECIFICATION Spec
CONSTANTS
    Codecs = {"wav", "flac", "alac", "ape", "wv", "mpc"}
    Modes = {"DIRECT", "LIBMEDIA", "CALLBACK"}
    FileLen = 5
    ConfSize = 2
    RingSize = 3
    TrackSize = 2
    Starts = {3}
    Frames = {3}
    Requests = {2}
    MaxPlays = 2
    MaxPauses = 1
INVARIANTS EndReachesTheTrack MutexComesBack PositionFollowsTheSound
PROPERTIES ImplementsPipe SilentAfterStop CompletionMeansEnd StopReturnsOrStuck
CHECK_DEADLOCK FALSE
