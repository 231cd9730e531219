SPECIFICATION Spec
CONSTANTS
    Codecs = {"flac"}
    Modes = {"CALLBACK"}
    FileLen = 6
    ConfSize = 3
    RingSize = 4
    TrackSize = 3
    Starts = {1}
    Frames = {2}
    Requests = {2}
    MaxPlays = 1
    MaxPauses = 1
PROPERTIES StopReturns
CHECK_DEADLOCK FALSE
