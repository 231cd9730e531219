SPECIFICATION Spec
CONSTANTS
    WordBits = 21
    Depth = 25
    Files <- SmallFiles
    CueFiles <- SmallCueFiles
    RawBytes = 2
    Slack = 1
    GuessedBlock = 9
    FakeBytes = 1
    MaxTries = 3
    Second = 3
INVARIANTS PlaysWhatWasEncoded SeekFinds CueGivesTheTracks
PROPERTIES SeekEnds
CHECK_DEADLOCK FALSE
