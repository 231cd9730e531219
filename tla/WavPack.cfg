SPECIFICATION Spec
CONSTANTS
    WordBits = 24
    CrcBits = 24
    SkipLimit = 1048576
    IntBits = 12
    Cases <- MCCases
    Requests <- MCRequests
    Starts <- MCStarts
INVARIANTS PlaysTheRecording WrongIsNoticed LossStaysInPlace SeekStaysInTheFile
