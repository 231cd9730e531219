SPECIFICATION Spec
CONSTANTS
    MEMSIZE = 64
    BANDS = 25
    SEEKING_TABLE_SIZE = 4
    FAST_SEEKING_WINDOW = 2
    Plays <- MCPlays
    Calls <- MCCalls
INVARIANTS PlaysTheStream SeekIsRightOrSilent SynthesisDelays481
CHECK_DEADLOCK FALSE
