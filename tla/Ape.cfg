SPECIFICATION Spec
CONSTANTS
    CodeBits = 31
    H = 256
    FilterHistory = 3
    PredictorHistory = 5
    Orders <- MCOrders
    INPUT_CHUNKSIZE = 48
    BLOCKS_PER_LOOP = 2
    Descriptor = 20
    Header = 8
    OldHeader = 16
    OldBlocks = 4
    Plays <- MCPlays
    Stales <- MCStales
INVARIANTS ApeIsRestored SeekStaysInTheLoop VectorsAgree
CHECK_DEADLOCK FALSE
