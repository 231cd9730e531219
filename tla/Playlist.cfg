SPECIFICATION FairSpec
CONSTANTS
  Tracks = {a, b, c, d}
  NoFile = NoFile
INVARIANT CrashNeedsRemoval
PROPERTY RemovalsAreOvercome
CHECK_DEADLOCK FALSE
