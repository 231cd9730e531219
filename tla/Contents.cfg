SPECIFICATION ContentsSpec
CONSTANTS
  Rows = 3
  Main = main
  PrevThreads = {p}
  NextThreads = {n1, n2}
  NoFile = NoFile
  MaxDrift = 1
  Libraries <- SmallLibraries
  Before <- SongsTo
  Total <- SongsOf
SYMMETRY Symmetry
INVARIANT FileMatchesPosition
INVARIANT CrashNeedsOverlapOrStop
INVARIANT PositionRecovers
PROPERTY ImplementsRing
PROPERTY SubsonicImplementsRing
CHECK_DEADLOCK FALSE
