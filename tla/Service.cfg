SPECIFICATION ServiceSpec
CONSTANTS
  Players = {p1, p2}
  NoPlayer = NoPlayer
  Tracks = {t1, t2}
  Playable = {t1, t2}
  NoTrack = NoTrack
  MaxMessages = 1
  Main = main
  Task = task
  Workers = {w}
  Kinds = {"library", "playlist", "filesystem", "subsonic"}
  MaxBusy = 1
SYMMETRY Symmetry
INVARIANT CalmStopIsFinal
INVARIANT NowPlayingMatchesContent
CHECK_DEADLOCK FALSE
