\* Three players let the handler abandon two while it holds a third; two playable
\* tracks tell a stale title from a current one, and the last cannot be opened.
SPECIFICATION FairSpec
CONSTANTS
  Players = {p1, p2, p3}
  NoPlayer = NoPlayer
  Tracks = {t1, t2, t3}
  Playable = {t1, t2}
  NoTrack = NoTrack
  MaxMessages = 3
INVARIANT AudibleIsStoppable
INVARIANT TitleMatchesPlayer
INVARIANT StopIsFinal
INVARIANT HurryIsToBlame
PROPERTY StartRequestAnswered
