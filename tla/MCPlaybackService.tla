-------------------------- MODULE MCPlaybackService --------------------------
(***************************************************************************)
(* Instances of PlaybackService for TLC.                                   *)
(***************************************************************************)
EXTENDS PlaybackService, TLC

Symmetry == Permutations(Players) \cup Permutations(Tracks)
=============================================================================
