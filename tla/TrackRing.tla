------------------------------ MODULE TrackRing ------------------------------
(***************************************************************************)
(* What the service asks of its content (interface ContentPlaybackType):   *)
(* the tracks form a ring, NextTrack() and PrevTrack() move one step along *)
(* it and RandomTrack() moves anywhere.  A content may give the promise up *)
(* for good: LibraryContent does so when two commands overlap in it, and   *)
(* SubsonicContent never does.  PlaylistContent keeps it only as long as   *)
(* nobody asks for the previous track or edits the list.                   *)
(***************************************************************************)
EXTENDS Integers

VARIABLES size,    (* the number of tracks, which never changes            *)
          at,      (* the place of the current track in the order, from 0  *)
          cmd      (* the last command carried out                         *)

vars == <<size, at, cmd>>

Nowhere == -1

Step(c, p) == at # Nowhere /\ at' = p /\ cmd' = c /\ UNCHANGED size

NextTrack   == Step("next", (at + 1) % size)
PrevTrack   == Step("prev", (at + size - 1) % size)
RandomTrack == \E p \in 0 .. size - 1 : Step("random", p)
GiveUp      == Step("none", Nowhere)

Next == NextTrack \/ PrevTrack \/ RandomTrack \/ GiveUp

Init == size \in Nat /\ at \in 0 .. size - 1 /\ cmd = "none"
Spec == Init /\ [][Next]_vars
=============================================================================
