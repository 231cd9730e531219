--------------------------- MODULE PlaylistContent ---------------------------
(***************************************************************************)
(* ContentPlaybackService/ContentPlaybackPlaylist.java.  The object plays  *)
(* the ArrayList of the PlaylistEditor that ContentPlaylistFragment goes   *)
(* on editing: the position was computed for the list as it was, and the   *)
(* main thread can remove a track between any two commands, and between    *)
(* the two halves of a command that a background thread carries out.       *)
(* Commands do not overlap each other here; LibraryContent studies that.   *)
(***************************************************************************)
EXTENDS Integers, Sequences, SequencesExt

CONSTANTS Tracks,    (* the files the playlist can hold                    *)
          NoFile     (* the empty string, in nowPlayingFile                *)

ASSUME NoFileAssumption == NoFile \notin Tracks
ASSUME TracksAssumption == IsFiniteSet(Tracks)

VARIABLES
  playlistData,    (* playlist.playlistData, without the tags              *)
  nowPlayingPos,   (* nowPlayingPos                                        *)
  nowPlayingFile,  (* nowPlayingFile                                       *)
  pc,              (* "idle", or "get" between the two halves of a command *)
  cmd,             (* history: the command in progress or last carried out *)
  edited,          (* history: a track was removed since the last get()    *)
  raced,           (* history: one was removed in the middle of a command  *)
  crashed          (* an exception nothing catches ended the process       *)

vars == <<playlistData, nowPlayingPos, nowPlayingFile, pc, cmd, edited, raced,
          crashed>>

maxIndex == Len(playlistData) - 1

(* ContentPlaybackPlaylist(): the track the user chose of a playlist.      *)
Init ==
    /\ playlistData \in SetToSeqs(Tracks)
    /\ nowPlayingPos \in 0 .. maxIndex
    /\ nowPlayingFile = playlistData[nowPlayingPos + 1]
    /\ pc = "idle" /\ cmd = "none"
    /\ edited = FALSE /\ raced = FALSE /\ crashed = FALSE

-----------------------------------------------------------------------------
(* The first half of a command moves the position.                         *)
MoveTo(c, p) ==
    /\ pc = "idle"
    /\ pc' = "get"
    /\ cmd' = c
    /\ nowPlayingPos' = p
    /\ UNCHANGED <<playlistData, nowPlayingFile, edited, raced, crashed>>

(* Mutants: the test comes too late; the list goes on at its second track.  *)
FollowingTooLate == IF nowPlayingPos > maxIndex THEN 0 ELSE nowPlayingPos + 1
FollowingToSecond == IF nowPlayingPos >= maxIndex THEN 1 ELSE nowPlayingPos + 1

Following == IF nowPlayingPos >= maxIndex THEN 0 ELSE nowPlayingPos + 1

NextTrack == MoveTo("next", Following)

(* The source moves the position as NextTrack() does.                      *)
PrevTrack == MoveTo("prev", Following)

(* Random.nextInt(0) throws.                                               *)
RandomTrack ==
    \/ \E p \in 0 .. maxIndex : MoveTo("random", p)
    \/ /\ pc = "idle" /\ playlistData = <<>>
       /\ crashed' = TRUE
       /\ UNCHANGED <<playlistData, nowPlayingPos, nowPlayingFile, pc, cmd,
                      edited, raced>>

(* The second half: playlist.playlistData.get(nowPlayingPos).filename.     *)
Get ==
    /\ pc = "get"
    /\ pc' = "idle"
    /\ edited' = FALSE
    /\ crashed' = (nowPlayingPos > maxIndex)
    /\ nowPlayingFile' = IF nowPlayingPos > maxIndex
                         THEN nowPlayingFile
                         ELSE playlistData[nowPlayingPos + 1]
    /\ UNCHANGED <<playlistData, nowPlayingPos, cmd, raced>>

(* CleanUp(), from the service's StopPlayback().                           *)
CleanUp ==
    /\ pc = "idle"
    /\ nowPlayingFile' = NoFile
    /\ UNCHANGED <<playlistData, nowPlayingPos, pc, cmd, edited, raced, crashed>>

(* The fragment's "Remove Track From Playlist", after its dialog, on the   *)
(* main thread, which also runs RandomTrack() from end to end.             *)
RemoveTrack(i) ==
    /\ ~(pc = "get" /\ cmd = "random")
    /\ playlistData' = RemoveAt(playlistData, i)
    /\ edited' = TRUE
    /\ raced' = (raced \/ pc = "get")
    /\ UNCHANGED <<nowPlayingPos, nowPlayingFile, pc, cmd, crashed>>

Edit == \E i \in 1 .. Len(playlistData) : RemoveTrack(i)

Next == /\ ~crashed
        /\ NextTrack \/ PrevTrack \/ RandomTrack \/ Get \/ CleanUp \/ Edit

Spec == Init /\ [][Next]_vars

(* A song that is playing ends, and its completion asks for the next one;  *)
(* a command that began goes on to its end.                                *)
SongEnds == nowPlayingFile # NoFile /\ NextTrack
PlayOn   == ~crashed /\ (SongEnds \/ Get)

FairSpec == Spec /\ WF_vars(PlayOn)

-----------------------------------------------------------------------------
Listed(f) == \E i \in 1 .. Len(playlistData) : playlistData[i] = f

(* The tracks next to f in the list, which is a ring; a playlist holds a   *)
(* track once (four tracks are the fewest that leave a ring of three after *)
(* a removal, where the next track is not also the previous one).          *)
Place(f)       == CHOOSE i \in 1 .. Len(playlistData) : playlistData[i] = f
Successor(f)   == playlistData[IF Place(f) = Len(playlistData)
                               THEN 1 ELSE Place(f) + 1]

Arrives(c, f) == Get /\ cmd = c /\ Listed(nowPlayingFile) /\ ~crashed'
                   => nowPlayingFile' = f

(* NextTrack() plays the track that follows in the list; a removal can     *)
(* mislead the one command that comes next, and no other.                  *)
EditMisleadsOneCommand ==
    [][~edited => Arrives("next", Successor(nowPlayingFile))]_vars

(* The process only dies when the list is empty, or when a track is        *)
(* removed between a command's test of the position and its use.           *)
CrashNeedsRemoval == crashed => playlistData = <<>> \/ raced

(* Once the user only removes tracks, the list plays round: no order of    *)
(* removals makes the playback skip a track that stays for ever.           *)
EveryTrackComesUp ==
    <>[][PlayOn \/ Edit]_vars =>
        \A f \in Tracks : []<>(\/ nowPlayingFile = f \/ ~Listed(f)
                               \/ nowPlayingFile = NoFile \/ crashed)

(* Removals in the fragment do no lasting harm to the list that plays      *)
(* (ContentPlaybackPlaylist line 25), in either sense.                     *)
RemovalsAreOvercome == EditMisleadsOneCommand /\ EveryTrackComesUp
=============================================================================
