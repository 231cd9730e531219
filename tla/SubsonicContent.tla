--------------------------- MODULE SubsonicContent ---------------------------
(***************************************************************************)
(* ContentPlaybackService/ContentPlaybackSubsonic.java: the tracks of a    *)
(* Subsonic server, played in the order artist, album, song.  The object   *)
(* keeps the album, the artist and the list of artists it fetched, finds   *)
(* the current entry in each by its id, and fetches the neighbours' lists  *)
(* when it leaves one.  It does so from end to end here, on Android        *)
(* versions that stream (API 10 and later), with a server that keeps its   *)
(* library and answers every request.                                      *)
(***************************************************************************)
EXTENDS Integers, Sequences

CONSTANTS Libraries, (* the libraries a server may have: sequences of        *)
                     (* artists, an artist being the sequence of its         *)
                     (* albums, an album its number of songs; none is empty *)
          Before(_, _, _), (* of a library, an artist and an album: how many *)
                     (* songs come before them in the order of the library  *)
          Total(_)   (* how many songs a library has                        *)

(* Before counts the songs of every library, album by album.               *)
ASSUME LibrariesAreCounted ==
    \A l \in Libraries :
        /\ l \in Seq(Seq(Nat \ {0}) \ {<<>>}) \ {<<>>}
        /\ Total(l) \in Nat /\ Before(l, 1, 1) = 0
        /\ \A a \in 1 .. Len(l) : \A b \in 1 .. Len(l[a]) :
              LET behind == Before(l, a, b) + l[a][b]
              IN  /\ Before(l, a, b) \in Nat /\ behind <= Total(l)
                  /\ behind = CASE b < Len(l[a]) -> Before(l, a, b + 1)
                               [] b = Len(l[a]) /\ a < Len(l) -> Before(l, a + 1, 1)
                               [] OTHER -> Total(l)

VARIABLES
  library,       (* the server's library                                    *)
  artist,        (* nowPlayingArtist, as its place in artistList            *)
  album,         (* nowPlayingAlbum, as its place among the artist's albums *)
  song,          (* nowPlayingId, as the song's place in the album          *)
  cleared,       (* CleanUp() set nowPlayingId to 0, the id of no song;     *)
                 (* song is then the place it named before                  *)
  fetched,       (* whether the constructor fetched album, artist and list  *)
  died,          (* an exception nothing catches ended the process       *)
  moved          (* history: the last move                                  *)

serverVars == <<library, artist, album, song, cleared, fetched, died, moved>>

Artists     == Len(library)
Albums(a)   == Len(library[a])
Songs(a, b) == library[a][b]

(* ContentPlaybackSubsonic(): any song of the server.  One that is in the  *)
(* cache is played from its file; then nothing else is fetched.            *)
ServerInit ==
    /\ library \in Libraries
    /\ artist \in 1 .. Artists
    /\ album \in 1 .. Albums(artist)
    /\ song \in 1 .. Songs(artist, album)
    /\ cleared = FALSE
    /\ fetched \in BOOLEAN
    /\ died = FALSE
    /\ moved = "none"

-----------------------------------------------------------------------------
PlayFirst(a, b) == artist' = a /\ album' = b /\ song' = 1
(* Mutant: an earlier album starts from its beginning.                     *)
PlayLastFromFirst(a, b) == artist' = a /\ album' = b /\ song' = 1
PlayLast(a, b)  == artist' = a /\ album' = b /\ song' = Songs(a, b)

(* NextTrack() and PrevTrack() while the current song is found in its      *)
(* album.                                                                  *)
Forward ==
    \/ song < Songs(artist, album)
       /\ song' = song + 1 /\ UNCHANGED <<artist, album>>
    \/ song >= Songs(artist, album) /\ album < Albums(artist)
       /\ PlayFirst(artist, album + 1)
    \/ song >= Songs(artist, album) /\ album >= Albums(artist)
       /\ PlayFirst(IF artist >= Artists THEN 1 ELSE artist + 1, 1)

Back ==
    \/ song > 1
       /\ song' = song - 1 /\ UNCHANGED <<artist, album>>
    \/ song <= 1 /\ album > 1
       /\ PlayLast(artist, album - 1)
    \/ song <= 1 /\ album <= 1
       /\ LET a == IF artist <= 1 THEN Artists ELSE artist - 1
          IN  PlayLast(a, Albums(a))

(* The id of no song is found in no album, and nothing changes.  Without   *)
(* the fetched album its list of songs is a null reference.                *)
Look(c, Found) ==
    /\ fetched
    /\ \/ ~cleared /\ Found /\ moved' = c
       \/ cleared /\ UNCHANGED <<artist, album, song, moved>>
    /\ UNCHANGED <<library, cleared, fetched, died>>

NextTrack == Look("next", Forward)
PrevTrack == Look("prev", Back)

Crash ==
    /\ ~fetched
    /\ died' = TRUE
    /\ UNCHANGED <<library, artist, album, song, cleared, fetched, moved>>

(* CleanUp() clears the id; RandomTrack() and NextArtist() are empty.      *)
CleanUp ==
    /\ cleared' = TRUE
    /\ UNCHANGED <<library, artist, album, song, fetched, died, moved>>

ServerNext == ~died /\ (NextTrack \/ PrevTrack \/ Crash \/ CleanUp)
ServerSpec == ServerInit /\ [][ServerNext]_serverVars

-----------------------------------------------------------------------------
Place == Before(library, artist, album) + song - 1

(* Across albums and artists, and around the ends of the library, the next *)
(* and the previous song are the neighbours in the list of all its songs.  *)
SongRing == INSTANCE TrackRing WITH size <- Total(library), at <- Place, cmd <- moved

SubsonicImplementsRing == SongRing!Spec
=============================================================================
