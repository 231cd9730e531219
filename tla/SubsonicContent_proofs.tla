------------------------ MODULE SubsonicContent_proofs ------------------------
(***************************************************************************)
(* Proofs about SubsonicContent, for every library of a server, whatever   *)
(* the number of its artists, albums and songs.                            *)
(***************************************************************************)
EXTENDS SubsonicContent, TLAPS

TypeOK ==
    /\ library \in Libraries
    /\ cleared \in BOOLEAN /\ fetched \in BOOLEAN /\ died \in BOOLEAN
    /\ moved \in {"none", "next", "prev"}

(* A song is named by places that the library has, by whatever way it was  *)
(* come to (ContentPlaybackSubsonic.java:116-236).                         *)
InLibrary ==
    /\ artist \in 1 .. Artists
    /\ album \in 1 .. Albums(artist)
    /\ song \in 1 .. Songs(artist, album)

(* Nothing but a song from the cache dies (ContentPlaybackSubsonic.java:56).*)
CrashNeedsCache == died => ~fetched

IInv == TypeOK /\ InLibrary /\ CrashNeedsCache

-----------------------------------------------------------------------------
(* The lengths of a library, and how its albums follow one another.        *)
LEMMA Lengths ==
    ASSUME NEW l \in Libraries
    PROVE  /\ Len(l) \in Nat \ {0}
           /\ \A a \in 1 .. Len(l) :
                /\ Len(l[a]) \in Nat \ {0}
                /\ \A b \in 1 .. Len(l[a]) : l[a][b] \in Nat \ {0}
<1>1. l \in Seq(Seq(Nat \ {0}) \ {<<>>}) /\ l # <<>>
  BY LibrariesAreCounted
<1>2. ASSUME NEW a \in 1 .. Len(l) PROVE l[a] \in Seq(Nat \ {0}) /\ l[a] # <<>>
  BY <1>1
<1>3. Len(l) \in Nat \ {0}
  BY <1>1
<1>4. ASSUME NEW a \in 1 .. Len(l)
      PROVE  Len(l[a]) \in Nat \ {0} /\ \A b \in 1 .. Len(l[a]) : l[a][b] \in Nat \ {0}
  <2> DEFINE s == l[a]
  <2>1. s \in Seq(Nat \ {0}) /\ s # <<>>
    BY <1>2
  <2> HIDE DEF s
  <2>2. Len(s) \in Nat \ {0} /\ \A b \in 1 .. Len(s) : s[b] \in Nat \ {0}
    BY <2>1
  <2>3. QED
    BY <2>2 DEF s
<1>5. QED
  BY <1>3, <1>4

LEMMA Counted ==
    ASSUME NEW l \in Libraries
    PROVE  /\ Total(l) \in Nat /\ Before(l, 1, 1) = 0
           /\ \A a \in 1 .. Len(l) : \A b \in 1 .. Len(l[a]) :
                /\ Before(l, a, b) \in Nat
                /\ Before(l, a, b) + l[a][b] <= Total(l)
                /\ b < Len(l[a]) =>
                     Before(l, a, b + 1) = Before(l, a, b) + l[a][b]
                /\ b = Len(l[a]) /\ a < Len(l) =>
                     Before(l, a + 1, 1) = Before(l, a, b) + l[a][b]
                /\ b = Len(l[a]) /\ a = Len(l) =>
                     Total(l) = Before(l, a, b) + l[a][b]
<1>1. ASSUME NEW a \in 1 .. Len(l), NEW b \in 1 .. Len(l[a])
      PROVE  /\ Before(l, a, b) \in Nat
             /\ Before(l, a, b) + l[a][b] <= Total(l)
             /\ b < Len(l[a]) =>
                  Before(l, a, b + 1) = Before(l, a, b) + l[a][b]
             /\ b = Len(l[a]) /\ a < Len(l) =>
                  Before(l, a + 1, 1) = Before(l, a, b) + l[a][b]
             /\ b = Len(l[a]) /\ a = Len(l) =>
                  Total(l) = Before(l, a, b) + l[a][b]
  <2> DEFINE behind == Before(l, a, b) + l[a][b]
  <2>1. /\ Before(l, a, b) \in Nat /\ behind <= Total(l)
        /\ behind = CASE b < Len(l[a]) -> Before(l, a, b + 1)
                      [] b = Len(l[a]) /\ a < Len(l) -> Before(l, a + 1, 1)
                      [] OTHER -> Total(l)
    BY LibrariesAreCounted
  <2>2. Len(l) \in Nat /\ Len(l[a]) \in Nat
    BY Lengths
  <2> HIDE DEF behind
  <2>3. /\ b < Len(l[a]) => behind = Before(l, a, b + 1)
        /\ b = Len(l[a]) /\ a < Len(l) => behind = Before(l, a + 1, 1)
        /\ b = Len(l[a]) /\ a = Len(l) => behind = Total(l)
    BY <2>1, <2>2
  <2>4. QED
    BY <2>1, <2>3 DEF behind
<1>2. Total(l) \in Nat /\ Before(l, 1, 1) = 0
  BY LibrariesAreCounted
<1>3. QED
  BY <1>1, <1>2

(* The neighbours, as places in the list of all songs.                     *)
LEMMA PlaceFacts ==
    ASSUME IInv
    PROVE  Place \in 0 .. Total(library) - 1
<1>1. /\ Before(library, artist, album) \in Nat /\ Total(library) \in Nat
      /\ Before(library, artist, album) + Songs(artist, album) <= Total(library)
      /\ song \in 1 .. Songs(artist, album) /\ Songs(artist, album) \in Nat
  BY Lengths, Counted DEF IInv, TypeOK, InLibrary, Artists, Albums, Songs
<1>2. QED
  BY <1>1 DEF Place

LEMMA ForwardFacts ==
    ASSUME IInv, Forward, library' = library
    PROVE  /\ InLibrary'
           /\ Place' = IF Place + 1 = Total(library) THEN 0 ELSE Place + 1
<1>1. /\ library \in Libraries /\ artist \in 1 .. Len(library)
      /\ album \in 1 .. Len(library[artist]) /\ song \in 1 .. library[artist][album]
  BY DEF IInv, TypeOK, InLibrary, Artists, Albums, Songs
<1>2. /\ Len(library) \in Nat \ {0}
      /\ \A a \in 1 .. Len(library) :
           /\ Len(library[a]) \in Nat \ {0}
           /\ \A b \in 1 .. Len(library[a]) : library[a][b] \in Nat \ {0}
  BY <1>1, Lengths
<1> DEFINE before == Before(library, artist, album)
           songs  == library[artist][album]
           total  == Total(library)
<1>3. /\ before \in Nat /\ songs \in Nat \ {0} /\ total \in Nat /\ before + songs <= total
      /\ album < Len(library[artist]) =>
           Before(library, artist, album + 1) = before + songs
      /\ album = Len(library[artist]) /\ artist < Len(library) =>
           Before(library, artist + 1, 1) = before + songs
      /\ album = Len(library[artist]) /\ artist = Len(library) => total = before + songs
      /\ Before(library, 1, 1) = 0
  BY <1>1, <1>2, Counted
<1>4. Place = before + song - 1
  BY DEF Place
<1>5. /\ InLibrary' = (/\ artist' \in 1 .. Len(library) /\ album' \in 1 .. Len(library[artist'])
                       /\ song' \in 1 .. library[artist'][album'])
      /\ Place' = Before(library, artist', album') + song' - 1
  BY DEF InLibrary, Place, Artists, Albums, Songs
<1> USE DEF PlayFirst, Songs, Albums, Artists
<1>6. CASE song < Songs(artist, album) /\ song' = song + 1 /\ UNCHANGED <<artist, album>>
  <2>1. InLibrary' /\ Place' = before + (song + 1) - 1
    BY <1>1, <1>3, <1>5, <1>6
  <2>2. QED
    BY <1>1, <1>3, <1>4, <1>6, <2>1
<1>7. CASE song >= Songs(artist, album) /\ album < Albums(artist) /\ PlayFirst(artist, album + 1)
  <2>1. album + 1 \in 1 .. Len(library[artist])
    BY <1>1, <1>2, <1>7
  <2>2. library[artist][album + 1] \in Nat \ {0}
    BY <1>1, <1>2, <2>1
  <2>3. InLibrary' /\ Place' = Before(library, artist, album + 1) + 1 - 1
    BY <1>1, <1>5, <1>7, <2>1, <2>2
  <2>4. Before(library, artist, album + 1) \in Nat
        /\ Before(library, artist, album + 1) + library[artist][album + 1] <= total
    BY <1>1, <2>1, Counted
  <2>5. song = songs /\ Before(library, artist, album + 1) = before + songs
    BY <1>1, <1>3, <1>7
  <2> HIDE DEF before, songs, total
  <2>6. Place' = Place + 1 /\ Place' < total
    BY <1>3, <1>4, <2>2, <2>3, <2>4, <2>5
  <2>7. QED
    BY <2>3, <2>6 DEF total
<1>8. CASE /\ song >= Songs(artist, album) /\ album >= Albums(artist) /\ artist < Artists
           /\ PlayFirst(artist + 1, 1)
  <2>1. artist + 1 \in 1 .. Len(library) /\ album = Len(library[artist])
    BY <1>1, <1>2, <1>8
  <2>2. 1 \in 1 .. Len(library[artist + 1]) /\ library[artist + 1][1] \in Nat \ {0}
    BY <1>2, <2>1
  <2>3. InLibrary' /\ Place' = Before(library, artist + 1, 1) + 1 - 1
    BY <1>5, <1>8, <2>1, <2>2
  <2>4. Before(library, artist + 1, 1) \in Nat
        /\ Before(library, artist + 1, 1) + library[artist + 1][1] <= total
    BY <1>1, <2>1, <2>2, Counted
  <2>5. song = songs /\ Before(library, artist + 1, 1) = before + songs
    BY <1>1, <1>2, <1>3, <1>8, <2>1
  <2> HIDE DEF before, songs, total
  <2>6. Place' = Place + 1 /\ Place' < total
    BY <1>3, <1>4, <2>2, <2>3, <2>4, <2>5
  <2>7. QED
    BY <2>3, <2>6 DEF total
<1>9. CASE /\ song >= Songs(artist, album) /\ album >= Albums(artist) /\ artist >= Artists
           /\ PlayFirst(1, 1)
  <2>1. 1 \in 1 .. Len(library) /\ 1 \in 1 .. Len(library[1]) /\ library[1][1] \in Nat \ {0}
    BY <1>2
  <2>2. InLibrary' /\ Place' = 0
    BY <1>3, <1>5, <1>9, <2>1
  <2>3. total = before + songs /\ song = songs
    BY <1>1, <1>2, <1>3, <1>9
  <2>4. QED
    BY <1>3, <1>4, <2>2, <2>3
<1>10. QED
  <2>1. Len(library[artist]) \in Nat /\ library[artist][album] \in Nat /\ Len(library) \in Nat
    BY <1>1, <1>2
  <2>2. QED
    BY <1>1, <1>6, <1>7, <1>8, <1>9, <2>1 DEF Forward

LEMMA BackFacts ==
    ASSUME IInv, Back, library' = library
    PROVE  /\ InLibrary'
           /\ Place' = IF Place = 0 THEN Total(library) - 1 ELSE Place - 1
<1>1. /\ library \in Libraries /\ artist \in 1 .. Len(library)
      /\ album \in 1 .. Len(library[artist]) /\ song \in 1 .. library[artist][album]
  BY DEF IInv, TypeOK, InLibrary, Artists, Albums, Songs
<1>2. /\ Len(library) \in Nat \ {0}
      /\ \A a \in 1 .. Len(library) :
           /\ Len(library[a]) \in Nat \ {0}
           /\ \A b \in 1 .. Len(library[a]) : library[a][b] \in Nat \ {0}
  BY <1>1, Lengths
<1> DEFINE before == Before(library, artist, album)
           total  == Total(library)
<1>3. before \in Nat /\ total \in Nat /\ Before(library, 1, 1) = 0
  BY <1>1, Counted
<1>4. Place = before + song - 1
  BY DEF Place
<1>5. /\ InLibrary' = (/\ artist' \in 1 .. Len(library) /\ album' \in 1 .. Len(library[artist'])
                       /\ song' \in 1 .. library[artist'][album'])
      /\ Place' = Before(library, artist', album') + song' - 1
  BY DEF InLibrary, Place, Artists, Albums, Songs
(* The last song of an album that another one follows, or none.            *)
<1>6. ASSUME NEW a \in 1 .. Len(library), NEW b \in 1 .. Len(library[a]), PlayLast(a, b)
      PROVE  /\ InLibrary' /\ library[a][b] \in Nat \ {0} /\ Before(library, a, b) \in Nat
             /\ Place' = Before(library, a, b) + library[a][b] - 1
  <2>1. library[a][b] \in Nat \ {0} /\ Before(library, a, b) \in Nat
    BY <1>1, <1>2, Counted
  <2>2. artist' = a /\ album' = b /\ song' = library[a][b]
    BY <1>6 DEF PlayLast, Songs
  <2>3. QED
    BY <1>5, <2>1, <2>2
<1>7. CASE song > 1 /\ song' = song - 1 /\ UNCHANGED <<artist, album>>
  <2>1. library[artist][album] \in Nat \ {0}
    BY <1>1, <1>2
  <2>2. InLibrary' /\ Place' = before + (song - 1) - 1
    BY <1>1, <1>3, <1>5, <1>7, <2>1
  <2> HIDE DEF before
  <2>3. Place' = Place - 1 /\ Place # 0
    BY <1>1, <1>3, <1>4, <1>7, <2>1, <2>2
  <2>4. QED
    BY <2>2, <2>3
<1>8. CASE song <= 1 /\ album > 1 /\ PlayLast(artist, album - 1)
  <2>1. album - 1 \in 1 .. Len(library[artist]) /\ album - 1 < Len(library[artist])
    BY <1>1, <1>2, <1>8
  <2>2. /\ InLibrary' /\ library[artist][album - 1] \in Nat \ {0}
        /\ Before(library, artist, album - 1) \in Nat
        /\ Place' = Before(library, artist, album - 1) + library[artist][album - 1] - 1
    BY <1>1, <1>6, <1>8, <2>1
  <2>3. before = Before(library, artist, album - 1) + library[artist][album - 1] /\ song = 1
    <3>1. Before(library, artist, (album - 1) + 1)
            = Before(library, artist, album - 1) + library[artist][album - 1]
      BY <1>1, <2>1, Counted
    <3>2. (album - 1) + 1 = album /\ song = 1
      BY <1>1, <1>2, <1>8
    <3>3. QED
      BY <3>1, <3>2
  <2> HIDE DEF before
  <2>4. Place' = Place - 1 /\ Place # 0
    BY <1>3, <1>4, <2>2, <2>3
  <2>5. QED
    BY <2>2, <2>4
<1>9. CASE song <= 1 /\ album <= 1 /\ artist > 1 /\ PlayLast(artist - 1, Albums(artist - 1))
  <2> DEFINE a == artist - 1
             b == Len(library[a])
  <2>1. a \in 1 .. Len(library) /\ a < Len(library) /\ a + 1 = artist
    BY <1>1, <1>2, <1>9
  <2>2. b \in 1 .. Len(library[a])
    BY <1>2, <2>1
  <2>3. PlayLast(a, b)
    BY <1>9 DEF Albums
  <2> HIDE DEF a, b
  <2>4. /\ InLibrary' /\ library[a][b] \in Nat \ {0} /\ Before(library, a, b) \in Nat
        /\ Place' = Before(library, a, b) + library[a][b] - 1
    BY <1>6, <2>1, <2>2, <2>3
  <2>5. before = Before(library, a, b) + library[a][b]
    <3>1. Before(library, a + 1, 1) = Before(library, a, b) + library[a][b]
      BY <1>1, <2>1, <2>2, Counted DEF b
    <3>2. album = 1
      BY <1>1, <1>2, <1>9
    <3>3. QED
      BY <2>1, <3>1, <3>2
  <2>6. song = 1
    BY <1>1, <1>2, <1>9
  <2> HIDE DEF before
  <2>7. Place' = Place - 1 /\ Place # 0
    BY <1>3, <1>4, <2>4, <2>5, <2>6
  <2>8. QED
    BY <2>4, <2>7
<1>10. CASE song <= 1 /\ album <= 1 /\ artist <= 1 /\ PlayLast(Artists, Albums(Artists))
  <2> DEFINE a == Len(library)
             b == Len(library[a])
  <2>1. a \in 1 .. Len(library) /\ b \in 1 .. Len(library[a])
    BY <1>2
  <2>2. PlayLast(a, b)
    BY <1>10 DEF Albums, Artists
  <2>3. total = Before(library, a, b) + library[a][b]
    BY <1>1, <2>1, Counted
  <2>4. artist = 1 /\ album = 1 /\ song = 1
    BY <1>1, <1>2, <1>10
  <2> HIDE DEF a, b
  <2>5. /\ InLibrary' /\ library[a][b] \in Nat \ {0} /\ Before(library, a, b) \in Nat
        /\ Place' = Before(library, a, b) + library[a][b] - 1
    BY <1>6, <2>1, <2>2
  <2>6. Place = 0
    BY <1>3, <1>4, <2>4
  <2>7. Place' = Total(library) - 1
    <3> DEFINE before_last == Before(library, a, b)
               last == library[a][b]
               all == Total(library)
    <3>1. /\ before_last \in Int /\ last \in Int
          /\ Place' = before_last + last - 1 /\ all = before_last + last
      BY <2>3, <2>5
    <3> HIDE DEF before_last, last, all
    <3>2. Place' = all - 1
      BY <3>1
    <3>3. QED
      BY <3>2 DEF all
  <2>8. QED
    BY <2>5, <2>6, <2>7
<1>11. QED
  <2>1. Len(library[artist]) \in Nat /\ library[artist][album] \in Nat /\ Len(library) \in Nat
    BY <1>1, <1>2
  <2>2. artist \in Int /\ album \in Int /\ song \in Int
    BY <1>1, <2>1
  <2>3. QED
    BY <1>7, <1>8, <1>9, <1>10, <2>1, <2>2 DEF Back

-----------------------------------------------------------------------------
LEMMA InitIInv == ASSUME ServerInit PROVE IInv
BY DEF ServerInit, IInv, TypeOK, InLibrary, CrashNeedsCache, Artists, Albums, Songs

LEMMA LookCases ==
    ASSUME NEW c, NEW Found \in BOOLEAN, Look(c, Found)
    PROVE  /\ UNCHANGED <<library, cleared, fetched, died>>
           /\ \/ Found /\ moved' = c
              \/ UNCHANGED <<artist, album, song, moved>>
BY DEF Look

LEMMA NextIInv ==
    ASSUME IInv, [ServerNext]_serverVars
    PROVE  IInv' /\ [SongRing!Next]_(SongRing!vars)
<1> USE DEF IInv, TypeOK, CrashNeedsCache
<1>1. Place \in 0 .. Total(library) - 1 /\ Total(library) \in Nat \ {0}
  BY PlaceFacts, Counted
<1>2. ASSUME UNCHANGED <<library, artist, album, song, moved>>
      PROVE  InLibrary' /\ SongRing!vars' = SongRing!vars
  BY <1>2 DEF InLibrary, Artists, Albums, Songs, Place, SongRing!vars
<1>3. CASE NextTrack
  <2>1. /\ UNCHANGED <<library, cleared, fetched, died>>
        /\ \/ Forward /\ moved' = "next"
           \/ UNCHANGED <<artist, album, song, moved>>
    BY <1>3 DEF NextTrack, Look
  <2>2. CASE Forward /\ moved' = "next"
    <3>1. InLibrary' /\ Place' = IF Place + 1 = Total(library) THEN 0 ELSE Place + 1
      BY <2>1, <2>2, ForwardFacts
    <3>2. Place' = (Place + 1) % Total(library)
      <4> DEFINE p == Place
                 n == Total(library)
                 q == Place'
      <4>1. p \in 0 .. n - 1 /\ n \in Nat \ {0} /\ q = IF p + 1 = n THEN 0 ELSE p + 1
        BY <1>1, <3>1
      <4> HIDE DEF p, n, q
      <4>2. q = (p + 1) % n
        BY <4>1
      <4>3. QED
        BY <4>2 DEF p, n, q
    <3>3. SongRing!NextTrack
      BY <1>1, <2>1, <2>2, <3>2 DEF SongRing!NextTrack, SongRing!Step, SongRing!Nowhere
    <3>4. QED
      BY <2>1, <2>2, <3>1, <3>3 DEF SongRing!Next
  <2>3. CASE UNCHANGED <<artist, album, song, moved>>
    BY <1>2, <2>1, <2>3
  <2>4. QED
    BY <2>1, <2>2, <2>3
<1>4. CASE PrevTrack
  <2>1. /\ UNCHANGED <<library, cleared, fetched, died>>
        /\ \/ Back /\ moved' = "prev"
           \/ UNCHANGED <<artist, album, song, moved>>
    BY <1>4 DEF PrevTrack, Look
  <2>2. CASE Back /\ moved' = "prev"
    <3>1. InLibrary' /\ Place' = IF Place = 0 THEN Total(library) - 1 ELSE Place - 1
      BY <2>1, <2>2, BackFacts
    <3>2. Place' = (Place + Total(library) - 1) % Total(library)
      <4> DEFINE p == Place
                 n == Total(library)
                 q == Place'
      <4>1. p \in 0 .. n - 1 /\ n \in Nat \ {0} /\ q = IF p = 0 THEN n - 1 ELSE p - 1
        BY <1>1, <3>1
      <4> HIDE DEF p, n, q
      <4>2. q = (p + n - 1) % n
        BY <4>1
      <4>3. QED
        BY <4>2 DEF p, n, q
    <3>3. SongRing!PrevTrack
      BY <1>1, <2>1, <2>2, <3>2 DEF SongRing!PrevTrack, SongRing!Step, SongRing!Nowhere
    <3>4. QED
      BY <2>1, <2>2, <3>1, <3>3 DEF SongRing!Next
  <2>3. CASE UNCHANGED <<artist, album, song, moved>>
    BY <1>2, <2>1, <2>3
  <2>4. QED
    BY <2>1, <2>2, <2>3
<1>5. CASE Crash
  BY <1>2, <1>5 DEF Crash
<1>6. CASE CleanUp
  BY <1>2, <1>6 DEF CleanUp
<1>7. CASE UNCHANGED serverVars
  BY <1>2, <1>7 DEF serverVars
<1>8. QED
  BY <1>3, <1>4, <1>5, <1>6, <1>7 DEF ServerNext

(* Every song that is played is one the server has, whatever was pressed,  *)
(* and only one played from the cache ends the process at a press.         *)
THEOREM SubsonicInvariance == ServerSpec => []IInv
BY InitIInv, NextIInv, PTL DEF ServerSpec

(* NextTrack() and PrevTrack() (ContentPlaybackSubsonic.java:116, 177) move *)
(* along the ring of all the songs of the server, for every library.       *)
THEOREM SubsonicRing == ServerSpec => SubsonicImplementsRing
<1>1. ServerInit => SongRing!Init
  BY InitIInv, PlaceFacts, Counted DEF ServerInit, SongRing!Init
<1>2. QED
  BY <1>1, SubsonicInvariance, NextIInv, PTL DEF ServerSpec, SubsonicImplementsRing, SongRing!Spec
==============================================================================
