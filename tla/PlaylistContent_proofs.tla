----------------------- MODULE PlaylistContent_proofs -----------------------
(***************************************************************************)
(* Proofs about PlaylistContent, for playlists of any length.              *)
(***************************************************************************)
EXTENDS PlaylistContent, FiniteSetTheorems, SequenceTheorems, TLAPS

Inside(p) == p \in 0 .. maxIndex

TypeOK ==
    /\ playlistData \in Seq(Tracks)
    /\ nowPlayingPos \in Nat
    /\ nowPlayingFile \in Tracks \cup {NoFile}
    /\ pc \in {"idle", "get"}
    /\ cmd \in {"none", "next", "prev", "random"}
    /\ edited \in BOOLEAN /\ raced \in BOOLEAN /\ crashed \in BOOLEAN

(* A playlist holds a track once, and an edit leaves it so.                *)
OnceInv ==
    \A i, j \in 1 .. Len(playlistData) :
        playlistData[i] = playlistData[j] => i = j

(* What the list does not say of the track that plays until it is edited:  *)
(* between commands the position is that of the file, and in the middle of *)
(* NextTrack() it is already that of the track that follows.               *)
PlaceInv ==
    ~edited /\ ~crashed /\ nowPlayingFile # NoFile =>
        /\ pc = "idle" => /\ Inside(nowPlayingPos)
                          /\ nowPlayingFile = playlistData[nowPlayingPos + 1]
        /\ pc = "get" /\ cmd = "next" =>
             \E i \in 1 .. Len(playlistData) :
                 /\ playlistData[i] = nowPlayingFile
                 /\ nowPlayingPos = IF i = Len(playlistData) THEN 0 ELSE i

(* A command that no removal interrupted is about to read inside the list. *)
BoundInv ==
    pc = "get" /\ ~raced /\ playlistData # <<>> => Inside(nowPlayingPos)

PInv == TypeOK /\ OnceInv /\ PlaceInv /\ BoundInv /\ CrashNeedsRemoval

-----------------------------------------------------------------------------
(* A list without its i-th element: the elements before i keep their place *)
(* and those after it move up by one.                                      *)
LEMMA Removal ==
    ASSUME NEW S, NEW s \in Seq(S), NEW i \in 1 .. Len(s)
    PROVE  /\ RemoveAt(s, i) \in Seq(S)
           /\ Len(RemoveAt(s, i)) = Len(s) - 1
           /\ \A k \in 1 .. Len(s) - 1 :
                  RemoveAt(s, i)[k] = s[IF k < i THEN k ELSE k + 1]
<1> DEFINE a == SubSeq(s, 1, i - 1)
           b == SubSeq(s, i + 1, Len(s))
<1>1. Len(s) \in Nat /\ i \in Int /\ 1 <= i /\ i <= Len(s)
  OBVIOUS
<1>2. a \in Seq(S) /\ Len(a) = i - 1 /\ \A k \in 1 .. i - 1 : a[k] = s[k]
  BY <1>1, SubSeqProperties
<1>3. /\ b \in Seq(S) /\ Len(b) = Len(s) - i
      /\ \A k \in 1 .. Len(s) - i : b[k] = s[i + k]
  BY <1>1, SubSeqProperties
<1>4. RemoveAt(s, i) = a \o b
  BY DEF RemoveAt
<1> HIDE DEF a, b
<1>5. /\ a \o b \in Seq(S) /\ Len(a \o b) = Len(a) + Len(b)
      /\ \A k \in 1 .. Len(a) + Len(b) :
             (a \o b)[k] = IF k <= Len(a) THEN a[k] ELSE b[k - Len(a)]
  BY <1>2, <1>3, ConcatProperties
<1> DEFINE c == a \o b
<1>6. /\ c \in Seq(S) /\ Len(c) = Len(s) - 1
      /\ \A k \in 1 .. Len(s) - 1 :
             c[k] = IF k <= i - 1 THEN a[k] ELSE b[k - (i - 1)]
  BY <1>1, <1>2, <1>3, <1>5
<1> HIDE DEF c
<1>7. ASSUME NEW k \in 1 .. Len(s) - 1
      PROVE  c[k] = s[IF k < i THEN k ELSE k + 1]
  <2>1. CASE k < i
    BY <1>1, <1>2, <1>6, <2>1
  <2>2. CASE ~(k < i)
    <3>1. k - (i - 1) \in 1 .. Len(s) - i /\ i + (k - (i - 1)) = k + 1
      BY <1>1, <2>2
    <3>2. c[k] = b[k - (i - 1)]
      BY <1>1, <1>6, <2>2
    <3>3. QED
      BY <1>3, <2>2, <3>1, <3>2
  <2>3. QED
    BY <2>1, <2>2
<1>8. QED
  BY <1>4, <1>6, <1>7 DEF c

LEMMA LastIndex ==
    ASSUME TypeOK
    PROVE  /\ Len(playlistData) \in Nat /\ maxIndex = Len(playlistData) - 1
           /\ playlistData # <<>> <=> Len(playlistData) > 0
BY EmptySeq DEF TypeOK, maxIndex

LEMMA InitPInv == Init => PInv
<1> SUFFICES ASSUME Init PROVE PInv
  OBVIOUS
<1> DEFINE n == Cardinality(Tracks)
<1>1. n \in Nat
  BY TracksAssumption, FS_CardinalityType
<1>2. /\ playlistData \in [1 .. n -> Tracks]
      /\ \A i, j \in 1 .. n : i # j => playlistData[i] # playlistData[j]
  BY DEF Init, SetToSeqs
<1> HIDE DEF n
<1>3. playlistData \in Seq(Tracks) /\ Len(playlistData) = n
  BY <1>1, <1>2, SeqDef, LenProperties
<1>4. /\ nowPlayingPos \in Nat /\ nowPlayingPos + 1 \in 1 .. n
      /\ Inside(nowPlayingPos) /\ nowPlayingFile = playlistData[nowPlayingPos + 1]
  BY <1>1, <1>3 DEF Init, maxIndex, Inside
<1>5. TypeOK
  BY <1>2, <1>3, <1>4 DEF Init, TypeOK
<1>6. OnceInv /\ PlaceInv /\ BoundInv /\ CrashNeedsRemoval
  BY <1>2, <1>3, <1>4 DEF Init, OnceInv, PlaceInv, BoundInv, CrashNeedsRemoval
<1>7. QED
  BY <1>5, <1>6 DEF PInv

(* The three commands that move the position.                              *)
LEMMA MovePInv ==
    ASSUME PInv, NEW c \in {"next", "prev", "random"}, NEW p \in Nat,
           c = "next" => p = Following,
           playlistData # <<>> => Inside(p),
           MoveTo(c, p), ~crashed
    PROVE  PInv'
<1>1. /\ pc = "idle" /\ pc' = "get" /\ cmd' = c /\ nowPlayingPos' = p
      /\ UNCHANGED <<playlistData, nowPlayingFile, edited, raced, crashed>>
  BY DEF MoveTo
<1>2. TypeOK /\ OnceInv
  BY DEF PInv
<1>3. TypeOK' /\ OnceInv' /\ CrashNeedsRemoval'
  BY <1>1, <1>2 DEF TypeOK, OnceInv, CrashNeedsRemoval
<1>4. BoundInv'
  BY <1>1 DEF BoundInv, Inside, maxIndex
<1>5. PlaceInv'
  <2> SUFFICES ASSUME ~edited, nowPlayingFile # NoFile, c = "next"
               PROVE  \E i \in 1 .. Len(playlistData) :
                          /\ playlistData[i] = nowPlayingFile
                          /\ p = IF i = Len(playlistData) THEN 0 ELSE i
    BY <1>1 DEF PlaceInv
  <2>1. /\ Inside(nowPlayingPos)
        /\ nowPlayingFile = playlistData[nowPlayingPos + 1]
    BY <1>1 DEF PInv, PlaceInv
  <2>2. /\ nowPlayingPos + 1 \in 1 .. Len(playlistData)
        /\ p = IF nowPlayingPos + 1 = Len(playlistData) THEN 0
               ELSE nowPlayingPos + 1
    BY <1>2, <2>1, LastIndex DEF Inside, Following
  <2>3. QED
    BY <2>1, <2>2
<1>6. QED
  BY <1>3, <1>4, <1>5 DEF PInv

LEMMA FollowingInside ==
    ASSUME TypeOK
    PROVE  Following \in Nat /\ (playlistData # <<>> => Inside(Following))
BY LastIndex DEF TypeOK, Following, Inside

LEMMA GetPInv == ASSUME PInv, ~crashed, Get PROVE PInv'
<1>1. TypeOK /\ OnceInv /\ BoundInv
  BY DEF PInv
<1>2. /\ pc = "get" /\ pc' = "idle" /\ edited' = FALSE
      /\ crashed' = (nowPlayingPos > maxIndex)
      /\ UNCHANGED <<playlistData, nowPlayingPos, cmd, raced>>
  BY DEF Get
<1>3. OnceInv' /\ BoundInv'
  BY <1>1, <1>2 DEF OnceInv, BoundInv
<1>4. CASE nowPlayingPos > maxIndex
  <2>1. crashed' /\ nowPlayingFile' = nowPlayingFile
    BY <1>2, <1>4 DEF Get
  <2>2. playlistData = <<>> \/ raced
    BY <1>1, <1>2, <1>4, LastIndex DEF BoundInv, Inside
  <2>3. TypeOK' /\ PlaceInv' /\ CrashNeedsRemoval'
    BY <1>1, <1>2, <2>1, <2>2 DEF TypeOK, PlaceInv, CrashNeedsRemoval
  <2>4. QED
    BY <1>3, <2>3 DEF PInv
<1>5. CASE ~(nowPlayingPos > maxIndex)
  <2>1. Inside(nowPlayingPos) /\ nowPlayingPos + 1 \in 1 .. Len(playlistData)
    BY <1>1, <1>5, LastIndex DEF TypeOK, Inside
  <2>2. ~crashed' /\ nowPlayingFile' = playlistData[nowPlayingPos + 1]
    BY <1>2, <1>5 DEF Get
  <2>3. playlistData[nowPlayingPos + 1] \in Tracks
    BY <1>1, <2>1, ElementOfSeq DEF TypeOK
  <2>4. crashed' \in BOOLEAN
    BY <1>2
  <2>5. TypeOK' /\ CrashNeedsRemoval'
    BY <1>1, <1>2, <2>2, <2>3, <2>4 DEF TypeOK, CrashNeedsRemoval
  <2>6. PlaceInv'
    BY <1>2, <2>1, <2>2 DEF PlaceInv, Inside, maxIndex
  <2>7. QED
    BY <1>3, <2>5, <2>6 DEF PInv
<1>6. QED
  BY <1>4, <1>5

LEMMA EditPInv ==
    ASSUME PInv, ~crashed, NEW i \in 1 .. Len(playlistData), RemoveTrack(i)
    PROVE  PInv'
<1> DEFINE n == Len(playlistData)
           At(k) == IF k < i THEN k ELSE k + 1
<1>1. TypeOK /\ OnceInv /\ n \in Nat
  BY LastIndex DEF PInv
<1>2. /\ playlistData' = RemoveAt(playlistData, i) /\ edited' = TRUE
      /\ raced' = (raced \/ pc = "get")
      /\ UNCHANGED <<nowPlayingPos, nowPlayingFile, pc, cmd, crashed>>
  BY DEF RemoveTrack
<1>3. /\ playlistData' \in Seq(Tracks) /\ Len(playlistData') = n - 1
      /\ \A k \in 1 .. n - 1 : playlistData'[k] = playlistData[At(k)]
  BY <1>1, <1>2, Removal DEF TypeOK
<1>4. TypeOK'
  BY <1>1, <1>2, <1>3 DEF TypeOK
<1>5. OnceInv'
  <2> SUFFICES ASSUME NEW j \in 1 .. n - 1, NEW k \in 1 .. n - 1,
                      playlistData[At(j)] = playlistData[At(k)]
               PROVE  j = k
    BY <1>3 DEF OnceInv
  <2>1. At(j) \in 1 .. n /\ At(k) \in 1 .. n
    BY <1>1
  <2>2. At(j) = At(k)
    BY <1>1, <2>1 DEF OnceInv
  <2>3. QED
    BY <2>2
<1>6. PlaceInv' /\ BoundInv' /\ CrashNeedsRemoval'
  BY <1>2 DEF PlaceInv, BoundInv, CrashNeedsRemoval
<1>7. QED
  BY <1>4, <1>5, <1>6 DEF PInv

LEMMA StepPInv == PInv /\ [Next]_vars => PInv'
<1> SUFFICES ASSUME PInv, [Next]_vars PROVE PInv'
  OBVIOUS
<1>1. TypeOK
  BY DEF PInv
<1>2. ASSUME ~crashed, NextTrack PROVE PInv'
  BY <1>1, <1>2, MovePInv, FollowingInside DEF NextTrack
<1>3. ASSUME ~crashed, PrevTrack PROVE PInv'
  BY <1>1, <1>3, MovePInv, FollowingInside DEF PrevTrack
<1>4. ASSUME ~crashed, RandomTrack PROVE PInv'
  <2>1. ASSUME NEW p \in 0 .. maxIndex, MoveTo("random", p) PROVE PInv'
    BY <1>1, <1>4, <2>1, MovePInv, LastIndex DEF Inside
  <2>2. ASSUME playlistData = <<>>, crashed' = TRUE,
               UNCHANGED <<playlistData, nowPlayingPos, nowPlayingFile, pc,
                           cmd, edited, raced>>
        PROVE  PInv'
    BY <1>1, <2>2 DEF PInv, TypeOK, OnceInv, PlaceInv, BoundInv, Inside,
                      maxIndex, CrashNeedsRemoval
  <2>3. QED
    BY <1>4, <2>1, <2>2 DEF RandomTrack
<1>5. ASSUME ~crashed, Get PROVE PInv'
  BY <1>5, GetPInv
<1>6. ASSUME ~crashed, CleanUp PROVE PInv'
  <2>1. /\ nowPlayingFile' = NoFile
        /\ UNCHANGED <<playlistData, nowPlayingPos, pc, cmd, edited, raced,
                       crashed>>
    BY <1>6 DEF CleanUp
  <2>2. QED
    BY <1>1, <2>1 DEF PInv, TypeOK, OnceInv, PlaceInv, BoundInv, Inside,
                      maxIndex, CrashNeedsRemoval
<1>7. ASSUME ~crashed, Edit PROVE PInv'
  BY <1>7, EditPInv DEF Edit
<1>8. ASSUME UNCHANGED vars PROVE PInv'
  BY <1>8 DEF vars, PInv, TypeOK, OnceInv, PlaceInv, BoundInv, Inside,
              maxIndex, CrashNeedsRemoval
<1>9. QED
  BY <1>2, <1>3, <1>4, <1>5, <1>6, <1>7, <1>8 DEF Next

(* The invariant of a playlist that is edited while it plays.              *)
THEOREM PlaylistInvariance == Spec => []PInv
BY InitPInv, StepPInv, PTL DEF Spec

(* The variables of ContentPlaybackPlaylist hold what their types promise, *)
(* and nowPlayingPos never gets below the list.                            *)
THEOREM PlaylistTypeCorrect == Spec => []TypeOK
<1>1. PInv => TypeOK
  BY DEF PInv
<1>2. QED
  BY <1>1, PlaylistInvariance, PTL

(* The process only dies when the list is empty, or when a track is        *)
(* removed between a command's test of the position and its use.           *)
THEOREM PlaylistCrashes == Spec => []CrashNeedsRemoval
<1>1. PInv => CrashNeedsRemoval
  BY DEF PInv
<1>2. QED
  BY <1>1, PlaylistInvariance, PTL

(* NextTrack() plays the track that follows in the list, unless a track    *)
(* was removed since the last command.                                     *)
THEOREM EditMisleadsOne == Spec => EditMisleadsOneCommand
<1> DEFINE Good == ~edited => Arrives("next", Successor(nowPlayingFile))
<1>1. ASSUME PInv, [Next]_vars PROVE [Good]_vars
  <2> SUFFICES ASSUME ~edited, Get, cmd = "next", Listed(nowPlayingFile),
                      ~crashed', Next
               PROVE  nowPlayingFile' = Successor(nowPlayingFile)
    BY <1>1 DEF Arrives
  <2>1. TypeOK /\ OnceInv /\ pc = "get" /\ ~crashed
    BY <1>1 DEF PInv, Get, Next
  <2>2. nowPlayingFile # NoFile
    BY <2>1, NoFileAssumption, ElementOfSeq DEF Listed, TypeOK
  <2>3. PICK i \in 1 .. Len(playlistData) :
            /\ playlistData[i] = nowPlayingFile
            /\ nowPlayingPos = IF i = Len(playlistData) THEN 0 ELSE i
    BY <1>1, <2>1, <2>2 DEF PInv, PlaceInv
  <2>4. Place(nowPlayingFile) = i
    BY <2>1, <2>3 DEF Place, OnceInv
  <2>5. nowPlayingFile' = playlistData[nowPlayingPos + 1]
    BY DEF Get
  <2>6. nowPlayingPos + 1 = IF i = Len(playlistData) THEN 1 ELSE i + 1
    BY <2>1, <2>3, LastIndex
  <2>7. QED
    BY <2>4, <2>5, <2>6 DEF Successor
<1>2. QED
  BY <1>1, PlaylistInvariance, PTL DEF Spec, EditMisleadsOneCommand
=============================================================================
