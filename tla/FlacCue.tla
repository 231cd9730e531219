------------------------------- MODULE FlacCue -------------------------------
(***************************************************************************)
(* extractFlacCUE(): the starts of a cue sheet's tracks, in seconds, as    *)
(* flac_read_cue() of flac/main.c finds them.  A file is                   *)
(*   [magic, tagged |-> its first four bytes, and those behind an ID3 tag, *)
(*    blocks |-> the metadata, [type, samplerate, words, whole, album]:    *)
(*               what the two blocks that are read hold, if it is all      *)
(*               there, and of what album it is a cue sheet]               *)
(* A cue sheet is a row of words, one for each number that is read of it;  *)
(* the strings and paddings between them are left out of the sizes, and an *)
(* offset is not so large that a time is cut to its 32 bits.  An album is  *)
(* its tracks, the lead-out too: [at, offset, number, indices], at the     *)
(* place of its first word, and indices of [offset, number].               *)
(***************************************************************************)
EXTENDS Integers, Sequences, FiniteSets

CONSTANT CueFiles       (* the files                                       *)

BLOCK_STREAMINFO == 0
BLOCK_CUESHEET   == 5
SIZEOF_METADATA_BLOCK_CUESHEET == 1     (* [number of tracks]              *)
SIZEOF_CUESHEET_TRACK          == 3     (* [offset, track_no, idx_points]  *)
SIZEOF_CUESHEET_TRACK_INDEX    == 2     (* [offset, number]                *)

(* The words of a cue sheet are those of its album.                        *)
PlaceOf(album, k) ==
    IF k = 1 THEN SIZEOF_METADATA_BLOCK_CUESHEET + 1
    ELSE album[k - 1].at + SIZEOF_CUESHEET_TRACK + Len(album[k - 1].indices) * SIZEOF_CUESHEET_TRACK_INDEX
PlaceOfIndex(t, j) == t.at + SIZEOF_CUESHEET_TRACK + (j - 1) * SIZEOF_CUESHEET_TRACK_INDEX
IsSheetOf(words, album) ==
    /\ words[SIZEOF_METADATA_BLOCK_CUESHEET] = Len(album)
    /\ \A k \in DOMAIN album :
          LET t == album[k]
          IN  /\ t.at = PlaceOf(album, k)
              /\ words[t.at] = t.offset /\ words[t.at + 1] = t.number
              /\ words[t.at + 2] = Len(t.indices)
              /\ \A j \in DOMAIN t.indices :
                    /\ words[PlaceOfIndex(t, j)] = t.indices[j].offset
                    /\ words[PlaceOfIndex(t, j) + 1] = t.indices[j].number

ASSUME CueAssumption ==
    \A f \in CueFiles :
        /\ Len(f.blocks) \in Nat /\ DOMAIN f.blocks = 1 .. Len(f.blocks)
        /\ \A k \in DOMAIN f.blocks :
              /\ f.blocks[k].samplerate \in Nat
              /\ f.blocks[k].album \in Seq([at : Nat, offset : Nat, number : Nat,
                                            indices : Seq([offset : Nat, number : Nat])])
              /\ f.blocks[k].type = BLOCK_CUESHEET => IsSheetOf(f.blocks[k].words, f.blocks[k].album)

VARIABLES cuefile,
          cue       (* state: "open", "blocks", "tracks" or "returned"; the *)
                    (* block, samplerate, p, i and times without its count  *)
cueVars == <<cuefile, cue>>

Return(times) == cue' = [cue EXCEPT !.state = "returned", !.times = times]

IsFlac == \/ cuefile.magic = "fLaC"
          \/ cuefile.magic = "ID3" /\ cuefile.tagged = "fLaC"

OpenCueFile ==
    /\ cue.state = "open"
    /\ IF IsFlac THEN cue' = [cue EXCEPT !.state = "blocks"] ELSE Return(<<>>)
    /\ UNCHANGED cuefile

Block == cuefile.blocks[cue.block]
AtBlock == cue.state = "blocks" /\ cue.block \in DOMAIN cuefile.blocks

ReadStreamInfo ==
    /\ AtBlock /\ Block.type = BLOCK_STREAMINFO
    /\ cue' = [cue EXCEPT !.samplerate = Block.samplerate, !.block = @ + 1]
    /\ UNCHANGED cuefile

SkipBlock ==
    /\ AtBlock /\ Block.type \notin {BLOCK_STREAMINFO, BLOCK_CUESHEET}
    /\ cue' = [cue EXCEPT !.block = @ + 1]
    /\ UNCHANGED cuefile

(* Behind the last block, or at the end of a file that has no last block. *)
NoCueSheet ==
    /\ cue.state = "blocks" /\ cue.block \notin DOMAIN cuefile.blocks
    /\ Return(<<>>)
    /\ UNCHANGED cuefile

ReadCueSheet ==
    /\ AtBlock /\ Block.type = BLOCK_CUESHEET
    /\ IF cue.samplerate = 0 \/ ~ Block.whole THEN Return(<<>>)
       ELSE cue' = [cue EXCEPT !.state = "tracks", !.p = SIZEOF_METADATA_BLOCK_CUESHEET + 1]
    /\ UNCHANGED cuefile

(* p is the place of a track in the words, and Points(p) those of its indices. *)
TrackCount  == Block.words[SIZEOF_METADATA_BLOCK_CUESHEET]
IdxPoints(p) == Block.words[p + 2]
PointsOf(p) == {p + SIZEOF_CUESHEET_TRACK + k * SIZEOF_CUESHEET_TRACK_INDEX : k \in 0 .. IdxPoints(p) - 1}

IsTrack_all(p) == Block.words[p + 1] < 255       (* mutant: and the lead-out *)

IsTrack(p) == Block.words[p + 1] <= 99          (* not the lead-out, 170 *)

NextTrack(p) == p + SIZEOF_CUESHEET_TRACK + IdxPoints(p) * SIZEOF_CUESHEET_TRACK_INDEX

(* The first index with the number 1, if the track has one. *)
Index01(p) == {q \in PointsOf(p) : /\ Block.words[q + 1] = 1
                                   /\ \A r \in PointsOf(p) : r < q => Block.words[r + 1] # 1}

StartOf(p) == {(Block.words[p] + Block.words[q]) \div cue.samplerate : q \in Index01(p)}

CueTrack ==
    /\ cue.state = "tracks" /\ cue.i < TrackCount
    /\ \E p \in {cue.p} :
          cue' = [cue EXCEPT !.p = NextTrack(p), !.i = @ + 1,
                    !.times = IF IsTrack(p) /\ StartOf(p) # {}
                              THEN Append(@, CHOOSE t \in StartOf(p) : TRUE) ELSE @]
    /\ UNCHANGED cuefile

ReturnTimes ==
    /\ cue.state = "tracks" /\ cue.i = TrackCount
    /\ Return(cue.times)
    /\ UNCHANGED cuefile

CueNext == OpenCueFile \/ ReadStreamInfo \/ SkipBlock \/ NoCueSheet \/ ReadCueSheet
           \/ CueTrack \/ ReturnTimes

-----------------------------------------------------------------------------
CueInit ==
    /\ cuefile \in CueFiles
    /\ cue = [state |-> "open", block |-> 1, samplerate |-> 0, p |-> 0, i |-> 0, times |-> <<>>]
CueSpec == CueInit /\ [][CueNext]_cueVars

(* Of a FLAC file the first cue sheet is read, if it is all there and has   *)
(* in front of it a rate, the last one that is told there.                  *)
RatesAt(n) == {cuefile.blocks[k].samplerate :
                 k \in {i \in DOMAIN cuefile.blocks :
                          /\ i < n /\ cuefile.blocks[i].type = BLOCK_STREAMINFO
                          /\ \A j \in i + 1 .. n - 1 : cuefile.blocks[j].type # BLOCK_STREAMINFO}}
IsFirstSheet(n) == /\ n \in DOMAIN cuefile.blocks /\ cuefile.blocks[n].type = BLOCK_CUESHEET
                   /\ \A j \in 1 .. n - 1 : cuefile.blocks[j].type # BLOCK_CUESHEET
SheetsRead == {n \in DOMAIN cuefile.blocks :
                 /\ IsFlac /\ IsFirstSheet(n) /\ cuefile.blocks[n].whole
                 /\ \E rate \in RatesAt(n) : rate # 0}

(* The tracks of an album that are listed: those of sound with an INDEX 01; *)
(* where they start, and how many of them there are up to one.              *)
FirstIndex01(t) == {j \in DOMAIN t.indices : /\ t.indices[j].number = 1
                                             /\ \A l \in 1 .. j - 1 : t.indices[l].number # 1}
Listed(album) == {k \in DOMAIN album : album[k].number <= 99 /\ FirstIndex01(album[k]) # {}}
StartsAt(t, rate) == {(t.offset + t.indices[j].offset) \div rate : j \in FirstIndex01(t)}
UpTo(album, k) == {j \in Listed(album) : j <= k}

(* What is returned of a cue sheet is the starts of the tracks that have    *)
(* one, in their order: behind a track without an INDEX 01 every track has  *)
(* the number of an earlier one.  Of a file without a cue sheet, without    *)
(* the rate in front of it or with one that is cut short it is nothing      *)
(* (flac/main.c 446-533).                                                   *)
CueGivesTheTracks ==
    cue.state = "returned" =>
       /\ SheetsRead = {} => cue.times = <<>>
       /\ \A n \in SheetsRead : \A rate \in RatesAt(n) :
             LET album == cuefile.blocks[n].album
             IN  /\ Len(cue.times) = Cardinality(Listed(album))
                 /\ \A k \in Listed(album) :
                       cue.times[Cardinality(UpTo(album, k))] \in StartsAt(album[k], rate)
=============================================================================
