------------------------------ MODULE FlacSeek ------------------------------
(***************************************************************************)
(* How flacPlay() opens a file and finds the frame to start from:          *)
(* flac_init(), frame_sync() and flac_seek() of flac/main.c.  A file is    *)
(* what the three can tell apart:                                          *)
(*   [blocks |-> the metadata: [type, length, points], where points are    *)
(*               the entries [sample, offset] of a SEEKTABLE,              *)
(*    frames |-> of each frame its position at, its first sample, and how  *)
(*               many samples and bytes it has,                            *)
(*    fakes  |-> the positions of other bytes that look like a header,     *)
(*    size, info |-> the bytes of the file, and what STREAMINFO says]      *)
(* The placeholders of a SEEKTABLE and entries beyond 32 bits, which the   *)
(* code skips, are left out of points; an ID3 tag in front shows only in   *)
(* the positions of the frames.                                            *)
(***************************************************************************)
EXTENDS Integers, Sequences, FiniteSetsExt, Functions

CONSTANTS Files,        (* the files                                       *)
          RawBytes,     (* channels * bps / 8                              *)
          Slack,        (* the 64 bytes that a frame is thought to add     *)
          GuessedBlock, (* the 4608 samples of an unknown block size       *)
          FakeBytes,    (* what the decoder reads of a fake before it fails *)
          MaxTries,     (* 10 unparseable frames in a row                  *)
          Second        (* the samples of a second                         *)

ASSUME SeekAssumption == {RawBytes, Slack, GuessedBlock, FakeBytes, MaxTries, Second} \subseteq Nat \ {0}

STREAMINFO == 0
SEEKTABLE == 3

Blocks(f, type) == {k \in DOMAIN f.blocks : f.blocks[k].type = type}
Points(f) == IF Blocks(f, SEEKTABLE) = {} THEN <<>>
             ELSE f.blocks[CHOOSE k \in Blocks(f, SEEKTABLE) : TRUE].points

(* The metadata as flac_init() counts it: without an ID3 tag in front. *)
metadatalength(f) == 4 + SumFunction([k \in DOMAIN f.blocks |-> f.blocks[k].length + 4])

(* The samples of a file, which its STREAMINFO need not tell. *)
Samples(f) == LET last == f.frames[Len(f.frames)] IN last.first + last.samples

(* The frames follow the metadata and one another, each with its samples   *)
(* as they are if they did not become smaller; all but the last of a file  *)
(* of fixed blocksize have that size; and a SEEKTABLE is of frames.        *)
FixedSize(f) == f.info.min_blocksize = f.info.max_blocksize
ASSUME FilesAssumption ==
    \A f \in Files :
        /\ f.frames \in Seq([at : Nat, first : Nat, samples : Nat \ {0}, bytes : Nat \ {0}]) \ {<<>>}
        /\ f.frames[1].first = 0 /\ metadatalength(f) \in 0 .. f.frames[1].at
        /\ \A k \in DOMAIN f.frames :
              LET this == f.frames[k]
                  end  == this.at + this.bytes
              IN  /\ this.bytes <= this.samples * RawBytes + Slack
                  /\ IF k = Len(f.frames) THEN f.size = end
                     ELSE f.frames[k + 1].at = end /\ f.frames[k + 1].first = this.first + this.samples
                  /\ FixedSize(f) => /\ this.samples <= f.info.min_blocksize
                                     /\ k < Len(f.frames) => this.samples = f.info.min_blocksize
        /\ f.info.totalsamples \in {0, Samples(f)}
        /\ {f.info.min_blocksize, f.info.max_blocksize, f.info.min_framesize, f.info.max_framesize} \subseteq Nat
        /\ Points(f) \in Seq({[sample |-> x.first, offset |-> x.at - f.frames[1].at] : x \in Range(f.frames)})

VARIABLES
  file, target,         (* the file, and target_sample                     *)
  seek,                 (* "open", "first", "again": about to call         *)
                        (* flac_seek(), "search", "retry",                 *)
                        (* "found", "failed", or "dead" with the process   *)
  lo, hi,               (* seek_lo, seek_hi                                *)
  lower, upper,         (* lower_bound, upper_bound: [pos, sample]         *)
  approx,               (* approx_bytes_per_frame                          *)
  pos, needs_seek, first_seek,
  fd                    (* the position that is played from                *)

bounds == <<lower, upper, approx, pos, needs_seek, first_seek>>
seekVars == <<file, target, seek, lo, hi, bounds, fd>>

(* The entries of the SEEKTABLE around the target: the first one behind it, *)
(* and the one before that.                                                 *)
Bracket(points, t) ==
    LET none   == [sample |-> 0, offset |-> 0]
        behind == {k \in DOMAIN points : points[k].sample > t}
        k      == IF behind = {} THEN Len(points) + 1 ELSE Min(behind)
    IN  [lo |-> IF k = 1 THEN none ELSE points[k - 1],
         hi |-> IF behind = {} THEN none ELSE points[k]]

(* fc->length, in milliseconds: 0 when STREAMINFO does not tell the samples *)
(* of the file, or less than a millisecond of them.                         *)
Milliseconds(info) == (info.totalsamples * 1000) \div Second

(* The bitrate, which nothing else reads, is the bits divided by fc->length. *)
flac_init ==
    /\ seek = "open"
    /\ lo' = Bracket(Points(file), target).lo
    /\ hi' = Bracket(Points(file), target).hi
    /\ seek' = IF Blocks(file, STREAMINFO) = {} THEN "failed"
               ELSE IF Milliseconds(file.info) = 0 THEN "dead" ELSE "first"
    /\ UNCHANGED <<file, target, bounds, fd>>

(* The guess of a frame's size, and the bounds that flac_seek() begins with. *)
Guess(i) ==
    IF i.max_framesize > 0 THEN (i.max_framesize + i.min_framesize) \div 2 + 1
    ELSE IF i.min_blocksize = i.max_blocksize /\ i.min_blocksize > 0
         THEN i.min_blocksize * RawBytes + Slack
         ELSE GuessedBlock * RawBytes + Slack

Bounded == lo.sample < hi.sample /\ lo.offset <= hi.offset
Bound(point) == [pos |-> metadatalength(file) + point.offset, sample |-> point.sample]

LastSample == IF file.info.totalsamples > 0 THEN file.info.totalsamples ELSE target

Begin ==
    /\ seek \in {"first", "again"}
    /\ seek' = IF seek = "first" THEN "search" ELSE "retry"
    /\ approx' = Guess(file.info)
    /\ lower' = IF Bounded THEN Bound(lo) ELSE [pos |-> metadatalength(file), sample |-> 0]
    /\ upper' = IF Bounded THEN Bound(hi) ELSE [pos |-> file.size, sample |-> LastSample]
    /\ needs_seek' = TRUE /\ first_seek' = TRUE /\ pos' = -1
    /\ UNCHANGED <<file, target, lo, hi, fd>>

(* Where frame_sync() comes to from a position: a frame, a fake or the end. *)
HeadersOf(f) == {frame.at : frame \in Range(f.frames)}
Synced(f, p) == Min({h \in HeadersOf(f) \cup f.fakes : h >= p} \cup {f.size})

(* Up to MaxTries calls: behind a fake it goes on from what was read of it. *)
frame_sync(f, p) ==
    LET sync[n \in 1 .. MaxTries] ==
          IF n = 1 THEN Synced(f, p)
          ELSE IF sync[n - 1] \in f.fakes THEN Synced(f, sync[n - 1] + FakeBytes) ELSE sync[n - 1]
    IN  sync[MaxTries]

Probed(p) == {frame \in Range(file.frames) : frame.at \in {frame_sync(file, p)}}

(* The position to look at next: interpolated, or the one behind a frame. *)
Interpolated ==
    lower.pos - approx
        + ((target - lower.sample) * (upper.pos - lower.pos)) \div (upper.sample - lower.sample)
PositionBelowLower ==                   (* mutant: may fall below the lower bound *)
    IF needs_seek THEN Min({Interpolated, upper.pos - 1}) ELSE pos

Position == IF needs_seek THEN Max({Min({Interpolated, upper.pos - 1}), lower.pos}) ELSE pos

Searching == seek \in {"search", "retry"}
BoundsAreOk == lower.sample < upper.sample /\ lower.pos <= upper.pos

Holds(frame)  == frame.first <= target /\ target < frame.first + frame.samples
Beyond(frame) == frame.first + frame.samples >= upper.sample /\ ~ first_seek

Astray(frame) == frame.first < lower.sample

(* flac_seek() returns false: flacPlay() tries one second further on. *)
GiveUp ==
    /\ IF seek = "search" THEN seek' = "again" /\ target' = target + Second
                          ELSE seek' = "failed" /\ target' = target
    /\ UNCHANGED <<file, lo, hi, bounds, fd>>

Stuck(p, frame) ==
    /\ ~ Holds(frame)
    /\ IF Beyond(frame) THEN p = lower.pos \/ ~ needs_seek ELSE Astray(frame)
    /\ GiveUp

FindFrame(frame) ==
    /\ Holds(frame) /\ fd' = frame.at
    /\ seek' = "found"
    /\ UNCHANGED <<file, target, lo, hi, bounds>>

StepBackAgain(p, frame) ==              (* mutant: as far as the last time *)
    /\ ~ Holds(frame) /\ Beyond(frame) /\ needs_seek /\ p # lower.pos
    /\ pos' = p
    /\ UNCHANGED <<file, target, seek, lo, hi, lower, upper, approx, needs_seek, first_seek, fd>>

(* The last step back was not enough: twice as far. *)
StepBack(p, frame) ==
    /\ ~ Holds(frame) /\ Beyond(frame) /\ needs_seek /\ p # lower.pos
    /\ approx' = approx * 2 /\ pos' = p
    /\ UNCHANGED <<file, target, seek, lo, hi, lower, upper, needs_seek, first_seek, fd>>

(* The target is in front of the frame; or behind it, and if it is close the *)
(* next frames are read one after the other.                                 *)
Close(frame) == target < frame.first + 4 * frame.samples
NarrowUpper(p, frame) ==
    /\ target < frame.first
    /\ upper' = [pos |-> frame.at, sample |-> frame.first]
    /\ pos' = p
    /\ UNCHANGED <<lower, needs_seek>>
NarrowLower(p, frame) ==
    /\ target >= frame.first + frame.samples
    /\ lower' = [pos |-> frame.at + frame.bytes, sample |-> frame.first + frame.samples]
    /\ pos' = IF Close(frame) THEN frame.at + frame.bytes ELSE p
    /\ needs_seek' = (needs_seek /\ ~ Close(frame))
    /\ UNCHANGED upper
Narrow(p, frame) ==
    /\ ~ Holds(frame) /\ ~ Beyond(frame) /\ ~ Astray(frame)
    /\ NarrowUpper(p, frame) \/ NarrowLower(p, frame)
    /\ approx' = frame.samples * RawBytes + Slack
    /\ first_seek' = FALSE
    /\ UNCHANGED <<file, target, seek, lo, hi, fd>>

(* A turn of the loop: no bounds to look in, no frame to be found, or one. *)
NoFrame == /\ Searching
           /\ BoundsAreOk => \E p \in {Position} : Probed(p) = {}
           /\ GiveUp
Turn == /\ Searching /\ BoundsAreOk
        /\ \E p \in {Position} : \E frame \in Probed(p) :
              \/ FindFrame(frame) \/ Stuck(p, frame) \/ StepBack(p, frame) \/ Narrow(p, frame)

flac_seek == Begin \/ NoFrame \/ Turn
SeekNext == flac_init \/ flac_seek

-----------------------------------------------------------------------------
(* A seek of the player: to the beginning of a second of the track. *)
SeekInit ==
    /\ file \in Files /\ target \in Nat \ {0} /\ seek = "open"
    /\ lo = [sample |-> 0, offset |-> 0] /\ hi = lo
    /\ lower = [pos |-> 0, sample |-> 0] /\ upper = lower
    /\ approx = 0 /\ pos = -1 /\ needs_seek = TRUE /\ first_seek = TRUE /\ fd = 0
SeekSpec == SeekInit /\ [][SeekNext]_seekVars

(* A seek in a file of fixed blocksize finds its frame at once, unless the  *)
(* file has an ID3 tag, by which the offsets of the SEEKTABLE are wrong;    *)
(* or, where there are no entries around the target, the last frame is      *)
(* longer than the guess; or something that looks like a frame is more than *)
(* frame_sync() gets past (flac/main.c 302-462).  Of a file whose number of *)
(* samples is not known nothing is sought: flac_init() has divided by 0.    *)
HasId3      == file.frames[1].at # metadatalength(file)
LastIsLong  == file.frames[Len(file.frames)].bytes > Guess(file.info)
FakesArePassed ==
    \A p \in 0 .. file.size :
       frame_sync(file, p) = Min({at \in HeadersOf(file) : at >= p} \cup {file.size})
SeekFinds ==
    (seek = "again" /\ FixedSize(file)) =>
       LET t == target - Second
       IN  \/ t >= Samples(file)
           \/ IF Bounded THEN HasId3 ELSE LastIsLong
           \/ ~ FakesArePassed
=============================================================================
