------------------------------- MODULE MpcFile ------------------------------
(***************************************************************************)
(* Playing a file of Musepack: streaminfo.c, idtag.c, and of mpc_decoder.c *)
(* what sets the decoder up, seeks and decodes frame by frame, for         *)
(* mpcPlay() of mpc/main.c.  A file is [tag, begins, words]: the ID3 tag   *)
(* before it, the byte at which the stream begins, and its words.  Every   *)
(* step of a frame stands for its 32 samples; the synthesis delays by      *)
(* SYNTH_DELAY steps, and what is heard of a step is its bands.  What      *)
(* another thread does to the player meanwhile is in NativePlayer.         *)
(***************************************************************************)
EXTENDS MpcDecoder

CONSTANTS SEEKING_TABLE_SIZE,
          FAST_SEEKING_WINDOW,  (* frames, 32 in the code                   *)
          Plays,                (* files, each with the step to start at,   *)
                                (* and what the last one left in the ring   *)
          Calls                 (* what a caller of the decoder itself      *)
                                (* gives it: [si, words, back]              *)

ASSUME MpcFileAssumption == SEEKING_TABLE_SIZE \in Nat \ {0} /\ FAST_SEEKING_WINDOW \in Nat

VARIABLES take,                 (* the play, or the call                    *)
          d, fwd,               (* the decoder, and the frame sought        *)
          heard, phase,
          again                 (* the steps that a caller will seek back to *)
mpcVars == <<take, d, fwd, heard, phase, again>>

FRAME_LENGTH == 36
SYNTH_DELAY  == 15              (* of 36 steps; 481 samples of 1152         *)

(*---------------------------------- the header ----------------------------*)

JumpID3v2(tag) ==
    CASE ~ tag.present -> 0
      [] tag.present /\ (tag.unknown \/ tag.wide) -> -1
      [] tag.present /\ ~ tag.unknown /\ ~ tag.wide -> tag.size + 10 + (IF tag.footer THEN 10 ELSE 0)

Field(word, first, last) == Num(SubSeq(word, first, last))
NoInfo == [stream_version |-> 0, frames |-> 0, ms |-> FALSE, max_band |-> 0, is_true_gapless |-> FALSE,
           last_frame_samples |-> 0, channels |-> 0]

streaminfo_read_header_sv7(H) ==
    LET version == Field(H[1], 1, 8)
    IN  IF version > 113 THEN [NoInfo EXCEPT !.stream_version = version]
        ELSE [stream_version |-> version, frames |-> Num(H[2]), ms |-> H[3][2] = 1,
              max_band |-> Field(H[3], 3, 8), is_true_gapless |-> H[6][1] = 1,
              last_frame_samples |-> Field(H[6], 2, 12), channels |-> 2]

(* The oldest streams have no last frame; constant rates, intensity stereo *)
(* and other block sizes are refused.                                      *)
streaminfo_read_header_sv6(H) ==
    LET version == Field(H[1], 12, 21)
        frames  == IF version >= 5 THEN Num(H[2]) ELSE Field(H[2], 1, 16)
    IN  IF version \notin 4 .. 6 \/ Field(H[1], 1, 9) # 0 \/ H[1][10] # 0 \/ Field(H[1], 27, 32) # 1 THEN {}
        ELSE {[stream_version |-> version, frames |-> IF version < 6 THEN frames - 1 ELSE frames,
               ms |-> H[1][11] = 1, max_band |-> Field(H[1], 22, 26), is_true_gapless |-> FALSE,
               last_frame_samples |-> 0, channels |-> 2]}

(* What is read of a file, or nothing when it is refused.  MPPlus is what  *)
(* every stream has to begin with, also one that is too old to.            *)
MPPlus == BitsOf(2838605, 24)
mpc_streaminfo_read(file) ==
    LET H == file.words
    IN  IF JumpID3v2(file.tag) # file.begins \/ Len(H) < 8 THEN {}
        ELSE IF SubSeq(H[1], 9, 32) # MPPlus \/ Field(H[1], 5, 8) > 7 THEN {}
        ELSE IF Field(H[1], 5, 8) = 7 THEN {streaminfo_read_header_sv7(H)}
        ELSE streaminfo_read_header_sv6(H)
Playable(file) == {si \in mpc_streaminfo_read(file) : si.channels \in {1, 2}}

mpc_streaminfo_get_length_samples(si) ==
    si.frames * FRAME_LENGTH
    - (IF si.is_true_gapless THEN FRAME_LENGTH - si.last_frame_samples ELSE SYNTH_DELAY)

(*--------------------------------- the decoder ----------------------------*)

Silence(si) == Repeat(<<0, 0>>, si.max_band + 1)
reset_v(si) == Repeat(Silence(si), SYNTH_DELAY)
reset_y(si) == Repeat(Silence(si), FRAME_LENGTH)

get_initial_fpos(si) == CASE si.stream_version = 4 -> 48
                          [] si.stream_version \in {5, 6} -> 64
                          [] si.stream_version \in {7, 23} -> 200
                          [] OTHER -> 0

(* The table has an entry for every 2^seeking_pwr frames.                  *)
seeking_pwr(si) == CHOOSE p \in 0 .. si.frames :
                     /\ si.frames <= SEEKING_TABLE_SIZE * 2 ^ p
                     /\ p = 0 \/ si.frames > SEEKING_TABLE_SIZE * 2 ^ (p - 1)

(* mpc_decoder_setup(), mpc_decoder_set_streaminfo(): the decoder is the   *)
(* same one for every file, and its ring is not emptied.                   *)
One == Repeat(0, 31) \o <<1>>
Fresh(words, si, stale) ==
    [words |-> words, si |-> si, at |-> 0, Speicher |-> stale, dword |-> Repeat(0, 32),
     Zaehler |-> 0, pos |-> 0, WordsRead |-> 0, v |-> 0, q |-> <<>>, gone |-> FALSE,
     r1 |-> One, r2 |-> One,
     Res |-> Every(0), SCFI |-> Every(0), DSCF_Flag |-> Every(FALSE), SCF_Index |-> Every(<<0, 0, 0>>),
     Q |-> Every(Repeat(0, 36)), MS_Flag |-> [n \in AllBands |-> FALSE],
     Y |-> reset_y(si), V |-> reset_v(si), buffer |-> <<>>,
     DecodedFrames |-> 0, FrameWasValid |-> FALSE, samples_to_skip |-> SYNTH_DELAY,
     seeking_table |-> [n \in 0 .. SEEKING_TABLE_SIZE - 1 |-> IF n = 0 THEN get_initial_fpos(si) ELSE 0],
     seeking_table_frames |-> 0]
mpc_decoder_initialize(words, si, stale) == mpc_decoder_seek(Fresh(words, si, stale), get_initial_fpos(si))

Remembered(x) ==
    LET every == 2 ^ seeking_pwr(x.si)
    IN  IF x.seeking_table_frames < x.DecodedFrames /\ x.DecodedFrames % every = 0
        THEN [x EXCEPT !.seeking_table[x.DecodedFrames \div every] = mpc_decoder_bits_read(x),
                       !.seeking_table_frames = x.DecodedFrames]
        ELSE x

(* A delay line stands for the filter of MpcSynthesis.                     *)
synthese_filter(x) ==
    The({[x EXCEPT !.buffer = @ \o SubSeq(all, 1, FRAME_LENGTH),
                   !.V = SubSeq(all, FRAME_LENGTH + 1, FRAME_LENGTH + SYNTH_DELAY)] : all \in {x.V \o x.Y}})

(* The last frame is followed by how many of its samples there are, and    *)
(* the filter is emptied for those that are still in it.                   *)
Ending(x) ==
    IF ~ x.si.is_true_gapless THEN [x EXCEPT !.Y = reset_y(x.si)]
    ELSE mpc_decoder_requantisierung(mpc_decoder_read_bitstream_sv7(mpc_decoder_bitstream_read(x, 20), FALSE))
Decay(x, samples) == (samples + SYNTH_DELAY) % FRAME_LENGTH
CutTo(x, n) == [x EXCEPT !.buffer = SubSeq(@, 1, n)]
Tailed(x, samples) ==
    IF samples + SYNTH_DELAY >= FRAME_LENGTH
    THEN CutTo(synthese_filter(Ending(x)), FRAME_LENGTH + Decay(x, samples))
    ELSE CutTo(x, Decay(x, samples))
LastFrame(x) ==
    IF x.DecodedFrames # x.si.frames \/ x.si.stream_version < 6 THEN x
    ELSE The({Tailed(y, IF y.v = 0 THEN FRAME_LENGTH ELSE y.v) : y \in {mpc_decoder_bitstream_read(x, 11)}})

Skipped(x) ==
    IF Len(x.buffer) < x.samples_to_skip
    THEN [x EXCEPT !.samples_to_skip = @ - Len(x.buffer), !.buffer = <<>>]
    ELSE [x EXCEPT !.samples_to_skip = 0, !.buffer = SubSeq(@, x.samples_to_skip + 1, Len(@))]

(* A frame is right when it takes as many bits as it was said to.          *)
Frame(x, length, from) ==
    [mpc_decoder_requantisierung(x) EXCEPT !.FrameWasValid = mpc_decoder_bits_read(x) - from = length,
                                           !.DecodedFrames = @ + 1, !.buffer = <<>>]
Body(x) == The({Frame(y, x.v, mpc_decoder_bits_read(x)) : y \in {ReadBitstream(x, FALSE)}})
mpc_decoder_decode_internal(x) ==
    Skipped(LastFrame(synthese_filter(Body(mpc_decoder_bitstream_read(Remembered(x), 20)))))
OverallFrames(x) == x.si.frames
Ended(x) == x.DecodedFrames >= OverallFrames(x) \/ x.si.stream_version \notin {4, 5, 6, 7, 23}

(*---------------------------------- seeking -------------------------------*)

Silenced(x, target) ==
    IF target > x.DecodedFrames + FAST_SEEKING_WINDOW \/ target < x.DecodedFrames
    THEN [x EXCEPT !.SCF_Index = Every(Repeat(16843009, 3))] ELSE x
Rounded(x, n) == (n \div 2 ^ seeking_pwr(x.si)) * 2 ^ seeking_pwr(x.si)
Rewound(x, target) ==
    LET wished == IF target > FAST_SEEKING_WINDOW THEN Rounded(x, target - FAST_SEEKING_WINDOW) ELSE 0
        frame  == Smaller(wished, x.seeking_table_frames)
    IN  IF x.seeking_table_frames <= x.DecodedFrames /\ target >= x.DecodedFrames THEN x
        ELSE mpc_decoder_seek([x EXCEPT !.DecodedFrames = frame],
                              x.seeking_table[frame \div 2 ^ seeking_pwr(x.si)])
Sought(x, destsample) == Smaller(destsample \div FRAME_LENGTH, OverallFrames(x))
mpc_decoder_seek_sample(x, destsample) ==
    Rewound(Silenced([x EXCEPT !.samples_to_skip = SYNTH_DELAY + (destsample % FRAME_LENGTH),
                               !.V = reset_v(x.si)], Sought(x, destsample)), Sought(x, destsample))

(* The frames before the one sought are jumped over; of those next to it   *)
(* the scale factors are read.                                             *)
Passed(x, end) ==
    The({[mpc_decoder_bitstream_jump(y, end - mpc_decoder_bits_read(y)) EXCEPT !.DecodedFrames = @ + 1] : y \in
           {IF fwd > x.DecodedFrames + FAST_SEEKING_WINDOW THEN x
            ELSE IF x.si.stream_version >= 7 THEN mpc_decoder_read_bitstream_sv7(x, TRUE)
            ELSE mpc_decoder_read_bitstream_sv6(x, TRUE)}})
Scanned(x) ==
    The({Passed(y, y.v + mpc_decoder_bits_read(y)) : y \in {mpc_decoder_bitstream_read(Remembered(x), 20)}})

(*---------------------------------- playing -------------------------------*)

StartAt(x, destsample) ==
    \E y \in {mpc_decoder_seek_sample(x, destsample)} :
       d' = y /\ fwd' = Sought(x, destsample) /\ phase' = "scanning"
mpcPlay ==
    /\ phase = "opened"
    /\ \/ Playable(take.file) = {} /\ phase' = "refused" /\ UNCHANGED <<d, fwd>>
       \/ \E si \in Playable(take.file) :
            \E x \in {mpc_decoder_initialize(take.file.words, si, take.stale)} :
               \/ take.start = 0 /\ d' = x /\ phase' = "playing" /\ UNCHANGED fwd
               \/ take.start # 0 /\ StartAt(x, take.start)
    /\ UNCHANGED <<take, heard, again>>

Scan ==
    /\ phase = "scanning" /\ d.DecodedFrames < fwd
    /\ d' = mpc_decoder_update_buffer(Scanned(d), d.Zaehler)
    /\ UNCHANGED <<take, fwd, heard, phase, again>>
ScanEnds ==
    /\ phase = "scanning" /\ d.DecodedFrames >= fwd
    /\ phase' = "playing" /\ UNCHANGED <<take, d, fwd, heard, again>>

(* Samples are cut to 16 bits.                                             *)
Clipped(v) == IF v < -32768 THEN -32768 ELSE IF v > 32767 THEN 32767 ELSE v
ToPcm(buffer) == [k \in DOMAIN buffer |-> [n \in DOMAIN buffer[k] |->
                    <<Clipped(buffer[k][n][1]), Clipped(buffer[k][n][2])>>]]

(* mpc_decoder_decode(): one frame.  A wrong one is not heard, and ends it *)
(* all.                                                                    *)
mpc_decoder_decode ==
    /\ phase = "playing" /\ ~ Ended(d)
    /\ \E x \in {mpc_decoder_decode_internal(d)} :
         \/ /\ x.FrameWasValid
            /\ heard' = heard \o ToPcm(x.buffer) /\ d' = [mpc_decoder_update_buffer(x, d.Zaehler) EXCEPT !.buffer = <<>>]
            /\ UNCHANGED phase
         \/ ~ x.FrameWasValid /\ phase' = "broken" /\ UNCHANGED <<d, heard>>
    /\ UNCHANGED <<take, fwd, again>>
End ==
    /\ phase = "playing" /\ Ended(d)
    /\ phase' = "done" /\ UNCHANGED <<take, d, fwd, heard, again>>

(* A caller of the decoder opens a stream of any version, and seeks back   *)
(* once, before a frame it likes.                                          *)
Call ==
    /\ phase = "called"
    /\ d' = mpc_decoder_initialize(take.words, take.si, take.stale)
    /\ phase' = "playing" /\ UNCHANGED <<take, fwd, heard, again>>
SeekBack ==
    /\ phase = "playing" /\ d.DecodedFrames >= 1
    /\ \E destsample \in again :
         StartAt(d, destsample) /\ take' = [take EXCEPT !.start = destsample]
    /\ heard' = <<>> /\ again' = {}

MpcInit ==
    /\ \/ take \in Plays /\ phase = "opened" /\ again = {}
       \/ take \in Calls /\ phase = "called" /\ again = take.back
    /\ d = [words |-> <<>>] /\ fwd = 0 /\ heard = <<>>
MpcNext == mpcPlay \/ Scan \/ ScanEnds \/ mpc_decoder_decode \/ End \/ Call \/ SeekBack
=============================================================================
