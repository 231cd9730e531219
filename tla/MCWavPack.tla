------------------------------ MODULE MCWavPack -----------------------------
(* Files of WavPack in every mode, whole and damaged, for TLC; those that    *)
(* the library's own encoder does not make are made here.                    *)
EXTENDS WavPackFile, FiniteSets

(*--------------------------------- sound ---------------------------------*)

(* n moments, up to an amplitude; loud, quiet and silent in turns if wanted. *)
Wave(n, channels, seed, amplitude, quiet) ==
    [k \in 1 .. n |-> [c \in 1 .. channels |->
        IF quiet /\ k % 16 \in 3 .. 11 THEN (IF k % 16 = 7 /\ c = 1 THEN seed - 3 ELSE 0)
        ELSE ((k * k * 37 * seed + 101 * k * c) % (2 * amplitude + 1)) - amplitude]]

F == [mono |-> FALSE, false_stereo |-> FALSE, joint |-> TRUE, cross |-> TRUE, hybrid |-> FALSE,
      bitrate |-> FALSE, balance |-> FALSE, bytes |-> 1, shift |-> 0, mag |-> 0, float |-> FALSE,
      int32 |-> FALSE, initial |-> TRUE, final |-> TRUE, unknown |-> FALSE, rate |-> 44, srate |-> 10]
Mono == [F EXCEPT !.mono = TRUE]
Blocks == <<<<5, 15>>, <<1, 8>>, <<10>>, <<6>>>>

Made(mode, f, pcm, wrapper) ==
    WavpackFile(WavpackAddWrapper(WavpackSetConfiguration(mode, f, Len(pcm)), wrapper), pcm, Blocks)
Times(pcm, factor) == [k \in 1 .. Len(pcm) |-> [c \in 1 .. Len(pcm[k]) |-> pcm[k][c] * factor]]
Whole(name, file, heard) == [name |-> name, file |-> file, heard |-> heard, damage |-> "none", gap |-> {}]

(*--------------------- what the encoder does not make ---------------------*)

(* Terms that only the decoder knows. *)
ForeignMoment(p, m, x) ==
    LET seen == <<p.s[1][1], IF p.term = -1 THEN x[1] ELSE p.s[2][1]>>
        r == <<x[1] - apply_weight(p.w[1], seen[1]), x[2] - apply_weight(p.w[2], seen[2])>>
    IN  IF p.term > 0 \/ p.term = -2 THEN PackMoment(p, m, x)
        ELSE [x |-> r,
              p |-> [p EXCEPT !.w = <<update_weight_clip(@[1], p.delta, seen[1], r[1]),
                                      update_weight_clip(@[2], p.delta, seen[2], r[2])>>,
                              !.s = <<[@[1] EXCEPT ![1] = x[2]], [@[2] EXCEPT ![1] = x[1]]>>]]
ForeignPass(p, moments) ==
    Iterate(LAMBDA r, k : LET y == ForeignMoment(r.p, k - 1, moments[k])
                          IN  [p |-> y.p, out |-> Append(r.out, y.x)],
            [p |-> p, out |-> <<>>], Len(moments)).out

(* One block of residuals that are made elsewhere, with metadata before the  *)
(* sound.                                                                    *)
Block(f, metadata, w, crc, n) ==
    [hdr |-> [version |-> 1032, total_samples |-> n, block_index |-> 0, block_samples |-> n,
              crc |-> crc, flags |-> f],
     chunks |-> Append(metadata, [id |-> ID_WV_BITSTREAM, odd |-> FALSE, large |-> TRUE,
                                  count |-> Len(w.bs) \div 16, data |-> w.bs])]
Shut(w) == bs_close_write(flush_word(w))
ForeignFile(f, passes, pcm, metadata) ==
    LET out == Iterate(LAMBDA r, k : ForeignPass(passes[k], r), pcm, Len(passes))
    IN  <<Block(f, <<write_decorr_terms(passes)>> \o metadata,
                Shut(send_words(init_words, Concat(out), Channels(f))),
                Crc(2 ^ CrcBits - 1, pcm), Len(pcm))>>

(* Hybrid mode: a value is halved until it is near enough. *)
RECURSIVE HalvedTo(_, _, _, _)
HalvedTo(value, low, high, limit) ==
    LET mid == (high + low + 1) \div 2
    IN  CASE high - low <= limit -> [v |-> mid, bits |-> <<>>]
          [] high - low > limit /\ value >= mid ->
               [HalvedTo(value, mid, high, limit) EXCEPT !.bits = <<1>> \o @]
          [] OTHER -> [HalvedTo(value, low, mid - 1, limit) EXCEPT !.bits = <<0>> \o @]
Near(zone, v) ==
    IF zone.c.error_limit = 0 THEN [v |-> v, bits |-> Coded(zone.high - zone.low, v - zone.low)]
    ELSE HalvedTo(v, zone.low, zone.high, zone.c.error_limit)
SendNearly(r, w, chan, f, number, c, near, sign) ==
    LET level == IF f.bitrate THEN Decayed(c) + mylog2(near.v) ELSE c.slow_level
    IN  [w |-> Free(Sent(Hold([w EXCEPT !.c[chan] = [c EXCEPT !.slow_level = level]], number),
                         near.bits \o <<sign>>)),
         out |-> Append(r.out, IF sign = 1 THEN - near.v - 1 ELSE near.v)]
SendNearIn(r, w, chan, f, number, zone, v, sign) ==
    SendNearly(r, w, chan, f, number, zone.c, Near(zone, v), sign)
SendNearOf(r, w, chan, f, number, v, sign) ==
    SendNearIn(r, w, chan, f, number, Zone(w.c[chan], number), v, sign)
SendNearTo(r, w, chan, f, v, sign) == SendNearOf(r, w, chan, f, ZoneNumber(w.c[chan], v), v, sign)
SendNear(r, chan, value, f) ==
    SendNearTo(r, IF f.mono \/ chan = 1 THEN update_error_limit(r.w, f) ELSE r.w, chan, f,
               IF value < 0 THEN - value - 1 ELSE value, IF value < 0 THEN 1 ELSE 0)
SendHybrid(r, chan, value, f) ==
    LET w == r.w
        zero(x) == [w |-> [x EXCEPT !.c[chan].slow_level = Decayed(x.c[chan])], out |-> Append(r.out, 0)]
    IN  IF value = 0 /\ Silent(w) /\ w.holding_zero = 0
        THEN zero(IF w.zeros_acc > 0 THEN [w EXCEPT !.zeros_acc = @ + 1] ELSE [ClearMedians(w) EXCEPT !.zeros_acc = 1])
        ELSE SendNear([r EXCEPT !.w = BeforeWord(w)], chan, value, f)
HybridFile(f, pcm, acc, delta) ==
    LET n == Channels(f)
        levels == IF f.bitrate THEN SubSeq(<<2000, 1500>>, 1, n) ELSE <<>>
        profile == levels \o SubSeq(acc, 1, n) \o (IF delta = <<>> THEN <<>> ELSE SubSeq(delta, 1, n))
        start == [init_words EXCEPT !.acc = [c \in 1 .. 2 |-> acc[c] * 2 ^ 16],
                                    !.delta = IF delta = <<>> THEN <<0, 0>> ELSE <<exp2s(delta[1]), exp2s(delta[2])>>,
                                    !.c = [c \in 1 .. 2 |-> [@[c] EXCEPT !.slow_level =
                                             IF f.bitrate THEN exp2s(<<2000, 1500>>[c]) ELSE 0]]]
        flat == Concat(pcm)
        sent == Iterate(LAMBDA r, k : SendHybrid(r, IF n = 1 THEN 1 ELSE 2 - (k % 2), flat[k], f),
                        [w |-> start, out |-> <<>>], Len(flat))
        near == [k \in 1 .. Len(pcm) |-> SubSeq(sent.out, (k - 1) * n + 1, k * n)]
    IN  [file |-> <<Block(f, <<copy_metadata(ID_HYBRID_PROFILE, 2 * Len(profile), profile)>>,
                          Shut(sent.w), Crc(2 ^ CrcBits - 1, near), Len(pcm))>>,
         near |-> near]

(*---------------------------------- files --------------------------------*)

Speech == Wave(45, 2, 5, 3000, FALSE)
Pauses == Wave(45, 2, 3, 40, TRUE)
OneVoice == Wave(45, 1, 7, 100, TRUE)
Wide == Wave(45, 2, 3, 300000, FALSE)
Fine == Wave(45, 2, 3, 25000, FALSE)

Foreign == ForeignFile([F EXCEPT !.joint = FALSE, !.mag = 15, !.rate = 7, !.srate = 16],
                       <<Pass(-1, 3), Pass(8, 2), Pass(-3, 7), Pass(1, 2), Pass(5, 2)>>, Speech,
                       <<copy_metadata(ID_SAMPLE_RATE, 3, <<7, 0, 0>>), copy_metadata(34, 600, <<>>),
                         copy_metadata(ID_CHANNEL_INFO, 2, <<2, 3>>)>>)
FalseStereo ==
    LET file == Made("default", [Mono EXCEPT !.bytes = 1], OneVoice, <<>>)
    IN  [k \in 1 .. Len(file) |-> [file[k] EXCEPT !.hdr.flags.mono = FALSE, !.hdr.flags.false_stereo = TRUE]]
Twice(pcm) == [k \in 1 .. Len(pcm) |-> <<pcm[k][1], pcm[k][1]>>]

(* More than two channels: a block of the others behind every block. *)
Surround ==
    LET front == Made("fast", F, Speech, <<>>)
        rear == Made("fast", F, Pauses, <<>>)
        four(b) == [b EXCEPT !.hdr.flags.final = FALSE,
                             !.chunks = <<copy_metadata(ID_CHANNEL_INFO, 2, <<4, 51>>)>> \o @]
    IN  [k \in 1 .. 8 |-> IF k % 2 = 1 THEN four(front[(k + 1) \div 2])
                          ELSE [rear[k \div 2] EXCEPT !.hdr.flags.initial = FALSE]]

(* Integers of 32 bits of which the lowest are all the same, and floats. *)
Int32(info) ==
    ForeignFile([F EXCEPT !.joint = FALSE, !.bytes = 3, !.int32 = TRUE, !.mag = 15], <<Pass(17, 2)>>, Speech,
                <<copy_metadata(ID_INT32_INFO, 4, info)>>)
Floats == ForeignFile([F EXCEPT !.joint = FALSE, !.bytes = 3, !.float = TRUE, !.mag = 23], <<Pass(18, 2)>>, Fine,
                      <<copy_metadata(ID_FLOAT_INFO, 4, <<0, 0, 126, 127>>)>>)
Upper16(x, n) == [k \in 1 .. Len(x) |-> [c \in 1 .. 2 |-> Floor(x[k][c], n)]]
Redundant(x, op(_)) == [k \in 1 .. Len(x) |-> [c \in 1 .. 2 |-> Floor(op(x[k][c]), 16)]]

HybridStereo == [F EXCEPT !.joint = FALSE, !.hybrid = TRUE, !.bitrate = TRUE, !.balance = TRUE, !.mag = 15]
NearStereo == HybridFile(HybridStereo, Speech, <<600, 500>>, <<>>)
NearMono == HybridFile([HybridStereo EXCEPT !.mono = TRUE, !.balance = FALSE], OneVoice, <<300, 0>>, <<2600, 0>>)
NearLevel == HybridFile([HybridStereo EXCEPT !.bitrate = FALSE, !.balance = FALSE], Pauses, <<800, 500>>, <<>>)

Default == Made("default", F, Speech, Repeat(0, 44))
High == Made("high", [F EXCEPT !.joint = FALSE, !.rate = 7], Pauses, <<>>)

(* A block is missing, or of a version that is not known, or one bit of one  *)
(* is wrong, or its header says that it is less loud than it is.             *)
Without(s, k) == SubSeq(s, 1, k - 1) \o SubSeq(s, k + 1, Len(s))
Begin0(c, k) == IF k > Len(c.file) THEN Len(c.heard) ELSE c.file[k].hdr.block_index
Lost(c, k) == [c EXCEPT !.file = Without(@, k), !.damage = "lost",
                        !.gap = IF k = 1 THEN {} ELSE Begin0(c, k) .. Begin0(c, k + 2) - 1]
Lower(c, k) == [c EXCEPT !.file[k].hdr.flags.mag = 11, !.damage = "flipped"]
Newer(c, k) == [Lost(c, k) EXCEPT !.file = [c.file EXCEPT ![k].hdr.version = 1041]]
Flipped(c, k, bit) == [c EXCEPT !.file[k].chunks[Len(c.file[k].chunks)].data[bit] = 1 - @, !.damage = "flipped"]

MCCases ==
    LET default == Whole("default", Default, Speech)
        high == Whole("high", High, Pauses)
    IN  {default, high,
         Whole("fast", Made("fast", [F EXCEPT !.bytes = 0], Pauses, Repeat(0, 1501)), Times(Pauses, 256)),
         Whole("mono", Made("high", [Mono EXCEPT !.shift = 4, !.rate = 8], OneVoice, <<>>), Times(OneVoice, 16)),
         Whole("foreign", Foreign, Speech), Whole("false stereo", FalseStereo, Twice(OneVoice)),
         Whole("surround", Surround, Speech), Whole("wide", Made("default", [F EXCEPT !.bytes = 2], Wide, <<>>), Upper16(Wide, 8)),
         Whole("zeros", Int32(<<0, 6, 0, 0>>), Redundant(Speech, LAMBDA v : v * 64)),
         Whole("ones", Int32(<<0, 0, 6, 0>>), Redundant(Speech, LAMBDA v : v * 64 + 63)),
         Whole("dups", Int32(<<0, 0, 0, 6>>), Redundant(Speech, LAMBDA v : v * 64 + (v % 2) * 63)),
         Whole("sent", Int32(<<6, 0, 0, 0>>), Redundant(Speech, LAMBDA v : v * 64)),
         Whole("floats", Floats, Upper16(Fine, 9)),
         Whole("near", NearStereo.file, NearStereo.near), Whole("near mono", NearMono.file, NearMono.near),
         Whole("near level", NearLevel.file, NearLevel.near)}
        \cup {Lost(c, k) : c \in {default, high}, k \in 1 .. 4}
        \cup {[Lost(Whole("surround", Surround, Speech), k) EXCEPT !.damage = "noise"] : k \in {3, 5}}
        \cup {Lower(default, k) : k \in 1 .. 4}
        \cup {Newer(c, k) : c \in {default, high}, k \in 2 .. 3}
        \cup {Flipped(c, k, bit) : c \in {default, high}, k \in 1 .. 4, bit \in {1, 17, 40, 77}}

MCRequests == {4, 17, 50}
MCStarts == {0, 7, 20, 24, 29, 41}

(*------------------------------- properties ------------------------------*)

Right(k) == played[k] = case.heard[from + k]
Quiet(k) == played[k] # NOISE /\ \A c \in 1 .. Len(played[k]) : played[k][c] = 0
Moments == 1 .. Len(played)

(* Where the blocks of the file begin; how many of them begin from a moment  *)
(* up to another one.                                                        *)
Begins == {case.file[k].hdr.block_index : k \in 1 .. Len(case.file)}
BlocksFrom(first, last) == Cardinality({n \in Begins : first <= n /\ n <= last})

(* A seek into a file of more than two channels may open a block of the     *)
(* others.  It is not played, its moments are silent; but the block behind   *)
(* it is taken for its sound and may be noise (wputils.c:190).               *)
FoundAnother(k) ==
    /\ case.name = "surround" /\ need > 0
    /\ BlocksFrom(from, from + k - 1) = 2 \/ (BlocksFrom(from, from + k - 1) = 1 /\ Quiet(k))

(* The duration that is answered of a whole file is that of its sound, but  *)
(* for a file of the library's own encoder with a rate that no header names: *)
(* its metadata has no rate, and it is taken for one of 44100.               *)
RateIsLost == case.name = "high"
DurationIsRight ==
    RateIsLost \/ wvDuration(case.file).answer = Len(case.heard) \div case.file[1].hdr.flags.rate

(* Of a whole file every moment is heard as it was recorded, in its place,   *)
(* up to the last one, and no block is found to be wrong: whatever the size  *)
(* of the calls, the place of the start, the mode, the terms and the format. *)
(* Two files are not heard like that: one with samples too wide for the      *)
(* encoder's multiplication, and, for two blocks, one with more than two     *)
(* channels after a seek (unpack.c:318, wputils.c:170).  And its duration is *)
(* that of its sound.                                                        *)
PlaysTheRecording ==
    case.damage = "none" /\ case.name # "wide" =>
       /\ DurationIsRight
       /\ \A k \in Moments : from + k <= Len(case.heard) /\ (Right(k) \/ FoundAnother(k))
       /\ \/ case.name = "surround" /\ need > 0
          \/ errors = 0 /\ (phase = "ended" => from + Len(played) = Len(case.heard))

(* A moment that is neither right nor silent belongs to a block that is      *)
(* counted as wrong by the time the track is over: a wrong bit, or a product *)
(* that did not fit (unpack.c:771, wputils.c:235).                           *)
WrongIsNoticed ==
    phase = "ended" /\ (\E k \in Moments : ~ Right(k) /\ ~ Quiet(k)) => errors > 0

(* If a block is missing, it is missing in its place: all is right but its   *)
(* own moments and those of the block behind it, which is not made ready     *)
(* (wputils.c:190, 193); these are silent.                                   *)
LossStaysInPlace ==
    case.damage = "lost" =>
        \A k \in Moments : Right(k) \/ (Quiet(k) /\ from + k - 1 \in case.gap)

(* A start is refused, or crashes because the context is used unseen, only   *)
(* where it should: in a file of one block, whose only header is before every *)
(* guess, or behind the first block (wv/main.c:91, 108).  One into the first *)
(* of several blocks is always found.                                        *)
SeekStaysInTheFile ==
    phase \in {"refused", "crashed"} => BlocksFrom(0, need) > 1 \/ Cardinality(Begins) = 1
=============================================================================
