--------------------------- MODULE WavPackUnpack ----------------------------
(***************************************************************************)
(* How a block of WavPack is taken apart: unpack.c, metadata.c, float.c,   *)
(* and the sound that wvPlay() makes of it.  A decoder is a record         *)
(*   [ok, hdr |-> the header of the block, index, mute, crc, passes, w,    *)
(*    int32 |-> <<sent, zeros, ones, dups>>,                               *)
(*    float |-> <<flags, shift, max_exp, norm_exp>>, lossy,                *)
(*    channels, rate, config]                                              *)
(* The passes of a decoder are those of the encoder in reversed order.     *)
(***************************************************************************)
EXTENDS WavPackBlock

Short(v) == Wrap(v, 16)
Length(chunk) == 2 * chunk.count - (IF chunk.odd THEN 1 ELSE 0)

(*------------------------------ the metadata -----------------------------*)

read_decorr_terms(d, md) ==
    LET n == Length(md)
        term(byte) == (byte % 32) - 5
        passes == [k \in 1 .. n |-> Pass(term(md.data[n + 1 - k]), md.data[n + 1 - k] \div 32)]
    IN  IF n > MAX_NTERMS \/ \E k \in 1 .. n : passes[k].term \notin (-3 .. -1) \cup (1 .. 8) \cup {17, 18}
        THEN [d EXCEPT !.ok = FALSE]
        ELSE [d EXCEPT !.passes = passes]

(* Of the passes the last one comes first. *)
read_decorr_weights(d, md) ==
    LET n == Len(d.passes)
        channels == Channels(d.hdr.flags)
        count == Length(md) \div channels
        weight(k, c) == IF n - k < count /\ c <= channels
                        THEN restore_weight(md.data[(n - k) * channels + c]) ELSE 0
    IN  IF count > n THEN [d EXCEPT !.ok = FALSE]
        ELSE [d EXCEPT !.passes = [k \in 1 .. n |-> [@[k] EXCEPT !.w = <<weight(k, 1), weight(k, 2)>>]]]

(* A pass takes its samples if any are left, and all that it stores.  Of a  *)
(* hybrid file of the first version the words before them are skipped.      *)
read_decorr_samples(d, md) ==
    LET f == d.hdr.flags
        n == Len(d.passes)
        skip == IF d.hdr.version = 1026 /\ f.hybrid THEN Channels(f) ELSE 0
        clear == [k \in 1 .. n |-> [d.passes[k] EXCEPT !.s = <<NULL_RING, NULL_RING>>]]
        fill(p, from) == Iterate(LAMBDA q, i : [q EXCEPT !.s[Stored(p, f)[i][1]][Stored(p, f)[i][2]] =
                                                    exp2s(Short(md.data[from + i]))],
                                 p, Len(Stored(p, f)))
        enough(r, k) == r.at + Len(Stored(r.passes[k], f)) <= Len(md.data)
        all == Iterate(LAMBDA r, i :
                        LET k == n + 1 - i
                        IN  CASE 2 * r.at >= Length(md) -> r
                              [] 2 * r.at < Length(md) /\ ~ enough(r, k) -> [r EXCEPT !.at = Len(md.data) + 1]
                              [] OTHER -> [passes |-> [r.passes EXCEPT ![k] = fill(@, r.at)],
                                           at |-> r.at + Len(Stored(r.passes[k], f))],
                     [passes |-> clear, at |-> skip], n)
    IN  [d EXCEPT !.passes = all.passes, !.ok = 2 * all.at = Length(md)]

read_entropy_vars(d, md) ==
    LET channels == Channels(d.hdr.flags)
    IN  IF Length(md) # 6 * channels THEN [d EXCEPT !.ok = FALSE]
        ELSE [d EXCEPT !.w.c = [c \in 1 .. 2 |-> IF c > channels THEN @[c]
                 ELSE [@[c] EXCEPT !.median = [k \in 1 .. 3 |-> exp2s(md.data[3 * (c - 1) + k])]]]]

read_hybrid_profile(d, md) ==
    LET f == d.hdr.flags
        n == Channels(f)
        levels == IF f.bitrate THEN n ELSE 0
        of(at, old) == [c \in 1 .. 2 |-> IF c <= n THEN md.data[at + c] ELSE old[c]]
        delta == of(levels + n, d.w.delta)
        more == Length(md) > 2 * (levels + n)
        read == [d EXCEPT !.w.acc = [c \in 1 .. 2 |-> IF c <= n THEN of(levels, @)[c] * 2 ^ 16 ELSE @[c]],
                          !.w.c = [c \in 1 .. 2 |-> IF c > levels THEN @[c]
                                                    ELSE [@[c] EXCEPT !.slow_level = exp2s(md.data[c])]]]
    IN  IF ~ more THEN [read EXCEPT !.w.delta = <<0, 0>>]
        ELSE [read EXCEPT !.w.delta = [c \in 1 .. 2 |-> IF c <= n THEN exp2s(Short(delta[c])) ELSE @[c]],
                          !.ok = Length(md) <= 2 * (levels + 2 * n)]

read_int32_info(d, md) ==
    IF Length(md) # 4 THEN [d EXCEPT !.ok = FALSE] ELSE [d EXCEPT !.int32 = md.data]
read_float_info(d, md) ==
    IF Length(md) # 4 THEN [d EXCEPT !.ok = FALSE] ELSE [d EXCEPT !.float = md.data]
read_channel_info(d, md) ==
    IF Length(md) \notin 1 .. 5 THEN [d EXCEPT !.ok = FALSE] ELSE [d EXCEPT !.channels = md.data[1]]
read_config_info(d, md) ==
    IF Length(md) < 3 THEN d ELSE [d EXCEPT !.config = SubSeq(md.data, 1, 3)]
read_sample_rate(d, md) ==
    IF Length(md) # 3 THEN d
    ELSE [d EXCEPT !.rate = md.data[1] + md.data[2] * 2 ^ 8 + md.data[3] * 2 ^ 16]

init_wv_bitstream(d, md) ==
    IF md.count = 0 THEN d ELSE [d EXCEPT !.w = bs_open_read(@, md.data), !.open = TRUE]

process_metadata(d, md) ==
    CASE md.id = ID_DECORR_TERMS   -> read_decorr_terms(d, md)
      [] md.id = ID_DECORR_WEIGHTS -> read_decorr_weights(d, md)
      [] md.id = ID_DECORR_SAMPLES -> read_decorr_samples(d, md)
      [] md.id = ID_ENTROPY_VARS   -> read_entropy_vars(d, md)
      [] md.id = ID_HYBRID_PROFILE -> read_hybrid_profile(d, md)
      [] md.id = ID_FLOAT_INFO     -> read_float_info(d, md)
      [] md.id = ID_INT32_INFO     -> read_int32_info(d, md)
      [] md.id = ID_CHANNEL_INFO   -> read_channel_info(d, md)
      [] md.id = ID_SAMPLE_RATE    -> read_sample_rate(d, md)
      [] md.id = ID_CONFIG_BLOCK   -> read_config_info(d, md)
      [] md.id = ID_WV_BITSTREAM   -> init_wv_bitstream(d, md)
      [] md.id \in {0, 7, 11, 12}  -> d                   (* nothing, or of no use here *)
      [] OTHER -> [d EXCEPT !.ok = Bit(md.id, 5) = 1]     (* optional, or not understood *)

(* What of a float is only in a file of its own. *)
FLOAT_LOST(flags) == \E b \in {1, 2, 3, 5} : Bit(flags, b) = 1

(* unpack_init(): the header is read; the metadata, up to the sound.  The   *)
(* numbers of earlier blocks stay unless this one has its own.              *)
Started(d) ==
    [d EXCEPT !.index = IF d.hdr.block_samples > 0 THEN d.hdr.block_index ELSE @,
              !.mute = FALSE, !.crc = 2 ^ CrcBits - 1, !.passes = <<>>,
              !.w = init_words, !.open = FALSE, !.ok = TRUE]
Reduced(d) == \/ d.hdr.flags.int32 /\ d.int32[1] > 0
              \/ d.hdr.flags.float /\ FLOAT_LOST(d.float[1])
Ready(d) ==
    LET sounds == d.hdr.block_samples > 0
    IN  [d EXCEPT !.ok = @ /\ (sounds => d.open), !.lossy = @ \/ (sounds /\ Reduced(d))]
unpack_init(d, chunks) ==
    Ready(Iterate(LAMBDA r, k : IF r.ok /\ ~ r.open THEN process_metadata(r, chunks[k]) ELSE r,
                  Started(d), Len(chunks)))

(*------------------------------ the passes -------------------------------*)

(* A residual through a term, m moments after the turn of the ring.         *)
UnpackChannel(r, c, m) ==
    LET sam == Expected(r.p, c, m)
        x == r.x[c] + apply_weight(r.p.w[c], sam)
    IN  [p |-> [Remember(r.p, c, m, x) EXCEPT !.w[c] = update_weight(@, r.p.delta, sam, r.x[c])],
         x |-> [r.x EXCEPT ![c] = x]]

(* Both channels at once: the first of the two, and the other one from it.  *)
UnpackAcross(p, x) ==
    LET first == IF p.term = -2 THEN 2 ELSE 1
        other == 3 - first
        seen == p.s[first][1]
        a == x[first] + apply_weight(p.w[first], seen)
        from == IF p.term = -3 THEN p.s[2][1] ELSE a
        b == x[other] + apply_weight(p.w[other], from)
    IN  [p |-> [p EXCEPT !.s = IF p.term = -3 THEN <<[@[1] EXCEPT ![1] = b], [@[2] EXCEPT ![1] = a]>>
                               ELSE [@ EXCEPT ![first][1] = b],
                         !.w = [@ EXCEPT ![first] = update_weight_clip(@, p.delta, seen, x[first]),
                                         ![other] = update_weight_clip(@, p.delta, from, x[other])]],
         x |-> IF first = 1 THEN <<a, b>> ELSE <<b, a>>]

(* decorr_mono_pass() and decorr_stereo_pass(): a call begins with its      *)
(* rings turned to their first place, and turns them at its end.            *)
UnpackMoment(p, x, m) ==
    IF p.term < 0 THEN UnpackAcross(p, x)
    ELSE Iterate(LAMBDA r, c : UnpackChannel(r, c, m), [p |-> p, x |-> x], Len(x))
decorr_pass(p, moments) ==
    LET all == Iterate(LAMBDA r, k : LET y == UnpackMoment(r.p, moments[k], k - 1)
                                   IN  [p |-> y.p, out |-> Append(r.out, y.x)],
                     [p |-> p, out |-> <<>>], Len(moments))
    IN  [all EXCEPT !.p = Turn(@, Len(moments))]

(* decorr_stereo_pass_cont(), and its twins for the ARM, look back in the   *)
(* buffer, not in the rings: eight moments of the call are behind them.     *)
Behind(p, out, c) ==
    LET back(n) == out[Len(out) + 1 - n][c]
    IN  CASE p.term = 17 -> 2 * back(1) - back(2)
          [] p.term = 18 -> Floor(3 * back(1) - back(2), 1)
          [] OTHER       -> back(p.term)
FromBuffer(p, out) ==
    LET back(n, c) == out[Len(out) + 1 - n][c]
    IN  CASE p.term > MAX_TERM -> [c \in 1 .. 2 |-> [p.s[c] EXCEPT ![1] = back(1, c), ![2] = back(2, c)]]
          [] p.term \in 1 .. MAX_TERM ->
               [c \in 1 .. 2 |-> [n \in 1 .. MAX_TERM |-> back(((p.term - n) % MAX_TERM) + 1, c)]]
          [] p.term = -1 -> [p.s EXCEPT ![1][1] = back(1, 2)]
          [] p.term = -2 -> [p.s EXCEPT ![2][1] = back(1, 1)]
          [] p.term = -3 -> [p.s EXCEPT ![1][1] = back(1, 2), ![2][1] = back(1, 1)]
ContinuedMoment(r, x) ==
    LET p == r.p
        a == Behind(p, r.out, 1)
        b == Behind(p, r.out, 2)
        across == UnpackAcross([p EXCEPT !.s = FromBuffer(p, r.out)], x)
    IN  IF p.term < 0 THEN [p |-> across.p, out |-> Append(r.out, across.x)]
        ELSE [p |-> [p EXCEPT !.w = <<update_weight(@[1], p.delta, a, x[1]),
                                      update_weight(@[2], p.delta, b, x[2])>>],
              out |-> Append(r.out, <<x[1] + apply_weight(p.w[1], a), x[2] + apply_weight(p.w[2], b)>>)]
decorr_stereo_pass_cont(begun, moments) ==
    LET all == Iterate(LAMBDA r, k : ContinuedMoment(r, moments[k]), begun, Len(moments))
    IN  [all EXCEPT !.p.s = FromBuffer(all.p, all.out)]

UnpackPass(p, moments) ==
    IF Len(moments[1]) = 1 \/ Len(moments) < 16 THEN decorr_pass(p, moments)
    ELSE decorr_stereo_pass_cont(decorr_pass(p, SubSeq(moments, 1, 8)), SubSeq(moments, 9, Len(moments)))
UnpackPasses(passes, moments) ==
    Iterate(LAMBDA r, k : LET y == UnpackPass(passes[k], r.out)
                          IN  [passes |-> Append(r.passes, y.p), out |-> y.out],
            [passes |-> <<>>, out |-> moments], Len(passes))

(*------------------------------- the samples -----------------------------*)

Unmid(x) == LET b == x[2] - Floor(x[1], 1) IN <<x[1] + b, b>>

(* A sample as 28 bits and a sign, whatever its size. *)
Shifted(v, n) == IF n >= 0 THEN v * 2 ^ n ELSE Floor(v, - n)
float_values(d, v) == Shifted(v, Clip(d.float[3] - d.float[4] + d.float[2] + 5, 32))
Padded(d, v) ==
    LET zeros == d.int32[2]  ones == d.int32[3]  dups == d.int32[4]
    IN  IF zeros > 0 THEN v * 2 ^ zeros
        ELSE IF ones > 0 THEN (v + 1) * 2 ^ ones - 1
        ELSE (v + (v % 2)) * 2 ^ dups - (v % 2)
fixup_samples(d, v) ==
    LET f == d.hdr.flags
        shift == f.shift + 21 - f.bytes * 8
        exact == ~ f.hybrid /\ d.int32[1] = 0
    IN  CASE f.float              -> float_values(d, v)
          [] ~ f.float /\ f.int32 -> IF exact THEN Shifted(Padded(d, v), shift)
                                     ELSE Shifted(v, shift + Sum(d.int32))
          [] OTHER                -> Shifted(v, shift)

(* What is louder than the block's flags allow cannot be sound. *)
mute_limit(f) == LET limit == 2 ^ f.mag + 2 IN IF f.hybrid THEN 2 * limit ELSE limit
Bearable(f, x) == \A c \in 1 .. Len(x) : x[c] \in - mute_limit(f) .. mute_limit(f)

(* unpack_samples(): at most n moments, and not past the end of the block;  *)
(* after an error the whole call and the rest of the block are silent.      *)
Fixed(d, x) == [c \in 1 .. Len(x) |-> fixup_samples(d, x[c])]
Doubled(d, x) == IF d.hdr.flags.false_stereo THEN x \o x ELSE x
Muted(d, n, w, value, crc) ==
    [d |-> [d EXCEPT !.index = @ + n, !.mute = TRUE, !.w = w, !.crc = crc],
     out |-> Repeat(Repeat(value, IF d.hdr.flags.mono THEN 1 ELSE 2), n)]
(* The sum counts what came before the first moment that is too loud; where *)
(* the words end it counts whatever the buffer held, which nobody foretells *)
(* and is taken not to be the right sum by chance.                          *)
Until(moments, loud) ==
    SubSeq(moments, 1, CHOOSE k \in 0 .. Len(moments) - 1 : k + 1 \in loud /\ 1 .. k \cap loud = {})
Heard(d, n, w, passes, moments) ==
    LET loud == {k \in 1 .. n : ~ Bearable(d.hdr.flags, moments[k])}
    IN  IF loud # {} THEN Muted(d, n, w, fixup_samples(d, 0), Crc(d.crc, Until(moments, loud)))
    ELSE [d |-> [d EXCEPT !.index = @ + n, !.w = w, !.passes = passes, !.crc = Crc(@, moments)],
          out |-> [k \in 1 .. n |-> Doubled(d, Fixed(d, moments[k]))]]
Unmixed(d, n, w, r) ==
    Heard(d, n, w, r.passes, IF d.hdr.flags.joint /\ Channels(d.hdr.flags) = 2
                             THEN [k \in 1 .. n |-> Unmid(r.out[k])] ELSE r.out)
FromWords(d, n, words) ==
    LET channels == Channels(d.hdr.flags)
    IN  IF words.eof THEN Muted(d, n, words.w, fixup_samples(d, 0), -1)
        ELSE Unmixed(d, n, words.w,
                     UnpackPasses(d.passes, [k \in 1 .. n |-> SubSeq(words.out, (k - 1) * channels + 1, k * channels)]))
unpack_samples(d, wanted) ==
    LET f == d.hdr.flags
        left == d.hdr.block_index + d.hdr.block_samples - d.index
        n == IF wanted > left THEN left ELSE wanted
    IN  IF d.mute \/ n = 0 THEN [Muted(d, n, d.w, 0, d.crc) EXCEPT !.d.mute = d.mute]
        ELSE FromWords(d, n, get_words(d.w, n, [mono |-> MONO_DATA(f), hybrid |-> f.hybrid,
                                                bitrate |-> f.bitrate, balance |-> f.balance]))

(* check_crc_error(), of a whole block. *)
check_only_muted(d) == d.mute /\ d.crc # d.hdr.crc        (* mutant *)

check_crc_error(d) == d.crc # d.hdr.crc


(* Of 28 bits wvPlay() plays the upper 16. *)
PlayedAs(x) == [c \in 1 .. Len(x) |-> Wrap(Floor(x[c], 13), 16)]
=============================================================================
