---------------------------- MODULE WavPackBlock ----------------------------
(***************************************************************************)
(* A block of WavPack: how pack.c makes it and unpack.c takes it apart.    *)
(*                                                                         *)
(* A moment is a sequence of one sample or two.  A block is                *)
(*   [hdr |-> [version, total_samples, block_index, block_samples, crc,    *)
(*             flags], chunks |-> the metadata, the bits of the sound last]*)
(* A chunk of metadata is [id, odd, large, count, data]: count pairs of    *)
(* bytes hold data, whose elements are bytes, words of 16 bits, or bits.   *)
(* A pass of the decorrelation is [term, delta, w, s]: of each channel a   *)
(* weight and the ring of the samples before.                              *)
(***************************************************************************)
EXTENDS WavPackWords

CONSTANTS
    WordBits,       \* the bits of an int: 32 in the program
    CrcBits         \* the bits of the check sum: 32 in the program

ID_DECORR_TERMS == 2
ID_DECORR_WEIGHTS == 3
ID_DECORR_SAMPLES == 4
ID_ENTROPY_VARS == 5
ID_HYBRID_PROFILE == 6
ID_FLOAT_INFO == 8
ID_INT32_INFO == 9
ID_WV_BITSTREAM == 10
ID_CHANNEL_INFO == 13
ID_OPTIONAL_DATA == 32
ID_RIFF_HEADER == ID_OPTIONAL_DATA + 1
ID_CONFIG_BLOCK == ID_OPTIONAL_DATA + 5
ID_SAMPLE_RATE == ID_OPTIONAL_DATA + 7

MAX_TERM == 8
MAX_NTERMS == 16
NULL_RING == Repeat(0, MAX_TERM)
Pass(term, delta) == [term |-> term, delta |-> delta, w |-> <<0, 0>>, s |-> <<NULL_RING, NULL_RING>>]
Ring(m) == (m % MAX_TERM) + 1

MONO_DATA(f) == f.mono \/ f.false_stereo
Channels(f) == IF MONO_DATA(f) THEN 1 ELSE 2

(*------------------------------ the weights ------------------------------*)

(* The encoder multiplies two ints; the decoder takes care of wide samples. *)
apply_weight_i(weight, sample) == Floor(Wrap(weight * sample + 512, WordBits), 10)
apply_weight(weight, sample) == Floor(weight * sample + 512, 10)

update_weight(weight, delta, source, result) ==
    CASE source = 0 \/ result = 0         -> weight
      [] (source < 0) = (result < 0)      -> weight + delta
      [] OTHER                            -> weight - delta
update_weight_clip(weight, delta, source, result) ==
    Clip(update_weight(weight, delta, source, result), 1024)

(* What a term expects of a channel, m moments after the turn of its ring.  *)
Expected(p, c, m) ==
    CASE p.term = 17 -> 2 * p.s[c][1] - p.s[c][2]
      [] p.term = 18 -> Floor(3 * p.s[c][1] - p.s[c][2], 1)
      [] OTHER       -> p.s[c][Ring(m)]
Remember(p, c, m, x) ==
    [p EXCEPT !.s[c] = IF p.term > MAX_TERM THEN [@ EXCEPT ![1] = x, ![2] = p.s[c][1]]
                       ELSE [@ EXCEPT ![Ring(m + p.term)] = x]]

(* Rings of which m moments were used begin at their first place again.     *)
NoTurn(p, m) == p                       (* mutant *)

Turn(p, m) ==
    IF p.term < 0 \/ p.term > MAX_TERM THEN p
    ELSE [p EXCEPT !.s = [c \in 1 .. 2 |-> [k \in 1 .. MAX_TERM |-> p.s[c][Ring(m + k - 1)]]]]

(*------------------------------- the encoder -----------------------------*)

default_terms == <<18, 18, 2, 3, -2>>
high_terms == <<18, 18, 2, 3, -2, 18, 2, 4, 7, 5, 3, 6>>
fast_terms == <<17, 17>>

(* pack_init(): the passes of a mode. *)
pack_init(mode, f) ==
    LET terms == CASE mode = "high" -> high_terms
                   [] mode = "fast" -> fast_terms
                   [] OTHER         -> default_terms
        kept == SelectSeq(terms, LAMBDA t : t >= 0 \/ f.cross \/ ~ f.mono)
    IN  [k \in 1 .. Len(kept) |-> Pass(IF kept[k] < 0 /\ ~ f.cross THEN -3 ELSE kept[k], 2)]

(* One channel of a moment through a pass, and a moment of both channels.   *)
PackChannel(r, c, m) ==
    LET sam == Expected(r.p, c, m)
        x == r.x[c] - apply_weight_i(r.p.w[c], sam)
    IN  [p |-> [Remember(r.p, c, m, r.x[c]) EXCEPT !.w[c] = update_weight(@, 2, sam, x)],
         x |-> [r.x EXCEPT ![c] = x]]
PackAcross(r) ==
    LET p == r.p
        a == r.x[1] - apply_weight_i(p.w[1], r.x[2])
        b == r.x[2] - apply_weight_i(p.w[2], p.s[2][1])
    IN  [p |-> [p EXCEPT !.s[2][1] = r.x[1],
                         !.w = <<update_weight_clip(@[1], 2, r.x[2], a),
                                 update_weight_clip(@[2], 2, p.s[2][1], b)>>],
         x |-> <<a, b>>]
PackMoment(p, m, x) ==
    CASE p.term > 0  -> Iterate(LAMBDA r, c : PackChannel(r, c, m), [p |-> p, x |-> x], Len(x))
      [] p.term = -2 -> PackAcross([p |-> p, x |-> x])
      [] OTHER       -> [p |-> p, x |-> x]

(* A sequence of moments through a pass, from the m-th of the block on, and *)
(* through all passes, one after the other.                                 *)
PackPass(p, m, moments) ==
    Iterate(LAMBDA r, k : LET y == PackMoment(r.p, m + k - 1, moments[k])
                          IN  [p |-> y.p, out |-> Append(r.out, y.x)],
            [p |-> p, out |-> <<>>], Len(moments))
PackPasses(passes, m, moments) ==
    Iterate(LAMBDA r, k : LET y == PackPass(passes[k], m, r.out)
                          IN  [passes |-> Append(r.passes, y.p), out |-> y.out],
            [passes |-> <<>>, out |-> moments], Len(passes))

Mid(x) == <<x[1] - x[2], x[2] + Floor(x[1] - x[2], 1)>>         (* joint stereo *)
Crc(crc, moments) ==
    Iterate(LAMBDA v, k : (IF Len(moments[k]) = 1 THEN v * 3 + moments[k][1]
                           ELSE (v * 3 + moments[k][1]) * 3 + moments[k][2]) % 2 ^ CrcBits,
            crc, Len(moments))

(* copy_metadata(): a chunk of a length in bytes. *)
copy_metadata(id, length, data) ==
    [id |-> id, odd |-> length % 2 = 1, large |-> length > 510, data |-> data,
     count |-> ((length + 1) \div 2) % (IF length > 510 THEN 2 ^ 24 ELSE 2 ^ 8)]

write_decorr_terms(passes) ==
    copy_metadata(ID_DECORR_TERMS, Len(passes),
                  [k \in 1 .. Len(passes) |-> ((passes[k].term + 5) % 32) + passes[k].delta * 32])

(* Weights, samples and medians are used by the encoder as they are stored. *)
Both(f, s) == SubSeq(s, 1, Channels(f))
write_decorr_weights(passes, f) ==
    LET stored == Concat([k \in 1 .. Len(passes) |->
                          Both(f, [c \in 1 .. 2 |-> store_weight(passes[k].w[c])])])
    IN  copy_metadata(ID_DECORR_WEIGHTS, Len(stored), stored)
RestoredWeights(passes, f) ==
    [k \in 1 .. Len(passes) |->
        [passes[k] EXCEPT !.w = [c \in 1 .. 2 |-> IF c > Channels(f) THEN @[c]
                                                  ELSE restore_weight(store_weight(@[c]))]]]

(* The samples of a pass that are stored, in the order of storing: <<channel, place>>. *)
Stored(p, f) ==
    LET of(n) == Concat([k \in 1 .. n |-> Both(f, <<<<1, k>>, <<2, k>>>>)])
    IN  IF p.term > MAX_TERM
        THEN Concat([c \in 1 .. Channels(f) |-> <<<<c, 1>>, <<c, 2>>>>])
        ELSE IF p.term < 0 THEN <<<<1, 1>>, <<2, 1>>>> ELSE of(p.term)
write_decorr_samples(p, f) ==
    LET at == Stored(p, f)
    IN  copy_metadata(ID_DECORR_SAMPLES, 2 * Len(at),
                      [k \in 1 .. Len(at) |-> log2s(p.s[at[k][1]][at[k][2]]) % 2 ^ 16])
RestoredSamples(passes, f) ==
    [k \in 1 .. Len(passes) |->
        IF k > 1 THEN [passes[k] EXCEPT !.s = <<NULL_RING, NULL_RING>>]
        ELSE [passes[1] EXCEPT !.s = [c \in 1 .. 2 |-> [n \in 1 .. MAX_TERM |->
                 IF \E i \in 1 .. Len(Stored(passes[1], f)) : Stored(passes[1], f)[i] = <<c, n>>
                 THEN exp2s(log2s(@[c][n])) ELSE @[c][n]]]]]

write_entropy_vars(w, f) ==
    copy_metadata(ID_ENTROPY_VARS, 6 * Channels(f),
                  Concat([c \in 1 .. Channels(f) |-> [n \in 1 .. 3 |-> mylog2(w.c[c].median[n])]]))
RestoredMedians(w, f) ==
    [w EXCEPT !.c = [c \in 1 .. 2 |-> IF c > Channels(f) THEN @[c]
                     ELSE [@[c] EXCEPT !.median = [n \in 1 .. 3 |-> exp2s(mylog2(@[n]))]]]]

(* The encoder: [flags, total, config |-> three bytes, index, passes, w,    *)
(* wrapper |-> the bytes of the RIFF header not yet written, block].        *)
pack_start_block(e) ==
    LET f == e.flags
        weighed == RestoredWeights(e.passes, f)
        hdr == [version |-> 1027, total_samples |-> e.total, block_index |-> e.index, block_samples |-> 0,
                crc |-> 2 ^ CrcBits - 1, flags |-> f]
        chunks == (IF e.wrapper = <<>> THEN <<>>
                   ELSE <<copy_metadata(ID_RIFF_HEADER, Len(e.wrapper), e.wrapper)>>)
                  \o <<write_decorr_terms(e.passes), write_decorr_weights(e.passes, f),
                       write_decorr_samples(e.passes[1], f), write_entropy_vars(e.w, f)>>
                  \o (IF f.initial /\ e.index = 0 THEN <<copy_metadata(ID_CONFIG_BLOCK, 3, e.config)>>
                      ELSE <<>>)
    IN  [e EXCEPT !.wrapper = <<>>, !.block = [hdr |-> hdr, chunks |-> chunks],
                  !.passes = RestoredSamples(weighed, f), !.w = bs_open_write(RestoredMedians(e.w, f))]

Packed(e, moments, r) ==
    [e EXCEPT !.passes = r.passes, !.w = send_words(e.w, Concat(r.out), Channels(e.flags)),
              !.index = @ + Len(moments),
              !.block.hdr.block_samples = @ + Len(moments),
              !.block.hdr.crc = Crc(@, moments)]
pack_samples(e, moments) ==
    Packed(e, moments, PackPasses(e.passes, e.block.hdr.block_samples,
                                  IF e.flags.joint THEN [k \in 1 .. Len(moments) |-> Mid(moments[k])] ELSE moments))

Closed(e, w) ==
    [e EXCEPT !.passes = [k \in 1 .. Len(@) |-> Turn(@[k], e.block.hdr.block_samples)],
              !.w = w,
              !.block.chunks = IF w.bs = <<>> THEN @
                  ELSE Append(@, [id |-> ID_WV_BITSTREAM, odd |-> FALSE, large |-> TRUE,
                                  count |-> Len(w.bs) \div 16, data |-> w.bs])]
pack_finish_block(e) == Closed(e, bs_close_write(flush_word(e.w)))
=============================================================================
