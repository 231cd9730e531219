---------------------------- MODULE FlacDecoder ----------------------------
(***************************************************************************)
(* The FLAC decoder: flac/bitstream.h, golomb.h, flac_decoder.c and the    *)
(* loop of flacPlay() that hands it a buffer and keeps what it left.  A    *)
(* buffer is the sequence of its bits; a function that reads takes the     *)
(* buffer and an index and gives the value and the index behind it.        *)
(* MAX_FRAMESIZE is taken large enough for every frame.                    *)
(***************************************************************************)
EXTENDS Bits, Bitwise

CONSTANTS WordBits,     (* bits of an int, where a prediction is summed up *)
          Depth         (* FLAC_OUTPUT_DEPTH                               *)

ASSUME WidthsAssumption == WordBits \in Nat /\ Depth \in Nat

MIN_CACHE_BITS == 25

(* The 32 bits that begin at the byte of index i, shifted left to bit i. *)
UPDATE_CACHE(b, i) ==
    [k \in 1 .. 32 |-> IF k <= 32 - (i % 8) /\ i + k <= Len(b) THEN b[i + k] ELSE 0]

SHOW_UBITS(c, n) == Num(SubSeq(c, 1, n))

(* For n = 0 the shift by 32 is undefined in C; on ARM it copies the sign. *)
SHOW_SBITS(c, n) == IF n = 0 THEN - c[1] ELSE Signed(SubSeq(c, 1, n))

get_bits(b, i, n)  == SHOW_UBITS(UPDATE_CACHE(b, i), n)
get_sbits(b, i, n) == SHOW_SBITS(UPDATE_CACHE(b, i), n)
get_bits1(b, i) == IF i < Len(b) THEN b[i + 1] ELSE 0
align_get_bits(i) == i + ((- i) % 8)

(* The first index from i on at which the bit is v. *)
FirstBit(b, i, v) ==
    IF \E j \in i .. Len(b) - 1 : b[j + 1] = v
    THEN CHOOSE j \in i .. Len(b) - 1 : b[j + 1] = v /\ \A k \in i .. j - 1 : b[k + 1] # v
    ELSE Len(b)

(* A Rice code: short ones from one cache, others bit by bit, their low bits *)
(* from a cache that the bits before them have been shifted out of.          *)
get_ur_golomb_jpegls(b, i, k) ==
    LET c == UPDATE_CACHE(b, i)
        zeros == FirstBit(c, 0, 1)
        log == IF zeros >= 32 THEN 0 ELSE 31 - zeros
        end == FirstBit(b, i, 1)
        rest == Tail(UPDATE_CACHE(b, end)) \o <<0>>
    IN  IF log - k >= 32 - MIN_CACHE_BITS
        THEN [val |-> SHOW_UBITS(c, zeros + 1 + k) + (30 - log) * 2 ^ k,
              index |-> i + 32 + k - log]
        ELSE [val |-> SHOW_UBITS(rest, k) + (end - i) * 2 ^ k, index |-> end + 1 + k]

Unzigzag(u) == [u EXCEPT !.val = IF @ % 2 = 0 THEN @ \div 2 ELSE - (@ \div 2) - 1]
get_sr_golomb_flac(b, i, k) == Unzigzag(get_ur_golomb_jpegls(b, i, k))

(* The frame or sample number of a frame. *)
get_utf8(b, i) ==
    LET ones  == FirstBit(b, i, 0) - i
        bytes == IF ones = 0 THEN 0 ELSE ones - 1
        first == i + ones + 1
        At(k) == first + 7 - ones + 8 * (k - 1)
    IN  IF ones = 1 THEN [val |-> -1, index |-> first]
        ELSE IF \E k \in 1 .. bytes : get_bits(b, At(k), 2) # 2 THEN [val |-> -2, index |-> first]
        ELSE [val |-> Iterate(LAMBDA v, k : v * 64 + (get_bits(b, At(k), 8) % 64),
                              get_bits(b, first, 7 - ones), bytes),
              index |-> At(bytes + 1)]

(* The 256 entries: what is left of a byte modulo x^8 + x^2 + x + 1. *)
table_crc8 ==
    [byte \in 0 .. 255 |->
        Iterate(LAMBDA v, k : IF v >= 128 THEN (2 * v) ^^ 263 ELSE 2 * v, byte, 8)]

get_crc8(b, count) ==
    Iterate(LAMBDA crc, k : table_crc8[crc ^^ Num(SubSeq(b, 8 * k - 7, 8 * k))], 0, count)

Failed(e) == [err |-> e, out |-> <<>>, index |-> 0]

(* n values of a fixed width from index i on. *)
ReadFixed(b, i, n, w) == [k \in 1 .. n |-> get_sbits(b, i + (k - 1) * w, w)]

With(s, v) == [s EXCEPT !.out = Append(@, v.val), !.index = v.index]

(* One partition of a subframe: Rice codes, or numbers of a fixed width. *)
Partition(b, r, count, method) ==
    LET width == IF method = 0 THEN 4 ELSE 5
        k == get_bits(b, r.index, width)
        raw == get_bits(b, r.index + width, 5)
        Code(s, j) == With(s, get_sr_golomb_flac(b, s.index, k))
    IN  IF k = 2 ^ width - 1
        THEN [r EXCEPT !.out = @ \o ReadFixed(b, r.index + width + 5, count, raw),
                       !.index = @ + width + 5 + count * raw]
        ELSE Iterate(Code, [r EXCEPT !.index = @ + width], count)

decode_residuals(s, b, i, pred_order) ==
    LET method  == get_bits(b, i, 2)
        order   == get_bits(b, i + 2, 4)
        samples == s.blocksize \div 2 ^ order
        Part(r, p) ==
            Partition(b, r, IF p > 1 THEN samples ELSE IF samples > pred_order
                                                       THEN samples - pred_order ELSE 0, method)
    IN  IF method > 1 THEN Failed(-3)
        ELSE Iterate(Part, [err |-> 0, out |-> <<>>, index |-> i + 6], 2 ^ order)

(* Sums of sums: the innermost takes the residual, the outermost is the sample. *)
Integrate(sums, e) ==
    Iterate(LAMBDA t, k : <<(IF t = <<>> THEN e ELSE Head(t)) + sums[Len(sums) + 1 - k]>> \o t,
            <<>>, Len(sums))

(* The samples that begin with those of warm, as sums of the residuals in r. *)
Summed(r, warm, order) ==
    LET d(k) == warm[order + 1 - k]
        start(k) == CASE k = 1 -> d(1)
                      [] k = 2 -> d(1) - d(2)
                      [] k = 3 -> d(1) - 2 * d(2) + d(3)
                      [] k = 4 -> d(1) - 3 * d(2) + 3 * d(3) - d(4)
        first == [k \in 1 .. order |-> start(k)]
        Then(t, sums, e) == [out |-> Append(t.out, IF order = 0 THEN e ELSE sums[1]), sums |-> sums]
        Next(t, k) == Then(t, Integrate(t.sums, r.out[k]), r.out[k])
    IN  IF r.err # 0 THEN Failed(-4)
        ELSE IF order > 4 THEN Failed(-5)
        ELSE [r EXCEPT !.out = Iterate(Next, [out |-> warm, sums |-> first], Len(r.out)).out]

decode_subframe_fixed(s, b, i, order) ==
    Summed(decode_residuals(s, b, i + order * s.curr_bps, order), ReadFixed(b, i, order, s.curr_bps), order)

(* The sum of a prediction: in an int when it is expected to fit. *)
ShortSum(s, prec, order) == s.bps + prec + Log2(order) <= WordBits
Predict(s, prec, coeffs, out) ==
    LET order == Len(coeffs)
        sum == Sum([j \in 1 .. order |-> coeffs[j] * out[Len(out) + 1 - j]])
    IN  IF ShortSum(s, prec, order) THEN Wrap(sum, WordBits) ELSE sum

(* The same with predictions from all samples before. *)
Foreseen(s, r, warm, prec, qlevel, coeffs) ==
    LET Next(out, k) == Append(out, r.out[k] + Floor(Predict(s, prec, coeffs, out), qlevel))
    IN  IF prec = 16 THEN Failed(-6)
        ELSE IF qlevel < 0 THEN Failed(-7)
        ELSE IF r.err # 0 THEN Failed(-8)
        ELSE [r EXCEPT !.out = Iterate(Next, warm, Len(r.out))]

decode_subframe_lpc(s, b, i, order) ==
    LET at == i + order * s.curr_bps
        prec == get_bits(b, at, 4) + 1
    IN  Foreseen(s, decode_residuals(s, b, at + 9 + order * prec, order), ReadFixed(b, i, order, s.curr_bps),
                  prec, get_sbits(b, at + 4, 5), ReadFixed(b, at + 9, order, prec))

(* One channel of a frame: the bits at the end of a sample that are always  *)
(* zero, then what is coded.                                                *)
Wasted(b, i) == IF get_bits1(b, i + 7) = 0 THEN 0 ELSE FirstBit(b, i + 8, 1) - i - 7
Coding(s, b, at, type) ==
    CASE type = 0 -> [err |-> 0, out |-> Repeat(get_sbits(b, at, s.curr_bps), s.blocksize),
                      index |-> at + s.curr_bps]
      [] type = 1 -> [err |-> 0, out |-> ReadFixed(b, at, s.blocksize, s.curr_bps),
                      index |-> at + s.blocksize * s.curr_bps]
      [] type \in 8 .. 12 -> decode_subframe_fixed(s, b, at, type - 8)
      [] type >= 32 -> decode_subframe_lpc(s, b, at, type - 31)
      [] OTHER -> Failed(-12)
Scaled(r, wasted) == [r EXCEPT !.out = [k \in DOMAIN @ |-> @[k] * 2 ^ wasted]]
decode_subframe(fc, channel, b, i) ==
    LET side == IF channel = 1 THEN fc.decorrelation = "RIGHT_SIDE"
                ELSE fc.decorrelation \in {"LEFT_SIDE", "MID_SIDE"}
        wasted == Wasted(b, i)
        s == [fc EXCEPT !.curr_bps = (IF side THEN fc.bps + 1 ELSE fc.bps) - wasted]
    IN  IF get_bits1(b, i) = 1 THEN Failed(-9)
        ELSE Scaled(Coding(s, b, i + 8 + wasted, get_bits(b, i + 1, 6)), wasted)

sample_size_table == <<0, 8, 12, 0, 16, 20, 24, 0>>
blocksize_table ==
    <<0, 192, 576, 1152, 2304, 4608, 0, 0, 256, 512, 1024, 2048, 4096, 8192, 16384, 32768>>

(* The bits that a code in the header adds behind the frame number. *)
BlocksizeBits(code) == CASE code = 6 -> 8 [] code = 7 -> 16 [] OTHER -> 0
RateBits(code) == CASE code = 12 -> 8 [] code \in {13, 14} -> 16 [] OTHER -> 0

(* The header of a frame behind its first 16 bits: what is wrong with it,   *)
(* the context it makes, the index behind it.                               *)
FrameHeader(fc, b, utf8) ==
    LET code == get_bits(b, 16, 4)
        rate == get_bits(b, 20, 4)
        assignment == get_bits(b, 24, 4)
        size == get_bits(b, 28, 3)
        at   == utf8.index + BlocksizeBits(code)
        end  == at + RateBits(rate) + 8
        blocksize == CASE code = 0 -> fc.min_blocksize
                       [] code \in {6, 7} -> get_bits(b, utf8.index, BlocksizeBits(code)) + 1
                       [] OTHER -> blocksize_table[code + 1]
        samplerate == CASE rate = 0 -> fc.samplerate
                        [] rate \in 4 .. 11 -> <<8000, 16000, 22050, 24000, 32000, 44100,
                                                 48000, 96000>>[rate - 3]
                        [] rate = 12 -> get_bits(b, at, 8) * 1000
                        [] rate = 13 -> get_bits(b, at, 16)
                        [] rate = 14 -> get_bits(b, at, 16) * 10
                        [] OTHER -> 0
        alike == \/ assignment < 8 /\ fc.channels = assignment + 1
                 \/ assignment \in 8 .. 10 /\ fc.channels = 2
    IN  [end |-> end,
         err |-> IF ~ alike THEN -13
                 ELSE IF size \in {3, 7} THEN -14
                 ELSE IF get_bits1(b, 31) = 1 THEN -15
                 ELSE IF blocksize > fc.max_blocksize THEN -16
                 ELSE IF rate \in {1, 2, 3, 15} THEN -17
                 ELSE IF get_crc8(b, end \div 8) # 0 THEN -18 ELSE 0,
         fc  |-> [fc EXCEPT
                   !.samplenumber = utf8.val * (IF fc.min_blocksize = fc.max_blocksize
                                                THEN fc.min_blocksize ELSE 1),
                   !.blocksize = blocksize, !.samplerate = samplerate,
                   !.bps = IF size = 0 THEN fc.bps ELSE sample_size_table[size + 1],
                   !.decorrelation = CASE assignment = 8  -> "LEFT_SIDE"
                                       [] assignment = 9  -> "RIGHT_SIDE"
                                       [] assignment = 10 -> "MID_SIDE"
                                       [] OTHER -> "INDEPENDENT"]]

(* The context a frame leaves, and its two channels. *)
Error(fc, e) == [err |-> e, fc |-> fc, out |-> <<>>]
Both(fc, head, r0, r1) ==
    IF r0.err # 0 THEN Error(fc, r0.err - 100)
    ELSE IF r1.err # 0 THEN Error(fc, r1.err - 200)
    ELSE [err |-> 0, fc  |-> [head EXCEPT !.index = align_get_bits(r1.index) + 16],
          out |-> <<r0.out, r1.out>>]
OtherChannel(head, b, r0) == IF head.channels = 2 THEN decode_subframe(head, 2, b, r0.index) ELSE r0
Subframes(fc, head, b, r0) == Both(fc, head, r0, OtherChannel(head, b, r0))
Body(fc, b, h) ==
    IF h.err # 0 THEN Error(fc, h.err) ELSE Subframes(fc, h.fc, b, decode_subframe(h.fc, 1, b, h.end))
decode_frame(fc, b) == Body(fc, b, FrameHeader(fc, b, get_utf8(b, 32)))

(* mutant: the middle is rounded towards zero *)
DecorrelateTowardsZero(how, a, b) ==
    CASE how = "INDEPENDENT" -> <<a, b>>
      [] how = "LEFT_SIDE"   -> <<a, a - b>>
      [] how = "RIGHT_SIDE"  -> <<a + b, b>>
      [] how = "MID_SIDE"    -> LET half == IF b < 0 THEN - Floor(- b, 1) ELSE Floor(b, 1)
                                IN  <<a - half + b, a - half>>

(* The two channels of a frame from what was coded for them. *)
Decorrelate(how, a, b) ==
    CASE how = "INDEPENDENT" -> <<a, b>>
      [] how = "LEFT_SIDE"   -> <<a, a - b>>
      [] how = "RIGHT_SIDE"  -> <<a + b, b>>
      [] how = "MID_SIDE"    -> LET mid == a - Floor(b, 1) IN <<mid + b, mid>>

(* A frame: the samples of each moment, left justified in Depth bits. *)
Justified(moment, fc) == [c \in 1 .. fc.channels |-> moment[c] * 2 ^ (Depth - fc.bps)]
Moments(r) ==
    [k \in 1 .. r.fc.blocksize |-> Justified(Decorrelate(r.fc.decorrelation, r.out[1][k], r.out[2][k]), r.fc)]
Finished(r) ==
    IF r.err # 0 THEN r
    ELSE [err |-> 0, fc |-> [r.fc EXCEPT !.framesize = (r.fc.index + 7) \div 8], out |-> Moments(r)]
flac_decode_frame(fc, b) ==
    IF get_bits(b, 0, 15) # 32764 THEN Error(fc, -41) ELSE Finished(decode_frame(fc, b))

(* What flacPlay() makes of a frame: bytes, the lowest of a sample first. *)
Bytes(v, bps) == [j \in 1 .. IF bps = 24 THEN 3 ELSE 2 |-> Floor(v, 8 * (j - 1)) % 256]
Pcm(fc, out) ==
    Concat([k \in DOMAIN out |->
              Concat([c \in DOMAIN out[k] |-> Bytes(Floor(out[k][c], Depth - fc.bps), fc.bps)])])

VARIABLES fc,           (* the FLACContext                                 *)
          buf,          (* the bits of the file that are not yet consumed  *)
          wavbuf,       (* the bytes made of the frames so far             *)
          result        (* "playing", "done" or "error"                    *)

flacVars == <<fc, buf, wavbuf, result>>

(* A turn of flacPlay()'s loop: of the bytes of a frame, n are counted. *)
Frame ==
    /\ result = "playing" /\ buf # <<>>
    /\ \E r \in {flac_decode_frame(fc, buf)} :
         /\ r.err = 0
         /\ fc' = r.fc
         /\ \E n \in {r.fc.blocksize * r.fc.channels * (r.fc.bps \div 8)} :
               wavbuf' = SubSeq(wavbuf \o Pcm(r.fc, r.out), 1, Len(wavbuf) + n)
         /\ buf' = SubSeq(buf, 8 * (r.fc.index \div 8) + 1, Len(buf))
    /\ UNCHANGED result

DecodeFails ==
    /\ result = "playing" /\ buf # <<>> /\ flac_decode_frame(fc, buf).err # 0
    /\ result' = "error" /\ UNCHANGED <<fc, buf, wavbuf>>

EndOfFile ==
    /\ result = "playing" /\ buf = <<>>
    /\ result' = "done" /\ UNCHANGED <<fc, buf, wavbuf>>

flacPlay == Frame \/ DecodeFails \/ EndOfFile
=============================================================================
