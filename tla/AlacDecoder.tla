----------------------------- MODULE AlacDecoder ----------------------------
(***************************************************************************)
(* The decoder of Apple Lossless: alac/alac_decoder.c, and what the loop   *)
(* of alacPlay() makes of a block.  A block is the sequence of its bits; a *)
(* function that reads takes it with an index.  The buffer that errors,    *)
(* predictions and output share is one sequence after the other.           *)
(***************************************************************************)
EXTENDS Bits

CONSTANTS Depth,        (* ALAC_OUTPUT_DEPTH                                *)
          Beyond        (* the byte found behind the table of 16 entries    *)

ASSUME AlacAssumption == Depth \in Nat /\ Depth >= 16 /\ Beyond \in 1 .. 255

(* What is used of codecdata: the samples of a block, their size, and how  *)
(* the Rice parameter follows the mean.                                    *)
alac_set_info(max, size, mult, initial, kmod) ==
    [max |-> max, size |-> size, mult |-> mult, initial |-> initial, kmod |-> kmod]

readbits_16(b, i, n) == Num([k \in 1 .. n |-> IF i + k <= Len(b) THEN b[i + k] ELSE 0])
readbits(b, i, n) ==
    IF n > 16 THEN readbits_16(b, i, 16) * 2 ^ (n - 16) + readbits_16(b, i + 16, n - 16)
    ELSE readbits_16(b, i, n)
readbit(b, i) == IF i < Len(b) THEN b[i + 1] ELSE 0
unreadbits(i, n) == i - n

(* Counted in the lower 16 bits only; what is left indexes the table.      *)
count_leading_zeros(v) ==
    LET low8  == IF Floor(v, 8) % 256 # 0 THEN 8 ELSE 0
        low4  == IF Floor(v, low8 + 4) % 16 # 0 THEN 4 ELSE 0
        entry == Floor(v, low8 + low4)
    IN  32 - low8 - low4 - (IF entry > 15 THEN Beyond ELSE IF entry = 0 THEN 0 ELSE Log2(entry) + 1)

(* How many ones there are before a zero, nine at most. *)
Ones(b, i) ==
    IF \E n \in 0 .. 8 : readbit(b, i + n) = 0
    THEN CHOOSE n \in 0 .. 8 : readbit(b, i + n) = 0 /\ \A j \in 0 .. n - 1 : readbit(b, i + j) = 1
    ELSE 9

(* What follows x ones: a number of its own behind nine, else k bits, or    *)
(* one less when they begin a zero.                                         *)
Extra(base, extra, end) ==
    IF extra > 1 THEN [val |-> base + extra - 1, index |-> end]
    ELSE [val |-> base, index |-> unreadbits(end, 1)]
Scalar(b, i, x, k, m, wide) ==
    IF x > 8 THEN [val |-> readbits(b, i + 9, wide), index |-> i + 9 + wide]
    ELSE IF k = 1 THEN [val |-> x, index |-> i + x + 1]
    ELSE Extra(x * m, readbits(b, i + x + 1, k), i + x + 1 + k)

new_history(history, x, mult) ==
    IF x > 65535 THEN 65535 ELSE history + x * mult - Floor(history * mult, 9)

Limit(a, b) == IF a < b THEN a ELSE b
rice_k(history, kmod) ==
    LET k == 31 - kmod - count_leading_zeros(Floor(history, 9) + 3)
    IN  IF k < 0 THEN k + kmod ELSE kmod

(* A run of zeros behind a number when the mean is small. *)
Skipped(s, r, zero) ==
    [out |-> s.out \o Repeat(0, r.val), index |-> r.index, history |-> 0,
     sign_modifier |-> IF r.val > 65535 THEN 0 ELSE zero]
ZeroRun(b, s, size, kmod) ==
    LET k == count_leading_zeros(s.history) + Floor(s.history + 16, 6) - 24
    IN  IF s.history < 128 /\ Len(s.out) < size
        THEN Skipped(s, Scalar(b, s.index, Ones(b, s.index), k, 2 ^ Limit(k, kmod) - 1, 16), 1)
        ELSE s

(* A number, of which odd ones are negative. *)
Value(s, x, index, mult) ==
    [out |-> Append(s.out, IF x % 2 = 1 THEN - ((x + 1) \div 2) ELSE x \div 2),
     index |-> index, history |-> new_history(s.history, x, mult), sign_modifier |-> 0]
Number(s, r, mult) == Value(s, r.val + s.sign_modifier, r.index, mult)
ReadNumber(b, s, k, wide, mult) ==
    Number(s, Scalar(b, s.index, Ones(b, s.index), k, 2 ^ k - 1, wide), mult)

basterdised_rice_decompress(b, i, size, wide, alac, mult) ==
    LET Next(s, j) ==
            IF Len(s.out) >= size THEN s
            ELSE ZeroRun(b, ReadNumber(b, s, rice_k(s.history, alac.kmod), wide, mult), size, alac.kmod)
        end == Iterate(Next, [out |-> <<>>, index |-> i, history |-> alac.initial, sign_modifier |-> 0], size)
    IN  [end EXCEPT !.out = SubSeq(@, 1, size)]

(* The coefficients after a sample that was missed by error: past[1] is the *)
(* sample before those that are multiplied.                                 *)
SIGN_ONLY(v) == IF v < 0 THEN -1 ELSE IF v > 0 THEN 1 ELSE 0
Adapted(table, past, error, quant) ==
    LET num == Len(table)
        Turn(s, k) ==
            LET val  == past[1] - past[k + 1]
                sign == SIGN_ONLY(error) * SIGN_ONLY(val)
            IN  IF error = 0 \/ SIGN_ONLY(s.error) # SIGN_ONLY(error) THEN s
                ELSE [table |-> [s.table EXCEPT ![num + 1 - k] = Wrap(@ - sign, 16)],
                      error |-> s.error - Floor(val * sign, quant) * k]
    IN  Iterate(Turn, [table |-> table, error |-> error], num).table

Predicted(table, past, error, wide, quant) ==
    LET sum  == Sum([j \in DOMAIN table |-> (past[Len(past) + 1 - j] - past[1]) * table[j]])
        half == IF quant = 0 THEN 0 ELSE 2 ^ (quant - 1)
    IN  Wrap(Floor(sum + half, quant) + past[1] + error, wide)
FirSample(s, past, error, wide, quant) ==
    [out |-> Append(s.out, Predicted(s.table, past, error, wide, quant)),
     table |-> Adapted(s.table, past, error, quant)]

predictor_decompress_fir_adapt(errors, wide, table, quant) ==
    LET num   == Len(table)
        size  == Len(errors)
        warm  == IF num = 31 THEN size - 1 ELSE Limit(num, size - 1)
        delta == Iterate(LAMBDA out, j : Append(out, Wrap(out[j] + errors[j + 1], wide)), <<errors[1]>>, warm)
        Next(s, j) == FirSample(s, SubSeq(s.out, j, j + num), errors[j + num + 1], wide, quant)
    IN  IF num = 0 THEN errors
        ELSE Iterate(Next, [out |-> delta, table |-> table], size - warm - 1).out

(* mutant: the wrong one of the two is the difference *)
deinterlace_swapped(a, b, shift, weight) ==
    IF weight # 0 THEN LET right == b - Floor(a * weight, shift) IN <<right + a, right>> ELSE <<a, b>>

deinterlace_16(a, b, shift, weight) ==
    IF weight # 0 THEN LET right == a - Floor(b * weight, shift) IN <<right + b, right>> ELSE <<a, b>>

(* The header of a block behind its 3 bits of channels. *)
Header(b, alac) ==
    LET counted == readbits(b, 19, 1) = 1
    IN  [wasted |-> readbits(b, 20, 2), raw |-> readbits(b, 22, 1) = 1,
         samples |-> IF counted THEN readbits(b, 23, 32) ELSE alac.max,
         index |-> IF counted THEN 55 ELSE 23]

(* How a channel is coded: its coefficients are numbers of 16 bits. *)
Coding(b, i) ==
    LET num == readbits(b, i + 11, 5)
    IN  [type |-> readbits(b, i, 4), quant |-> readbits(b, i + 4, 4),
         modifier |-> readbits(b, i + 8, 3), index |-> i + 16 + 16 * num,
         table |-> [j \in 1 .. num |-> Wrap(readbits(b, i + 16 * j, 16), 16)]]

Unpacked(b, i, samples, wide, alac, q) ==
    basterdised_rice_decompress(b, i, samples, wide, alac, (q.modifier * alac.mult) \div 4)
Restored(r, wide, q) ==
    IF q.type = 0 THEN predictor_decompress_fir_adapt(r.out, wide, q.table, q.quant) ELSE r.out
Verbatim(b, i, step, samples, size) ==
    [j \in 1 .. samples |-> Wrap(readbits(b, i + (j - 1) * step, size), size)]

(* Samples of 16 bits are justified, others are not. *)
Scaled(x, alac) == [n \in DOMAIN x |-> IF alac.size = 16 THEN x[n] * 2 ^ (Depth - 16) ELSE x[n]]

MonoOf(b, h, wide, alac, q) ==
    Restored(Unpacked(b, q.index, h.samples, wide, alac, q), wide, q)
Mono(b, h, wide, alac) ==
    IF h.raw THEN Verbatim(b, h.index, wide, h.samples, wide)
    ELSE MonoOf(b, h, wide, alac, Coding(b, h.index + 16))
Twice(x) == <<x, x>>
decode_frame_mono(b, alac, h) == Twice(Scaled(Mono(b, h, alac.size - 8 * h.wasted, alac), alac))

Separated(x, y, shift, weight) ==
    LET both == [n \in DOMAIN x |-> deinterlace_16(x[n], y[n], shift, weight)]
    IN  <<[n \in DOMAIN x |-> both[n][1]], [n \in DOMAIN x |-> both[n][2]]>>
SecondOf(b, h, wide, alac, p, q, r) ==
    Separated(Restored(r, wide, p), Restored(Unpacked(b, r.index, h.samples, wide, alac, q), wide, q),
              readbits(b, h.index, 8), IF alac.size = 16 THEN readbits(b, h.index + 8, 8) ELSE 0)
StereoOf(b, h, wide, alac, p, q) ==
    SecondOf(b, h, wide, alac, p, q, Unpacked(b, q.index, h.samples, wide, alac, p))
StereoCoded(b, h, wide, alac, p) == StereoOf(b, h, wide, alac, p, Coding(b, p.index))
Stereo(b, h, wide, alac) ==
    IF h.raw THEN <<Verbatim(b, h.index, 2 * alac.size, h.samples, alac.size),
                    Verbatim(b, h.index + alac.size, 2 * alac.size, h.samples, alac.size)>>
    ELSE StereoCoded(b, h, wide, alac, Coding(b, h.index + 16))
decode_frame_stereo(b, alac, h) ==
    LET x == Stereo(b, h, alac.size - 8 * h.wasted + 1, alac)
    IN  <<Scaled(x[1], alac), Scaled(x[2], alac)>>

(* Both channels of a block; none of one that has more than two. *)
alac_decode_frame(b, alac) ==
    CASE readbits(b, 0, 3) = 0 -> decode_frame_mono(b, alac, Header(b, alac))
      [] readbits(b, 0, 3) = 1 -> decode_frame_stereo(b, alac, Header(b, alac))
      [] OTHER -> <<<<>>, <<>>>>

(* The bytes that alacPlay() makes of them. *)
Bytes(v, bps) == IF bps = 8 THEN <<(v + 128) % 256>> ELSE <<Floor(v, 13) % 256, Floor(v, 21) % 256>>
Pcm(out, channels, bps) ==
    Concat([n \in DOMAIN out[1] |-> Concat([c \in 1 .. channels |-> Bytes(out[c][n], bps)])])

VARIABLES blocks,       (* the blocks of the file that are to come         *)
          format,       (* [channels, bps, alac]: what the file says       *)
          wavbuf        (* the bytes made of the blocks so far             *)

alacVars == <<blocks, format, wavbuf>>

(* A turn of the loop of alacPlay(). *)
Block ==
    /\ blocks # <<>>
    /\ \E out \in {alac_decode_frame(Head(blocks), format.alac)} :
          wavbuf' = wavbuf \o Pcm(out, format.channels, format.bps)
    /\ blocks' = Tail(blocks)
    /\ UNCHANGED format
=============================================================================
