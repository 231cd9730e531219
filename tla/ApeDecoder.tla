----------------------------- MODULE ApeDecoder -----------------------------
(***************************************************************************)
(* The decoder of Monkey's Audio: ape/entropy.c, filter.c, predictor.c and *)
(* ape_decoder.c.  Where the build takes the assembly of an ARM for the    *)
(* predictor, that does what the C beside it does; the vectors are those   *)
(* of vector_math_generic.h, and the others are in ApeVectors.             *)
(*                                                                         *)
(* r is the range decoder with the buffer it reads from:                   *)
(*   [in, at, off |-> the byte to read next, low, range, help, buffer,     *)
(*    stale |-> what a byte is that the file did not fill].                *)
(***************************************************************************)
EXTENDS Bits

CONSTANTS CodeBits,             (* CODE_BITS, 32 in the code                  *)
          FilterHistory,        (* FILTER_HISTORY_SIZE                        *)
          PredictorHistory,     (* PREDICTOR_HISTORY_SIZE                     *)
          Orders                (* of the filters of 16, 32, 64, 256 and 1280 *)

ASSUME ApeDecoderAssumption ==
    /\ CodeBits \in 24 .. 32
    /\ FilterHistory \in Nat \ {0} /\ PredictorHistory \in Nat \ {0}
    /\ \A n \in {16, 32, 64, 256, 1280} : Orders[n] >= 8

(*----------------------------- the range decoder -------------------------*)

read_byte(r) == LET k == r.at + r.off + 1 IN IF k <= Len(r.in) THEN r.in[k] ELSE r.stale
skip_byte(r) ==         (* the bytes of a word are read from the last to the first *)
    IF r.off = 0 THEN [r EXCEPT !.at = @ + 4, !.off = 3] ELSE [r EXCEPT !.off = @ - 1]

EXTRA_BITS   == ((CodeBits - 2) % 8) + 1
BOTTOM_VALUE == 2 ^ (CodeBits - 9)

range_start_decoding(r) ==
    LET byte == read_byte(r)
    IN  [skip_byte(r) EXCEPT !.buffer = byte, !.low = Floor(byte, 8 - EXTRA_BITS), !.range = 2 ^ EXTRA_BITS]

Shifted(r, buffer) ==
    [skip_byte(r) EXCEPT !.buffer = buffer, !.low = (@ * 256) + (Floor(buffer, 8 - EXTRA_BITS) % 256),
                         !.range = @ * 256]
range_dec_normalize(r) ==
    Iterate(LAMBDA s, k : IF s.range > BOTTOM_VALUE THEN s
                          ELSE Shifted(s, (s.buffer % 256) * 256 + read_byte(s)), r, 4)

(* What is decoded out of tot_f values that are equally likely, and with an *)
(* interval for it.                                                         *)
Frequency(r, help) == [r |-> [r EXCEPT !.help = help], cf |-> r.low \div help]
Culfreq(r, tot_f) == Frequency(r, r.range \div tot_f)
range_decode_culfreq(r, tot_f) == Culfreq(range_dec_normalize(r), tot_f)
range_decode_culshift(r, shift) == range_decode_culfreq(r, 2 ^ shift)
range_decode_update(r, sy_f, lt_f) == [r EXCEPT !.low = @ - r.help * lt_f, !.range = r.help * sy_f]

Updated(d) == [val |-> d.cf, r |-> range_decode_update(d.r, 1, d.cf)]
range_decode_bits(r, n) == Updated(range_decode_culshift(r, n))
AsShort(d) == [d EXCEPT !.val = Wrap(@, 16)]
range_decode_short(r) == AsShort(range_decode_bits(r, 16))      (* signed *)
range_done_decoding(r) == range_dec_normalize(r)

MODEL_ELEMENTS == 64
(* Where the interval of each symbol ends: behind the last one listed, one  *)
(* further for each symbol, up to 2^16.                                     *)
Ends_3980 == <<19578, 36160, 48417, 56323, 60899, 63265, 64435, 64971, 65232, 65351, 65416, 65447,
               65466, 65476, 65482, 65485, 65488, 65490>>
Ends_3970 == <<14824, 28224, 39348, 47855, 53994, 58171, 60926, 62682, 63786, 64463, 64878, 65126,
               65276, 65365, 65419, 65450, 65469, 65480, 65487, 65491, 65493>>
Counts(ends) == [n \in 1 .. MODEL_ELEMENTS |->
                   IF n <= Len(ends) THEN ends[n] ELSE ends[Len(ends)] + n - Len(ends)]
counts_3980 == Counts(Ends_3980)
counts_3970 == Counts(Ends_3970)

(* The loop has no end of its own; only in a damaged stream no symbol holds *)
(* the frequency, and the last one stands for what is found then.           *)
Chosen(counts, d, n, lt) == [val |-> n - 1, r |-> range_decode_update(d.r, counts[n] - lt, lt)]
Symbol(counts, d) ==
    LET holds(n) == counts[n] > d.cf \/ n = MODEL_ELEMENTS
        first == CHOOSE n \in 1 .. MODEL_ELEMENTS : holds(n) /\ (n = 1 \/ ~ holds(n - 1))
    IN  Chosen(counts, d, first, IF first = 1 THEN 0 ELSE counts[first - 1])
range_get_symbol_3980(r) == Symbol(counts_3980, range_decode_culshift(r, 16))
range_get_symbol_3970(r) == Symbol(counts_3970, range_decode_culshift(r, 16))

(*----------------------------- Rice coded numbers ------------------------*)

Rice == [k |-> 10, ksum |-> 2 ^ 14]
WithSum(rice, ksum) ==
    [ksum |-> ksum,
     k |-> IF rice.k = 0 THEN 1
           ELSE IF ksum < 2 ^ (rice.k + 4) THEN rice.k - 1
           ELSE IF ksum >= 2 ^ (rice.k + 5) THEN rice.k + 1 ELSE rice.k]
update_rice(rice, x) == WithSum(rice, rice.ksum + (x + 1) \div 2 - Floor(rice.ksum + 16, 5))

(* A number, its sign in the lowest bit.  It is below zero itself when a    *)
(* half of 16 bits was taken for a signed number: all that follows in the   *)
(* frame is noise then, which is not modelled.                              *)
Coded(x, r, rice) ==
    IF x < 0 THEN [val |-> 0, r |-> r, rice |-> rice, lost |-> TRUE]
    ELSE [val |-> IF x % 2 = 1 THEN x \div 2 + 1 ELSE - (x \div 2), r |-> r,
          rice |-> update_rice(rice, x), lost |-> FALSE]

(* hi | lo, of which lo is extended by its sign *)
Halves(hi, lo) == IF lo < 0 THEN lo ELSE hi * 65536 + lo

Escape(hi, lo) == [val |-> Halves(hi.val, lo.val), r |-> lo.r]
EscapeLow(hi) == Escape(hi, range_decode_short(hi.r))
Overflow(d) == IF d.val = MODEL_ELEMENTS - 1 THEN EscapeLow(range_decode_short(d.r)) ELSE d

(* The number below the pivot, in two parts when it is wide. *)
BaseLow(hi, lo_bits, lo) == [val |-> hi.val * 2 ^ lo_bits + lo.val, r |-> lo.r]
BaseParts(hi, lo_bits) == BaseLow(hi, lo_bits, range_decode_bits(hi.r, lo_bits))
Base(r, pivot) ==
    LET lo_bits == Log2(pivot) + 1 - 16
    IN  IF pivot >= 65536
        THEN BaseParts(Updated(range_decode_culfreq(r, Floor(pivot, lo_bits) + 1)), lo_bits)
        ELSE Updated(range_decode_culfreq(r, pivot))

Pivot(rice) == IF Floor(rice.ksum, 5) = 0 THEN 1 ELSE Floor(rice.ksum, 5)
Whole3980(overflow, base, pivot, rice) == Coded(base.val + overflow * pivot, base.r, rice)
Below3980(over, pivot, rice) == Whole3980(over.val, Base(over.r, pivot), pivot, rice)
entropy_decode3980(r, rice) == Below3980(Overflow(range_get_symbol_3980(r)), Pivot(rice), rice)

(* With a number of bits that follows the mean, or that is in the stream.   *)
Rest3970(lo, hi) == [val |-> Halves(hi.val, lo.val), r |-> hi.r]
Low3970(lo, tmpk) == Rest3970(lo, range_decode_bits(lo.r, tmpk - 16))
Bits3970(r, tmpk) == IF tmpk <= 16 THEN range_decode_bits(r, tmpk) ELSE Low3970(range_decode_short(r), tmpk)
Whole3970(d, overflow, tmpk, rice) ==
    IF d.val < 0 THEN Coded(d.val, d.r, rice) ELSE Coded(d.val + overflow * 2 ^ tmpk, d.r, rice)
Number3970(r, overflow, tmpk, rice) == Whole3970(Bits3970(r, tmpk), overflow, tmpk, rice)
Long3970(d, rice) == Number3970(d.r, 0, d.val, rice)
Then3970(d, rice) ==
    IF d.val = MODEL_ELEMENTS - 1 THEN Long3970(range_decode_bits(d.r, 5), rice)
    ELSE Number3970(d.r, d.val, IF rice.k < 1 THEN 0 ELSE rice.k - 1, rice)
entropy_decode3970(r, rice) == Then3970(range_get_symbol_3970(r), rice)

(*---------------------------- a frame's entropy --------------------------*)

LEFT_SILENCE  == 1      (* and MONO_SILENCE *)
RIGHT_SILENCE == 2
PSEUDO_STEREO == 4
Flagged(flags, f) == (flags \div f) % 2 = 1     (* of one of them: 1, 2, 4 *)

(* The head of a frame: a checksum that nobody looks at, its flags, if the  *)
(* top bit of the checksum says so, and a byte that is ignored.             *)
Next4(r) == Iterate(LAMBDA s, k : skip_byte(s), r, 4)
Reader(inbuffer, firstbyte, stale) ==
    [in |-> inbuffer, at |-> 0, off |-> firstbyte, low |-> 0, range |-> 0, help |-> 0, buffer |-> 0,
     stale |-> stale]
Entropy(r, flags) ==
    [r |-> range_start_decoding(skip_byte(r)), flags |-> flags, riceX |-> Rice, riceY |-> Rice,
     blocksdecoded |-> 0, lost |-> FALSE]
LastByte(r) == read_byte(skip_byte(skip_byte(skip_byte(r))))
Flags(r) == Entropy(Next4(r), LastByte(r))
init_entropy_decoder(inbuffer, firstbyte, stale) ==
    LET r == Reader(inbuffer, firstbyte, stale)
    IN  IF read_byte(r) >= 128 THEN Flags(Next4(r)) ELSE Entropy(Next4(r), 0)

(* e is the entropy decoder and the numbers of the two channels so far.     *)
Pair(e, y, x) ==
    [e EXCEPT !.r = x.r, !.riceY = y.rice, !.riceX = x.rice, !.lost = @ \/ y.lost \/ x.lost,
              !.out0 = Append(@, y.val), !.out1 = Append(@, x.val)]
Single(e, y) == [e EXCEPT !.r = y.r, !.riceY = y.rice, !.lost = @ \/ y.lost, !.out0 = Append(@, y.val)]
Decode(version, r, rice) ==
    IF version > 3970 THEN entropy_decode3980(r, rice) ELSE entropy_decode3970(r, rice)
SecondOf(e, version, y) == Pair(e, y, Decode(version, y.r, e.riceX))
BlockOf(e, version, two) ==
    IF e.lost THEN e
    ELSE IF two THEN SecondOf(e, version, Decode(version, e.r, e.riceY))
    ELSE Single(e, Decode(version, e.r, e.riceY))
With(e, out0, out1) == [r |-> e.r, flags |-> e.flags, riceX |-> e.riceX, riceY |-> e.riceY,
                        blocksdecoded |-> e.blocksdecoded, lost |-> e.lost, out0 |-> out0, out1 |-> out1]
Counted(e, count, frameblocks) ==
    IF e.blocksdecoded + count = frameblocks
    THEN [e EXCEPT !.blocksdecoded = @ + count, !.r = range_done_decoding(@)]
    ELSE [e EXCEPT !.blocksdecoded = @ + count]
entropy_decode(e, version, two, count, frameblocks) ==
    Counted(IF Flagged(e.flags, LEFT_SILENCE) /\ (Flagged(e.flags, RIGHT_SILENCE) \/ ~ two)
            THEN With(e, Repeat(0, count), Repeat(0, count))
            ELSE Iterate(LAMBDA s, k : BlockOf(s, version, two), With(e, <<>>, <<>>), count),
            count, frameblocks)

(*--------------------------------- the filters ---------------------------*)

(* A filter has its coefficients and, behind them, one history for what it  *)
(* adapts by and for what it put out; the history moves back when full.     *)
FP_TO_INT(x, frac) == Floor(x + 2 ^ (frac - 1), frac)
SATURATE(x) == IF x > 32767 THEN 32767 ELSE IF x < -32768 THEN -32768 ELSE x
Quotient(a, b) == IF a < 0 THEN - ((- a) \div b) ELSE a \div b      (* a / b *)

vector_add(v1, v2) == [j \in DOMAIN v1 |-> Wrap(v1[j] + v2[j], 16)]
vector_sub(v1, v2) == [j \in DOMAIN v1 |-> Wrap(v1[j] - v2[j], 16)]
scalarproduct(v1, v2) == Iterate(LAMBDA v, j : v + v1[j] * v2[j], 0, Len(v1))

INIT_FILTER(order) ==
    [buf |-> Repeat(0, order * 3 + FilterHistory), adapt |-> order * 2, delay |-> order * 3, avg |-> 0]

Slice(f, end, n) == SubSeq(f.buf, end - n + 1, end)
Magnitude(v) == IF v < 0 THEN - v ELSE v
Adaption(res, size) == IF res = 0 THEN 0 ELSE IF res < 0 THEN size ELSE - size
Halved(b, places) == [k \in DOMAIN b |-> IF k \in places THEN Floor(b[k], 1) ELSE b[k]]
(* mutant: the pointers go back and the history stays where it is *)
Filled_unmoved(f, order) ==
    IF f.delay = order * 3 + FilterHistory THEN [f EXCEPT !.adapt = order * 2, !.delay = order * 3] ELSE f

Filled(f, order) ==
    IF f.delay = order * 3 + FilterHistory
    THEN [f EXCEPT !.buf = SubSeq(@, 1, order) \o Slice(f, f.delay, order * 2)
                           \o SubSeq(@, order * 3 + 1, Len(@)),
                   !.adapt = order * 2, !.delay = order * 3]
    ELSE f

Stepped(f, coeffs, res, adaption, avg, halved, order) ==
    Filled([buf |-> coeffs \o SubSeq(Halved([f.buf EXCEPT ![f.delay + 1] = SATURATE(res),
                                                          ![f.adapt + 1] = adaption], halved),
                                     order + 1, Len(f.buf)),
            adapt |-> f.adapt + 1, delay |-> f.delay + 1, avg |-> avg], order)
Learnt(coeffs, adapt, data) ==
    IF data < 0 THEN vector_add(coeffs, adapt)
    ELSE IF data > 0 THEN vector_sub(coeffs, adapt) ELSE coeffs
Filter3980(f, coeffs, res, order) ==
    LET size == IF Magnitude(res) > 3 * f.avg THEN 32
                ELSE IF 3 * Magnitude(res) > 4 * f.avg THEN 16 ELSE 8
    IN  Stepped(f, coeffs, res, Adaption(res, size),
                f.avg + Quotient(Magnitude(res) - f.avg, 16), {f.adapt, f.adapt - 1, f.adapt - 7}, order)
Filter3970(f, coeffs, res, order) ==
    Stepped(f, coeffs, res, Adaption(res, 4), f.avg, {f.adapt - 3, f.adapt - 7}, order)
Filtered(s, coeffs, res, version, order) ==
    [f |-> IF version >= 3980 THEN Filter3980(s.f, coeffs, res, order) ELSE Filter3970(s.f, coeffs, res, order),
     out |-> Append(s.out, res)]
FilterOne(s, data, version, st) ==
    LET order  == st.order
        coeffs == SubSeq(s.f.buf, 1, order)
    IN  Filtered(s, Learnt(coeffs, Slice(s.f, s.f.adapt, order), data),
                 data + FP_TO_INT(scalarproduct(coeffs, Slice(s.f, s.f.delay, order)), st.frac),
                 version, order)
do_apply_filter(f, data, version, st) ==
    Iterate(LAMBDA s, j : FilterOne(s, data[j], version, st), [f |-> f, out |-> <<>>], Len(data))

(*-------------------------------- the predictor --------------------------*)

PREDICTOR_SIZE == 50
(* Where in the history the channels keep what they predict from, A of      *)
(* their own and B of the other channel, and its signs to adapt by.         *)
Places == [Y |-> [delayA |-> 50, delayB |-> 42, adaptA |-> 18, adaptB |-> 10],
           X |-> [delayA |-> 34, delayB |-> 26, adaptA |-> 14, adaptB |-> 5]]
SIGN(x) == IF x = 0 THEN 0 ELSE IF x > 0 THEN -1 ELSE 1

Channel == [last |-> 0, filterA |-> 0, filterB |-> 0, A |-> <<360, 317, -109, 98>>, B |-> Repeat(0, 5)]
init_predictor_decoder ==
    [hist |-> Repeat(0, PredictorHistory + PREDICTOR_SIZE), buf |-> 0, Y |-> Channel, X |-> Channel]

(* A value comes in, and the one before becomes the step between them. *)
Step(h, delay, adapt, last, step) ==
    [h EXCEPT ![delay + 1] = last, ![adapt + 1] = SIGN(last), ![delay] = step, ![adapt] = SIGN(step)]
Delayed(h, delay, adapt, last) == Step(h, delay, adapt, last, last - h[delay])
Prediction(h, delay, coeffs) == Iterate(LAMBDA v, j : v + h[delay + 2 - j] * coeffs[j], 0, Len(coeffs))
Adapted(coeffs, h, adapt, data) ==
    [j \in DOMAIN coeffs |-> IF data > 0 THEN coeffs[j] - h[adapt + 2 - j]
                             ELSE IF data < 0 THEN coeffs[j] + h[adapt + 2 - j] ELSE coeffs[j]]
Smoothed(last, filterA) == last + Floor(filterA * 31, 5)
Restored(ch, h, at, base, other, data, last) ==
    [hist |-> h,
     ch |-> [last |-> last, filterA |-> Smoothed(last, ch.filterA), filterB |-> other,
             A |-> Adapted(ch.A, h, base + at.adaptA, data), B |-> Adapted(ch.B, h, base + at.adaptB, data)]]
FromBoth(ch, h, at, base, other, data) ==
    Restored(ch, h, at, base, other, data,
             data + Floor(Prediction(h, base + at.delayA, ch.A)
                          + Floor(Prediction(h, base + at.delayB, ch.B), 1), 10))
OneChannel(h, base, ch, at, other, data) ==
    FromBoth(ch, Delayed(Delayed(h, base + at.delayA, base + at.adaptA, ch.last),
                         base + at.delayB, base + at.adaptB, other - Floor(ch.filterB * 31, 5)),
             at, base, other, data)

Advanced(hist, buf, Y, X) ==
    IF buf + 1 = PredictorHistory
    THEN [hist |-> SubSeq(hist, buf + 2, buf + 1 + PREDICTOR_SIZE) \o SubSeq(hist, PREDICTOR_SIZE + 1, Len(hist)),
          buf |-> 0, Y |-> Y, X |-> X]
    ELSE [hist |-> hist, buf |-> buf + 1, Y |-> Y, X |-> X]
StereoEnd(s, y, x) ==
    [p |-> Advanced(x.hist, s.p.buf, y.ch, x.ch),
     out0 |-> Append(s.out0, y.ch.filterA), out1 |-> Append(s.out1, x.ch.filterA)]
StereoX(s, y, data) ==
    StereoEnd(s, y, OneChannel(y.hist, s.p.buf, s.p.X, Places.X, y.ch.filterA, data))
StereoBlock(s, data0, data1) ==
    StereoX(s, OneChannel(s.p.hist, s.p.buf, s.p.Y, Places.Y, s.p.X.filterA, data0), data1)
predictor_decode_stereo(p, data0, data1) ==
    Iterate(LAMBDA s, j : StereoBlock(s, data0[j], data1[j]), [p |-> p, out0 |-> <<>>, out1 |-> <<>>],
            Len(data0))

MonoEnd(s, h, data, last) ==
    LET y == [s.p.Y EXCEPT !.last = last, !.filterA = Smoothed(last, @),
                           !.A = Adapted(@, h, s.p.buf + Places.Y.adaptA, data)]
    IN  [p |-> Advanced(h, s.p.buf, y, s.p.X), out0 |-> Append(s.out0, y.filterA)]
MonoFrom(s, h, data) ==
    MonoEnd(s, h, data, data + Floor(Prediction(h, s.p.buf + Places.Y.delayA, s.p.Y.A), 10))
MonoBlock(s, data) ==
    MonoFrom(s, Delayed(s.p.hist, s.p.buf + Places.Y.delayA, s.p.buf + Places.Y.adaptA, s.p.Y.last), data)
predictor_decode_mono(p, data0) ==
    Iterate(LAMBDA s, j : MonoBlock(s, data0[j]), [p |-> p, out0 |-> <<>>], Len(data0))

(*----------------------------------- a chunk -----------------------------*)

Filter(n, frac) == [order |-> Orders[n], frac |-> frac]
Filters(compressiontype) ==
    CASE compressiontype = 2000 -> <<Filter(16, 11)>>
      [] compressiontype = 3000 -> <<Filter(64, 11)>>
      [] compressiontype = 4000 -> <<Filter(32, 10), Filter(256, 13)>>
      [] compressiontype = 5000 -> <<Filter(16, 11), Filter(256, 13), Filter(1280, 15)>>
      [] OTHER -> <<>>

(* d is the decoder of a frame, with the filters of the two channels.       *)
init_frame_decoder(ctx, inbuffer, firstbyte, stale) ==
    LET empty == [j \in DOMAIN Filters(ctx.compressiontype) |-> INIT_FILTER(Filters(ctx.compressiontype)[j].order)]
    IN  [e |-> init_entropy_decoder(inbuffer, firstbyte, stale), p |-> init_predictor_decoder,
         filter0 |-> empty, filter1 |-> empty]

ApplyOne(s, f) == [fs |-> Append(s.fs, f.f), out |-> f.out]
apply_filters(fs, data, version, compressiontype) ==
    LET st == Filters(compressiontype)
    IN  Iterate(LAMBDA s, j : ApplyOne(s, do_apply_filter(fs[j], s.out, version, st[j])),
                [fs |-> <<>>, out |-> data], Len(st))

(* A chunk: the decoder behind it and the samples of the two channels.      *)
Chunk(e, p, f0, f1, out0, out1) ==
    [d |-> [e |-> e, p |-> p, filter0 |-> f0, filter1 |-> f1], out0 |-> out0, out1 |-> out1]
MonoChunk(d, e, f, q) == Chunk(e, q.p, f.fs, d.filter1, q.out0, q.out0)
MonoFiltered(d, e, f) == MonoChunk(d, e, f, predictor_decode_mono(d.p, f.out))
StereoChunk(e, f, g, q) ==
    LET left == [j \in DOMAIN q.out0 |-> q.out1[j] - Quotient(q.out0[j], 2)]
    IN  Chunk(e, q.p, f.fs, g.fs, left, [j \in DOMAIN left |-> left[j] + q.out0[j]])
StereoFiltered(d, e, f, g) == StereoChunk(e, f, g, predictor_decode_stereo(d.p, f.out, g.out))
ChunkOf(ctx, d, e, two) ==
    IF Flagged(e.flags, LEFT_SILENCE) /\ (Flagged(e.flags, RIGHT_SILENCE) \/ ~ two)
    THEN Chunk(e, d.p, d.filter0, d.filter1, e.out0, e.out1)
    ELSE IF two
    THEN StereoFiltered(d, e, apply_filters(d.filter0, e.out0, ctx.fileversion, ctx.compressiontype),
                              apply_filters(d.filter1, e.out1, ctx.fileversion, ctx.compressiontype))
    ELSE MonoFiltered(d, e, apply_filters(d.filter0, e.out0, ctx.fileversion, ctx.compressiontype))
InTwo(ctx, flags) ==
    ctx.channels # 1 /\ (Flagged(flags, PSEUDO_STEREO)
                         => Flagged(flags, LEFT_SILENCE) \/ Flagged(flags, RIGHT_SILENCE))
decode_chunk(ctx, d, inbuffer, count, frameblocks) ==
    LET e == [d.e EXCEPT !.r.in = inbuffer, !.r.at = 0]
    IN  ChunkOf(ctx, d, entropy_decode(e, ctx.fileversion, InTwo(ctx, e.flags), count, frameblocks),
                InTwo(ctx, e.flags))
=============================================================================
