------------------------------ MODULE ApeFormat -----------------------------
(***************************************************************************)
(* Frames of Monkey's Audio as an encoder writes them: what the decoder    *)
(* must undo.  A frame has the samples of each channel, pcm, and its flags;*)
(* a file has a version, a compression type and a number of frames.  The   *)
(* filters and predictors are told by the signals they have seen, not by   *)
(* buffers.                                                                *)
(***************************************************************************)
EXTENDS ApeDecoder

Sgn(v) == IF v > 0 THEN 1 ELSE IF v < 0 THEN -1 ELSE 0
Newest(s, n) == [j \in 1 .. n |-> IF j <= Len(s) THEN s[Len(s) + 1 - j] ELSE 0]
Product(a, b) == Sum([j \in DOMAIN a |-> a[j] * b[j]])

(*------------------------------ the predictors ---------------------------*)

(* A signal and the steps it took, the newest first, and how coefficients   *)
(* follow the signs of what was predicted from when data was the error.     *)
Steps(s, n) == LET x == Newest(s, n + 1) IN [j \in 1 .. n |-> IF j = 1 THEN x[1] ELSE x[j - 1] - x[j]]
Follow(c, from, data) == [j \in DOMAIN c |-> c[j] + Sgn(data) * Sgn(from[j])]

Fresh == [a |-> <<>>, b |-> <<>>, y |-> 0, other |-> 0, A |-> <<360, 317, -109, 98>>, B |-> Repeat(0, 5)]
Unsmooth(y, before) == y - Floor(31 * before, 5)
Told(ch, y, a, b, other, err) ==
    [ch |-> [a |-> Append(ch.a, a), b |-> b, y |-> y, other |-> other, A |-> Follow(ch.A, Steps(ch.a, 4), err),
             B |-> Follow(ch.B, Steps(b, 5), err)], err |-> err]
TellBoth(ch, y, a, b, other) ==
    Told(ch, y, a, b, other,
         a - Floor(Product(Steps(ch.a, 4), ch.A) + Floor(Product(Steps(b, 5), ch.B), 1), 10))
Tell(ch, y, other) == TellBoth(ch, y, Unsmooth(y, ch.y), Append(ch.b, Unsmooth(other, ch.other)), other)
TellOne(ch, y, a) == Told(ch, y, a, <<>>, 0, a - Floor(Product(Steps(ch.a, 4), ch.A), 10))

AfterX(s, Y, X) == [Y |-> Y.ch, X |-> X.ch, e0 |-> Append(s.e0, Y.err), e1 |-> Append(s.e1, X.err)]
AfterY(s, Y, d1) == AfterX(s, Y, Tell(s.X, d1, Y.ch.y))
Errors2(d0, d1) ==
    LET end == Iterate(LAMBDA s, n : AfterY(s, Tell(s.Y, d0[n], s.X.y), d1[n]),
                       [Y |-> Fresh, X |-> Fresh, e0 |-> <<>>, e1 |-> <<>>], Len(d0))
    IN  <<end.e0, end.e1>>
After1(s, Y) == [Y |-> Y.ch, e0 |-> Append(s.e0, Y.err)]
Errors1(d0) == <<Iterate(LAMBDA s, n : After1(s, TellOne(s.Y, d0[n], Unsmooth(d0[n], s.Y.y))),
                         [Y |-> Fresh, e0 |-> <<>>], Len(d0)).e0>>

(*------------------------------- the filters -----------------------------*)

Loudness(x, avg) == IF Magnitude(x) > 3 * avg THEN 32 ELSE IF 3 * Magnitude(x) > 4 * avg THEN 16 ELSE 8
(* The weights of what was put out n samples ago: they are halved as they   *)
(* get one, two and eight samples old, or four and eight.                   *)
Age(weights, w, ages) ==
    Append([k \in DOMAIN weights |-> IF Len(weights) + 1 - k \in ages THEN Floor(weights[k], 1) ELSE weights[k]], w)
Unfilter1(s, x, version, order, err) ==
    LET weights == Newest(s.w, order)
        w == IF version >= 3980 THEN - Sgn(x) * Loudness(x, s.avg) ELSE - 4 * Sgn(x)
    IN  [c |-> [j \in 1 .. order |-> s.c[j] - Sgn(err) * weights[j]],
         x |-> Append(s.x, SATURATE(x)), w |-> Age(s.w, w, IF version >= 3980 THEN {1, 2, 8} ELSE {4, 8}),
         avg |-> s.avg + Quotient(Magnitude(x) - s.avg, 16), out |-> Append(s.out, err)]
Unfilter(xs, version, st) ==
    Iterate(LAMBDA s, n : Unfilter1(s, xs[n], version, st.order,
                                    xs[n] - Floor(Product(s.c, Newest(s.x, st.order)) + 2 ^ (st.frac - 1), st.frac)),
            [c |-> Repeat(0, st.order), x |-> <<>>, w |-> <<>>, avg |-> 0, out |-> <<>>], Len(xs)).out
Unfiltered(xs, version, st) ==
    Iterate(LAMBDA x, j : Unfilter(x, version, st[Len(st) + 1 - j]), xs, Len(st))

(*------------------------------ the range coder --------------------------*)

(* c has the bytes put out, the first for the carries, and the interval.    *)
Coder == [out |-> <<0>>, low |-> 0, range |-> 2 ^ (CodeBits - 1)]
Carry(out) ==
    LET last == CHOOSE n \in DOMAIN out : out[n] # 255 /\ \A m \in n + 1 .. Len(out) : out[m] = 255
    IN  [n \in DOMAIN out |-> IF n > last THEN 0 ELSE IF n = last THEN out[n] + 1 ELSE out[n]]
Emit(out, low) ==
    Append(IF low >= 2 ^ (CodeBits - 1) THEN Carry(out) ELSE out, Floor(low, CodeBits - 9) % 256)
Narrow(c) ==
    Iterate(LAMBDA s, k : IF s.range > 2 ^ (CodeBits - 9) THEN s
                          ELSE [out |-> Emit(s.out, s.low), low |-> (s.low % 2 ^ (CodeBits - 9)) * 256,
                                range |-> s.range * 256], c, 4)
Within(c, from, width, help) == [c EXCEPT !.low = @ + help * from, !.range = help * width]
PutIn(c, from, width, total) == Within(c, from, width, c.range \div total)
Put(c, from, width, total) == PutIn(Narrow(c), from, width, total)
Last4(c) == LET low == c.low % 2 ^ (CodeBits - 1)
                out == IF c.low >= 2 ^ (CodeBits - 1) THEN Carry(c.out) ELSE c.out
            IN  out \o [k \in 1 .. 4 |-> IF k < 4 THEN Floor(low, CodeBits - 1 - 8 * k) % 256
                                         ELSE (low % 2 ^ (CodeBits - 25)) * 2 ^ (33 - CodeBits)]
PutSymbol(c, counts, n) ==
    IF n = 0 THEN Put(c, 0, counts[1], 65536) ELSE Put(c, counts[n], counts[n + 1] - counts[n], 65536)
PutBits(c, v, n) == Put(c, v, 1, 2 ^ n)

(* A number with what is above the pivot as a symbol, which is escaped when *)
(* it is large, and the rest; or with a number of bits.                     *)
Unsign(v) == IF v > 0 THEN 2 * v - 1 ELSE - 2 * v
Above(c, over) ==
    IF over < 63 THEN PutSymbol(c, counts_3980, over)
    ELSE PutBits(PutBits(PutSymbol(c, counts_3980, 63), over \div 65536, 16), over % 65536, 16)
Below(c, base, pivot) ==
    LET low == Log2(pivot) - 15
    IN  IF pivot >= 65536
        THEN PutBits(Put(c, Floor(base, low), 1, Floor(pivot, low) + 1), base % 2 ^ low, low)
        ELSE Put(c, base, 1, pivot)
Put3980(c, x, pivot) == Below(Above(c, x \div pivot), x % pivot, pivot)
Wide(c, v, n) == IF n <= 16 THEN PutBits(c, v, n) ELSE PutBits(PutBits(c, v % 65536, 16), v \div 65536, n - 16)
Put3970(c, x, n) ==
    IF Floor(x, n) < 63 THEN Wide(PutSymbol(c, counts_3970, Floor(x, n)), x % 2 ^ n, n)
    ELSE LET m == Log2(x) + 1 IN Wide(PutBits(PutSymbol(c, counts_3970, 63), m, 5), x, m)
Later(rice, x) == WithSum(rice, rice.ksum + ((x + 1) \div 2) - Floor(rice.ksum + 16, 5))
Number(s, ch, x, version) ==
    [s EXCEPT !.c = IF version > 3970
                    THEN Put3980(@, x, IF s.rice[ch].ksum < 32 THEN 1 ELSE s.rice[ch].ksum \div 32)
                    ELSE Put3970(@, x, IF s.rice[ch].k = 0 THEN 0 ELSE s.rice[ch].k - 1),
              !.rice[ch] = Later(@, x)]
Numbers(errs, version) ==
    LET channels == Len(errs)
    IN  Iterate(LAMBDA s, n : LET ch == ((n - 1) % channels) + 1
                              IN  Number(s, ch, Unsign(errs[ch][((n - 1) \div channels) + 1]), version),
                [c |-> Coder, rice |-> [ch \in 1 .. channels |-> Rice]], channels * Len(errs[1])).c

(*---------------------------------- a frame ------------------------------*)

Silent(f) == f.flags \in {3, 7} \/ (Len(f.pcm) = 1 /\ f.flags % 2 = 1)
Signals(f) ==
    IF Len(f.pcm) = 1 \/ f.flags = 4 THEN Errors1(f.pcm[1])
    ELSE LET d0 == [n \in DOMAIN f.pcm[1] |-> f.pcm[2][n] - f.pcm[1][n]]
         IN  Errors2(d0, [n \in DOMAIN d0 |-> f.pcm[1][n] + Quotient(d0[n], 2)])
Bytes4(v) == <<0, 0, v \div 256, v % 256>>
Entropies(errs, version, st) == Last4(Narrow(Numbers([c \in DOMAIN errs |-> Unfiltered(errs[c], version, st)], version)))
FrameBytes(f, version, type) ==
    (IF f.flags = 0 THEN Bytes4(f.crc) ELSE <<128, 0, 0, 0>> \o Bytes4(f.flags))
    \o (IF Silent(f) THEN Last4(Coder) ELSE Entropies(Signals(f), version, Filters(type)))

(* The frames one after the other, and each four bytes turned round.        *)
FrameStarts(bytes) == [k \in DOMAIN bytes |-> Sum([j \in 1 .. k - 1 |-> Len(bytes[j])])]
Turned(bytes) ==
    LET padded == bytes \o Repeat(0, (- Len(bytes)) % 4)
    IN  [k \in DOMAIN padded |-> padded[4 * ((k - 1) \div 4) + 4 - ((k - 1) % 4)]]

(* The samples as they are played. *)
SampleBytes(v, bps) ==
    CASE bps = 8  -> <<(v + 128) % 256>>
      [] bps = 16 -> <<v % 256, Floor(v, 8) % 256>>
      [] bps = 24 -> <<v % 256, Floor(v, 8) % 256, Floor(v, 16) % 256>>
FrameSamples(f, bps) ==
    [n \in DOMAIN f.pcm[1] |-> Concat([c \in DOMAIN f.pcm |-> SampleBytes(f.pcm[c][n], bps)])]
=============================================================================
