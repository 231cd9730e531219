----------------------------- MODULE FlacFormat -----------------------------
(***************************************************************************)
(* FLAC frames as an encoder writes them: what the decoder must undo.  A   *)
(* frame says how its samples are coded:                                   *)
(*   [pcm  |-> the samples of each channel, bps, sizecode,                 *)
(*    fixed |-> the blocksize is that of the stream, number,               *)
(*    assign |-> channel assignment, subs |-> the coding of each channel]  *)
(* and a coding is                                                         *)
(*   [kind |-> "constant", "verbatim", "fixed" or "lpc", order, wasted,    *)
(*    coeffs, prec, qlevel |-> of "lpc",                                   *)
(*    method, parts |-> the parameter of each partition, as               *)
(*    <<"rice", k>> or <<"raw", width>>]                                   *)
(***************************************************************************)
EXTENDS Bits

Zigzag(v) == IF v >= 0 THEN 2 * v ELSE - 2 * v - 1
Rice(v, k) == Repeat(0, Floor(Zigzag(v), k)) \o <<1>> \o BitsOf(Zigzag(v) % 2 ^ k, k)

Utf8(v) ==
    IF v < 128 THEN BitsOf(v, 8)
    ELSE IF v < 2048 THEN <<1, 1, 0>> \o BitsOf(v \div 64, 5) \o <<1, 0>> \o BitsOf(v % 64, 6)
    ELSE <<1, 1, 1, 0>> \o BitsOf(v \div 4096, 4) \o <<1, 0>> \o BitsOf((v \div 64) % 64, 6)
                        \o <<1, 0>> \o BitsOf(v % 64, 6)

(* The remainder of bits followed by eight zeros, divided by x^8+x^2+x+1. *)
Crc8(bits) ==
    LET poly == <<0, 0, 0, 0, 0, 1, 1, 1>>
        Shift(r, k) ==
            LET top == (r[1] + bits[k]) % 2
            IN  [j \in 1 .. 8 |-> ((IF j = 8 THEN 0 ELSE r[j + 1]) + top * poly[j]) % 2]
    IN  Iterate(Shift, Repeat(0, 8), Len(bits))

(* What a fixed predictor of some order predicts for sample n of s. *)
FixedPrediction(s, n, order) ==
    CASE order = 0 -> 0
      [] order = 1 -> s[n - 1]
      [] order = 2 -> 2 * s[n - 1] - s[n - 2]
      [] order = 3 -> 3 * s[n - 1] - 3 * s[n - 2] + s[n - 3]
      [] order = 4 -> 4 * s[n - 1] - 6 * s[n - 2] + 4 * s[n - 3] - s[n - 4]

LpcSum(s, n, sub) == Sum([j \in 1 .. sub.order |-> sub.coeffs[j] * s[n - j]])

Prediction(s, n, sub) ==
    IF sub.kind = "fixed" THEN FixedPrediction(s, n, sub.order)
    ELSE Floor(LpcSum(s, n, sub), sub.qlevel)

Residuals(s, sub) ==
    LET order == Log2(Len(sub.parts))
        each == Len(s) \div Len(sub.parts)
        width == IF sub.method = 0 THEN 4 ELSE 5
        e(n) == s[n] - Prediction(s, n, sub)
        Part(p) ==
            LET from == IF p = 1 THEN sub.order + 1 ELSE (p - 1) * each + 1
                count == p * each + 1 - from
                param == sub.parts[p]
            IN  IF param[1] = "rice"
                THEN BitsOf(param[2], width)
                     \o Concat([j \in 1 .. count |-> Rice(e(from - 1 + j), param[2])])
                ELSE BitsOf(2 ^ width - 1, width) \o BitsOf(param[2], 5)
                     \o Concat([j \in 1 .. count |-> BitsOf(e(from - 1 + j), param[2])])
    IN  BitsOf(sub.method, 2) \o BitsOf(order, 4) \o Concat([p \in 1 .. Len(sub.parts) |-> Part(p)])

Subframe(pcm, bps, sub) ==
    LET s == [n \in DOMAIN pcm |-> Floor(pcm[n], sub.wasted)]
        w == bps - sub.wasted
        type == CASE sub.kind = "constant" -> 0 [] sub.kind = "verbatim" -> 1
                  [] sub.kind = "fixed" -> 8 + sub.order [] sub.kind = "lpc" -> 31 + sub.order
        warm == Concat([n \in 1 .. sub.order |-> BitsOf(s[n], w)])
    IN  <<0>> \o BitsOf(type, 6)
        \o (IF sub.wasted = 0 THEN <<0>> ELSE <<1>> \o Repeat(0, sub.wasted - 1) \o <<1>>)
        \o (CASE sub.kind = "constant" -> BitsOf(s[1], w)
              [] sub.kind = "verbatim" -> Concat([n \in DOMAIN s |-> BitsOf(s[n], w)])
              [] sub.kind = "fixed" -> warm \o Residuals(s, sub)
              [] sub.kind = "lpc" -> warm \o BitsOf(sub.prec - 1, 4) \o BitsOf(sub.qlevel, 5)
                     \o Concat([j \in 1 .. sub.order |-> BitsOf(sub.coeffs[j], sub.prec)])
                     \o Residuals(s, sub))

(* What is coded for each channel, and how much wider than bps it is. *)
Coded(f) ==
    LET l == f.pcm[1]
        r == f.pcm[Len(f.pcm)]
        side == [n \in DOMAIN l |-> l[n] - r[n]]
        mid  == [n \in DOMAIN l |-> Floor(l[n] + r[n], 1)]
    IN  CASE f.assign = 8 -> <<l, side>> [] f.assign = 9 -> <<side, r>>
          [] f.assign = 10 -> <<mid, side>> [] OTHER -> f.pcm

Wider(f, c) ==
    IF (f.assign \in {8, 10} /\ c = 2) \/ (f.assign = 9 /\ c = 1) THEN 1 ELSE 0

Header(f) ==
    LET h == BitsOf(32764, 15) \o <<IF f.fixed THEN 0 ELSE 1>>
             \o BitsOf(IF f.fixed THEN 0 ELSE 6, 4) \o BitsOf(0, 4) \o BitsOf(f.assign, 4)
             \o BitsOf(f.sizecode, 3) \o <<0>> \o Utf8(f.number)
             \o (IF f.fixed THEN <<>> ELSE BitsOf(Len(f.pcm[1]) - 1, 8))
    IN  h \o Crc8(h)

Encode(f) ==
    LET bits == Header(f)
                \o Concat([c \in DOMAIN f.pcm |-> Subframe(Coded(f)[c], f.bps + Wider(f, c), f.subs[c])])
    IN  bits \o Repeat(0, (- Len(bits)) % 8) \o Repeat(0, 16)

(* The samples in whole bytes, channel by channel, low byte first. *)
AsBytes(f) ==
    Concat([n \in DOMAIN f.pcm[1] |->
       Concat([c \in DOMAIN f.pcm |->
          [j \in 1 .. (f.bps + 7) \div 8 |-> Floor(f.pcm[c][n], 8 * (j - 1)) % 256]])])
=============================================================================
