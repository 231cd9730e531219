-------------------------------- MODULE Bits --------------------------------
(***************************************************************************)
(* Numbers as sequences of bits, the most significant first, and loops of  *)
(* a known length.  The bit streams of the decoders are such sequences.    *)
(***************************************************************************)
EXTENDS Integers, Sequences

(* Op(...Op(Op(base, 1), 2)..., n): a loop that counts from 1 to n, as two *)
(* loops of half the length.  Every step is taken from the value of the one *)
(* before, not from its expression.                                        *)
The(S) == CHOOSE x \in S : TRUE
Iterate(Op(_, _), base, n) ==
    LET RECURSIVE Loop(_, _, _)
        Loop(x, first, last) ==
            LET middle == (first + last) \div 2
            IN  IF first = last THEN Op(x, first)
                ELSE The({Loop(y, middle + 1, last) : y \in {Loop(x, first, middle)}})
    IN  IF n <= 0 THEN base ELSE Loop(base, 1, n)

Floor(v, n) == v \div 2 ^ n                 (* v >> n, of a signed number *)
Bit(v, n)   == Floor(v, n) % 2
Wrap(v, w)  ==                              (* v as a signed number of w bits *)
    LET u == v % 2 ^ w IN IF u >= 2 ^ (w - 1) THEN u - 2 ^ w ELSE u

BitsOf(v, n) == [k \in 1 .. n |-> Bit(v, n - k)]
Num(bs)    == Iterate(LAMBDA v, k : 2 * v + bs[k], 0, Len(bs))
Signed(bs) == IF bs[1] = 1 THEN Num(Tail(bs)) - 2 ^ (Len(bs) - 1) ELSE Num(Tail(bs))

Repeat(x, n) == [k \in 1 .. n |-> x]
Sum(s) == Iterate(LAMBDA v, k : v + s[k], 0, Len(s))
Concat(ss) == Iterate(LAMBDA s, k : s \o ss[k], <<>>, Len(ss))
Log2(v) == CHOOSE n \in 0 .. 30 : 2 ^ n <= v /\ (n = 30 \/ v < 2 ^ (n + 1))
=============================================================================
