----------------------------- MODULE ApeVectors -----------------------------
(***************************************************************************)
(* The vectors of the filters of Monkey's Audio (ape/vector_math*.h) in    *)
(* the assembler of four processors.  A word holds two numbers; the vector *)
(* v2 moves by one number with every sample, so that it starts in the      *)
(* middle of a word every other time.  A definition is a function of the   *)
(* words in the order in which they are fetched; how the registers take    *)
(* turns is left out.  An operator named for an instruction does what the  *)
(* instruction does.                                                       *)
(***************************************************************************)
EXTENDS Integers, Sequences

CONSTANT H                      (* the values of a number, 2^16 in the code *)

ASSUME HalfAssumption == H \in Nat /\ H >= 2

Lower(w) == w % H
Upper(w) == w \div H
Value(h) == IF 2 * (h % H) >= H THEN (h % H) - H ELSE h % H    (* its sign  *)
Total(s) == LET f[k \in 0 .. Len(s)] == IF k = 0 THEN 0 ELSE f[k - 1] + s[k] IN f[Len(s)]
lsr(w) == Upper(w)              (* by half a word, as the following        *)
lsl(w) == Lower(w) * H
ror(w) == Lower(w) * H + Upper(w)
add(a, b) == (a + b) % (H * H)
sub(a, b) == (a - b) % (H * H)

(* The words of numbers in memory, and the numbers of words: the first one  *)
(* is the lower half on an ARM and the upper half on a ColdFire.            *)
Little(m) == [k \in 1 .. Len(m) \div 2 |-> m[2 * k - 1] + m[2 * k] * H]
Big(m)    == [k \in 1 .. Len(m) \div 2 |-> m[2 * k - 1] * H + m[2 * k]]
FromLittle(ws) == [j \in 1 .. 2 * Len(ws) |-> LET w == ws[(j + 1) \div 2] IN IF j % 2 = 1 THEN Lower(w) ELSE Upper(w)]
FromBig(ws)    == [j \in 1 .. 2 * Len(ws) |-> LET w == ws[(j + 1) \div 2] IN IF j % 2 = 1 THEN Upper(w) ELSE Lower(w)]

(* The first n of v1 become Op of them, in v2 or across the words of v2 of  *)
(* which s1 is the one before; the rest stays.                              *)
Straight(Op(_, _), n, v1, v2) == [k \in DOMAIN v1 |-> IF k <= n THEN Op(v1[k], v2[k]) ELSE v1[k]]
Across(Op(_, _, _), n, v1, s1, v2) ==
    [k \in DOMAIN v1 |-> IF k > n THEN v1[k] ELSE Op(v1[k], IF k = 1 THEN s1 ELSE v2[k - 1], v2[k])]

(* A vector as it lies in memory: its numbers, an address that is odd in    *)
(* words or not, and what lies beside it.                                   *)
Behind(v) == v.nums \o <<v.beside>>
Around(v) == <<v.beside>> \o Behind(v)

-----------------------------------------------------------------------------
(* ARMv5TE: two blocks of four words as often as 16 goes into the order.    *)
Words5(order) == 2 * 4 * (order \div 16)

(* mutant: the lower halves carry into the upper ones *)
ADDHALFREGS_carry(sum, s1) == add(sum, s1)
ADDHALFREGS(sum, s1) == lsl(add(ror(s1), lsr(sum))) + lsr(add(ror(s1), lsl(sum)))

ADDHALFXREGS(sum, s1, s2) == lsl(add(s2, lsr(sum))) + lsr(add(s1, lsl(sum)))
SUBHALFREGS(dif, s1) == Lower(sub(dif, s1)) + lsl(sub(lsr(dif), lsr(s1)))
SUBHALFXREGS(dif, s1, s2) == Lower(sub(dif, lsr(s1))) + lsl(sub(lsr(dif), s2))

(* An odd vector begins with a half word alone, shifted up.                 *)
Lone(v) == lsl(v.nums[1])
vector_add5(order, v1, v2) ==
    FromLittle(IF v2.odd THEN Across(ADDHALFXREGS, Words5(order), Little(v1), Lone(v2), Little(Tail(Behind(v2))))
               ELSE Straight(ADDHALFREGS, Words5(order), Little(v1), Little(v2.nums)))
vector_sub5(order, v1, v2) ==
    FromLittle(IF v2.odd THEN Across(SUBHALFXREGS, Words5(order), Little(v1), Lone(v2), Little(Tail(Behind(v2))))
               ELSE Straight(SUBHALFREGS, Words5(order), Little(v1), Little(v2.nums)))

(* One pass or as often as 32 goes into the order, of a block of four words *)
(* and the repeated ones.                                                   *)
Passes(order) == IF order > 32 THEN order \div 32 ELSE 1
MLA_BLOCKS(order) == IF order > 16 THEN 3 ELSE 1
WordsMla(order) == Passes(order) * 4 * (1 + MLA_BLOCKS(order))
smlabb(x, y) == Value(Lower(x)) * Value(Lower(y))
smlatt(x, y) == Value(Upper(x)) * Value(Upper(y))
smlabt(x, y) == Value(Lower(x)) * Value(Upper(y))
smlatb(x, y) == Value(Upper(x)) * Value(Lower(y))
Mla5(words, v1, v2) == Total([k \in 1 .. words |-> smlabb(v1[k], v2[k]) + smlatt(v1[k], v2[k])])
(* the first number is left in the lower half when there is one pass only   *)
MlaAcross5(order, v1, first, v2) ==
    Total([k \in 1 .. WordsMla(order) |->
           smlatb(v1[k], v2[k]) + (IF k > 1 THEN smlabt(v1[k], v2[k - 1])
                                   ELSE IF order > 32 THEN smlabt(v1[1], lsl(first))
                                   ELSE smlabb(v1[1], first))])
scalarproduct5(order, v1, v2) ==
    IF v2.odd THEN MlaAcross5(order, Little(v1), v2.nums[1], Little(Tail(Behind(v2))))
    ELSE Mla5(WordsMla(order), Little(v1), Little(v2.nums))

-----------------------------------------------------------------------------
(* ARMv6: instructions that treat the halves apart.  An odd vector is read  *)
(* from the word in which it begins, and its words are put together of two, *)
(* in the one way and in the other by turns.                                *)
Words6(order) == Passes(order) * (IF order > 16 THEN 4 ELSE 2) * 4
sadd16(a, b) == ((Upper(a) + Upper(b)) % H) * H + ((Lower(a) + Lower(b)) % H)
ssub16(a, b) == ((Upper(a) - Upper(b)) % H) * H + ((Lower(a) - Lower(b)) % H)
pkhtb(a, b) == Upper(a) * H + Lower(b)
pkhbt(a, b) == Upper(b) * H + Lower(a)
Repacked(ws) == [k \in 1 .. Len(ws) - 1 |->
                   IF k % 2 = 1 THEN pkhtb(ror(ws[k + 1]), lsr(ws[k]))
                   ELSE pkhbt(ror(ws[k]), lsl(ws[k + 1]))]
Fetched6(v) == IF v.odd THEN Repacked(Little(Around(v))) ELSE Little(v.nums)
vector_add6(order, v1, v2) == FromLittle(Straight(sadd16, Words6(order), Little(v1), Fetched6(v2)))
vector_sub6(order, v1, v2) == FromLittle(Straight(ssub16, Words6(order), Little(v1), Fetched6(v2)))

smlad(x, y)  == smlabb(x, y) + smlatt(x, y)
smladx(x, y) == smlabt(x, y) + smlatb(x, y)
scalarproduct6(order, v1, v2) ==
    LET w1 == Little(v1)
        w2 == IF v2.odd THEN Little(Around(v2)) ELSE Little(v2.nums)
    IN  Total([k \in 1 .. WordsMla(order) |->
               IF v2.odd THEN smladx(w1[k], pkhbt(w2[k + 1], w2[k])) ELSE smlad(w1[k], w2[k])])

-----------------------------------------------------------------------------
(* ColdFire: a part of a word is cleared or moved alone, and the word of v2 *)
(* is left swapped for the next one.                                        *)
clr(w) == Upper(w) * H
move(w, d) == Upper(d) * H + Lower(w)
ADDHALFREGS_cf(sum, s1) == move(add(s1, sum), add(sum, clr(s1)))
ADDHALFXREGS_cf(s1, sum, s2) == move(add(s1, ror(s2)), add(clr(sum), s1))
SUBHALFREGS_cf(min, s1) == move(sub(min, s1), sub(min, clr(s1)))
SUBHALFXREGS_cf(min, s1d, s2) ==
    LET first == sub(min, clr(s1d)) IN move(sub(first, ror(s2)), first)

(* What is left swapped is the word before.                                 *)
vector_cf(AddOrSub(_, _), X(_, _, _), order, v1, v2) ==
    FromBig(IF v2.odd
            THEN Across(LAMBDA s1, before, s2 : X(s1, ror(before), s2), Words5(order),
                        Big(v1), v2.nums[1], Big(Tail(Behind(v2))))
            ELSE Straight(AddOrSub, Words5(order), Big(v1), Big(v2.nums)))
vector_add_cf(order, v1, v2) == vector_cf(ADDHALFREGS_cf, ADDHALFXREGS_cf, order, v1, v2)
vector_sub_cf(order, v1, v2) == vector_cf(SUBHALFREGS_cf, SUBHALFXREGS_cf, order, v1, v2)

(* mac.w multiplies halves by turns: upper and lower of v1 by the lower of  *)
(* a word of v2 and the upper of the next, or by the upper and lower.       *)
MAC_BLOCKS(order) == IF order > 16 THEN 7 ELSE 3
Macs(order) == Passes(order) * 4 * (MAC_BLOCKS(order) + 1)
scalarproduct_cf(order, v1, v2) ==
    LET d0 == Big(v1)
        d1 == IF v2.odd THEN <<v2.nums[1]>> \o Big(Tail(Behind(v2))) ELSE Big(v2.nums)
    IN  Total([k \in 1 .. Macs(order) \div 2 |->
               IF v2.odd THEN smlatb(d0[k], d1[k]) + smlabt(d0[k], d1[k + 1])
               ELSE smlatt(d0[k], d1[k]) + smlabb(d0[k], d1[k])])

-----------------------------------------------------------------------------
(* ARMv4: a number has a word of its own, and does not wrap at its half.    *)
Numbers4(order) == Passes(order) * (IF order > 16 THEN 8 ELSE 4) * 4
vector_add4(order, v1, v2) == Straight(LAMBDA a, b : a + b, Numbers4(order), v1, v2.nums)
vector_sub4(order, v1, v2) == Straight(LAMBDA a, b : a - b, Numbers4(order), v1, v2.nums)
(* in a pass the numbers of v1 are fetched by fives and sixes *)
Multiplied4(order) == IF order > 16 THEN Passes(order) * 2 * (5 + 5 + 6) ELSE 4 + 3 * 4
scalarproduct4(order, v1, v2) == Total([k \in 1 .. Multiplied4(order) |-> v1[k] * v2.nums[k]])
=============================================================================
