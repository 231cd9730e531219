------------------------------ MODULE MpcFormat -----------------------------
(***************************************************************************)
(* Streams of Musepack as an encoder writes them: what the decoder has to  *)
(* undo.  A film is                                                        *)
(*   [version, max_band, ms, gapless, last |-> samples of the last frame,  *)
(*    fresh |-> no factor of a frame depends on the frame before,          *)
(*    res |-> of each frame, of each channel, the quantizers of its bands] *)
(* Its samples and scale factors follow from where they are.               *)
(***************************************************************************)
EXTENDS MpcTables

Channels == 1 .. 2
Frames(film) == DOMAIN film.res
BandsOf(film) == 0 .. film.max_band
Quantizer(film, f, c, n) == film.res[f][c][n + 1]
UsedBand(film, f, n) == \E c \in Channels : Quantizer(film, f, c, n) # 0
LastBand(film, f) == CHOOSE n \in BandsOf(film) :
                       /\ n = 0 \/ UsedBand(film, f, n)
                       /\ \A m \in n + 1 .. film.max_band : ~ UsedBand(film, f, m)
Mid(film, f, n) == film.ms /\ (f + n) % 2 = 0

(* The largest sample of a quantizer, and the k-th sample of a band.       *)
Largest(res) == CASE res \in 0 .. 4 -> res [] res \in 5 .. 7 -> 2 ^ (res - 2) - 1 [] res > 7 -> Dc(res)
                  [] OTHER -> 0
Sample(film, f, c, n, k) ==
    LET most == Largest(Quantizer(film, f, c, n))
    IN  ((17 * f + 5 * c + 3 * n + 7 * k * k) % (2 * most + 1)) - most

(* The three factors of a band, of which neighbours are the same as the    *)
(* order says.                                                             *)
Order(f, c, n) == (f + 2 * c + n) % 4
Louder(f, c, n) == 12 + 2 * c + ((5 * f + 3 * n) % 4)
Scales(f, c, n) ==
    LET a == Louder(f, c, n)
        b == IF Order(f, c, n) \in {0, 1} THEN a + 3 - (f % 2) * 5 ELSE a
    IN  <<a, b, IF Order(f, c, n) \in {0, 2} THEN b - 4 + (n % 2) * 20 ELSE b>>
Before(film, f, c, n) ==
    LET earlier == {g \in 1 .. f - 1 : Quantizer(film, g, c, n) # 0}
    IN  IF earlier = {} THEN 0
        ELSE Scales(CHOOSE g \in earlier : \A h \in earlier : h <= g, c, n)[3]

(*----------------------------------- the bits -----------------------------*)

Code(Table, value) ==
    LET e == Table[CHOOSE k \in DOMAIN Table : Table[k].value = value]
    IN  BitsOf(e.code \div 2 ^ (CodeBits - e.length), e.length)
InTable(Table, value) == \E k \in DOMAIN Table : Table[k].value = value

Each(Op(_), first, last) == FlattenSeq([k \in 1 .. last - first + 1 |-> Op(first + k - 1)])
Both(Op(_, _), last) == Each(LAMBDA n : Op(1, n) \o Op(2, n), 0, last)

(* The factors that are written of three, and what each is written after.  *)
Written(film, f, c, n, Coded1(_, _, _)) ==
    LET s == Scales(f, c, n)
        o == Order(f, c, n)
    IN  Coded1(s[1], Before(film, f, c, n), TRUE)
        \o (IF o \in {0, 1} THEN Coded1(s[2], s[1], FALSE) ELSE <<>>)
        \o (IF o \in {0, 2} THEN Coded1(s[3], s[2], FALSE) ELSE <<>>)

Mark(film, f, n) == IF film.ms THEN IF Mid(film, f, n) THEN <<1>> ELSE <<0>> ELSE <<>>

HeaderBits7(film, f, c, n) ==
    LET res  == Quantizer(film, f, c, n)
        diff == res - Quantizer(film, f, c, n - 1)
    IN  IF n = 0 THEN BitsOf(res, 4)
        ELSE IF diff # 4 /\ InTable(mpc_table_HuffHdr, diff) THEN Code(mpc_table_HuffHdr, diff)
        ELSE Code(mpc_table_HuffHdr, 4) \o BitsOf(res, 4)
FactorBits7(film, value, before, first) ==
    LET diff == value - before
    IN  IF diff # 8 /\ InTable(mpc_table_HuffDSCF, diff) /\ ~ (first /\ film.fresh)
        THEN Code(mpc_table_HuffDSCF, diff)
        ELSE Code(mpc_table_HuffDSCF, 8) \o BitsOf(value, 6)
Bundle(film, f, c, n, size, steps) ==
    FlattenSeq([k \in 1 .. 36 \div size |->
        Code(mpc_table_HuffQ[Quantizer(film, f, c, n)][((f + n + c) % 2) + 1],
             Sum([i \in 1 .. size |-> (Sample(film, f, c, n, size * (k - 1) + i) + steps \div 2) * steps ^ (i - 1)]))])
SampleBits7(film, f, c, n) ==
    LET res == Quantizer(film, f, c, n)
    IN  CASE res \in {-1, 0} -> <<>>
          [] res = 1 -> <<(f + n + c) % 2>> \o Bundle(film, f, c, n, 3, 3)
          [] res = 2 -> <<(f + n + c) % 2>> \o Bundle(film, f, c, n, 2, 5)
          [] res \in 3 .. 7 -> <<(f + n + c) % 2>> \o FlattenSeq([k \in 1 .. 36 |->
                Code(mpc_table_HuffQ[res][((f + n + c) % 2) + 1], Sample(film, f, c, n, k))])
          [] res > 7 -> FlattenSeq([k \in 1 .. 36 |-> BitsOf(Sample(film, f, c, n, k) + Dc(res), Res_bit(res))])
Frame7(film, f) ==
    LET last == LastBand(film, f)
        OfUsed(bits, c, n) == IF Quantizer(film, f, c, n) = 0 THEN <<>> ELSE bits
    IN  Each(LAMBDA n : HeaderBits7(film, f, 1, n) \o HeaderBits7(film, f, 2, n)
                        \o (IF UsedBand(film, f, n) THEN Mark(film, f, n) ELSE <<>>), 0, film.max_band)
        \o Both(LAMBDA c, n : OfUsed(Code(mpc_table_HuffSCFI, Order(f, c, n)), c, n), last)
        \o Both(LAMBDA c, n : OfUsed(Written(film, f, c, n, LAMBDA v, b, first : FactorBits7(film, v, b, first)), c, n), last)
        \o Both(LAMBDA c, n : SampleBits7(film, f, c, n), last)

RegionOf(n) == IF n < 11 THEN mpc_table_Region_A ELSE IF n <= 22 THEN mpc_table_Region_B ELSE mpc_table_Region_C
HeaderBits6(film, f, c, n) ==
    Code(RegionOf(n), (CHOOSE k \in DOMAIN Q_res(n) : Q_res(n)[k] = Quantizer(film, f, c, n)) - 1)
(* All three factors of a band are written as they are, or none is.        *)
Differing(film, f, c, n) ==
    LET s == Scales(f, c, n)
    IN  /\ ~ film.fresh
        /\ \A pair \in {<<Before(film, f, c, n), s[1]>>, <<s[1], s[2]>>, <<s[2], s[3]>>} :
              InTable(mpc_table_DSCF_Entropie, pair[2] - pair[1])
FactorBits6(differing, value, before) ==
    IF differing THEN Code(mpc_table_DSCF_Entropie, value - before) ELSE BitsOf(value, 6)
One6(film, f, c, n, k, raw) ==
    LET res == Quantizer(film, f, c, n)
    IN  CASE res \in 1 .. 7 /\ ~ raw -> Code(mpc_table_SampleHuff[res], Sample(film, f, c, n, k))
          [] res > 7 /\ raw -> BitsOf(Sample(film, f, c, n, k) + Dc(res), Res_bit(res))
          [] OTHER -> <<>>
Frame6(film, f) ==
    LET last == LastBand(film, f)
        OfUsed(bits, c, n) == IF Quantizer(film, f, c, n) = 0 THEN <<>> ELSE bits
        Row(n, raw) == FlattenSeq([k \in 1 .. 36 |-> One6(film, f, 1, n, k, raw) \o One6(film, f, 2, n, k, raw)])
    IN  Each(LAMBDA n : HeaderBits6(film, f, 1, n) \o Mark(film, f, n) \o HeaderBits6(film, f, 2, n), 0, film.max_band)
        \o Both(LAMBDA c, n : OfUsed(Code(mpc_table_SCFI_Bundle,
                    2 * Order(f, c, n) + (IF Differing(film, f, c, n) THEN 1 ELSE 0)), c, n), last)
        \o Both(LAMBDA c, n : OfUsed(Written(film, f, c, n, LAMBDA v, b, first :
                    FactorBits6(Differing(film, f, c, n), v, b)), c, n), last)
        \o Each(LAMBDA n : Row(n, FALSE) \o Row(n, TRUE), 0, last)

Measured(bits) == BitsOf(Len(bits), 20) \o bits
FrameBits(film, f) == Measured(IF film.version % 16 = 7 THEN Frame7(film, f) ELSE Frame6(film, f))

(* A gapless stream goes on with one frame more than it counts.            *)
Counted(film) == Len(film.res) - (IF film.gapless THEN 1 ELSE 0)
BodyBits(film) ==
    Each(LAMBDA f : FrameBits(film, f), 1, Counted(film))
    \o (IF film.version >= 6 THEN BitsOf(film.last % 36, 11) ELSE <<>>)
    \o Each(LAMBDA f : FrameBits(film, f), Counted(film) + 1, Len(film.res))
InWords(bits) ==
    LET whole == bits \o Repeat(0, 31)
    IN  SubSeq([k \in 1 .. Len(whole) \div 32 |-> SubSeq(whole, 32 * k - 31, 32 * k)], 1, Len(whole) \div 32)

(*-------------------------------- what is to be heard ---------------------*)

(* A band of a step of a frame: of each channel what it is when its factor *)
(* is the one that was written, mixed; and what may be heard instead when  *)
(* the factors of one or both channels are not known.                      *)
Told(film, f, c, n, k) ==
    LET res == Quantizer(film, f, c, n)
    IN  Sample(film, f, c, n, k)
        * ((Cc(res) * SCF(Scales(f, c, n)[((k - 1) \div 12) + 1])) \div 2 ^ ScfBits)
Cut16(v) == IF v < -32768 THEN -32768 ELSE IF v > 32767 THEN 32767 ELSE v
Mixed(film, f, n, l, r) == IF Mid(film, f, n) THEN <<Cut16(l + r), Cut16(l - r)>> ELSE <<Cut16(l), Cut16(r)>>
Heard(film, f, n, k) == Mixed(film, f, n, Told(film, f, 1, n, k), Told(film, f, 2, n, k))
HeardInPart(film, f, n, k) ==
    {Mixed(film, f, n, l, r) : l \in {0, Told(film, f, 1, n, k)}, r \in {0, Told(film, f, 2, n, k)}}

TotalSteps(film) == IF film.version >= 6 THEN 36 * (Counted(film) - 1) + film.last ELSE 36 * Counted(film) - 15
=============================================================================
