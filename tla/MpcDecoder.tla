----------------------------- MODULE MpcDecoder -----------------------------
(***************************************************************************)
(* The Musepack decoder: the bit stream of mpc/mpc_decoder.c, as words in  *)
(* a ring that is read ahead by halves, the frames of the stream versions  *)
(* 4 to 7, their requantization, and the random numbers of synth_filter.c. *)
(* A word is the sequence of its 32 bits.  The decoder is a record with    *)
(* the names of mpc_decoder; v is what was read last.  Channel 1 is left.  *)
(* The synthesis filter is in MpcSynthesis; here it is the delay that it   *)
(* is of, of whole steps, and a sample is left in its bands.               *)
(***************************************************************************)
EXTENDS MpcTables

CONSTANTS MEMSIZE,              (* words of the ring                        *)
          BANDS                 (* bands of a frame, 32 of them in the code *)

ASSUME MpcDecoderAssumption == MEMSIZE \div 2 \in Nat \ {0} /\ BANDS \in Nat \ {0}

MEMSIZE2 == MEMSIZE \div 2
Smaller(a, b) == IF a < b THEN a ELSE b

(*-------------------------------- the bit stream --------------------------*)

(* What the file has not got leaves in the ring what was there.            *)
f_read_dword(d, offset, count) ==
    LET n == IF d.at > Len(d.words) THEN 0 ELSE Smaller(count, Len(d.words) - d.at)
    IN  [d EXCEPT !.at = @ + n,
                  !.Speicher = SubSeq(@, 1, offset) \o SubSeq(d.words, d.at + 1, d.at + n)
                               \o SubSeq(@, offset + n + 1, MEMSIZE)]

OnWord(d, zaehler, pos, read) ==
    [d EXCEPT !.Zaehler = zaehler, !.pos = pos, !.WordsRead = read, !.dword = d.Speicher[zaehler + 1]]
mpc_decoder_seek(d, bitpos) ==
    OnWord(f_read_dword([d EXCEPT !.at = bitpos \div 32], 0, MEMSIZE), 0, bitpos % 32, bitpos \div 32)

Moved(d, pos) ==
    IF pos \in 0 .. 31 THEN [d EXCEPT !.pos = pos]
    ELSE OnWord(d, (d.Zaehler + (pos \div 32)) % MEMSIZE, pos % 32, d.WordsRead + (pos \div 32))
mpc_decoder_bitstream_jump(d, bits) == Moved(d, d.pos + bits)

(* mutant: half of the ring is read again when a half begins *)
mpc_decoder_update_buffer_new(d, RING) ==
    IF RING \div MEMSIZE2 = d.Zaehler \div MEMSIZE2 THEN d
    ELSE f_read_dword(d, MEMSIZE2 * (d.Zaehler \div MEMSIZE2), MEMSIZE2)

(* A half of the ring is filled again when a frame has left it.            *)
mpc_decoder_update_buffer(d, RING) ==
    IF RING \div MEMSIZE2 = d.Zaehler \div MEMSIZE2 THEN d
    ELSE f_read_dword(d, MEMSIZE2 * (RING \div MEMSIZE2), MEMSIZE2)

mpc_decoder_bits_read(d) == 32 * d.WordsRead + d.pos

NextWord(d) == d.Speicher[((d.Zaehler + 1) % MEMSIZE) + 1]
Ahead(d) == SubSeq(d.dword, d.pos + 1, 32)
mpc_decoder_bitstream_read(d, bits) ==
    Moved([d EXCEPT !.v = Num(SubSeq(d.dword \o NextWord(d), d.pos + 1, d.pos + bits))], d.pos + bits)

(* The longest code decides whether the next word is looked at.            *)
Preview(d, max_length) ==
    Num(SubSeq(Ahead(d) \o (IF 32 - d.pos < max_length THEN NextWord(d) ELSE <<>>) \o Repeat(0, CodeBits),
               1, CodeBits))
Entry(Table, code) == Table[CHOOSE k \in DOMAIN Table :
                              Table[k].code <= code /\ (k = 1 \/ code < Table[k - 1].code)]
Coming(d, e) == Moved([d EXCEPT !.v = e.value], d.pos + e.length)
mpc_decoder_huffman_decode(d, Table, max_length) == Coming(d, Entry(Table, Preview(d, max_length)))

(*---------------------------------- a frame -------------------------------*)

Sides == 1 .. 2
AllBands == 0 .. BANDS - 1
Every(x) == [c \in Sides |-> [n \in AllBands |-> x]]

Used(d, n)  == \E c \in Sides : d.Res[c][n] # 0
Max_used(d) == CHOOSE n \in 0 .. d.si.max_band :
                 /\ n = 0 \/ Used(d, n)
                 /\ \A m \in n + 1 .. d.si.max_band : ~ Used(d, m)

(* Op of every band to the last, and of its left and right channel.        *)
EachBand(Op(_, _), d, last) == Iterate(LAMBDA x, k : Op(x, k - 1), d, last + 1)
EachSide(Op(_, _, _), d, last) ==
    EachBand(LAMBDA x, n : The({Op(y, 2, n) : y \in {Op(x, 1, n)}}), d, last)

(* The scale factors of the three parts of a frame: each is its own, or    *)
(* that of the part before; Next reads one, from the one before it.  One   *)
(* that is not known yet is a silent one.                                  *)
(* mutant: what is not known yet is a factor like another *)
Audible_any(s) == s
Audible(s) == IF s > 1024 THEN 32896 ELSE s

Three(a, b, e, c, n) == [e EXCEPT !.SCF_Index[c][n] = <<Audible(a.v), Audible(b.v), Audible(e.v)>>]
Third(a, b, c, n, Next(_, _)) == Three(a, b, IF b.SCFI[c][n] \in {0, 2} THEN Next(b, b.v) ELSE b, c, n)
Second(a, c, n, Next(_, _)) ==
    Third(a, IF a.SCFI[c][n] \in {0, 1} THEN Next(a, a.v) ELSE a, c, n, Next)
Factors(d, c, n, Next(_, _)) == Second(Next(d, d.SCF_Index[c][n][3]), c, n, Next)

(* count times Get, which reads and adds samples.                          *)
Samples(d, c, n, count, Get(_)) ==
    The({[e EXCEPT !.Q[c][n] = e.q] :
           e \in {Iterate(LAMBDA x, k : Get(x), [d EXCEPT !.q = <<>>], count)}})
Kept(d) == [d EXCEPT !.q = Append(@, d.v)]
RawSample(d, res) == The({[e EXCEPT !.q = Append(@, e.v - Dc(res))] : e \in {mpc_decoder_bitstream_read(d, Res_bit(res))}})

(*--------------------------- stream versions 4 to 6 -----------------------*)

Region(n) == CASE n < 11 -> mpc_table_Region_A [] n \in 11 .. 22 -> mpc_table_Region_B
               [] n >= 23 -> mpc_table_Region_C
Res6(d, c, n) == The({[e EXCEPT !.Res[c][n] = Q_res(n)[e.v + 1]] : e \in {mpc_decoder_huffman_decode(d, Region(n), 14)}})
MsFlag(d, n) == IF ~ d.si.ms THEN d
                ELSE The({[e EXCEPT !.MS_Flag[n] = e.v = 1] : e \in {mpc_decoder_bitstream_read(d, 1)}})
Header6(d, n) == Res6(MsFlag(Res6(d, 1, n), n), 2, n)

mpc_decoder_scfi_bundle_read(d, c, n) ==
    IF d.Res[c][n] = 0 THEN d
    ELSE The({[e EXCEPT !.SCFI[c][n] = e.v \div 2, !.DSCF_Flag[c][n] = e.v % 2 = 1] :
                e \in {mpc_decoder_huffman_decode(d, mpc_table_SCFI_Bundle, 6)}})

Difference6(d, before) ==
    The({[e EXCEPT !.v = before + e.v] : e \in {mpc_decoder_huffman_decode(d, mpc_table_DSCF_Entropie, 6)}})
Factors6(d, c, n) ==
    IF d.Res[c][n] = 0 THEN d
    ELSE Factors(d, c, n, LAMBDA x, before :
                            IF d.DSCF_Flag[c][n] THEN Difference6(x, before) ELSE mpc_decoder_bitstream_read(x, 6))

(* The samples of the two channels alternate.                              *)
Put6(d, c, n) == [d EXCEPT !.Q[c][n] = Append(@, d.v)]
Huff6(d, c, n) == IF d.Res[c][n] \notin 1 .. 7 THEN d
                  ELSE Put6(mpc_decoder_huffman_decode(d, mpc_table_SampleHuff[d.Res[c][n]], 8), c, n)
Raw6(d, c, n)  == IF d.Res[c][n] <= 7 THEN d
                  ELSE The({Put6([e EXCEPT !.v = e.v - Dc(d.Res[c][n])], c, n) :
                              e \in {mpc_decoder_bitstream_read(d, Res_bit(d.Res[c][n]))}})
Emptied(d, n) == [d EXCEPT !.Q[1][n] = IF d.Res[1][n] = 0 THEN @ ELSE <<>>,
                           !.Q[2][n] = IF d.Res[2][n] = 0 THEN @ ELSE <<>>]
Samples6(d, n) ==
    LET both(Op(_, _, _), x) == Iterate(LAMBDA y, k : The({Op(z, 2, n) : z \in {Op(y, 1, n)}}), x, 36)
    IN  both(Raw6, both(Huff6, Emptied(d, n)))

Scales6(d) == EachSide(Factors6, EachSide(mpc_decoder_scfi_bundle_read, d, Max_used(d)), Max_used(d))
mpc_decoder_read_bitstream_sv6(d, seeking) ==
    The({IF seeking THEN e ELSE EachBand(Samples6, e, Max_used(e)) :
           e \in {Scales6(EachBand(Header6, d, d.si.max_band))}})

(*------------------------------ stream version 7 --------------------------*)

Absolute7(d, c, n) == The({[e EXCEPT !.Res[c][n] = e.v] : e \in {mpc_decoder_bitstream_read(d, 4)}})
Relative7(d, c, n) == IF d.v = 4 THEN Absolute7(d, c, n) ELSE [d EXCEPT !.Res[c][n] = d.Res[c][n - 1] + d.v]
Res7(d, c, n) == IF n = 0 THEN Absolute7(d, c, n)
                 ELSE Relative7(mpc_decoder_huffman_decode(d, mpc_table_HuffHdr, 9), c, n)
Header7(d, n) == The({IF Used(e, n) THEN MsFlag(e, n) ELSE e : e \in {Res7(Res7(d, 1, n), 2, n)}})

Order7(d, c, n) ==
    IF d.Res[c][n] = 0 THEN d
    ELSE The({[e EXCEPT !.SCFI[c][n] = e.v] : e \in {mpc_decoder_huffman_decode(d, mpc_table_HuffSCFI, 3)}})

Difference7(d, before) ==
    The({IF e.v = 8 THEN mpc_decoder_bitstream_read(e, 6) ELSE [e EXCEPT !.v = before + e.v] :
           e \in {mpc_decoder_huffman_decode(d, mpc_table_HuffDSCF, 6)}})
Factors7(d, c, n) == IF d.Res[c][n] = 0 THEN d ELSE Factors(d, c, n, Difference7)

(* Three samples of three steps in a code, or two of five.                 *)
Triple(d) == [d EXCEPT !.q = @ \o <<(d.v % 3) - 1, ((d.v \div 3) % 3) - 1, (d.v \div 9) - 1>>]
Couple(d) == [d EXCEPT !.q = @ \o <<(d.v % 5) - 2, (d.v \div 5) - 2>>]

(* Two shift registers, one to the right and one to the left, and of each  *)
(* the parity of some bits goes in; they are combined.                     *)
Parity(bits) == Sum(bits) % 2
Right(r) == <<Parity(<<r[25], r[26], r[27], r[28], r[30], r[32]>>)>> \o SubSeq(r, 1, 31)
Left(r)  == Append(Tail(r), Parity(<<r[1], r[2], r[6], r[7]>>))
ByteSum(r1, r2) == Sum([k \in 1 .. 32 |-> ((r1[k] + r2[k]) % 2) * 2 ^ ((32 - k) % 8)])
mpc_random_int(d) == [d EXCEPT !.r1 = Right(@), !.r2 = Left(@)]
Noise(d) == The({[e EXCEPT !.q = Append(@, ByteSum(e.r1, e.r2) - 510)] : e \in {mpc_random_int(d)}})

(* One of two tables is chosen for the band.                               *)
Tabled(d, c, n, max_length, count, Kind(_)) ==
    The({Samples(e, c, n, count, LAMBDA x :
                   Kind(mpc_decoder_huffman_decode(x, mpc_table_HuffQ[d.Res[c][n]][e.v + 1], max_length))) :
           e \in {mpc_decoder_bitstream_read(d, 1)}})

(* A quantizer there is not, in a damaged stream, ends the frame.          *)
Samples7(d, c, n) ==
    LET res == d.Res[c][n]
    IN  CASE d.gone \/ res \in -17 .. -2 \cup {0} -> d
          [] ~ d.gone /\ res = -1       -> Samples(d, c, n, 36, Noise)
          [] ~ d.gone /\ res = 1        -> Tabled(d, c, n, 9, 12, Triple)
          [] ~ d.gone /\ res = 2        -> Tabled(d, c, n, 10, 18, Couple)
          [] ~ d.gone /\ res \in 3 .. 4 -> Tabled(d, c, n, 5, 36, Kept)
          [] ~ d.gone /\ res = 5        -> Tabled(d, c, n, 8, 36, Kept)
          [] ~ d.gone /\ res \in 6 .. 7 -> Tabled(d, c, n, 14, 36, Kept)
          [] ~ d.gone /\ res \in 8 .. 17 -> Samples(d, c, n, 36, LAMBDA x : RawSample(x, res))
          [] ~ d.gone /\ res \notin -17 .. 17 -> [d EXCEPT !.gone = TRUE]

Scales7(d) == EachSide(Factors7, EachSide(Order7, d, Max_used(d)), Max_used(d))
mpc_decoder_read_bitstream_sv7(d, seeking) ==
    The({IF seeking THEN e ELSE [EachSide(Samples7, e, Max_used(e)) EXCEPT !.gone = FALSE] :
           e \in {Scales7(EachBand(Header7, d, d.si.max_band))}})

Version(d) == d.si.stream_version % 16
ReadBitstream(d, seeking) == IF Version(d) = 7 THEN mpc_decoder_read_bitstream_sv7(d, seeking)
                             ELSE mpc_decoder_read_bitstream_sv6(d, seeking)

(*----------------------------- requantization -----------------------------*)

(* MPC_MULTIPLY_SCF: of a quantizer and of the low byte of an index.       *)
Factor(d, c, n, part) == IF d.Res[c][n] = 0 THEN 0
                         ELSE (Cc(d.Res[c][n]) * SCF(d.SCF_Index[c][n][part] % 256)) \div (2 ^ ScfBits)
Scaled(d, c, n) ==
    LET f == <<Factor(d, c, n, 1), Factor(d, c, n, 2), Factor(d, c, n, 3)>>
    IN  IF d.Res[c][n] = 0 THEN Repeat(0, 36)
        ELSE SubSeq([k \in 1 .. 36 |-> d.Q[c][n][k] * f[((k - 1) \div 12) + 1]], 1, 36)
InBand(ms, l, r) == [k \in 1 .. 36 |-> IF ms THEN <<l[k] + r[k], l[k] - r[k]>> ELSE <<l[k], r[k]>>]
(* Y_L and Y_R: of each of 36 steps the bands, each left and right.        *)
Steps36(bands) == SubSeq([k \in 1 .. 36 |-> SubSeq([n \in DOMAIN bands |-> bands[n][k]], 1, Len(bands))], 1, 36)
mpc_decoder_requantisierung(d) ==
    [d EXCEPT !.Y = Steps36(Iterate(LAMBDA s, n :
                       Append(s, InBand(d.MS_Flag[n - 1], Scaled(d, 1, n - 1), Scaled(d, 2, n - 1))),
                       <<>>, d.si.max_band + 1))]
=============================================================================
