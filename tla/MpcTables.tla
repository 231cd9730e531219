------------------------------ MODULE MpcTables -----------------------------
(***************************************************************************)
(* The tables of the Musepack decoder: huffsv7.c, huffsv46.c, requant.c    *)
(* and Q_res of mpc_decoder.c.  A Huffman table is given as the lengths    *)
(* and the values of its codes; the codes are the source's, from the       *)
(* largest to zero with no gap, of which CodeBits bits are kept.           *)
(***************************************************************************)
EXTENDS Bits, SequencesExt

CodeBits == 14                  (* the longest code *)

(* HuffmanTyp: of each code the smallest number that begins with it.       *)
Coded(lengths, values) ==
    Iterate(LAMBDA t, k :
        LET n == Len(lengths) + 1 - k
            least == IF t = <<>> THEN 0 ELSE t[1].code + 2 ^ (CodeBits - t[1].length)
        IN  <<[code |-> least, length |-> lengths[n], value |-> values[n]]>> \o t,
        <<>>, Len(lengths))

mpc_table_HuffHdr == Coded(<<1, 3, 7, 9, 9, 8, 6, 5, 4, 2>>,
    <<0, 1, -4, 3, 4, -5, 2, -3, -2, -1>>)
mpc_table_HuffSCFI == Coded(<<1, 3, 3, 2>>,
    <<1, 2, 0, 3>>)
mpc_table_HuffDSCF == Coded(<<5, 5, 4, 4, 4, 3, 4, 5, 6, 6, 3, 3, 4, 5, 5, 3>>,
    <<5, -4, 3, -3, 8, 1, 0, -5, 7, -7, -1, 2, 4, 6, -6, -2>>)
mpc_table_SCFI_Bundle == Coded(<<1, 2, 5, 5, 6, 6, 5, 3>>,
    <<7, 3, 1, 2, 0, 6, 4, 5>>)
mpc_table_DSCF_Entropie == Coded(<<3, 4, 5, 5, 4, 4, 3, 3, 5, 6, 6, 4, 2>>,
    <<1, 3, 5, -3, -2, 4, -1, 2, -5, 6, -6, -4, 0>>)
mpc_table_Region_A == Coded(<<1, 5, 6, 7, 8, 9, 10, 11, 12, 13, 14, 14, 5, 5, 3, 2>>,
    <<1, 3, 4, 7, 8, 9, 10, 11, 12, 13, 14, 15, 5, 6, 0, 2>>)
mpc_table_Region_B == Coded(<<1, 2, 3, 4, 5, 6, 7, 7>>,
    <<1, 0, 2, 3, 4, 5, 6, 7>>)
mpc_table_Region_C == Coded(<<1, 2, 3, 3>>,
    <<0, 1, 2, 3>>)
mpc_table_HuffQ1 == <<
    Coded(<<3, 6, 6, 6, 6, 4, 4, 4, 4, 6, 6, 6, 6, 4, 4, 5, 5, 5, 5, 5, 5, 5, 5, 5, 5, 5, 5>>,
    <<13, 26, 0, 20, 6, 14, 12, 4, 22, 8, 18, 24, 2, 16, 10, 17, 9, 1, 25, 5, 21, 3, 11, 15, 23, 19,
      7>>),
    Coded(<<1, 7, 7, 7, 7, 7, 7, 7, 9, 9, 9, 9, 7, 7, 7, 7, 8, 8, 8, 8, 6, 4, 4, 4, 4, 4, 4>>,
    <<13, 15, 1, 11, 7, 17, 25, 19, 8, 18, 2, 24, 3, 23, 21, 5, 0, 26, 6, 20, 9, 14, 12, 4, 22, 16,
      10>>)>>
mpc_table_HuffQ2 == <<
    Coded(<<4, 4, 4, 4, 6, 6, 7, 7, 7, 7, 5, 5, 3, 5, 5, 4, 4, 4, 4, 5, 5, 5, 5, 5, 5>>,
    <<13, 17, 7, 11, 1, 23, 4, 20, 0, 24, 22, 10, 12, 2, 14, 6, 18, 8, 16, 9, 5, 15, 21, 19, 3>>),
    Coded(<<5, 5, 5, 8, 10, 10, 10, 10, 7, 7, 7, 5, 7, 7, 7, 7, 6, 6, 6, 6, 2, 3, 3, 3, 3>>,
    <<18, 6, 8, 3, 24, 4, 0, 20, 23, 1, 19, 16, 15, 21, 9, 5, 2, 10, 14, 22, 12, 13, 17, 11, 7>>)>>
mpc_table_HuffQ3 == <<
    Coded(<<3, 4, 4, 3, 3, 2, 2>>,
    <<1, 3, -3, 2, -2, 0, -1>>),
    Coded(<<2, 2, 2, 4, 5, 5, 3>>,
    <<0, -1, 1, -2, 3, -3, 2>>)>>
mpc_table_HuffQ4 == <<
    Coded(<<3, 3, 3, 3, 3, 4, 4, 3, 3>>,
    <<0, -1, 1, -2, 2, -4, 4, 3, -3>>),
    Coded(<<3, 4, 4, 2, 3, 4, 5, 5, 2>>,
    <<1, 2, -3, 0, -2, 3, -4, 4, -1>>)>>
mpc_table_HuffQ5 == <<
    Coded(<<4, 5, 6, 6, 4, 4, 5, 5, 4, 4, 4, 3, 3, 3, 3>>,
    <<2, 5, -7, 7, -3, 3, -6, 6, -4, 4, -5, 0, -1, 1, -2>>),
    Coded(<<4, 5, 7, 8, 8, 6, 3, 3, 3, 3, 3, 5, 5, 4, 3>>,
    <<3, 4, 6, -7, 7, -6, 0, -1, 1, -2, 2, -5, 5, -4, -3>>)>>
mpc_table_HuffQ6 == <<
    Coded(<<5, 5, 6, 6, 5, 5, 5, 5, 5, 5, 6, 6, 5, 5, 5, 5, 5, 6, 7, 7, 4, 5, 5, 4, 4, 4, 4, 6, 6, 5, 4>>,
    <<3, -4, -11, 12, 4, 6, -5, 5, 7, -7, -12, -13, -6, 8, -8, 9, -9, 13, -15, 15, 0, -10, 10, -1,
      2, 1, -2, 14, -14, 11, -3>>),
    Coded(<<5, 5, 4, 4, 7, 7, 8, 9, 11, 13, 13, 13, 13, 10, 8, 8, 6, 6, 4, 4, 4, 4, 5, 5, 4, 4, 5, 5, 4,
      4, 3>>,
    <<-6, 6, 1, -1, 10, -10, -11, -12, 13, 15, -14, 14, -15, -13, 11, 12, -9, 9, -2, 2, 3, -3, -7,
      7, -4, 4, -8, 8, 5, -5, 0>>)>>
mpc_table_HuffQ7 == <<
    Coded(<<6, 6, 6, 6, 6, 7, 8, 8, 6, 7, 7, 6, 6, 6, 6, 6, 7, 7, 6, 6, 6, 6, 7, 8, 8, 6, 6, 6, 6, 7, 7,
      6, 7, 8, 8, 6, 6, 6, 7, 7, 6, 7, 7, 5, 6, 6, 5, 8, 8, 7, 6, 5, 5, 5, 5, 5, 5, 5, 5, 5, 5, 5, 5>>,
    <<7, 8, 9, -8, 11, 21, -28, 28, -9, -22, -21, -10, -11, 10, 12, -13, 22, 23, -12, 13, 14, -14,
      -23, -29, 29, -15, 15, 16, -16, -24, 24, 17, -25, -30, 30, -17, 18, -18, 25, 26, 19, -26, -27,
      2, -19, 20, -1, -31, 31, 27, -20, 1, -5, -3, 3, 0, -2, -4, 4, 5, -6, 6, -7>>),
    Coded(<<5, 5, 5, 5, 8, 10, 14, 14, 14, 14, 12, 14, 14, 14, 14, 12, 9, 7, 6, 5, 5, 5, 7, 8, 9, 10, 10,
      6, 5, 5, 5, 5, 6, 7, 7, 6, 6, 5, 6, 8, 8, 7, 5, 5, 6, 6, 5, 6, 7, 10, 10, 9, 9, 9, 5, 5, 6, 6,
      5, 4, 5, 5, 4>>,
    <<-1, 2, -2, 3, -20, 24, 28, -28, -30, 30, -27, 29, -29, 31, -31, 27, -22, -17, -11, -3, 4, -4,
      17, 20, 22, -25, -26, 12, 5, -5, 6, -6, -12, -18, 18, 13, -13, -7, 14, 21, -21, -19, 7, 8,
      -14, -15, -8, 15, 19, 25, 26, -23, 23, -24, -9, 9, 16, -16, 10, 0, -10, 11, 1>>)>>
mpc_table_Entropie_1 == Coded(<<1, 2, 2>>,
    <<0, -1, 1>>)
mpc_table_Entropie_2 == Coded(<<2, 3, 3, 2, 2>>,
    <<0, 2, -2, 1, -1>>)
mpc_table_Entropie_3 == Coded(<<2, 3, 4, 5, 5, 2, 2>>,
    <<0, -2, 2, -3, 3, -1, 1>>)
mpc_table_Entropie_4 == Coded(<<4, 4, 3, 3, 3, 3, 4, 4, 2>>,
    <<3, -3, 1, -1, 2, -2, -4, 4, 0>>)
mpc_table_Entropie_5 == Coded(<<4, 5, 6, 6, 4, 4, 5, 5, 4, 3, 3, 3, 4, 4, 3>>,
    <<-2, -5, -7, 7, -3, 3, -6, 6, 4, 0, 1, -1, -4, 5, 2>>)
mpc_table_Entropie_6 == Coded(<<5, 5, 5, 6, 6, 5, 5, 5, 5, 5, 6, 7, 7, 5, 6, 6, 4, 4, 4, 4, 4, 5, 6, 6, 4, 4, 5, 6, 7, 7, 4>>,
    <<-4, 5, -5, 10, -10, -6, 6, 7, -7, -8, -11, 14, -14, 8, 11, -13, 0, 1, -1, 3, 2, -9, 12, 13,
      -3, -2, 9, -12, 15, -15, 4>>)
mpc_table_Entropie_7 == Coded(<<8, 8, 7, 6, 6, 6, 6, 7, 7, 6, 6, 6, 6, 7, 8, 8, 6, 6, 6, 6, 7, 7, 6, 6, 6, 7, 7, 6, 6, 6, 7,
      7, 6, 6, 8, 8, 7, 6, 5, 5, 7, 7, 6, 5, 5, 5, 5, 5, 6, 6, 5, 5, 5, 5, 5, 5, 7, 7, 7, 8, 8, 5, 5>>,
    <<28, 26, -20, 8, -8, -9, 9, 20, 21, -10, -11, 10, 11, -21, 29, -29, 13, -13, -12, 12, -22, 22,
      14, 15, -14, -23, 23, -15, -16, 16, 27, -27, 17, -17, -30, 30, 24, -18, -1, 1, -24, 25, 18,
      -3, 3, 5, 0, -2, 19, -19, -5, -4, -7, 2, 4, 7, -25, -26, -28, -31, 31, 6, -6>>)

mpc_table_HuffQ == <<mpc_table_HuffQ1, mpc_table_HuffQ2, mpc_table_HuffQ3, mpc_table_HuffQ4,
                     mpc_table_HuffQ5, mpc_table_HuffQ6, mpc_table_HuffQ7>>
mpc_table_SampleHuff == <<mpc_table_Entropie_1, mpc_table_Entropie_2, mpc_table_Entropie_3,
                          mpc_table_Entropie_4, mpc_table_Entropie_5, mpc_table_Entropie_6,
                          mpc_table_Entropie_7>>

(* The quantizers a band can have in the old streams.                      *)
Q_res(n) == CASE n <= 10 -> <<0, 1, 2, 3, 4, 5, 6, 7, 8, 9, 10, 11, 12, 13, 14, 17>>
              [] n \in 11 .. 22 -> <<0, 1, 2, 3, 4, 5, 6, 17>>
              [] n >= 23 -> <<0, 1, 2, 17>>

(* Of each quantizer from 8 to 17 the bits of a sample and its offset.     *)
Res_bit(res) == res - 1
Dc(res) == 2 ^ (res - 2) - 1

(* The steps of the quantizers from -1 to 17, in whole numbers.            *)
Steps == <<111, 65536, 21845, 13107, 9362, 7282, 4369, 2114, 1040, 516, 257, 128, 64, 32, 16, 8, 4, 2, 1>>
Cc(res) == IF res + 2 \in DOMAIN Steps THEN Steps[res + 2] ELSE 0

(* mpc_decoder_scale_output(): the scale factors fall by 1.58 dB from the  *)
(* first, and those before it rise; ScfBits bits of them are kept, and the *)
(* twentieth that rises is as loud as those after it.                      *)
ScfBits == 10
Fallen == Iterate(LAMBDA s, k : Append(s, (s[k] * 833) \div 1000), <<2 ^ ScfBits>>, 60)
Risen  == Iterate(LAMBDA s, k : Append(s, (s[k] * 1200) \div 1000), <<2 ^ ScfBits>>, 20)
SCF(n) == CASE n \in 1 .. 61   -> Fallen[n]
            [] n \in 62 .. 128 -> 0
            [] n = 0           -> Risen[2]
            [] n \in 129 .. 255 -> Risen[IF n >= 238 THEN 258 - n ELSE 21]
=============================================================================
