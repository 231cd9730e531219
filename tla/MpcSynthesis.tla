---------------------------- MODULE MpcSynthesis ----------------------------
(***************************************************************************)
(* The synthesis filter of the Musepack decoder, mpc/synth_filter.c: of    *)
(* each step of a frame the 32 bands become 32 samples.  Calculate_New_V   *)
(* is a cosine transform by butterflies, of which 64 values go before      *)
(* those of the 15 steps before, and Di_opt is the window over them.       *)
(* One channel; the other is the same.  Sequences count from 1.            *)
(***************************************************************************)
EXTENDS Bits

FractBits == 14                       (* of the constants, 27 to 31 in the code *)
MPC_FIXED_POINT_SYNTH_FIX == 2

Di_opt == <<
    <<0, -29, 213, -459, 2037, -5153, 6574, -37489, 75038, 37489, 6574, 5153, 2037, 459, 213, 29>>,
    <<-1, -31, 218, -519, 2000, -5517, 5959, -39336, 74992, 35640, 7134, 4788, 2063, 401, 208, 26>>,
    <<-1, -35, 222, -581, 1952, -5879, 5288, -41176, 74856, 33791, 7640, 4425, 2080, 347, 202, 24>>,
    <<-1, -38, 225, -645, 1893, -6237, 4561, -43006, 74630, 31947, 8092, 4063, 2087, 294, 196, 21>>,
    <<-1, -41, 227, -711, 1822, -6589, 3776, -44821, 74313, 30112, 8492, 3705, 2085, 244, 190, 19>>,
    <<-1, -45, 228, -779, 1739, -6935, 2935, -46617, 73908, 28289, 8840, 3351, 2075, 197, 183, 17>>,
    <<-1, -49, 228, -848, 1644, -7271, 2037, -48390, 73415, 26482, 9139, 3004, 2057, 153, 176, 16>>,
    <<-2, -53, 227, -919, 1535, -7597, 1082, -50137, 72835, 24694, 9389, 2663, 2032, 111, 169, 14>>,
    <<-2, -58, 224, -991, 1414, -7910, 70, -51853, 72169, 22929, 9592, 2330, 2001, 72, 161, 13>>,
    <<-2, -63, 221, -1064, 1280, -8209, -998, -53534, 71420, 21189, 9750, 2006, 1962, 36, 154, 11>>,
    <<-2, -68, 215, -1137, 1131, -8491, -2122, -55178, 70590, 19478, 9863, 1692, 1919, 2, 147, 10>>,
    <<-3, -73, 208, -1210, 970, -8755, -3300, -56778, 69679, 17799, 9935, 1388, 1870, -29, 139, 9>>,
    <<-3, -79, 200, -1283, 794, -8998, -4533, -58333, 68692, 16155, 9966, 1095, 1817, -57, 132, 8>>,
    <<-4, -85, 189, -1356, 605, -9219, -5818, -59838, 67629, 14548, 9959, 814, 1759, -83, 125, 7>>,
    <<-4, -91, 177, -1428, 402, -9416, -7154, -61289, 66494, 12980, 9916, 545, 1698, -106, 117, 7>>,
    <<-5, -97, 163, -1498, 185, -9585, -8540, -62684, 65290, 11455, 9838, 288, 1634, -127, 111, 6>>,
    <<-5, -104, 146, -1567, -45, -9727, -9975, -64019, 64019, 9975, 9727, 45, 1567, -146, 104, 5>>,
    <<-6, -111, 127, -1634, -288, -9838, -11455, -65290, 62684, 8540, 9585, -185, 1498, -163, 97, 5>>,
    <<-7, -117, 106, -1698, -545, -9916, -12980, -66494, 61289, 7154, 9416, -402, 1428, -177, 91, 4>>,
    <<-7, -125, 83, -1759, -814, -9959, -14548, -67629, 59838, 5818, 9219, -605, 1356, -189, 85, 4>>,
    <<-8, -132, 57, -1817, -1095, -9966, -16155, -68692, 58333, 4533, 8998, -794, 1283, -200, 79, 3>>,
    <<-9, -139, 29, -1870, -1388, -9935, -17799, -69679, 56778, 3300, 8755, -970, 1210, -208, 73, 3>>,
    <<-10, -147, -2, -1919, -1692, -9863, -19478, -70590, 55178, 2122, 8491, -1131, 1137, -215, 68, 2>>,
    <<-11, -154, -36, -1962, -2006, -9750, -21189, -71420, 53534, 998, 8209, -1280, 1064, -221, 63, 2>>,
    <<-13, -161, -72, -2001, -2330, -9592, -22929, -72169, 51853, -70, 7910, -1414, 991, -224, 58, 2>>,
    <<-14, -169, -111, -2032, -2663, -9389, -24694, -72835, 50137, -1082, 7597, -1535, 919, -227, 53, 2>>,
    <<-16, -176, -153, -2057, -3004, -9139, -26482, -73415, 48390, -2037, 7271, -1644, 848, -228, 49, 1>>,
    <<-17, -183, -197, -2075, -3351, -8840, -28289, -73908, 46617, -2935, 6935, -1739, 779, -228, 45, 1>>,
    <<-19, -190, -244, -2085, -3705, -8492, -30112, -74313, 44821, -3776, 6589, -1822, 711, -227, 41, 1>>,
    <<-21, -196, -294, -2087, -4063, -8092, -31947, -74630, 43006, -4561, 6237, -1893, 645, -225, 38, 1>>,
    <<-24, -202, -347, -2080, -4425, -7640, -33791, -74856, 41176, -5288, 5879, -1952, 581, -222, 35, 1>>,
    <<-26, -208, -401, -2063, -4788, -7134, -35640, -74992, 39336, -5959, 5517, -2000, 519, -218, 31, 1>>>>

(*------------------------------- the transform ----------------------------*)

Scaled(v, constant, shift) == Floor(v * constant, FractBits + shift)

(* The sums of a value and its opposite, then their scaled differences, of *)
(* each group of twice as many values as there are constants; left bits    *)
(* are added to both.                                                      *)
Butterfly(x, constants, left) ==
    LET h == Len(constants)
        Start(p)    == ((p - 1) \div (2 * h)) * 2 * h
        Place(p)    == (p - 1) % (2 * h)
        First(p)    == x[Start(p) + (Place(p) % h) + 1]
        Opposite(p) == x[Start(p) + 2 * h - (Place(p) % h)]
    IN  SubSeq([p \in 1 .. 16 |-> IF Place(p) < h THEN (First(p) + Opposite(p)) * 2 ^ left
                                  ELSE Scaled(First(p) - Opposite(p), constants[Place(p) - h + 1], - left)], 1, 16)

OfSixteen == <<8231, 8560, 9288, 10597, 12913, 17378, 28220, 83577>>
OfEight   == <<8352, 9852, 14745, 41990>>
OfFour    == <<8866, 21406>>
OfTwo     == <<11585>>
OfOdd     == <<8201, 8281, 8445, 8700, 9062, 9550, 10199, 11056, 12198, 13751,
               15934, 19160, 24316, 33714, 55830, 166953>>
Butterflies(x, left) ==
    Butterfly(Butterfly(Butterfly(Butterfly(x, OfSixteen, 0), OfEight, 0), OfFour, 0), OfTwo, left)

(* The odd values are kept MPC_FIXED_POINT_SYNTH_FIX bits smaller on their *)
(* way, for they grow.                                                     *)
EvenSide(Sample) == Butterflies(SubSeq([i \in 1 .. 16 |-> Sample[i] + Sample[33 - i]], 1, 16), 0)
OddSide(Sample)  ==
    Butterflies(SubSeq([i \in 1 .. 16 |->
        Scaled(Sample[i] - Sample[33 - i], OfOdd[i], MPC_FIXED_POINT_SYNTH_FIX)], 1, 16),
        MPC_FIXED_POINT_SYNTH_FIX)

(* V[0] to V[15], and what V[33] to V[48] are the negatives of.            *)
Rising(x, y) ==
    <<x[2], y[2] + y[10] + y[14] + y[16], x[10] + x[14] + x[16],
          y[6] + y[8] + y[10] + y[14] + y[16], x[6] + x[8],
          y[8] + y[16] + y[12] + y[6] + y[14], x[12] + x[16] + x[14],
          y[4] + y[12] + y[16] + y[14], x[4], y[4] + y[12] + y[16], x[12] + x[16],
          y[8] + y[16] + y[12], x[8], y[8] + y[16], x[16], y[16]>>
Falling(x, y) ==
    <<y[2] + y[10] + y[14] + y[16] + y[15], x[10] + x[14] + x[16] + x[15],
          y[6] + y[8] + y[10] + y[14] + y[16] + y[7] + y[15], x[6] + x[8] + x[7],
          y[11] + y[12] + y[14] + y[15] + y[16] + y[6] + y[7] + y[8],
          x[14] + x[16] + x[15] + x[11] + x[12],
          y[11] + y[12] + y[14] + y[15] + y[16] + y[3] + y[4], x[3] + x[4],
          y[11] + y[12] + y[13] + y[15] + y[16] + y[3] + y[4],
          x[13] + x[15] + x[16] + x[11] + x[12],
          y[11] + y[12] + y[13] + y[15] + y[16] + y[5] + y[7] + y[8], x[5] + x[7] + x[8],
          y[9] + y[13] + y[15] + y[16] + y[5] + y[7] + y[8],
          x[13] + x[15] + x[16] + x[9], y[9] + y[13] + y[15] + y[16] + y[1], x[1]>>

(* V[16] is never set, and is zero since the reset.                        *)
Unfolded(rising, falling) ==
    SubSeq([i \in 1 .. 64 |-> CASE i <= 16 -> rising[i]
                               [] i = 17 -> 0
                               [] i \in 18 .. 33 -> - rising[34 - i]
                               [] i \in 34 .. 49 -> - falling[i - 33]
                               [] i >= 50 -> - falling[65 - i]], 1, 64)
Folded(x, y) == Unfolded(Rising(x, y), Falling(x, y))
Calculate_New_V(Sample) == Folded(EvenSide(Sample), OddSide(Sample))

(*-------------------------------- the window ------------------------------*)

(* The first half of one block, the second half of the next, and so on.    *)
(* mutant: the first half of every block *)
Offset_first(j) == 64 * (j - 1)
Offset(j) == 128 * ((j - 1) \div 2) + 96 * ((j - 1) % 2)

Windowed(V, k) ==
    4 * Sum([j \in 1 .. 16 |-> Floor(V[(Offset(j) \div 64) + 1][(Offset(j) % 64) + k] * Di_opt[k][j], 18)])

(* A step: its block goes before the others, and 32 samples come out.      *)
Step(s, Sample) ==
    The({[V |-> V, out |-> s.out \o SubSeq([k \in 1 .. 32 |-> Windowed(V, k)], 1, 32)] :
           V \in {<<Calculate_New_V(Sample)>> \o s.V}})
Synthese_Filter_float_internal(V, Y) == Iterate(LAMBDA s, n : Step(s, Y[n]), [V |-> V, out |-> <<>>], Len(Y))

(* The blocks of the 15 steps before stay for the next frame.              *)
mpc_decoder_reset_v == Repeat(Repeat(0, 64), 15)
mpc_decoder_synthese_filter_float(V, Y) ==
    LET s == Synthese_Filter_float_internal(V, Y)
    IN  [V |-> SubSeq(s.V, 1, 15), out |-> s.out]
=============================================================================
