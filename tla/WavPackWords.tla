--------------------------- MODULE WavPackWords ---------------------------
(***************************************************************************)
(* The residuals of WavPack as bits: words.c and the bit streams of        *)
(* wputils.c.  A stream is the sequence of its bits in the order of        *)
(* writing; a reader that is behind its end reads ones.  An encoder or     *)
(* decoder is a record                                                     *)
(*   [c |-> of each channel its three medians and, in hybrid mode, its     *)
(*          slow_level and error_limit,                                    *)
(*    holding_one, holding_zero, zeros_acc, pend |-> bits not yet sent,    *)
(*    acc, delta |-> the bitrate of each channel, in hybrid mode,          *)
(*    bs |-> the bits written or to be read, at |-> how many are read]     *)
(***************************************************************************)
EXTENDS Bits

LIMIT_ONES == 16
SLO == 128
NULL_C == [median |-> <<0, 0, 0>>, slow_level |-> 0, error_limit |-> 0]
init_words == [c |-> <<NULL_C, NULL_C>>, holding_one |-> 0, holding_zero |-> 0, zeros_acc |-> 0,
               pend |-> <<>>, acc |-> <<0, 0>>, delta |-> <<0, 0>>, bs |-> <<>>, at |-> 0]

count_bits(v) == IF v = 0 THEN 0 ELSE Log2(v) + 1
Low(v, n) == [k \in 1 .. n |-> Bit(v, k - 1)]           (* n bits, the lowest first *)
Value(bits) == Iterate(LAMBDA v, k : v + bits[k] * 2 ^ (k - 1), 0, Len(bits))

log2_table == <<
    0, 1, 3, 4, 6, 7, 9, 10, 11, 13, 14, 16, 17, 18, 20, 21, 22, 24, 25, 26, 28, 29, 30, 32, 33,
    34, 36, 37, 38, 40, 41, 42, 44, 45, 46, 47, 49, 50, 51, 52, 54, 55, 56, 57, 59, 60, 61, 62,
    63, 65, 66, 67, 68, 69, 71, 72, 73, 74, 75, 77, 78, 79, 80, 81, 82, 84, 85, 86, 87, 88, 89,
    90, 92, 93, 94, 95, 96, 97, 98, 99, 100, 102, 103, 104, 105, 106, 107, 108, 109, 110, 111,
    112, 113, 114, 116, 117, 118, 119, 120, 121, 122, 123, 124, 125, 126, 127, 128, 129, 130, 131,
    132, 133, 134, 135, 136, 137, 138, 139, 140, 141, 142, 143, 144, 145, 146, 147, 148, 149, 150,
    151, 152, 153, 154, 155, 155, 156, 157, 158, 159, 160, 161, 162, 163, 164, 165, 166, 167, 168,
    169, 169, 170, 171, 172, 173, 174, 175, 176, 177, 178, 178, 179, 180, 181, 182, 183, 184, 185,
    185, 186, 187, 188, 189, 190, 191, 192, 192, 193, 194, 195, 196, 197, 198, 198, 199, 200, 201,
    202, 203, 203, 204, 205, 206, 207, 208, 208, 209, 210, 211, 212, 212, 213, 214, 215, 216, 216,
    217, 218, 219, 220, 220, 221, 222, 223, 224, 224, 225, 226, 227, 228, 228, 229, 230, 231, 231,
    232, 233, 234, 234, 235, 236, 237, 238, 238, 239, 240, 241, 241, 242, 243, 244, 244, 245, 246,
    247, 247, 248, 249, 249, 250, 251, 252, 252, 253, 254, 255, 255>>

exp2_table == <<
    0, 1, 1, 2, 3, 3, 4, 5, 6, 6, 7, 8, 8, 9, 10, 11, 11, 12, 13, 14, 14, 15, 16, 16, 17, 18, 19,
    19, 20, 21, 22, 22, 23, 24, 25, 25, 26, 27, 28, 29, 29, 30, 31, 32, 32, 33, 34, 35, 36, 36,
    37, 38, 39, 40, 40, 41, 42, 43, 44, 44, 45, 46, 47, 48, 48, 49, 50, 51, 52, 53, 53, 54, 55,
    56, 57, 58, 58, 59, 60, 61, 62, 63, 64, 65, 65, 66, 67, 68, 69, 70, 71, 72, 72, 73, 74, 75,
    76, 77, 78, 79, 80, 81, 81, 82, 83, 84, 85, 86, 87, 88, 89, 90, 91, 92, 93, 94, 94, 95, 96,
    97, 98, 99, 100, 101, 102, 103, 104, 105, 106, 107, 108, 109, 110, 111, 112, 113, 114, 115,
    116, 117, 118, 119, 120, 121, 122, 123, 124, 125, 126, 127, 128, 129, 130, 131, 132, 133, 135,
    136, 137, 138, 139, 140, 141, 142, 143, 144, 145, 146, 147, 149, 150, 151, 152, 153, 154, 155,
    156, 157, 159, 160, 161, 162, 163, 164, 165, 166, 168, 169, 170, 171, 172, 173, 175, 176, 177,
    178, 179, 180, 182, 183, 184, 185, 186, 188, 189, 190, 191, 192, 194, 195, 196, 197, 198, 200,
    201, 202, 203, 205, 206, 207, 208, 210, 211, 212, 214, 215, 216, 217, 219, 220, 221, 222, 224,
    225, 226, 228, 229, 230, 232, 233, 234, 236, 237, 238, 240, 241, 242, 244, 245, 246, 248, 249,
    250, 252, 253, 255>>

(* A logarithm in 8.8 bits, and back: what comes back is close, not the same. *)
LogIn(v, dbits) ==
    dbits * 256 + log2_table[1 + ((IF v < 256 THEN v * 2 ^ (9 - dbits) ELSE Floor(v, dbits - 9)) % 256)]
mylog2(a) == LogIn(a + a \div 512, count_bits(a + a \div 512))
log2s(v) == IF v < 0 THEN - mylog2(- v) ELSE mylog2(v)
exp2(l) == LET v == exp2_table[1 + (l % 256)] + 256
           IN  IF l \div 256 <= 9 THEN Floor(v, 9 - l \div 256) ELSE v * 2 ^ (l \div 256 - 9)
exp2s(l) == IF l < 0 THEN - exp2(- l) ELSE exp2(l)

(* Weights as 8 bits, and back. *)
Clip(v, limit) == IF v > limit THEN limit ELSE IF v < - limit THEN - limit ELSE v
store_weight(weight) ==
    LET w == Clip(weight, 1024)
    IN  Floor((IF w > 0 THEN w - Floor(w + 64, 7) ELSE w) + 4, 3)
restore_weight(stored) ==
    LET w == stored * 8 IN IF w > 0 THEN w + Floor(w + 64, 7) ELSE w

(* The medians of a channel, and how they move. *)
DIV == <<128, 64, 32>>
GET_MED(c, n) == Floor(c.median[n], 4) + 1
INC_MED(c, n) == [c EXCEPT !.median[n] = @ + ((@ + DIV[n]) \div DIV[n]) * 5]
DEC_MED(c, n) == [c EXCEPT !.median[n] = @ - ((@ + DIV[n] - 2) \div DIV[n]) * 2]

(* The zone of a value: its number, its bounds, and the channel behind it. *)
Zone(c, number) ==
    LET low1 == GET_MED(c, 1)
        low2 == low1 + GET_MED(c, 2)
        low  == low2 + (number - 2) * GET_MED(c, 3)
    IN  CASE number = 0 -> [low |-> 0, high |-> low1 - 1, c |-> DEC_MED(c, 1)]
          [] number = 1 -> [low |-> low1, high |-> low2 - 1, c |-> DEC_MED(INC_MED(c, 1), 2)]
          [] number = 2 -> [low |-> low2, high |-> low + GET_MED(c, 3) - 1,
                            c |-> DEC_MED(INC_MED(INC_MED(c, 1), 2), 3)]
          [] OTHER -> [low |-> low, high |-> low + GET_MED(c, 3) - 1,
                       c |-> INC_MED(INC_MED(INC_MED(c, 1), 2), 3)]
ZoneNumber(c, value) ==
    LET low1 == GET_MED(c, 1)
        low2 == low1 + GET_MED(c, 2)
    IN  IF value < low1 THEN 0 ELSE IF value < low2 THEN 1
        ELSE 2 + (value - low2) \div GET_MED(c, 3)

(* A run of zeros is counted while both medians are next to nothing. *)
Silent(w) == w.c[1].median[1] <= 1 /\ w.c[2].median[1] <= 1
ClearMedians(w) == [w EXCEPT !.c[1].median = <<0, 0, 0>>, !.c[2].median = <<0, 0, 0>>]

(* A number by its count of bits, in ones, and all of them but the highest. *)
ByCount(v, cbits) == Repeat(1, cbits) \o <<0>> \o Low(v, cbits - 1)
Elias(v) == ByCount(v, count_bits(v))

(* putbit() and putbits(): some more bits of the stream. *)
putbits(w, bits) == [w EXCEPT !.bs = @ \o bits]

flush_word(w) ==
    LET long == w.holding_one >= LIMIT_ONES
        ones == IF long THEN Repeat(1, LIMIT_ONES) \o <<0>> \o Elias(w.holding_one - LIMIT_ONES)
                ELSE Repeat(1, w.holding_one)
    IN  [putbits(w, (IF w.zeros_acc > 0 THEN Elias(w.zeros_acc) ELSE <<>>) \o ones
                    \o (IF w.holding_zero = 1 /\ ~ long THEN <<0>> ELSE <<>>) \o w.pend)
          EXCEPT !.zeros_acc = 0, !.holding_one = 0, !.holding_zero = 0, !.pend = <<>>]

(* A number from 0 to maxcode, in one bit less if it is one of the lowest. *)
ShortCodes(maxcode, bitcount) == 2 ^ bitcount - maxcode - 1
CodedIn(bitcount, extras, code) ==
    IF bitcount = 0 THEN <<>>
    ELSE IF code < extras THEN Low(code, bitcount - 1)
    ELSE Low((code + extras) \div 2, bitcount - 1) \o <<(code + extras) % 2>>
Coded(maxcode, code) == CodedIn(count_bits(maxcode), ShortCodes(maxcode, count_bits(maxcode)), code)

(* What is held back of a word until the next one: two counts of ones are   *)
(* sent as one.                                                             *)
HoldMore(w, ones_count) ==
    IF ones_count = 0 THEN w ELSE [w EXCEPT !.holding_zero = 1, !.holding_one = (ones_count - 1) * 2]
Hold(w, ones_count) ==
    IF w.holding_zero = 0 THEN [w EXCEPT !.holding_zero = 1, !.holding_one = ones_count * 2]
    ELSE HoldMore(flush_word([w EXCEPT !.holding_one = IF ones_count > 0 THEN @ + 1 ELSE @]), ones_count)

Sent(w, bits) == [w EXCEPT !.pend = @ \o bits]
Free(w) == IF w.holding_zero = 0 THEN flush_word(w) ELSE w
SendInZone(w, chan, number, zone, v, sign) ==
    Free(Sent(Hold([w EXCEPT !.c[chan] = zone.c], number),
              Coded(zone.high - zone.low, v - zone.low) \o <<sign>>))
SendIn(w, chan, number, v, sign) == SendInZone(w, chan, number, Zone(w.c[chan], number), v, sign)
SendWord(w, chan, value) ==
    IF value < 0 THEN SendIn(w, chan, ZoneNumber(w.c[chan], - value - 1), - value - 1, 1)
    ELSE SendIn(w, chan, ZoneNumber(w.c[chan], value), value, 0)

(* After the check for silence: a run of zeros goes on, ends or begins; or  *)
(* there is none, which a word says in advance.                             *)
BeforeWord(w) ==
    IF ~ (Silent(w) /\ w.holding_zero = 0) THEN w
    ELSE IF w.zeros_acc > 0 THEN flush_word(w) ELSE putbits(w, <<0>>)
Send(w, chan, value) ==
    IF value = 0 /\ Silent(w) /\ w.holding_zero = 0
    THEN IF w.zeros_acc > 0 THEN [w EXCEPT !.zeros_acc = @ + 1]
         ELSE [ClearMedians(w) EXCEPT !.zeros_acc = 1]
    ELSE SendWord(BeforeWord(w), chan, value)

(* The samples of a buffer, channel by channel. *)
send_words(w, buffer, channels) ==
    Iterate(LAMBDA x, k : Send(x, IF channels = 1 THEN 1 ELSE 2 - (k % 2), buffer[k]), w, Len(buffer))

bs_open_write(w) == [w EXCEPT !.bs = <<>>]

(* The end of a block: filled up with ones to a whole number of 16 bits. *)
bs_close_write(w) ==
    putbits(w, Repeat(1, (0 - Len(w.bs)) % 16))

(* Reading, of a buffer that is filled with ones when it is used up: one    *)
(* bit, a count of ones up to a limit, and numbers. *)
bs_open_read(w, buffer) == [w EXCEPT !.bs = buffer]
bs_read == 1
getbit(w, at) == IF at < Len(w.bs) THEN w.bs[at + 1] ELSE bs_read
getbits(w, at, n) == Value([k \in 1 .. n |-> getbit(w, at + k - 1)])
Ones(w, at, limit) ==
    IF \A k \in 0 .. limit - 1 : getbit(w, at + k) = 1 THEN limit
    ELSE CHOOSE n \in 0 .. limit - 1 :
           getbit(w, at + n) = 0 /\ \A k \in 0 .. n - 1 : getbit(w, at + k) = 1

(* A number written as Elias() does: its value, the index behind it. *)
OfCount(w, at, cbits) ==
    CASE cbits = 33 -> [eof |-> TRUE, v |-> 0, at |-> at + 33]
      [] cbits < 2  -> [eof |-> FALSE, v |-> cbits, at |-> at + cbits + 1]
      [] OTHER -> [eof |-> FALSE, at |-> at + 2 * cbits,
                   v |-> getbits(w, at + cbits + 1, cbits - 1) + 2 ^ (cbits - 1)]
ReadElias(w, at) == OfCount(w, at, Ones(w, at, 33))

CodeIn(w, at, bitcount, extras, code) ==
    IF bitcount = 0 THEN [v |-> 0, at |-> at]
    ELSE IF code < extras THEN [v |-> code, at |-> at + bitcount - 1]
    ELSE [v |-> 2 * code - extras + getbit(w, at + bitcount - 1), at |-> at + bitcount]

read_code(w, at, maxcode) ==
    CodeIn(w, at, count_bits(maxcode), ShortCodes(maxcode, count_bits(maxcode)),
           getbits(w, at, count_bits(maxcode) - 1))

(* Hybrid mode: the largest error allowed, from the level of the signal and *)
(* a bitrate that drifts; f says of a stream [mono, hybrid, bitrate, balance]. *)
Limit(log) == IF log > -256 THEN exp2s(log + 256) ELSE 0
(* How the two channels share the rate: by their levels. *)
Split(rate, balance, f) ==
    CASE f.mono \/ ~ f.balance  -> rate
      [] balance > rate[1]      -> <<0, rate[1] * 2>>
      [] - balance > rate[1]    -> <<rate[1] * 2, 0>>
      [] OTHER                  -> <<rate[1] - balance, rate[1] + balance>>
Limited(w, f, acc, rate, slow) ==
    LET split == Split(rate, Floor(slow[2] - slow[1] + rate[2] + 1, 1), f)
        limit(n) == IF f.bitrate THEN Limit(slow[n] - split[n]) ELSE exp2s(rate[n])
    IN  [w EXCEPT !.acc = IF f.mono THEN <<acc[1], @[2]>> ELSE acc,
                  !.c = [n \in 1 .. 2 |-> IF f.mono /\ n = 2 THEN @[n]
                                          ELSE [@[n] EXCEPT !.error_limit = limit(n)]]]
update_error_limit(w, f) ==
    LET acc == [n \in 1 .. 2 |-> w.acc[n] + w.delta[n]]
    IN  Limited(w, f, acc, [n \in 1 .. 2 |-> Floor(acc[n], 16)],
                [n \in 1 .. 2 |-> Floor(w.c[n].slow_level + SLO, 8)])

Decayed(c) == c.slow_level - Floor(c.slow_level + SLO, 8)

(* The zone of the next word: two of them are read from one count of ones. *)
Counted(w, at, ones_count) ==
    [eof |-> FALSE, number |-> ones_count \div 2 + w.holding_one,
     w |-> [w EXCEPT !.at = at, !.holding_one = ones_count % 2, !.holding_zero = 1 - (ones_count % 2)]]
CountedMore(w, more) ==
    IF more.eof THEN [eof |-> TRUE, number |-> 0, w |-> w] ELSE Counted(w, more.at, LIMIT_ONES + more.v)
CountedOnes(w, n) ==
    CASE n > LIMIT_ONES -> [eof |-> TRUE, number |-> 0, w |-> w]
      [] n = LIMIT_ONES -> CountedMore(w, ReadElias(w, w.at + LIMIT_ONES + 1))
      [] OTHER          -> Counted(w, w.at + n + 1, n)
ReadZone(w) ==
    IF w.holding_zero = 1 THEN [eof |-> FALSE, number |-> 0, w |-> [w EXCEPT !.holding_zero = 0]]
    ELSE CountedOnes(w, Ones(w, w.at, LIMIT_ONES + 1))

(* A value between low and high: halved until it is as exact as limit asks. *)
RECURSIVE Halve(_, _, _, _, _)
Halve(w, at, low, high, limit) ==
    LET mid == (high + low + 1) \div 2
    IN  IF high - low <= limit THEN [v |-> mid, at |-> at]
        ELSE IF getbit(w, at) = 1 THEN Halve(w, at + 1, mid, high, limit)
        ELSE Halve(w, at + 1, low, mid - 1, limit)

(* The word from the value without its sign. *)
Word(r, w, chan, f, c, mid) ==
    [r EXCEPT !.out = Append(@, IF getbit(w, mid.at) = 1 THEN - mid.v - 1 ELSE mid.v),
              !.w = [w EXCEPT !.at = mid.at + 1,
                     !.c[chan] = [c EXCEPT !.slow_level = IF f.bitrate THEN Decayed(c) + mylog2(mid.v) ELSE @]]]
Above(low, code) == [code EXCEPT !.v = @ + low]
InZone(w, zone) ==
    IF zone.c.error_limit = 0 THEN Above(zone.low, read_code(w, w.at, zone.high - zone.low))
    ELSE Halve(w, w.at, zone.low, zone.high, zone.c.error_limit)
WordInZone(r, w, chan, f, zone) == Word(r, w, chan, f, zone.c, InZone(w, zone))
WordOf(r, w, chan, f, number) == WordInZone(r, w, chan, f, Zone(w.c[chan], number))
ReadZoned(r, chan, f, z) ==
    IF z.eof THEN [r EXCEPT !.eof = TRUE, !.w = z.w]
    ELSE WordOf(r, IF f.hybrid /\ (f.mono \/ chan = 1) THEN update_error_limit(z.w, f) ELSE z.w,
                chan, f, z.number)
ReadWord(r, chan, f) == ReadZoned(r, chan, f, ReadZone(r.w))

(* A zero of a run. *)
ReadZero(r, w, chan) ==
    [r EXCEPT !.out = Append(@, 0), !.w = [w EXCEPT !.c[chan].slow_level = Decayed(w.c[chan])]]

(* At the place of a run: its length is read, which may be 0. *)
RunOrWord(r, chan, f, run) ==
    LET w == [r.w EXCEPT !.at = run.at, !.zeros_acc = run.v]
    IN  IF run.eof THEN [r EXCEPT !.eof = TRUE]
        ELSE IF run.v > 0 THEN ReadZero(r, ClearMedians(w), chan)
        ELSE ReadWord([r EXCEPT !.w = w], chan, f)
RunGoesOn(r, chan, f) ==
    LET w == [r.w EXCEPT !.zeros_acc = @ - 1]
    IN  IF w.zeros_acc > 0 THEN ReadZero(r, w, chan) ELSE ReadWord([r EXCEPT !.w = w], chan, f)
Read(r, chan, f) ==
    CASE r.eof -> r
      [] ~ r.eof /\ ~ (Silent(r.w) /\ r.w.holding_zero = 0 /\ r.w.holding_one = 0) -> ReadWord(r, chan, f)
      [] OTHER -> IF r.w.zeros_acc > 0 THEN RunGoesOn(r, chan, f)
                  ELSE RunOrWord(r, chan, f, ReadElias(r.w, r.w.at))

(* The words of a number of moments, as far as the stream goes. *)
get_words(w, moments, f) ==
    Iterate(LAMBDA r, k : Read(r, IF f.mono THEN 1 ELSE 2 - (k % 2), f),
            [w |-> w, out |-> <<>>, eof |-> FALSE], IF f.mono THEN moments ELSE 2 * moments)
=============================================================================
