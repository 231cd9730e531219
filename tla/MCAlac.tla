------------------------------- MODULE MCAlac ------------------------------
(***************************************************************************)
(* Apple Lossless.  Files of one or two blocks for the decoder: silence,   *)
(* quiet and loud signals in every kind of coding, of one and two channels *)
(* and samples of four sizes.  And movies of five blocks for the reading   *)
(* and the seeking: every way to put the blocks into chunks, every moment  *)
(* to start at, and files that are odd in one way each.  A behaviour       *)
(* decodes or reads.                                                       *)
(***************************************************************************)
EXTENDS AlacDecoder, AlacMovie, SequencesExt, TLC

VARIABLE recording      (* the blocks that were encoded                    *)

(*------------------------- blocks as an encoder writes them --------------*)
(* A block is                                                              *)
(*   [pcm |-> the samples of each channel, size |-> bits of a sample,      *)
(*    raw |-> not compressed, counted |-> it says how many samples it has, *)
(*    shift, weight |-> how the two channels are mixed,                    *)
(*    codings |-> of each channel [coeffs, quant, modifier]]               *)
(* and the settings of the file are [max, size, mult, initial, kmod].      *)

Least(a, b) == IF a < b THEN a ELSE b
Sign(v) == IF v > 0 THEN 1 ELSE IF v < 0 THEN -1 ELSE 0
Magnitude(v) == v * Sign(v)
Fold(v) == IF v < 0 THEN - 2 * v - 1 ELSE 2 * v        (* 0, -1, 1, -2, 2 ... *)

(* A number as a quotient by 2^k - 1 in unary and a remainder, of which a   *)
(* zero takes one bit less; large quotients are escaped.                    *)
Golomb(v, k, m, wide) ==
    IF v \div m > 8 THEN Repeat(1, 9) \o BitsOf(v, wide)
    ELSE Repeat(1, v \div m) \o <<0>>
         \o (IF k = 1 THEN <<>>
             ELSE IF v % m = 0 THEN Repeat(0, k - 1) ELSE BitsOf((v % m) + 1, k))

(* How many numbers from e[n] on are zero. *)
Zeros(e, n) == CHOOSE z \in 0 .. Len(e) + 1 - n :
                  /\ \A j \in n .. n + z - 1 : e[j] = 0
                  /\ n + z <= Len(e) => e[n + z] # 0

(* A number, and the zeros behind it when the mean of the numbers is small. *)
Mean(mean, u, mult) == IF u > 65535 THEN 65535 ELSE mean + u * mult - (mean * mult) \div 512
AfterZeros(s, e, set) ==
    LET z == Zeros(e, s.n)
        k == (IF s.mean = 0 THEN 8 ELSE 7 - Log2(s.mean)) + (s.mean + 16) \div 64
    IN  IF s.mean < 128 /\ s.n <= Len(e)
        THEN [n |-> s.n + z, mean |-> 0, zero |-> 1,
              bits |-> s.bits \o Golomb(z, k, 2 ^ Least(k, set.kmod) - 1, 16)]
        ELSE s
Written(s, e, set, mult, wide) ==
    LET k == Least(Log2(s.mean \div 512 + 3), set.kmod)
    IN  AfterZeros([n |-> s.n + 1, mean |-> Mean(s.mean, Fold(e[s.n]), mult), zero |-> 0,
                    bits |-> s.bits \o Golomb(Fold(e[s.n]) - s.zero, k, 2 ^ k - 1, wide)], e, set)
Numbers(e, set, mult, wide) ==
    Iterate(LAMBDA s, j : IF s.n > Len(e) THEN s ELSE Written(s, e, set, mult, wide),
            [n |-> 1, mean |-> set.initial, zero |-> 0, bits |-> <<>>], Len(e)).bits

(* The coefficients learn from the error of each prediction: each, the one  *)
(* of the oldest sample first, as long as it is not made up for.            *)
Learn(c, past, err, quant) ==
    LET order == Len(c)
        d(j) == past[order + 2 - j] - past[1]      (* of the sample j before *)
        Turn(s, j) ==
            LET w == order + 1 - j
            IN  IF Sign(s.err) # Sign(err) \/ err = 0 THEN s
                ELSE [c |-> [s.c EXCEPT ![w] = @ + Sign(d(w)) * Sign(err)],
                      err |-> s.err - j * Floor(Magnitude(d(w)) * Sign(err), quant)]
    IN  Iterate(Turn, [c |-> c, err |-> err], order).c

(* The errors of the predictions of a signal. *)
Foretold(c, past, quant) ==
    past[1] + Floor(Sum([j \in DOMAIN c |-> c[j] * (past[Len(past) + 1 - j] - past[1])])
                    + 2 ^ (quant - 1), quant)
Missed(s, x, n, q, wide) ==
    LET past == SubSeq(x, n - Len(s.c) - 1, n - 1)
        err  == Wrap(x[n] - Foretold(s.c, past, q.quant), wide)
    IN  [c |-> Learn(s.c, past, err, q.quant), out |-> Append(s.out, err)]
Errors(x, q, wide) ==
    LET steps == [n \in DOMAIN x |-> IF n = 1 THEN x[1] ELSE Wrap(x[n] - x[n - 1], wide)]
        order == Len(q.coeffs)
    IN  IF order = 0 THEN x
        ELSE IF order = 31 \/ Len(x) <= order + 1 THEN steps
        ELSE Iterate(LAMBDA s, j : Missed(s, x, order + 1 + j, q, wide),
                     [c |-> q.coeffs, out |-> SubSeq(steps, 1, order + 1)],
                     Len(x) - order - 1).out

(* What is coded for two channels: one, and how the other differs from it. *)
Mixed(b) ==
    LET l == b.pcm[1]
        r == b.pcm[2]
    IN  IF Len(b.pcm) = 1 \/ b.weight = 0 THEN b.pcm
        ELSE <<[n \in DOMAIN l |-> r[n] + Floor((l[n] - r[n]) * b.weight, b.shift)],
               [n \in DOMAIN l |-> l[n] - r[n]]>>

About(q) == BitsOf(0, 4) \o BitsOf(q.quant, 4) \o BitsOf(q.modifier, 3) \o BitsOf(Len(q.coeffs), 5)
            \o Concat([j \in DOMAIN q.coeffs |-> BitsOf(q.coeffs[j], 16)])
Encode(b, set) ==
    LET channels == Len(b.pcm)
        x == Mixed(b)
        wide == b.size + channels - 1
        Coded(c) == Numbers(Errors(x[c], b.codings[c], wide), set,
                            (b.codings[c].modifier * set.mult) \div 4, wide)
        bits == BitsOf(channels - 1, 3) \o Repeat(0, 16)
                \o <<IF b.counted THEN 1 ELSE 0, 0, 0, IF b.raw THEN 1 ELSE 0>>
                \o (IF b.counted THEN BitsOf(0, 16) \o BitsOf(Len(b.pcm[1]), 16) ELSE <<>>)
                \o (IF b.raw
                    THEN Concat([n \in DOMAIN b.pcm[1] |->
                            Concat([c \in 1 .. channels |-> BitsOf(b.pcm[c][n], b.size)])])
                    ELSE BitsOf(b.shift, 8) \o BitsOf(b.weight, 8)
                         \o Concat([c \in 1 .. channels |-> About(b.codings[c])])
                         \o Concat([c \in 1 .. channels |-> Coded(c)]))
    IN  bits \o <<1, 1, 1>> \o Repeat(0, (- Len(bits) - 3) % 8)

(* The samples, channel by channel, the low byte first. *)
Each(pcm, Made(_)) ==
    Concat([n \in DOMAIN pcm[1] |-> Concat([c \in DOMAIN pcm |-> Made(pcm[c][n])])])
Unsigned(v) == <<(v + 128) % 256>>
AsBytes(b) ==
    Each(b.pcm, LAMBDA v : IF b.size = 8 THEN Unsigned(v)
                           ELSE [j \in 1 .. (b.size + 7) \div 8 |-> Floor(v, 8 * (j - 1)) % 256])
(* What is left mixed, and taken for samples that were justified. *)
AsLeft(b) ==
    Each(Mixed(b), LAMBDA v : IF b.size = 8 THEN Unsigned(v)
                              ELSE <<Floor(v, 13) % 256, Floor(v, 21) % 256>>)

(*------------------------------- for the decoder -------------------------*)

Silence == Repeat(0, 40)
Quiet == <<3, -2, 7, 1, 0, 0, 0, -5, 4, 4, 0, 1>>
Loud  == <<32767, -32768, 32767, -32768, 0, 0, -32768, 32767, 5, -1, 300, -20000>>
Apart == <<-32768, 32767, -32768, 32767, 0, 0, 32767, -32768, -5, 2, 0, 20000>>
Slope == <<100, 140, 190, 230, 290, 330, 390, 450, 470, 520, 540, 580>>
Soft  == <<5, -5, 6, -6, 7, -128, 127, 0, 0, 0, 0, 1>>
Fine  == <<200000, -300000, 7, 0, 0, 65536, -65536, 255, 256, -1, 524287, -524288>>
Steady == Repeat(-32768, 160)           (* loud enough for the mean to grow past 2^25 *)

Coded(coeffs, quant, modifier) == [coeffs |-> coeffs, quant |-> quant, modifier |-> modifier]
Codings ==
    {Coded(c, q, 4) : c \in {<<>>, <<3>>, <<5, -2, 0, 1>>, <<9, -4, 1, 0, 2, -1, 0, 1>>,
                             <<2, 1, -1, 0, 1>>, Repeat(0, 31)}, q \in {1, 4, 9}}
    \cup {Coded(<<5, -2, 0, 1>>, 2, m) : m \in {1, 7}}

ABlock(pcm, size, codings) ==
    [pcm |-> pcm, size |-> size, raw |-> FALSE, counted |-> TRUE, shift |-> 0, weight |-> 0,
     codings |-> codings]
Raw(b) == [b EXCEPT !.raw = TRUE]
Setting(size, kmod) == alac_set_info(12, size, 40, 10, kmod)
Monos ==
    {<<Setting(16, k), <<ABlock(<<x>>, 16, <<c>>)>>>> :
        k \in {2, 14}, x \in {Silence, Quiet, Loud, Slope}, c \in Codings}
    \cup {<<Setting(8, 14), <<b>>>> : b \in {ABlock(<<Soft>>, 8, <<c>>) : c \in Codings}}
    \cup {<<Setting(8, 14), <<Raw(b)>>>> : b \in {ABlock(<<Soft>>, 8, <<Coded(<<>>, 1, 4)>>)}}
Steadies == {<<Setting(16, 14), <<ABlock(<<Steady>>, 16, <<Coded(<<>>, 1, 4)>>)>>>>}
Wides ==                (* in each of the ways, of more than 16 bits *)
    {<<Setting(n, 14), <<[ABlock(pcm, n, [k \in DOMAIN pcm |-> c]) EXCEPT !.raw = raw, !.shift = 2, !.weight = IF raw THEN 0 ELSE w]>>>> :
        n \in {20, 24}, pcm \in {<<Fine>>, <<Fine, Quiet>>}, raw \in BOOLEAN,
        w \in {0, 2}, c \in {Coded(<<>>, 1, 4), Coded(<<3>>, 4, 4), Coded(<<5, -2, 0, 1>>, 9, 4)}}
Stereos ==
    {<<Setting(16, 14), <<[b EXCEPT !.shift = m[1], !.weight = m[2]]>>>> :
        b \in {ABlock(s, 16, <<c, d>>) :
                 s \in {<<Quiet, Slope>>, <<Loud, Apart>>, <<Slope, Quiet>>, <<Apart, Apart>>},
                 c \in {d \in Codings : d.quant = 4}, d \in {d \in Codings : d.quant = 9}},
        m \in {<<0, 0>>, <<2, 2>>, <<0, 1>>, <<3, 5>>}}
    \cup {<<Setting(8, 14), <<ABlock(<<Soft, Soft>>, 8, <<c, c>>)>>>> : c \in Codings}
    \cup {<<Setting(8, 14), <<Raw(b)>>>> : b \in {ABlock(<<Soft, Soft>>, 8, <<>>)}}
    \cup {<<Setting(8, 14), <<[ABlock(<<Soft, Quiet>>, 8, <<c, c>>) EXCEPT !.shift = 2, !.weight = 2]>>>> :
            c \in Codings}
    \cup {<<Setting(16, 14), <<Raw(b), b>>>> :
            b \in {ABlock(<<Loud, Apart>>, 16, <<c, c>>) : c \in Codings}}
Uncounted(r) == <<r[1], [k \in DOMAIN r[2] |-> [r[2][k] EXCEPT !.counted = Len(r[2][k].pcm[1]) # r[1].max]]>>

(*-------------------------------- for the movie --------------------------*)

Atom(name, body) == <<8 + 4 * Len(body), MAKEFOURCC(name)>> \o body
Flat(ss) == FlattenSeq(ss)
Runs(s) ==              (* the lengths of runs of the same value, and the values *)
    LET begins == SetToSortSeq({k \in DOMAIN s : k = 1 \/ s[k] # s[k - 1]}, <)
    IN  [j \in DOMAIN begins |->
           [from |-> begins[j], value |-> s[begins[j]],
            count |-> (IF j = Len(begins) THEN Len(s) + 1 ELSE begins[j + 1]) - begins[j]]]
Stts(durations) ==
    LET r == Runs(durations)
    IN  Atom("stts", <<0, Len(r)>> \o Flat([j \in DOMAIN r |-> <<r[j].count, r[j].value>>]))
Stsc(chunks) ==
    LET r == Runs(chunks)
    IN  Atom("stsc", <<0, Len(r)>> \o Flat([j \in DOMAIN r |-> <<r[j].from, r[j].value, 1>>]))
Stsz(sizes) == Atom("stsz", <<0, 0, Len(sizes)>> \o sizes)
Stco(offsets) == Atom("stco", <<0, Len(offsets)>> \o offsets)
Stsd(kind, extra) ==    (* an entry ends behind its codec data, or is said to end before it *)
    Atom("stsd", <<0, 1, 36 + 4 * (9 + extra), MAKEFOURCC(kind), 0, 0, 0, 0,
                   2 * 65536 + 16, 0, 65536>> \o Repeat(7, IF extra < 0 THEN 9 ELSE 9 + extra))
Smhd == Atom("smhd", <<0, 0>>)
Track(header, tables) ==
    Atom("trak", Atom("other", <<0>>)
                 \o Atom("mdia", Atom("other", <<>>) \o Atom("minf", header \o Atom("other", <<0>>)
                                                               \o Atom("stbl", tables))))

(* A movie m: the sizes and durations of its blocks, how many are in each   *)
(* chunk, the bytes before each chunk, and how it is odd.                   *)
Total(s) == SumFunction(s)
First(m, b) == Total(SubSeq(m.durations, 1, b - 1))
ChunkWith(m, b) == CHOOSE c \in DOMAIN m.chunks :
                      b \in Total(SubSeq(m.chunks, 1, c - 1)) + 1 .. Total(SubSeq(m.chunks, 1, c))
Place(m, b) == Total(SubSeq(m.sizes, 1, b - 1)) + Total(SubSeq(m.gaps, 1, ChunkWith(m, b)))

Tables(m, base) ==
    LET is(odd) == m.odd = odd
        first(c) == Total(SubSeq(m.chunks, 1, c - 1)) + 1
    IN  Stsd(IF is("mp4a") THEN "other" ELSE "alac", IF is("long entry") THEN 3 ELSE IF is("short entry") THEN -10 ELSE 0)
        \o (IF is("no durations") THEN <<>> ELSE Stts(IF is("durations short") THEN Tail(m.durations) ELSE m.durations))
        \o (IF is("no chunks") THEN <<>> ELSE Stsc(m.chunks))
        \o Atom("other", <<0>>)
        \o (IF is("one size") THEN Atom("stsz", <<0, m.sizes[1], Len(m.sizes)>>)
            ELSE Stsz(IF is("huge block") THEN <<65536>> \o Tail(m.sizes) ELSE m.sizes))
        \o Stco([c \in DOMAIN m.chunks |-> base + Place(m, first(c))])
Moov(m, base) ==
    Atom("moov", Atom("other", <<1, 2>>)
        \o (IF m.odd = "pictures" THEN Track(Atom("other", <<0, 0, 0>>), <<>>) ELSE <<>>)
        \o (IF m.odd = "empty atom" THEN <<0, MAKEFOURCC("other")>> ELSE <<>>)
        \o (IF m.odd = "atom too long" THEN <<4000, MAKEFOURCC("other")>> ELSE <<>>)
        \o Track(IF m.odd = "other header" THEN Atom("other", <<0, 0>>) ELSE Smhd, Tables(m, base)))
Ftyp(m) == CASE m.odd = "brand" -> Atom("ftyp", <<MAKEFOURCC("other"), 0>>)
             [] m.odd = "ftyp of 22" -> <<22, MAKEFOURCC("ftyp"), MAKEFOURCC("M4A "), 0, 0>>
             [] OTHER -> Atom("ftyp", <<MAKEFOURCC("M4A "), 0, MAKEFOURCC("M4A ")>>)
Between(m) == CASE m.odd = "free of 0" -> <<0, MAKEFOURCC("free")>>
                [] m.odd = "empty mdat" -> Atom("mdat", <<>>)
                [] m.odd = "unknown" -> Atom("other", <<0>>)
                [] m.odd = "64 bits" -> <<1, MAKEFOURCC("mdat"), 0, 40>>
                [] OTHER -> Atom("free", <<0, 0>>)
Bytes4(m) == Total(m.sizes) + Total(m.gaps)
Head4(m, base) == Repeat(9, m.tag \div 4) \o Ftyp(m) \o (IF m.odd = "moov last" THEN <<>> ELSE Moov(m, base)) \o Between(m)
                  \o <<8 + (IF m.odd = "two mdats" THEN m.sizes[1] ELSE Bytes4(m)), MAKEFOURCC("mdat")>>
AMovie(m) ==
    LET base == 4 * Len(Head4(m, 0))
    IN  [tag |-> m.tag, words |-> Head4(m, base), movie |-> m, size |-> base + Bytes4(m) - m.cut,
         blocks |-> [b \in DOMAIN m.sizes |-> [at |-> base + Place(m, b), size |-> m.sizes[b]]]]

Plain == [sizes |-> <<12, 8, 20, 4, 16>>, durations |-> <<4, 4, 4, 4, 3>>, chunks |-> <<5>>,
          gaps |-> <<0>>, tag |-> 0, cut |-> 0, odd |-> "none"]
Chunked(c, d, g) == [Plain EXCEPT !.chunks = c, !.durations = d, !.gaps = [k \in DOMAIN c |-> IF k = g THEN 8 ELSE 0]]
Oddities ==             (* and what becomes of each file *)
    [x \in {"none", "empty mdat", "pictures", "two mdats"} |-> {"done"}]
    @@ [x \in {"brand", "unknown", "64 bits", "mp4a", "huge block", "empty atom", "atom too long",
               "other header"} |-> {"refused"}]
    @@ [x \in {"one size", "no durations", "long entry", "short entry", "moov last"} |-> {"undefined"}]
    @@ [x \in {"durations short"} |-> {"done", "undecodable"}]
    @@ [x \in {"cut header"} |-> {"refused", "undefined"}]
    @@ [x \in {"no chunks"} |-> {"done", "undefined"}]
    @@ [x \in {"ftyp of 22"} |-> {"loops"}] @@ [x \in {"free of 0"} |-> {}]
MCFiles ==
    {AMovie(Chunked(c, d, g)) :
        c \in {<<5>>, <<2, 2, 1>>, <<2, 3>>, <<1, 1, 3>>, <<3, 1, 1>>, <<1, 2, 1, 1>>},
        d \in {<<4, 4, 4, 4, 4>>, <<4, 4, 4, 4, 1>>, <<2, 4, 4, 4, 3>>, <<4, 4, 2, 2, 2>>}, g \in 0 .. 2}
    \cup {AMovie([Plain EXCEPT !.odd = o]) : o \in DOMAIN Oddities \ {"cut header"}}
    \cup {AMovie([Chunked(<<2, 2, 1>>, Plain.durations, 0) EXCEPT !.tag = 12])}
    \cup {AMovie([Plain EXCEPT !.cut = n]) : n \in {4, 16, 20, 60}}
    \cup {AMovie([Plain EXCEPT !.cut = n, !.odd = "cut header"]) : n \in {100, 180, 240, 300}}
MCStarts == 0 .. 21
MCStale  == {0, 16}
NoMovie  == AMovie(Plain)

(*-------------------------------- both of them ---------------------------*)

Decodes ==
    /\ \E r \in {Uncounted(q) : q \in Monos \cup Steadies \cup Stereos \cup Wides} :
         /\ recording = r[2]
         /\ format = [channels |-> Len(r[2][1].pcm), bps |-> r[2][1].size, alac |-> r[1]]
         /\ blocks = [k \in DOMAIN r[2] |-> Encode(r[2][k], r[1])]
    /\ file = NoMovie /\ start = 0 /\ stale = 0
    /\ pos = 0 /\ eof = FALSE /\ stack = <<>> /\ res = NoRes /\ phase = "done" /\ i = 0 /\ heard = <<>>
Watches == recording = <<>> /\ blocks = <<>> /\ format = [channels |-> 0, bps |-> 0] /\ MovieInit

Init == wavbuf = <<>> /\ (Decodes \/ Watches)
Next == \/ Block /\ UNCHANGED <<recording, movieVars>>
        \/ alacPlay /\ UNCHANGED <<recording, alacVars>>
vars == <<recording, alacVars, movieVars>>
Spec == Init /\ [][Next]_vars /\ WF_movieVars(alacPlay)

(* What is played is what was encoded, but for three recordings: one so     *)
(* loud that the length of the mean of its numbers is looked up behind a    *)
(* table; one of samples of neither 8 nor 16 bits, which are not justified, *)
(* though the two bytes made of each are taken as if they were; and one of  *)
(* two channels mixed in samples that have not 16 bits, which stay mixed.   *)
BlocksAreRestored ==
    LET Played(Made(_)) == wavbuf = Flat([k \in DOMAIN recording |-> Made(recording[k])])
        Left(b) == b.size # 16 /\ (b.size = 8 => b.weight # 0)
    IN  blocks = <<>> => \/ \E k \in DOMAIN recording : recording[k].pcm = <<Steady>>
                         \/ \A k \in DOMAIN recording : ~ Left(recording[k]) /\ Played(AsBytes)
                         \/ \A k \in DOMAIN recording : Left(recording[k]) /\ Played(AsLeft)

(* The track from the block on that is asked for, as far as the file goes,  *)
(* if its blocks are in it without a gap; where blocks get shorter it may   *)
(* begin earlier, by less than the block before lasts.  A start in a second *)
(* mdat begins with the first bytes of the file instead.  And of a file     *)
(* that is odd becomes what it must.                                        *)
M == file.movie
Wanted == IF start = 0 THEN 1
          ELSE CHOOSE b \in 1 .. Len(M.sizes) + 1 :
                 /\ b <= Len(M.sizes) => start < First(M, b + 1)
                 /\ b > 1 => start >= First(M, b)
Begins(b) == b = Wanted \/ (b \in 2 .. Wanted /\ start - First(M, b) < M.durations[b - 1])
GapBehind(b) == b <= Len(M.sizes) /\ \E c \in DOMAIN M.gaps : M.gaps[c] # 0 /\ (start = 0 \/ c > ChunkWith(M, b))
Agrees(b) == /\ Len(heard) = Len(M.sizes) + 1 - b
             /\ \A k \in DOMAIN heard : heard[k] = b + k - 1 \/ Short(file.blocks[b + k - 1].at, M.sizes[b + k - 1])
PlaysTheTrack ==
    /\ phase = "done" /\ recording = <<>> =>
         \/ \E b \in 1 .. Wanted : Begins(b) /\ (Agrees(b) \/ GapBehind(b))
         \/ M.odd = "two mdats" /\ Wanted > 2 /\ heard[1] = 0
    /\ phase \notin {"opened", "reading", "found", "playing"} => phase \in Oddities[M.odd]

(* The reading of a file comes to an end, but for one with a free atom that *)
(* has no length and one whose list of brands has none that is a multiple   *)
(* of four bytes.                                                           *)
ReadingEnds ==
    <>(phase \in {"refused", "done", "undecodable", "undefined"} \/ M.odd \in {"free of 0", "ftyp of 22"})
=============================================================================
