-------------------------------- MODULE MCApe -------------------------------
(***************************************************************************)
(* Files of Monkey's Audio of two or three frames: every version and type  *)
(* of compression the player takes, of one and two channels, silent frames *)
(* and frames of two equal channels, three sizes of samples; from every    *)
(* moment; with headers of which the first frame is at a multiple of four  *)
(* or is not; cut short; and with a click.                                  *)
(***************************************************************************)
EXTENDS ApeFormat, ApeFile, ApeVectors, SequencesExt, TLC

MCOrders == (16 :> 16) @@ (32 :> 16) @@ (64 :> 32) @@ (256 :> 32) @@ (1280 :> 48)

Mono(x, flags)     == [pcm |-> <<x>>, flags |-> flags, crc |-> 4660]
Stereo(x, y, flags) == [pcm |-> <<x, y>>, flags |-> flags, crc |-> 4660]
Quiet == <<0, 3, -2, 7>>
Rise  == <<100, 900, 2500, 5200>>
Loud  == <<12000, -15000, 32000, 9>>
Apart == <<-32768, 0, 32767, -5>>
Nothing == Repeat(0, 4)
First(n, f) == [f EXCEPT !.pcm = [c \in DOMAIN @ |-> SubSeq(@[c], 1, n)]]

Version(v, type, bps, frames) ==
    [fileversion |-> v, compressiontype |-> type, bps |-> bps, frames |-> frames, per |-> 4,
     samplerate |-> 1, wavheaderlength |-> 4, flags |-> 16, longer |-> 0, extra |-> 0, magic |-> TRUE, cut |-> 0, keep |-> 9999, click |-> FALSE]
Twos(x, y, z, w) == <<Stereo(x, y, 0), Stereo(z, w, 0), First(3, Stereo(y, y, 4))>>
Takes ==
    {Version(v, type, 16, frames) :
        v \in {3970, 3980, 3990}, type \in {1000, 2000, 3000, 4000, 5000},
        frames \in {Twos(Quiet, Rise, Rise, Loud), <<Mono(Quiet, 0), First(3, Mono(Loud, 0))>>}}
    \cup {Version(3990, 2000, 16, <<Stereo(Rise, Rise, 4), Stereo(Nothing, Nothing, f), First(2, Stereo(Loud, Quiet, 0))>>) :
            f \in {3, 7}}
    \cup {Version(3980, 3000, 16, <<Mono(Nothing, 1), Mono(Loud, 0)>>),
          Version(3980, 3000, 16, <<Stereo(Nothing, Quiet, 1), Stereo(Rise, Nothing, 2)>>),
          Version(3970, 2000, 8, <<Mono(<<127, -128, 5, 0>>, 0), First(1, Mono(Quiet, 0))>>)}
    \cup {Version(3990, 1000, 24, <<Mono(<<1200000, 1400000, 900000, 1500000>>, 0), First(3, Mono(Rise, 0))>>),
          Version(3970, 1000, 24, <<Mono(<<32780, 33000, 65700, 131080>>, 0), First(3, Mono(Rise, 0))>>)}
Plain == Version(3990, 2000, 16, Twos(Quiet, Rise, Rise, Loud))
Headers ==
    {[v EXCEPT !.wavheaderlength = n] : v \in {Plain, [Plain EXCEPT !.fileversion = 3970]}, n \in {0, 6}}
    \cup {[Plain EXCEPT !.magic = FALSE], [Plain EXCEPT !.fileversion = 3950],
          [Plain EXCEPT !.fileversion = 4000], [Plain EXCEPT !.extra = 1],
          [Plain EXCEPT !.extra = 10, !.keep = 60, !.cut = 60],
          [Plain EXCEPT !.fileversion = 3970, !.flags = 4], [Plain EXCEPT !.samplerate = 3],
          [Plain EXCEPT !.longer = 4], [Plain EXCEPT !.fileversion = 3970, !.flags = 48]}
Cuts == {[Plain EXCEPT !.cut = n] : n \in {1, 3, 5, 10, 16, 23, 30, 41, 57, 60, 200}}

(* A jump to more than 32767 times the mean is escaped, and half of it is   *)
(* taken for a negative number; so it is in the oldest version for one      *)
(* that needs more than sixteen bits.                                       *)
Click(x) == Version(3990, 1000, 24, <<Mono(<<1, 2, 0, x>>, 0), Mono(Quiet, 0)>>)
Clicks ==
    {[Click(-8388608) EXCEPT !.click = TRUE], Click(-4194304), Click(-7000000)}
    \cup {[Version(3970, 2000, 16, <<Stereo(<<1, 2, 32767, 5>>, <<1, 3, -32768, 5>>, 0)>>) EXCEPT !.click = TRUE]}

LittleEndian(v) == <<v % 256, v \div 256, 0, 0>>
AFile(v) ==
    LET bytes   == [k \in DOMAIN v.frames |-> FrameBytes(v.frames[k], v.fileversion, v.compressiontype)]
        old     == v.fileversion < 3980
        header  == IF old THEN 16 + (IF Has(v.flags, 4) THEN 4 ELSE 0) + (IF Has(v.flags, 16) THEN 4 ELSE 0) ELSE 28 + v.longer
        entries == Len(bytes) + v.extra
        first   == header + v.wavheaderlength + 4 * entries
        table   == FlattenSeq([k \in 1 .. entries |->
                      LittleEndian(IF k > Len(bytes) THEN 0 ELSE first + FrameStarts(bytes)[k])])
        wav     == Repeat(82, v.wavheaderlength)
        image   == Repeat(77, header) \o (IF old THEN wav \o table ELSE table \o wav)
                   \o Turned(FlattenSeq(bytes))
    IN  [take |-> v, magic |-> v.magic, fileversion |-> v.fileversion, compressiontype |-> v.compressiontype,
         formatflags |-> v.flags + (IF v.bps = 8 THEN 1 ELSE IF v.bps = 24 THEN 8 ELSE 0),
         bps |-> v.bps, channels |-> Len(v.frames[1].pcm), samplerate |-> v.samplerate,
         blocksperframe |-> v.per, totalframes |-> Len(v.frames),
         finalframeblocks |-> Len(v.frames[Len(v.frames)].pcm[1]),
         descriptorlength |-> 20, headerlength |-> 8 + v.longer, seektablelength |-> 4 * entries, seekelements |-> entries,
         wavheaderlength |-> v.wavheaderlength,
         image |-> SubSeq(image, 1, Least(Len(image) - v.cut, v.keep)),
         samples |-> FlattenSeq([k \in DOMAIN v.frames |-> FrameSamples(v.frames[k], v.bps)])]
MCPlays == {<<AFile(v), 0>> : v \in Takes \cup Headers \cup Cuts \cup Clicks}
           \cup ({AFile(v) : v \in {Plain} \cup Headers} \X (1 .. 13))
MCStales == {0}

(* On every processor a vector comes out as in C, whatever its order and    *)
(* wherever the other vector begins in a word.                              *)
Drawn(step, order) == [j \in 1 .. order |-> file.samples[((j * step) % Len(file.samples)) + 1][1] % H]
Values(v) == [j \in DOMAIN v |-> Value(v[j])]
Same(v, w) == \A j \in DOMAIN w : Value(v[j]) = Value(w[j])
VectorsAgree ==
    phase = "opened" /\ start = 0 /\ file.samples # <<>> =>
      \A order \in {16, 32, 64}, odd \in BOOLEAN :
        \E v1 \in {Drawn(3, order)}, v2 \in {[nums |-> Drawn(5, order), odd |-> odd, beside |-> 1]} :
        \E a \in {Values(v1)}, b \in {Values(v2.nums)} :
          /\ LET plus == vector_add(a, b) IN
               /\ Same(vector_add5(order, v1, v2), plus) /\ Same(vector_add6(order, v1, v2), plus)
               /\ Same(vector_add_cf(order, v1, v2), plus)
               /\ Same(vector_add4(order, a, [v2 EXCEPT !.nums = b]), plus)
          /\ LET minus == vector_sub(a, b) IN
               /\ Same(vector_sub5(order, v1, v2), minus) /\ Same(vector_sub6(order, v1, v2), minus)
               /\ Same(vector_sub_cf(order, v1, v2), minus)
               /\ Same(vector_sub4(order, a, [v2 EXCEPT !.nums = b]), minus)
          /\ {scalarproduct5(order, v1, v2), scalarproduct6(order, v1, v2), scalarproduct_cf(order, v1, v2),
              scalarproduct4(order, a, [v2 EXCEPT !.nums = b])} = {scalarproduct(a, b)}

Spec == ApeInit /\ [][apePlay]_apeVars

(* What is played from the beginning is what was encoded, in every frame of *)
(* every version and type; of a file cut short what comes before the loop   *)
(* in which the bytes run out.  Only a jump behind a silence or at the      *)
(* beginning of an old file makes noise of the rest.                        *)
ApeIsRestored ==
    start = 0 =>
      /\ phase = "done" => heard = file.samples \/ file.take.cut > 0
      /\ LET right == Len(heard) - (IF phase \in {"lost", "crashed"} THEN BLOCKS_PER_LOOP ELSE 0)
         IN  \A n \in 1 .. right : heard[n] = file.samples[n]
      /\ phase = "lost" => file.take.click
      /\ phase = "crashed" => file.take.cut > 0
      /\ phase # "noise"

(* Both readers of a header find its table at the same place, but for       *)
(* headers that are longer than the tools' reader knows, or that have a wav *)
(* header which the flags say is not there; and the duration that is        *)
(* answered is that of the samples, if the whole table is there.            *)
HeadersAgree ==
    /\ \/ \A c \in ape_parseheader(file) : c = ape_parseheaderbuf(file)
       \/ file.take.longer > 0
       \/ Has(file.formatflags, CREATE_WAV_HEADER)
    /\ apeDuration(file).answer \in {-1, Len(file.samples) \div file.samplerate}

(* A start lands in the loop of the sample asked for, and plays all from    *)
(* there; behind the last sample it plays nothing.  But when the first      *)
(* frame is not at a multiple of four bytes it finds noise.  The table it   *)
(* looks in is the one that the other reader of the header finds.           *)
Asked == start * file.samplerate
SeekStaysInTheLoop ==
    start > 0 =>
      /\ HeadersAgree
      /\ phase = "done" =>
           \E n \in 0 .. Len(file.samples) :
              /\ heard = SubSeq(file.samples, n + 1, Len(file.samples))
              /\ n < Len(file.samples) /\ Asked < Len(file.samples)
                   => (n % 4) \div BLOCKS_PER_LOOP = (Asked % 4) \div BLOCKS_PER_LOOP /\ n \div 4 = Asked \div 4
              /\ Asked >= Len(file.samples) <=> n = Len(file.samples)
      /\ phase = "noise" => ctx.firstframe % 4 # 0
      /\ phase \notin {"lost", "crashed"}
=============================================================================
