------------------------------- MODULE MCFlac -------------------------------
(***************************************************************************)
(* FLAC.  Streams of one or two frames for the decoder: every kind of      *)
(* coding of loud, quiet and steady signals, every channel assignment,     *)
(* frame and sample numbers of one to three bytes, headers with damaged    *)
(* bits.  Files of four frames for the seeking, with every target.  And    *)
(* files with cue sheets.  A behaviour is the play of a stream, a seek in  *)
(* a file or the reading of a cue sheet.                                   *)
(***************************************************************************)
EXTENDS FlacDecoder, FlacSeek, FlacCue, SequencesExt, TLC

INSTANCE FlacFormat

VARIABLE stream         (* the frames, and each one's bits                 *)

Quiet   == <<3, -2, 7, 1, 0, -5, 4, 4>>
Loud    == <<32767, -32768, 32767, -32768, -32768, 32767, 5, -1>>
Opposite == <<-32768, 32767, -32768, 32767, 32767, -32768, -5, 2>>
Steady  == Repeat(5, 8)
Even    == <<4, -8, 12, 0, 8, -4, 4, 16>>

Verbatim == [kind |-> "verbatim", order |-> 0, wasted |-> 0, coeffs |-> <<>>, prec |-> 4,
             qlevel |-> 0, method |-> 0, parts |-> <<>>]
Constant == [Verbatim EXCEPT !.kind = "constant"]
Shifted(c) == [c EXCEPT !.wasted = 2]

Parts(m, p) == [Verbatim EXCEPT !.method = m, !.parts = p]
Rices == {Parts(0, <<<<"rice", 2>>>>), Parts(0, <<<<"rice", 0>>, <<"rice", 3>>>>),
          Parts(1, <<<<"raw", 10>>, <<"rice", 27>>>>), Parts(1, <<<<"rice", 24>>, <<"raw", 10>>>>)}
Wide  == Parts(1, <<<<"rice", 17>>, <<"raw", 25>>>>)
Exact == Parts(0, <<<<"rice", 1>>, <<"raw", 0>>>>)

Fixed(c) == {[c EXCEPT !.kind = "fixed", !.order = o] : o \in 0 .. 4}
Lpc(c)   == {[c EXCEPT !.kind = "lpc", !.order = Len(q), !.coeffs = q, !.qlevel = l] :
               q \in {<<1>>, <<7, -8>>, <<-8, 7, -8>>, <<-3, 2, 1, 1>>}, l \in {0, 3}}
Predicted(c)   == Fixed(c) \cup Lpc(c)

Signals ==      (* a signal and a coding that suits it *)
    {<<Quiet, c>> : c \in {Verbatim} \cup UNION {Predicted(r) : r \in Rices}}
    \cup {<<Loud, c>> : c \in {Verbatim} \cup Predicted(Wide)}
    \cup {<<Steady, c>> : c \in {Constant} \cup UNION {Fixed(r) : r \in Rices \cup {Exact}}}
    \cup {<<Even, Shifted(c)>> : c \in {Verbatim} \cup UNION {Predicted(r) : r \in Rices}}

Info(channels, bps, min, max) ==
    [min_blocksize |-> min, max_blocksize |-> max, channels |-> channels, bps |-> bps,
     curr_bps |-> bps, samplerate |-> 44100, samplenumber |-> 0, blocksize |-> 0,
     decorrelation |-> "INDEPENDENT", framesize |-> 0, index |-> 0]

AFrame(pcm, bps, assign, subs) ==
    [pcm |-> pcm, bps |-> bps, sizecode |-> 0, fixed |-> TRUE, number |-> 0,
     assign |-> assign, subs |-> subs]

Mono(bps) == {AFrame(<<s[1]>>, bps, 0, <<s[2]>>) : s \in Signals}
Stereo ==
    {AFrame(pcm, 16, a, <<c, d>>) :
        pcm \in {<<Loud, Opposite>>, <<Quiet, Loud>>, <<Opposite, Opposite>>}, a \in {1, 8, 9, 10},
        c \in {Verbatim} \cup {d \in Lpc(Wide) : d.order = 3}, d \in Fixed(Wide) \cup Lpc(Wide)}
Numbered ==     (* two frames in a row, in a stream of fixed or other blocksize *)
    {<<[f EXCEPT !.number = n], [f EXCEPT !.number = n + 1]>> :
        f \in {AFrame(<<Quiet>>, 16, 0, <<Verbatim>>), AFrame(<<Even>>, 16, 0, <<Shifted(Verbatim)>>)},
        n \in {0, 126, 127, 128, 2047, 2048, 65534}}
Moving ==
    {<<[f EXCEPT !.fixed = FALSE, !.number = n],
       [f EXCEPT !.fixed = FALSE, !.number = n + 8, !.sizecode = 4, !.pcm = <<SubSeq(Quiet, 1, 4)>>]>> :
        f \in {AFrame(<<Quiet>>, 16, 0, <<Verbatim>>)}, n \in {0, 120, 2040}}

AStream(info, frames, damage) ==
    [info |-> info, damage |-> damage,
     frames |-> [k \in DOMAIN frames |-> frames[k] @@ [bits |-> Encode(frames[k])]]]
Intact ==
    {AStream(Info(1, 16, 8, 8), <<f>>, {}) : f \in Mono(16)}
    \cup {AStream(Info(1, 24, 8, 8), <<[f EXCEPT !.sizecode = 6]>>, {}) : f \in Mono(24)}
    \cup {AStream(Info(1, 20, 8, 8), <<f>>, {}) : f \in {AFrame(<<Loud>>, 20, 0, <<Verbatim>>)}}
    \cup {AStream(Info(2, 16, 8, 8), <<f>>, {}) : f \in Stereo}
    \cup {AStream(Info(1, 16, 8, 8), f, {}) : f \in Numbered}
    \cup {AStream(Info(1, 16, 4, 16), f, {}) : f \in Moving}
Damaged ==      (* one or two bits of the first header are wrong *)
    {AStream(s[1], s[2], {i, j}) :
        s \in {<<Info(1, 16, 8, 8), f>> : f \in {g \in Numbered : g[1].number \in {0, 128}}}
              \cup {<<Info(1, 16, 4, 16), f>> : f \in Moving},
        i \in 1 .. 40, j \in {1, 16, 25, 34, 40}}

SentBits ==     (* what arrives of the stream *)
    LET sent == Concat([k \in DOMAIN stream.frames |-> stream.frames[k].bits])
    IN  [i \in DOMAIN sent |-> IF i \in stream.damage THEN 1 - sent[i] ELSE sent[i]]

(* The sums of the first k - 1 numbers of s, for each k. *)
Before(s) == [k \in DOMAIN s |-> SumFunctionOnSet(s, 1 .. k - 1)]

(* A file with an ID3 tag of id3 bytes whose SEEKTABLE has the frames of K, *)
(* where the last byte of some frames looks like a header.                  *)
AFile(samples, bytes, known, id3, K, fakes) ==
    LET first == Before(samples)
        offset == Before(bytes)
        meta == IF K = <<>> THEN 10 ELSE 14 + Len(K)
    IN  [frames |-> [k \in DOMAIN samples |-> [at |-> id3 + meta + offset[k], first |-> first[k],
                                               samples |-> samples[k], bytes |-> bytes[k]]],
         fakes |-> {id3 + meta + offset[k] + bytes[k] - 1 : k \in fakes},
         size |-> id3 + meta + SumFunction(bytes),
         info |-> [min_blocksize |-> Min(Range(samples)), max_blocksize |-> Max(Range(samples)),
                   min_framesize |-> IF known THEN Min(Range(bytes)) ELSE 0,
                   max_framesize |-> IF known THEN Max(Range(bytes)) ELSE 0,
                   totalsamples |-> SumFunction(samples)],
         blocks |-> <<[type |-> STREAMINFO, length |-> 2, points |-> <<>>]>>
                    \o (IF K = <<>> THEN <<>>
                        ELSE <<[type |-> SEEKTABLE, length |-> Len(K),
                                points |-> [j \in DOMAIN K |-> [sample |-> first[K[j]],
                                                                offset |-> offset[K[j]]]]]>>)]
Tables == {<<>>, <<1, 3, 4>>, <<2, 4>>}
SmallFiles ==
    {AFile(<<4, 4, 4, 4>>, b, known, id3, K, {}) :
        b \in TupleOf({2, 9}, 4), known \in BOOLEAN, id3 \in {0, 3}, K \in Tables}
    \cup {AFile(<<4, 4, 4, 4>>, b, FALSE, 0, K, {k \in 1 .. 4 : b[k] = 9}) :
        b \in TupleOf({2, 9}, 4), K \in Tables}
    \cup {AFile(s, [k \in 1 .. 4 |-> 2 * s[k]], known, 0, K, {}) :
        s \in TupleOf({1, 9}, 4), known \in BOOLEAN, K \in Tables}
    \cup {[AFile(<<4, 4, 4, 4>>, b, known, 0, K, {}) EXCEPT !.info.totalsamples = 0] :
        b \in TupleOf({2, 9}, 4), known \in BOOLEAN, K \in Tables}
    \cup {[AFile(<<4>>, <<4>>, FALSE, 0, <<>>, {}) EXCEPT !.blocks = <<>>]}
    \cup {[AFile(<<4, 4, 4, 4>>, Repeat(9, 4), FALSE, 0, K, {}) EXCEPT !.fakes = 20 .. 24] : K \in Tables}

NoFile   == AFile(<<1>>, <<1>>, FALSE, 0, <<>>, {})
NoStream == AStream(Info(1, 16, 8, 8), <<>>, {})

(* Cue sheets of two tracks and the lead-out, which are                     *)
(*   [offset, number, indices |-> the places of [number, offset]].          *)
Pregap == <<[number |-> 0, offset |-> 0], [number |-> 1, offset |-> 7]>>
Start  == <<[number |-> 1, offset |-> 0], [number |-> 2, offset |-> 30]>>
Nowhere == <<[number |-> 2, offset |-> 5]>>
Albums ==
    {<<[offset |-> 0, number |-> 1, indices |-> a], [offset |-> 61, number |-> 2, indices |-> b],
       [offset |-> 140, number |-> 3, indices |-> c]>> :
        a \in {Pregap, Start, Nowhere, <<>>}, b \in {Pregap, Start, Nowhere}, c \in {Start, Nowhere}}
LeadOut == {[offset |-> 200, number |-> n, indices |-> x] : n \in {170, 255}, x \in {<<>>, Start}}
TrackWords(t) ==
    <<t.offset, t.number, Len(t.indices)>>
    \o Concat([k \in DOMAIN t.indices |-> <<t.indices[k].offset, t.indices[k].number>>])
SheetWords(album) == <<Len(album)>> \o Concat([k \in DOMAIN album |-> TrackWords(album[k])])
Placed(album) ==
    LET places == Before([k \in DOMAIN album |-> Len(TrackWords(album[k]))])
    IN  [k \in DOMAIN album |-> album[k] @@ [at |-> 2 + places[k]]]

Meta(type) == [type |-> type, samplerate |-> 0, words |-> <<>>, whole |-> TRUE, album |-> <<>>]
StreamInfo(rate) == [Meta(BLOCK_STREAMINFO) EXCEPT !.samplerate = rate]
CueSheet(album, whole) == [Meta(BLOCK_CUESHEET) EXCEPT !.words = SheetWords(album), !.whole = whole,
                                                       !.album = Placed(album)]
SmallCueFiles ==
    LET sheets == {CueSheet(<<l>> \o a, TRUE) : a \in Albums, l \in LeadOut}
                  \cup {CueSheet(a \o <<l>>, w) : a \in Albums, l \in LeadOut, w \in BOOLEAN}
        metas == {<<StreamInfo(r)>> \o x \o <<c>> : r \in {0, 10}, c \in sheets, x \in {<<>>, <<Meta(4)>>}}
                 \cup {<<c, StreamInfo(10)>> : c \in sheets} \cup {<<StreamInfo(10), Meta(4)>>}
    IN  {[magic |-> m[1], tagged |-> m[2], blocks |-> b] :
            m \in {<<"fLaC", "">>, <<"ID3", "fLaC">>, <<"ID3", "RIFF">>, <<"RIFF", "">>}, b \in metas}

NoCueFile == [magic |-> "", tagged |-> "", blocks |-> <<>>]
Plays == /\ stream \in Intact \cup Damaged /\ result = "playing"
         /\ file = NoFile /\ target = 0 /\ seek = "found"
         /\ cuefile = NoCueFile /\ cue.state = "returned"
Seeks == /\ stream = NoStream /\ result = "done"
         /\ file \in Files /\ target \in 1 .. Samples(file) + 1 /\ seek = "open"
         /\ cuefile = NoCueFile /\ cue.state = "returned"
Lists == /\ stream = NoStream /\ result = "done"
         /\ file = NoFile /\ target = 0 /\ seek = "found"
         /\ cuefile \in CueFiles /\ cue.state = "open"
Init == /\ \E state \in {"open", "returned"} :
              cue = [state |-> state, block |-> 1, samplerate |-> 0, p |-> 0, i |-> 0, times |-> <<>>]
        /\ Plays \/ Seeks \/ Lists
        /\ fc = stream.info /\ buf = SentBits /\ wavbuf = <<>>
        /\ lo = [sample |-> 0, offset |-> 0] /\ hi = lo
        /\ lower = [pos |-> 0, sample |-> 0] /\ upper = lower
        /\ approx = 0 /\ pos = -1 /\ needs_seek = TRUE /\ first_seek = TRUE /\ fd = 0
Next == \/ flacPlay /\ UNCHANGED <<stream, seekVars, cueVars>>
        \/ SeekNext /\ UNCHANGED <<stream, flacVars, cueVars>>
        \/ CueNext /\ UNCHANGED <<stream, flacVars, seekVars>>
vars == <<flacVars, seekVars, cueVars, stream>>
Spec == Init /\ [][Next]_vars /\ WF_seekVars(SeekNext)

Frames == stream.frames
Sound  == stream.damage = {}

Uses(f, p) == \E c \in DOMAIN f.subs : \E k \in DOMAIN f.subs[c].parts : f.subs[c].parts[k] = p
SideSumOverflows(f) ==
    \E c \in DOMAIN f.subs :
       /\ Wider(f, c) = 1 /\ f.subs[c].kind = "lpc"
       /\ \E n \in f.subs[c].order + 1 .. Len(f.pcm[c]) :
             LpcSum(Coded(f)[c], n, f.subs[c]) \notin - 2 ^ (WordBits - 1) .. 2 ^ (WordBits - 1) - 1

(* What is played is what was encoded, but for four codings: a width that   *)
(* is not 16 or 24 bits, a Rice parameter of 25 or more, a partition of     *)
(* width 0, and a prediction in a side channel, which is one bit wider      *)
(* than the test for the short sum allows for.                              *)
PlaysWhatWasEncoded ==
    Sound /\ result = "done" =>
       \/ wavbuf = Concat([k \in DOMAIN Frames |-> AsBytes(Frames[k])])
       \/ \E f \in Range(Frames) : f.bps = 20 \/ Uses(f, <<"rice", 27>>) \/ Uses(f, <<"raw", 0>>)
                                   \/ SideSumOverflows(f)

(* A seek comes to an end, in every file, or the process does where the     *)
(* number of samples is not known (flac/main.c:219).                        *)
SeekEnds ==
    <>(seek \in {"found", "failed"} \/ (seek = "dead" /\ file.info.totalsamples = 0))
=============================================================================
