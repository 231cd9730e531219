-------------------------------- MODULE MCMpc -------------------------------
(***************************************************************************)
(* A behaviour plays a file of Musepack, or calls the decoder for a stream *)
(* of any version, or puts a click through the synthesis filter.  There    *)
(* are films with every quantizer, mid and side, noise, silent frames and  *)
(* bands, a last frame of every kind, tags before the file, headers that   *)
(* are refused, files cut short, and starts in every part of a frame.      *)
(***************************************************************************)
EXTENDS MpcFile, MpcFormat

Synthesis == INSTANCE MpcSynthesis

Film(version, max_band, ms, last, res) ==
    [version |-> version, max_band |-> max_band, ms |-> ms, gapless |-> FALSE, last |-> last,
     fresh |-> FALSE, res |-> res]
Few == << <<<<1, 2>>, <<2, 1>>>>, <<<<3, 4>>, <<4, 3>>>>, <<<<5, 0>>, <<0, -1>>>>,
          <<<<6, 1>>, <<7, 2>>>>, <<<<0, 0>>, <<0, 0>>>>, <<<<2, 3>>, <<1, 1>>>> >>
High == << <<<<14, 17, 0>>, <<0, 0, 0>>>>, <<<<8, 9, 10>>, <<1, 0, 0>>>>, <<<<11, 1, -1>>, <<0, 12, 0>>>>,
           <<<<2, 0, 15>>, <<0, 0, 0>>>>, <<<<2, 0, 1>>, <<13, 16, 0>>>>, <<<<8, 0, 1>>, <<1, 1, 1>>>> >>
Old == << <<<<1, 2>>, <<14, 1>>>>, <<<<3, 4>>, <<4, 0>>>>, <<<<5, 0>>, <<0, 8>>>>,
          <<<<6, 1>>, <<7, 17>>>>, <<<<0, 0>>, <<0, 0>>>>, <<<<1, 3>>, <<1, 1>>>> >>
Wide(first, eleventh, last) == <<first>> \o Repeat(0, 10) \o <<eleventh>> \o Repeat(0, 11) \o <<last, 0>>
Widest == << <<Wide(1, 6, 2), Wide(0, 17, 0)>>, <<Wide(2, 0, 1), Wide(3, 1, 0)>> >>

Plain == Film(7, 1, TRUE, 30, Few)
Fast  == [Plain EXCEPT !.fresh = TRUE]
Gapless == [Plain EXCEPT !.gapless = TRUE]
Films == {Plain, Fast, Gapless, [Plain EXCEPT !.last = 10], [Fast EXCEPT !.last = 36, !.ms = FALSE],
          Film(23, 2, FALSE, 21, High), [Gapless EXCEPT !.last = 20]}
OldFilms == {Film(6, 1, TRUE, 30, Old), Film(5, 1, FALSE, 36, Old),
             [Film(4, 1, TRUE, 36, Old) EXCEPT !.fresh = TRUE], Film(6, 24, TRUE, 12, Widest)}

(*---------------------------------- the files -----------------------------*)

Flag(b) == IF b THEN <<1>> ELSE <<0>>
HeaderBits(film) ==
    BitsOf(film.version, 8) \o MPPlus \o <<0, 0>> \o BitsOf(Counted(film), 30)
    \o <<0>> \o Flag(film.ms) \o BitsOf(film.max_band, 6) \o Repeat(0, 24 + 32 + 32)
    \o Flag(film.gapless) \o BitsOf(film.last, 11) \o Flag(film.fresh) \o Repeat(0, 19 + 8)
NoTag == [present |-> FALSE, size |-> 0, footer |-> FALSE, unknown |-> FALSE, wide |-> FALSE]
Tag(size, footer) == [NoTag EXCEPT !.present = TRUE, !.size = size, !.footer = footer]
Length(tag) == IF tag.present THEN 10 + tag.size + (IF tag.footer THEN 10 ELSE 0) ELSE 0

Zeros == Repeat(Repeat(0, 32), MEMSIZE)
Ones  == Repeat(Repeat(1, 32), MEMSIZE)
Play(film, words, tag, cut, start, stale, refused) ==
    [film |-> film, cut |-> cut, start |-> start, stale |-> stale, refused |-> refused,
     file |-> [tag |-> tag, begins |-> Length(tag), words |-> SubSeq(words, 1, Len(words) - cut)]]
Written7 == [film \in Films |-> InWords(HeaderBits(film) \o BodyBits(film))]
Starts(film) == IF film \in {Plain, Fast, Film(23, 2, FALSE, 21, High)}
                THEN {5, 36, 61, 72, 100, 144, 179, 185, 209, 215, 250} ELSE {100}
Cut == {1, 2, 9, 30, 55, 200}

(* A header of another version, or none that is known.                     *)
Relabelled(version, mark) == [Written7[Plain] EXCEPT ![1] = BitsOf(version, 8) \o mark]
Strange ==
    {Play(Plain, Relabelled(v, MPPlus), NoTag, 0, 0, Zeros, TRUE) : v \in {0, 5, 6, 8, 24, 119}}
    \cup {Play([Plain EXCEPT !.version = 39], Relabelled(39, MPPlus), NoTag, 0, 0, Zeros, FALSE),
          Play(Plain, Relabelled(7, BitsOf(5, 24)), NoTag, 0, 0, Zeros, TRUE),
          Play(Plain, Written7[Plain], [Tag(20, FALSE) EXCEPT !.unknown = TRUE], 0, 0, Zeros, TRUE),
          Play(Plain, Written7[Plain], [Tag(20, FALSE) EXCEPT !.wide = TRUE], 0, 0, Zeros, TRUE)}

MCPlays ==
    {Play(film, Written7[film], NoTag, 0, 0, Zeros, FALSE) : film \in Films}
    \cup UNION {{Play(film, Written7[film], NoTag, 0, start, Zeros, FALSE) : start \in Starts(film)} : film \in Films}
    \cup {Play(Plain, Written7[Plain], tag, 0, 0, Zeros, FALSE) : tag \in {Tag(20, FALSE), Tag(33, TRUE)}}
    \cup {Play(film, Written7[film], NoTag, n, 0, stale, Len(Written7[film]) - n < 8) :
            film \in {Plain, Fast}, n \in Cut, stale \in {Zeros, Ones}}
    \cup Strange

Info(film) ==
    [stream_version |-> film.version, frames |-> Counted(film), ms |-> film.ms, max_band |-> film.max_band,
     is_true_gapless |-> film.gapless, last_frame_samples |-> film.last, channels |-> 2]
Opening(film) == IF film.version = 4 THEN 48 ELSE IF film.version \in {5, 6} THEN 64 ELSE 200
MCCalls ==
    {[film |-> film, cut |-> 0, start |-> 0, stale |-> Zeros, refused |-> FALSE, si |-> Info(film), back |-> back,
      words |-> InWords(Repeat(0, Opening(film)) \o BodyBits(film))] :
       film \in OldFilms \cup {Plain, Fast}, back \in {{}, {20, 50, 130}}}

(*---------------------------------- the clicks ----------------------------*)

(* The analysis of one sample at a place: of each step its 32 bands.  The  *)
(* window is that of the synthesis, and the transform is a cosine one.     *)
Cosines == <<16384, 16364, 16305, 16206, 16069, 15892, 15678, 15426, 15136, 14810, 14449, 14053, 13622, 13159, 12665,
             12139, 11585, 11002, 10393, 9759, 9102, 8423, 7723, 7005, 6269, 5519, 4756, 3980, 3196, 2404, 1605, 803, 0>>
Cosine(m) ==                            (* of m/64 of half a circle *)
    LET a == m % 128
        b == IF a > 64 THEN 128 - a ELSE a
    IN  IF b > 32 THEN - Cosines[65 - b] ELSE Cosines[b + 1]
Analysed(place, amplitude, step) ==
    LET i == 32 * step + 31 - place
    IN  IF i \notin 0 .. 511 THEN Repeat(0, 32)
        ELSE The({SubSeq([k \in 1 .. 32 |-> Floor(Cosine((2 * k - 1) * ((i % 64) - 16)) * z, 20)], 1, 32) :
                    z \in {Floor(Synthesis!Di_opt[(i % 32) + 1][(i \div 32) + 1] * amplitude, 15)}})

Clicks == {[film |-> Plain, place |-> p, amplitude |-> a] : p \in {0, 7, 31, 300, 690, 1100, 1151}, a \in {8000, -5000}}
Click ==
    /\ phase = "clicking" /\ fwd < 2
    /\ \E Y \in {SubSeq([n \in 1 .. 36 |-> Analysed(take.place, take.amplitude, 36 * fwd + n - 1)], 1, 36)} :
         \E s \in {Synthesis!mpc_decoder_synthese_filter_float(d.V, Y)} :
            d' = [V |-> s.V] /\ heard' = heard \o s.out
    /\ fwd' = fwd + 1 /\ UNCHANGED <<take, phase, again>>

Init == \/ MpcInit
        \/ /\ take \in Clicks /\ phase = "clicking" /\ fwd = 0 /\ again = {}
           /\ heard = <<>> /\ d = [V |-> Synthesis!mpc_decoder_reset_v]
Next == MpcNext \/ Click
Spec == Init /\ [][Next]_mpcVars

(*--------------------------------- properties -----------------------------*)

Noisy(film, f, n) == \E c \in Channels : Quantizer(film, f, c, n) = -1
Playing == phase \in {"playing", "done", "broken", "scanning"}
(* What is heard of step i of the film, whatever is heard of noise.        *)
Agrees(film, i, step, partly) ==
    LET f == ((i - 1) \div 36) + 1
        k == ((i - 1) % 36) + 1
    IN  \A n \in BandsOf(film) :
           \/ Noisy(film, f, n)
           \/ step[n + 1] = Heard(film, f, n, k)
           \/ partly /\ step[n + 1] \in HeardInPart(film, f, n, k)

(* The length that is told of a track is that of its sound to less than a  *)
(* frame, and exact if the encoder says where the last frame ends.         *)
TimeIsTold ==
    LET told == mpc_streaminfo_get_length_samples(d.si)
    IN  /\ told - Len(heard) \in -35 .. 35
        /\ d.si.is_true_gapless => told = Len(heard)

(* Played from the beginning, a stream of any version gives the samples    *)
(* that were encoded, frame after frame through the ring, and as many; of  *)
(* a file cut short it gives the beginning, and ends as if it were whole   *)
(* or says that it is broken, which it says of no whole file.  A header or *)
(* tag that is not one is refused, and so is every file of a version       *)
(* before 7, which can not have its mark.  The length told of a whole file *)
(* is that of its sound.                                                   *)
PlaysTheStream ==
    Playing \/ phase = "refused" =>
      /\ phase = "refused" <=> take.refused
      /\ take.start = 0 =>
           /\ \A i \in 1 .. Len(heard) : i <= TotalSteps(take.film) => Agrees(take.film, i, heard[i], FALSE)
           /\ phase = "done" => \/ Len(heard) = TotalSteps(take.film)
                                \/ take.cut > 0
                                \/ take.film.version = 39 /\ heard = <<>>
           /\ phase = "done" /\ Len(heard) = TotalSteps(take.film) => TimeIsTold
           /\ phase = "broken" => take.cut > 0

(* From a start on, all that is heard is what was encoded there, to the    *)
(* last sample; but a band of which the scale factors only say how they    *)
(* differ from those of frames that were passed is silent until they say   *)
(* more.  It is never loud.                                                *)
SeekIsRightOrSilent ==
    Playing /\ take.start > 0 =>
      /\ \A i \in 1 .. Len(heard) : Agrees(take.film, take.start + i, heard[i], ~ take.film.fresh)
      /\ phase = "done" =>
           Len(heard) = IF take.start > TotalSteps(take.film) THEN 0 ELSE TotalSteps(take.film) - take.start
      /\ phase # "broken"

(* The synthesis filter gives back what was analysed, 481 samples later,   *)
(* also across the end of a frame: this is what mpc_decoder_decode() skips *)
(* at the beginning.                                                       *)
Near(v, w) == v - w \in -130 .. 130
SynthesisDelays481 ==
    phase = "clicking" =>
      \A i \in DOMAIN heard : Near(heard[i], IF i - 1 = take.place + 481 THEN take.amplitude ELSE 0)
=============================================================================
