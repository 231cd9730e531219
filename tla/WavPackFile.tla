----------------------------- MODULE WavPackFile ----------------------------
(***************************************************************************)
(* A file of WavPack as wvPlay() plays it: wputils.c, and the part of      *)
(* main.c that seeks.  A file is a sequence of blocks; where a block is in *)
(* the file follows from the sizes of those before it.                     *)
(*                                                                         *)
(* The encoder of pack.c is part of the library, though the player has no  *)
(* use for it: WavpackFile() is a program that calls it.                   *)
(***************************************************************************)
EXTENDS WavPackUnpack

CONSTANTS
    Cases,          \* the files, damaged ones too: [file, heard, ...]
    Requests,       \* how many moments a call may want
    Starts,         \* the moments to start at, 0 for the beginning
    SkipLimit,      \* how many bytes are searched for a header: 2^20 in the program
    IntBits         \* the width of an int and of an off_t: 32 in the program

VARIABLES
    case,           \* the file that is played
    request, need,  \* what is wanted of it
    phase,          \* "closed", "found", "seeking", "playing", "ended", "refused", "crashed"
    wpc,            \* the context: the decoder, or NULL
    next,           \* the block whose header comes next
    seek,           \* [offs, rounds]: where a seek got to, and how often it tried
    call,           \* [left, out]: the call under way
    played,         \* the moments played
    from,           \* the index of the first of them
    errors,         \* crc_errors: blocks found to be wrong
    astray          \* the bits of the decoder are not those of its block

vars == <<case, request, need, phase, wpc, next, seek, call, played, from, errors, astray>>
NULL == [null |-> TRUE]
NOISE == <<>>                       \* a moment nobody can foretell

(*------------------------------- the encoder -----------------------------*)

(* The rates a header can name, in the thousands of samples of which a      *)
(* second is one here; any other rate has the number 16, and the encoder    *)
(* has no metadata to write it in.                                          *)
sample_rates == <<6, 8, 9, 11, 12, 16, 22, 24, 32, 44, 48, 64, 88, 96, 192>>
Srate(rate) == IF \E i \in DOMAIN sample_rates : sample_rates[i] = rate
               THEN CHOOSE i \in DOMAIN sample_rates : sample_rates[i] = rate
               ELSE Len(sample_rates) + 1

WavpackSetConfiguration(mode, f, total) ==
    LET flags == [f EXCEPT !.srate = Srate(f.rate), !.cross = ~ f.mono, !.joint = @ /\ ~ f.mono, !.initial = TRUE, !.final = TRUE,
                           !.mag = f.bytes * 8 + 7]
    IN  [flags |-> flags, total |-> total, config |-> <<0, 0, 0>>, index |-> 0,
         passes |-> pack_init(mode, flags), w |-> init_words, wrapper |-> <<>>,
         block |-> [hdr |-> <<>>, chunks |-> <<>>]]
WavpackAddWrapper(e, wrapper) == [e EXCEPT !.wrapper = wrapper]

(* A block of several calls of WavpackPackSamples(), and a file of blocks.  *)
WavpackBlock(e, moments, calls) ==
    LET packed == Iterate(LAMBDA r, k :
                             [e |-> pack_samples(r.e, SubSeq(moments, r.at + 1, r.at + calls[k])),
                              at |-> r.at + calls[k]],
                          [e |-> pack_start_block(e), at |-> e.index], Len(calls))
    IN  pack_finish_block(packed.e)
WavpackFile(e, moments, blocks) ==
    Iterate(LAMBDA r, k : LET b == WavpackBlock(r.e, moments, blocks[k])
                          IN  [e |-> b, file |-> Append(r.file, b.block)],
            [e |-> e, file |-> <<>>], Len(blocks)).file

(*-------------------------------- the file -------------------------------*)

HeaderSize == 32
ChunkSize(chunk) == (IF chunk.large THEN 4 ELSE 2) + 2 * chunk.count
BlockSize(b) == HeaderSize + Sum([k \in 1 .. Len(b.chunks) |-> ChunkSize(b.chunks[k])])
Offset(file, k) == Sum([n \in 1 .. k - 1 |-> BlockSize(file[n])])
FileSize(file) == Offset(file, Len(file) + 1)

(* A place in a file is an off_t. *)
ASSUME SizesAssumption == \A c \in Cases : FileSize(c.file) < 2 ^ (IntBits - 1)

(* The byte behind the metadata, where unpack_init() stops. *)
SoundAt(file, k) == Offset(file, k + 1) - 2 * file[k].chunks[Len(file[k].chunks)].count

Supported(hdr) == hdr.version \in 1026 .. 1040

(* read_next_header(): the first header from a byte on that names an even   *)
(* size of less than 2^20 and a version that is known, 0 if it is too far.  *)
Named(b) == Supported(b.hdr) /\ BlockSize(b) % 2 = 0 /\ BlockSize(b) - 8 < 2 ^ 20
read_next_header(file, byte) ==
    LET found == {k \in 1 .. Len(file) : Offset(file, k) >= byte /\ Named(file[k])}
    IN  IF found = {} THEN 0
        ELSE LET k == CHOOSE n \in found : \A o \in found : n <= o
             IN  IF Offset(file, k) - byte > SkipLimit THEN 0 ELSE k

(*-------------------------------- opening --------------------------------*)

FRESH == [null |-> FALSE, ok |-> TRUE, open |-> FALSE, hdr |-> <<>>, index |-> 0, mute |-> FALSE, crc |-> 0,
          passes |-> <<>>, w |-> init_words, int32 |-> <<0, 0, 0, 0>>, float |-> <<0, 0, 0, 0>>,
          lossy |-> FALSE, channels |-> 0, reduced |-> 0, rate |-> 0, config |-> <<0, 0, 0>>]

SampleRate(flags) == IF flags.srate \in DOMAIN sample_rates THEN sample_rates[flags.srate] ELSE 44

(* WavpackOpenFileInput() at a byte: the context of the next block with     *)
(* sound, or NULL.  A block that is not the last of its moments means that  *)
(* there are more channels, of which its own ones are played.               *)
Width(flags) == IF flags.mono THEN 1 ELSE 2
Opened(file, k, d) ==
    [wpc |-> IF d.hdr.flags.unknown \/ ~ Supported(d.hdr) \/ ~ d.ok THEN NULL
             ELSE [d EXCEPT !.channels = IF @ = 0 THEN Width(d.hdr.flags) ELSE @,
                            !.reduced = IF d.hdr.flags.final THEN 0 ELSE Width(d.hdr.flags),
                            !.rate = IF @ = 0 THEN SampleRate(d.hdr.flags) ELSE @],
     at |-> SoundAt(file, k), next |-> k + 1]
OpenedAt(file, byte, k) ==
    IF k = 0 THEN [wpc |-> NULL, next |-> Len(file) + 1,
                   at |-> IF byte > FileSize(file) THEN byte ELSE FileSize(file)]
    ELSE Opened(file, k, unpack_init([FRESH EXCEPT !.hdr = file[k].hdr], file[k].chunks))
WavpackOpenFileInput(file, byte) == OpenedAt(file, byte, read_next_header(file, byte))

(* WavpackGetSampleIndex(): of no context the largest number there is, which *)
(* an int takes for -1.                                                      *)
SampleIndex(c) == IF c.null THEN -1 ELSE c.index

WavpackGetNumSamples(c) == c.hdr.total_samples
WavpackGetSampleRate(c) == c.rate

(* wvDuration(): in seconds, or -1.  It stops what is played, and leaves    *)
(* the file open whatever is found in it.                                   *)
Seconds(c) == IF c.null THEN -1 ELSE WavpackGetNumSamples(c) \div WavpackGetSampleRate(c)
wvDuration(file) ==
    [answer |-> Seconds(WavpackOpenFileInput(file, 0).wpc), stops |-> TRUE, fdIsOpen |-> TRUE]

wvPlay ==
    /\ phase = "closed"
    /\ \E o \in {WavpackOpenFileInput(case.file, 0)} :
         /\ wpc' = o.wpc /\ next' = o.next
         /\ phase' = IF o.wpc.null THEN "refused" ELSE IF need > 0 THEN "found" ELSE "playing"
         /\ from' = SampleIndex(o.wpc)
    /\ UNCHANGED <<case, request, need, seek, call, played, errors, astray>>

(* A start inside the track: first where the moment were if all blocks had  *)
(* one size.                                                                *)
Guess ==
    /\ phase = "found"
    /\ \E offs \in {(need * FileSize(case.file)) \div wpc.hdr.total_samples} :
       \E o \in {WavpackOpenFileInput(case.file, offs)} :
         /\ wpc' = o.wpc /\ next' = o.next
         /\ seek' = [offs |-> offs, rounds |-> 0]
         /\ phase' = IF o.wpc.null THEN "refused" ELSE "seeking"
    /\ UNCHANGED <<case, request, need, call, played, from, errors, astray>>

(* Without a context idx is the largest number there is: as ints n is       *)
(* - need - 1 and d is -1, and what is skipped is cut to an int.  The file  *)
(* stays where it is if that leads in front of it.                          *)
Nowhere ==
    LET skip == Wrap(seek.offs * (need + 1), IntBits)
        to   == Wrap(seek.offs - skip, IntBits)
    IN  IF to < 0 THEN seek.offs ELSE to

(* Where to look next: as far in bytes as in moments.                        *)
CloserAhead ==                          (* mutant: never back *)
    LET idx == SampleIndex(wpc)
        size == FileSize(case.file)
    IN  IF wpc.null THEN Nowhere
        ELSE seek.offs + ((size - seek.offs) * need) \div wpc.hdr.total_samples

Closer ==
    LET idx == SampleIndex(wpc)
        size == FileSize(case.file)
    IN  CASE wpc.null -> Nowhere
          [] ~ wpc.null /\ need > idx ->
               seek.offs + ((size - seek.offs) * (need - idx)) \div (wpc.hdr.total_samples - idx)
          [] OTHER -> seek.offs - (seek.offs * (idx - need)) \div idx

Correct ==
    /\ phase = "seeking" /\ seek.rounds < 5 /\ SampleIndex(wpc) # need
    /\ \E o \in {WavpackOpenFileInput(case.file, Closer)} :
         /\ wpc' = o.wpc /\ next' = o.next
         /\ seek' = [offs |-> o.at, rounds |-> seek.rounds + 1]
    /\ UNCHANGED <<case, request, need, phase, call, played, from, errors, astray>>

(* The rounds are over: the context is used, there or not. *)
Begin ==
    /\ phase = "seeking" /\ (seek.rounds = 5 \/ SampleIndex(wpc) = need)
    /\ phase' = IF wpc.null THEN "crashed" ELSE "playing"
    /\ from' = SampleIndex(wpc)
    /\ UNCHANGED <<case, request, need, wpc, next, seek, call, played, errors, astray>>

(*-------------------------------- playing --------------------------------*)

Calling == phase = "playing" /\ call.left > 0
End(d) == d.hdr.block_index + d.hdr.block_samples
Spent(d) == d.hdr.block_samples = 0 \/ ~ d.hdr.flags.initial \/ d.index >= End(d)

(* A call of WavpackUnpackSamples(). *)
Call ==
    /\ phase = "playing" /\ call.left = 0 /\ call.out = <<>>
    /\ call' = [left |-> request, out |-> <<>>]
    /\ UNCHANGED <<case, request, need, phase, wpc, next, seek, played, from, errors, astray>>

(* What a call got is played; if it got nothing the track is over. *)
Return(out) ==
    /\ played' = played \o [k \in 1 .. Len(out) |-> PlayedAs(out[k])]
    /\ phase' = IF out = <<>> THEN "ended" ELSE phase
    /\ call' = [left |-> 0, out |-> <<>>]

(* The block is done, or is not for us: the header of the next one.  Only a *)
(* block that begins where the sound stopped is made ready.                 *)
NextHeader ==
    /\ Calling /\ Spent(wpc)
    /\ \E k \in {IF next <= Len(case.file) THEN read_next_header(case.file, Offset(case.file, next)) ELSE 0} :
         IF k = 0
         THEN Return(call.out) /\ UNCHANGED <<wpc, next, astray>>
         ELSE \E b \in {case.file[k]} :
              \E d \in {[wpc EXCEPT !.hdr = b.hdr]} :
              \E apart \in {b.hdr.block_samples > 0 /\ d.index # b.hdr.block_index} :
              \E new \in {IF apart \/ ~ Supported(b.hdr) THEN d ELSE unpack_init(d, b.chunks)} :
                /\ wpc' = new /\ next' = k + 1
                /\ astray' = (apart /\ ~ Spent(new) /\ (astray \/ wpc.w.at = 0))
                /\ IF Supported(b.hdr) /\ (apart \/ new.ok) THEN UNCHANGED <<played, phase, call>>
                   ELSE Return(call.out)
    /\ UNCHANGED <<case, request, need, seek, from, errors>>

(* What was lost is silence, on the channels that are played. *)
Played(c) == IF c.reduced > 0 THEN c.reduced ELSE c.channels
Fewer(n) == IF n > call.left THEN call.left ELSE n
(* mutant: what is missing is left out *)
GapLeftOut ==
    /\ Calling /\ ~ Spent(wpc) /\ wpc.index < wpc.hdr.block_index
    /\ wpc' = [wpc EXCEPT !.index = wpc.hdr.block_index]
    /\ UNCHANGED <<case, request, need, next, seek, from, errors, astray, call, played, phase>>

Gap ==
    /\ Calling /\ ~ Spent(wpc) /\ wpc.index < wpc.hdr.block_index
    /\ \E n \in {Fewer(wpc.hdr.block_index - wpc.index)} :
       \E out \in {call.out \o Repeat(Repeat(0, Played(wpc)), n)} :
         /\ wpc' = [wpc EXCEPT !.index = @ + n]
         /\ IF n = call.left THEN Return(out)
            ELSE call' = [left |-> call.left - n, out |-> out] /\ UNCHANGED <<played, phase>>
    /\ UNCHANGED <<case, request, need, next, seek, from, errors, astray>>

(* Bits from anywhere: silence if they make no sense, and any sound if they do. *)
Unforeseen(d, n) ==
    {[d |-> [d EXCEPT !.index = @ + n, !.mute = TRUE, !.crc = -1], out |-> Repeat(Repeat(0, Width(d.hdr.flags)), n)]}
    \cup (IF d.mute THEN {} ELSE {[d |-> [d EXCEPT !.index = @ + n, !.crc = -1], out |-> Repeat(NOISE, n)]})

Unpack ==
    /\ Calling /\ ~ Spent(wpc) /\ wpc.index >= wpc.hdr.block_index
    /\ \E n \in {Fewer(End(wpc) - wpc.index)} :
       \E r \in IF astray THEN Unforeseen(wpc, n) ELSE {unpack_samples(wpc, n)} :
       \E out \in {call.out \o r.out} :
         /\ wpc' = r.d
         /\ errors' = IF r.d.index = End(r.d) /\ check_crc_error(r.d) THEN errors + 1 ELSE errors
         /\ IF n = call.left \/ r.d.index = r.d.hdr.total_samples THEN Return(out)
            ELSE call' = [left |-> call.left - n, out |-> out] /\ UNCHANGED <<played, phase>>
    /\ UNCHANGED <<case, request, need, next, seek, from, astray>>

Stopped == phase \in {"ended", "refused", "crashed"} /\ UNCHANGED vars

Init ==
    /\ case \in Cases /\ request \in Requests /\ need \in Starts \cap (0 .. Len(case.heard) - 1)
    /\ phase = "closed" /\ wpc = NULL /\ next = 1
    /\ seek = [offs |-> 0, rounds |-> 0] /\ call = [left |-> 0, out |-> <<>>]
    /\ played = <<>> /\ from = 0 /\ errors = 0 /\ astray = FALSE

Next == wvPlay \/ Guess \/ Correct \/ Begin \/ Call \/ NextHeader \/ Gap \/ Unpack \/ Stopped
Spec == Init /\ [][Next]_vars
=============================================================================
