------------------------------ MODULE AlacMovie -----------------------------
(***************************************************************************)
(* A QuickTime file with a track of Apple Lossless, as alacPlay() reads    *)
(* it: demux.c, the streams and the seek of m4a.c, the loop of main.c.     *)
(* A file is the words of its atoms up to the first that has data, the     *)
(* blocks of the track [at, size] with where they are, and its size.  What *)
(* is read from elsewhere is stale: nothing tests it.  Atoms are at        *)
(* multiples of 4, and sizes have SizeBits bits.                           *)
(***************************************************************************)
EXTENDS Bits

CONSTANTS SizeBits,     (* bits of a size_t: 32 in the program             *)
          Files,        (* the files                                       *)
          Starts,       (* the samples to start at, 0 for the beginning    *)
          Stale         (* values found in a word that was not read        *)

VARIABLES file, start, stale,
          pos, eof,     (* stream_t: curpos, and that a read was short     *)
          stack,        (* the open atoms: [kind, left], innermost first   *)
          res,          (* demux_res_t; tables that are not in known are   *)
                        (* not initialised                                 *)
          phase,        (* "opened", "reading", "refused", "loops",        *)
                        (* "found", "playing", "done", "undecodable",      *)
                        (* "undefined"                                     *)
          i,            (* the block to be played next                     *)
          heard         (* the blocks played, 0 for what is none           *)

movieVars == <<file, start, stale, pos, eof, stack, res, phase, i, heard>>

(*------------------------------- the stream ------------------------------*)

Names == <<"ftyp", "M4A ", "moov", "trak", "mdia", "minf", "smhd", "stbl", "stsd", "alac",
           "stts", "stsz", "stsc", "stco", "mdat", "free", "other">>
MAKEFOURCC(name) == 1000 + CHOOSE n \in DOMAIN Names : Names[n] = name
Is(word, name) == word = MAKEFOURCC(name)

Short(p, n) == p + n > file.size
stream_read_uint32(p) ==
    IF Short(p, 4) \/ p \div 4 >= Len(file.words) THEN stale ELSE file.words[p \div 4 + 1]
stream_read_uint16(p) == Floor(stream_read_uint32(p - (p % 4)), IF p % 4 = 0 THEN 16 ELSE 0) % 2 ^ 16
stream_eof == eof
stream_skip(p, n) == p + Wrap(n, SizeBits)          (* lseek() takes it as signed *)

Less(n, m) == (n - m) % 2 ^ SizeBits

(*-------------------------------- the atoms ------------------------------*)

Reads(p, n) == /\ pos' = p + n /\ eof' = (eof \/ Short(p, n))
Refuse == /\ phase' = "refused" /\ UNCHANGED <<stack, res>>
Go == UNCHANGED phase
Push(kind, left) ==
    stack' = <<[kind |-> kind, left |-> left]>> \o stack
Inside(len) ==          (* the atom that is read is counted to the one it is in *)
    IF stack = <<>> THEN stack ELSE <<[Head(stack) EXCEPT !.left = @ - len]>> \o Tail(stack)
PushInside(kind, left, len) == stack' = <<[kind |-> kind, left |-> left]>> \o Inside(len)

(* mutant: the version is counted as two bytes *)
read_chunk_ftyp_miscounted(len) ==
    LET brands == Less(len, 14)
    IN  /\ IF ~ Is(stream_read_uint32(pos + 8), "M4A ") THEN Reads(pos, 12) /\ Go
           ELSE IF brands % 4 # 0 THEN Reads(file.size, 4) /\ phase' = "loops"
           ELSE Reads(pos, 16 + brands) /\ Go
        /\ UNCHANGED <<stack, res>>

(* The brands: of an unknown one the rest is read as atoms.                *)
read_chunk_ftyp(len) ==
    LET brands == Less(len, 16)
    IN  /\ IF ~ Is(stream_read_uint32(pos + 8), "M4A ") THEN Reads(pos, 12) /\ Go
           ELSE IF brands % 4 # 0 THEN Reads(file.size, 4) /\ phase' = "loops"
           ELSE Reads(pos, 16 + brands) /\ Go
        /\ UNCHANGED <<stack, res>>

read_chunk_mdat(len) ==
    /\ res' = [res EXCEPT !.mdat_len = Less(len, 8), !.mdat_offset = pos + 8]
    /\ phase' = IF Less(len, 8) > 0 THEN "found" ELSE phase
    /\ Reads(pos, 8) /\ UNCHANGED stack

SkipFree(len) ==
    /\ pos' = stream_skip(pos + 8, Less(len, 8)) /\ eof' = (eof \/ Short(pos, 8))
    /\ Go /\ UNCHANGED <<stack, res>>

(* A tag in front of the file is skipped. *)
Open ==
    /\ phase = "opened"
    /\ pos' = file.tag /\ phase' = "reading"
    /\ UNCHANGED <<file, start, stale, eof, stack, res, i, heard>>

qtmovie_read ==
    /\ phase = "reading" /\ stack = <<>>
    /\ \E len \in {stream_read_uint32(pos)}, id \in {stream_read_uint32(pos + 4)} :
         IF Short(pos, 4) \/ stream_eof \/ len = 1 THEN Reads(pos, 4) /\ Refuse
         ELSE CASE Is(id, "ftyp") -> read_chunk_ftyp(len)
                [] Is(id, "moov") -> Push("moov", Less(len, 8)) /\ Reads(pos, 8) /\ Go /\ UNCHANGED res
                [] Is(id, "mdat") -> read_chunk_mdat(len)
                [] Is(id, "free") -> SkipFree(len)
                [] OTHER -> Reads(pos, 8) /\ Refuse
    /\ UNCHANGED <<file, start, stale, i, heard>>

(* Only sound is looked for: the first atom of 16 bytes must be its header. *)
read_chunk_minf(len) ==
    \/ /\ stream_read_uint32(pos + 8) # 16
       /\ pos' = stream_skip(pos + 12, Less(len, 12)) /\ eof' = (eof \/ Short(pos, 12))
       /\ stack' = Inside(len) /\ Go /\ UNCHANGED res
    \/ /\ stream_read_uint32(pos + 8) = 16 /\ ~ Is(stream_read_uint32(pos + 12), "smhd")
       /\ Reads(pos, 16) /\ Refuse
    \/ /\ stream_read_uint32(pos + 8) = 16 /\ Is(stream_read_uint32(pos + 12), "smhd")
       /\ Reads(pos, 24) /\ PushInside("minf", Less(len, 24), len) /\ Go /\ UNCHANGED res

(* One entry, and what it says of the sound; behind it is the next atom,    *)
(* wherever this one ends.  codecdata is cleared for 20 bytes more than are *)
(* read, and filled from its 13th on; of an entry shorter than its fields   *)
(* nearly 2^SizeBits bytes are to be read, and all that are there are.      *)
MAX_CODECDATA_SIZE == 64
read_chunk_stsd(len) ==
    LET entry_remaining == Less(stream_read_uint32(pos + 16), 36)
        codecdata_len == (entry_remaining + 20) % 2 ^ SizeBits
        there == IF Short(pos, 52) THEN 0 ELSE file.size - pos - 52
        known == stream_read_uint32(pos + 12) = 1 /\ Is(stream_read_uint32(pos + 20), "alac")
    IN  IF known
        THEN /\ Reads(pos, 52 + entry_remaining) /\ stack' = Inside(len)
             /\ phase' = IF \/ codecdata_len > MAX_CODECDATA_SIZE
                            \/ entry_remaining > MAX_CODECDATA_SIZE - 12 /\ there > MAX_CODECDATA_SIZE - 12
                         THEN "undefined" ELSE phase
             /\ res' = [res EXCEPT !.known = @ \cup {"stsd"},
                                   !.num_channels = stream_read_uint16(pos + 40),
                                   !.sound_sample_size = stream_read_uint16(pos + 42),
                                   !.sound_sample_rate = Floor(stream_read_uint32(pos + 48), 16)]
        ELSE Reads(pos, 24) /\ Refuse

(* A table is read to its end, the stream then set to the end of the atom.  *)
Column(p, n, step) == [k \in 1 .. n |-> stream_read_uint32(p + step * (k - 1))]
Table(name, len, read, table) ==
    /\ pos' = pos + len /\ eof' = (eof \/ Short(pos, read))
    /\ stack' = Inside(len) /\ Go
    /\ res' = [table EXCEPT !.known = @ \cup {name}]

read_chunk_stts(len) ==
    \E n \in {stream_read_uint32(pos + 12)} :
       Table("stts", len, 16 + 8 * n,
             [res EXCEPT !.sample_count = Column(pos + 16, n, 8), !.sample_duration = Column(pos + 20, n, 8)])

read_chunk_stsz(len) ==
    \E n \in {stream_read_uint32(pos + 16)}, sizes \in {Column(pos + 20, stream_read_uint32(pos + 16), 4)} :
       \/ /\ stream_read_uint32(pos + 12) # 0                 (* of one size: not expected *)
          /\ Reads(pos, 20) /\ stack' = Inside(len) /\ Go /\ UNCHANGED res
       \/ /\ stream_read_uint32(pos + 12) = 0 /\ \E k \in 1 .. n : sizes[k] > 65535
          /\ Reads(pos, 20) /\ Refuse
       \/ /\ stream_read_uint32(pos + 12) = 0 /\ \A k \in 1 .. n : sizes[k] <= 65535
          /\ Table("stsz", len, 20 + 4 * n, [res EXCEPT !.sample_byte_size = sizes])

read_chunk_stsc(len) ==
    \E n \in {stream_read_uint32(pos + 12)} :
       Table("stsc", len, 16 + 12 * n,
             [res EXCEPT !.first_chunk = Column(pos + 16, n, 12), !.num_samples = Column(pos + 20, n, 12)])

read_chunk_stco(len) ==
    \E n \in {stream_read_uint32(pos + 12)} :
       Table("stco", len, 16 + 4 * n, [res EXCEPT !.chunk_offset = Column(pos + 16, n, 4)])

SkipAtom(len) ==
    /\ pos' = stream_skip(pos + 8, Less(len, 8)) /\ eof' = (eof \/ Short(pos, 8))
    /\ stack' = Inside(len) /\ Go /\ UNCHANGED res

Enter(kind, len) == Reads(pos, 8) /\ PushInside(kind, Less(len, 8), len) /\ Go /\ UNCHANGED res

(* The next atom inside one that is open: what it may hold is opened, any   *)
(* other atom is skipped.                                                   *)
ReadInside ==
    /\ phase = "reading" /\ stack # <<>> /\ Head(stack).left # 0
    /\ \E len \in {stream_read_uint32(pos)}, id \in {stream_read_uint32(pos + 4)}, in \in {Head(stack).kind} :
         IF len <= 1 \/ len > Head(stack).left THEN Reads(pos, 4) /\ Refuse
         ELSE CASE in = "moov" /\ Is(id, "trak") -> Enter("trak", len)
                [] in = "trak" /\ Is(id, "mdia") -> Enter("mdia", len)
                [] in = "mdia" /\ Is(id, "minf") -> read_chunk_minf(len)
                [] in = "minf" /\ Is(id, "stbl") -> Enter("stbl", len)
                [] in = "stbl" /\ Is(id, "stsd") -> read_chunk_stsd(len)
                [] in = "stbl" /\ Is(id, "stts") -> read_chunk_stts(len)
                [] in = "stbl" /\ Is(id, "stsz") -> read_chunk_stsz(len)
                [] in = "stbl" /\ Is(id, "stsc") -> read_chunk_stsc(len)
                [] in = "stbl" /\ Is(id, "stco") -> read_chunk_stco(len)
                [] OTHER -> SkipAtom(len)
    /\ UNCHANGED <<file, start, stale, i, heard>>

Leave ==
    /\ phase = "reading" /\ stack # <<>> /\ Head(stack).left = 0
    /\ stack' = Tail(stack)
    /\ UNCHANGED <<file, start, stale, pos, eof, res, phase, i, heard>>

(*------------------------------- the tables ------------------------------*)

Sizes == res.sample_byte_size
Upto(s, k) == Sum(SubSeq(s, 1, k))

(* That a block has a duration: without one it is not played. *)
get_sample_info(n) == n < Len(Sizes) /\ n < Upto(res.sample_count, Len(res.sample_count))

(* mutant: the chunk is counted from the first of all *)
ChunkFromFirst(sample, s) == 1 + (sample - s.total) \div s.samples

ChunkOf(sample, s) ==
    IF sample >= res.num_samples[1] THEN s.chunk + (sample - s.total) \div s.samples ELSE 1

(* The entry of stsc that covers a block, then its chunk, then its place.   *)
Entry(sample) ==
    LET Turn(s, k) ==
            LET range == (res.first_chunk[k + 1] - s.chunk) * s.samples
            IN  IF s.found \/ sample < s.total + range THEN [s EXCEPT !.found = TRUE]
                ELSE [found |-> FALSE, total |-> s.total + range,
                      chunk |-> res.first_chunk[k + 1], samples |-> res.num_samples[k + 1]]
    IN  Iterate(Turn, [found |-> FALSE, total |-> 0,
                       chunk |-> res.first_chunk[1], samples |-> res.num_samples[1]],
                Len(res.first_chunk) - 1)
InChunk(sample, chunk, chunk_sample) ==
    LET last == Len(res.chunk_offset)
        offset == res.chunk_offset[IF chunk > last THEN last ELSE chunk]
                  + Upto(Sizes, sample) - Upto(Sizes, chunk_sample)
    IN  IF chunk_sample > sample \/ offset > res.mdat_offset + res.mdat_len THEN 0 ELSE offset
OffsetIn(sample, s, chunk) == InChunk(sample, chunk, s.total + (chunk - s.chunk) * s.samples)
get_sample_offset(sample) ==
    LET s == Entry(sample)
    IN  IF sample >= Len(Sizes) \/ res.first_chunk = <<>> \/ res.chunk_offset = <<>> THEN 0
        ELSE OffsetIn(sample, s, ChunkOf(sample, s))

(* The block in which a sample of the sound is. *)
Destination(loc) ==
    LET Turn(s, k) ==
            LET count == res.sample_count[k]
                duration == res.sample_duration[k]
                j == (loc - s.time) \div duration
            IN  IF s.found \/ s.time >= loc THEN s
                ELSE IF j <= count THEN [found |-> TRUE, block |-> s.block + j, time |-> s.time + j * duration]
                ELSE [s EXCEPT !.block = @ + count, !.time = @ + count * duration]
    IN  Iterate(Turn, [found |-> FALSE, block |-> 0, time |-> 0], Len(res.sample_count)).block

Needed == {"stsd", "stts", "stsz"} \cup (IF start = 0 THEN {} ELSE {"stsc", "stco"})

alac_seek ==
    /\ i' = Destination(start) /\ pos' = get_sample_offset(i')
    /\ phase' = "playing"

(*--------------------------------- the play ------------------------------*)

(* Tables that were not read are whatever was on the stack. *)
Begin ==
    /\ phase = "found"
    /\ IF ~ Needed \subseteq res.known THEN phase' = "undefined" /\ UNCHANGED <<i, pos>>
       ELSE IF start = 0 THEN phase' = "playing" /\ UNCHANGED <<i, pos>>
       ELSE IF res.sample_count = <<>> \/ Sizes = <<>> THEN phase' = "refused" /\ UNCHANGED <<i, pos>>
       ELSE alac_seek
    /\ UNCHANGED <<file, start, stale, eof, stack, res, heard>>

(* What comes into the input buffer: a block, something else, or nothing    *)
(* new when the file has ended.                                             *)
BlockAt(p, n) ==
    IF \E b \in DOMAIN file.blocks : file.blocks[b] = [at |-> p, size |-> n] /\ ~ Short(p, n)
    THEN CHOOSE b \in DOMAIN file.blocks : file.blocks[b] = [at |-> p, size |-> n] ELSE 0
stream_read(p, n) ==
    IF p >= file.size THEN IF heard = <<>> THEN 0 ELSE heard[Len(heard)] ELSE BlockAt(p, n)

Play ==
    /\ phase = "playing" /\ i < Len(Sizes) /\ get_sample_info(i)
    /\ heard' = Append(heard, stream_read(pos, Sizes[i + 1]))
    /\ pos' = IF pos >= file.size THEN pos
              ELSE IF Short(pos, Sizes[i + 1]) THEN file.size ELSE pos + Sizes[i + 1]
    /\ eof' = (eof \/ Short(pos, Sizes[i + 1])) /\ i' = i + 1
    /\ UNCHANGED <<file, start, stale, stack, res, phase>>
PlayFails ==
    /\ phase = "playing" /\ i < Len(Sizes) /\ ~ get_sample_info(i)
    /\ phase' = "undecodable" /\ UNCHANGED <<file, start, stale, pos, eof, stack, res, i, heard>>
PlayEnds ==
    /\ phase = "playing" /\ i >= Len(Sizes)
    /\ phase' = "done" /\ UNCHANGED <<file, start, stale, pos, eof, stack, res, i, heard>>

alacPlay == Open \/ qtmovie_read \/ ReadInside \/ Leave \/ Begin \/ Play \/ PlayFails \/ PlayEnds
NoRes == [known |-> {}, num_channels |-> 0, sound_sample_size |-> 0, sound_sample_rate |-> 0,
          sample_count |-> <<>>, sample_duration |-> <<>>, sample_byte_size |-> <<>>,
          first_chunk |-> <<>>, num_samples |-> <<>>, chunk_offset |-> <<>>,
          mdat_offset |-> 0, mdat_len |-> 0]
MovieInit ==
    /\ file \in Files /\ start \in Starts /\ stale \in Stale
    /\ pos = 0 /\ eof = FALSE /\ stack = <<>> /\ res = NoRes
    /\ phase = "opened" /\ i = 0 /\ heard = <<>>
=============================================================================
