------------------------------- MODULE ApeFile ------------------------------
(***************************************************************************)
(* Playing a file of Monkey's Audio: ape_parseheaderbuf() of ape/parser.c  *)
(* and apePlay() of ape/main.c, with the decoder of ApeDecoder.  A file is *)
(* a record of what its header says, with its bytes as image; the filling  *)
(* of the header is not looked at there, its length is.  What another      *)
(* thread does to the player meanwhile is in NativePlayer.                 *)
(***************************************************************************)
EXTENDS ApeDecoder

CONSTANTS INPUT_CHUNKSIZE, BLOCKS_PER_LOOP,
          Descriptor, Header,   (* the 52 and 24 bytes before the table     *)
          OldHeader,            (* length of the header before version 3980 *)
          OldBlocks,            (* and the blocks of a frame                *)
          Plays, Stales         (* files with the second to start at, and what  *)
                                (* is in the buffer behind the end of a file   *)

ASSUME ApeFileAssumption ==
    INPUT_CHUNKSIZE \in Nat \ {0} /\ BLOCKS_PER_LOOP \in Nat \ {0} /\ OldBlocks \in Nat \ {0}

VARIABLES file, start, stale,
          ctx,                  (* ape_ctx                                  *)
          pos, inbuffer,        (* of the file, and what was read ahead     *)
          d,                    (* the decoder of the frame                 *)
          currentframe, nblocks, samplestoskip,
          heard,                (* the blocks put into wavbuf, as bytes     *)
          phase
apeVars == <<file, start, stale, ctx, pos, inbuffer, d, currentframe, nblocks, samplestoskip, heard, phase>>

(*--------------------------------- the header ----------------------------*)

HAS_PEAK_LEVEL    == 4
HAS_SEEK_ELEMENTS == 16
Has(flags, f) == (flags \div f) % 2 = 1

OldLength(f) == OldHeader + (IF Has(f.formatflags, HAS_PEAK_LEVEL) THEN 4 ELSE 0)
                + (IF Has(f.formatflags, HAS_SEEK_ELEMENTS) THEN 4 ELSE 0)
OldTable(f) == 4 * (IF Has(f.formatflags, HAS_SEEK_ELEMENTS) THEN f.seekelements ELSE f.totalframes)
OldBps(f) == IF Has(f.formatflags, 1) THEN 8 ELSE IF Has(f.formatflags, 8) THEN 24 ELSE 16

Context(f, blocksperframe, bps, table, tablepos, firstframe) ==
    [fileversion |-> f.fileversion, compressiontype |-> f.compressiontype, channels |-> f.channels,
     samplerate |-> f.samplerate, totalframes |-> f.totalframes, finalframeblocks |-> f.finalframeblocks,
     blocksperframe |-> blocksperframe, bps |-> bps, seektablelength |-> table,
     seektablefilepos |-> tablepos, firstframe |-> firstframe]
ape_parseheaderbuf(f) ==
    IF f.fileversion >= 3980
    THEN Context(f, f.blocksperframe, f.bps, f.seektablelength, f.descriptorlength + f.headerlength,
                 f.descriptorlength + f.headerlength + f.seektablelength + f.wavheaderlength)
    ELSE Context(f, OldBlocks, OldBps(f), OldTable(f), OldLength(f) + f.wavheaderlength,
                 OldLength(f) + f.wavheaderlength + OldTable(f))

(* The reader for tools, ape_parseheader(), goes through the file itself:   *)
(* TablePos is where it has come to when it reads the table of the frames.  *)
CREATE_WAV_HEADER == 32
Greater(a, b) == IF a > b THEN a ELSE b
TablePos(f) ==
    IF f.fileversion >= 3980 THEN Greater(Descriptor, f.descriptorlength) + Header
    ELSE OldLength(f) + IF Has(f.formatflags, CREATE_WAV_HEADER) THEN 0 ELSE f.wavheaderlength

ape_parseheader(f) ==
    LET c == [ape_parseheaderbuf(f) EXCEPT !.seektablefilepos = TablePos(f)]
    IN  IF f.magic /\ TablePos(f) + c.seektablelength <= Len(f.image) THEN {c} ELSE {}

APE_MIN_VERSION == 3970
APE_MAX_VERSION == 3990
Readable(f) == /\ Len(f.image) >= INPUT_CHUNKSIZE /\ f.magic
               /\ f.fileversion \in APE_MIN_VERSION .. APE_MAX_VERSION

Least(a, b) == IF a < b THEN a ELSE b
Reads(from, n) ==                       (* read(): what there is of n bytes *)
    SubSeq(file.image, from + 1, Least(from + n, Len(file.image)))

totalsamples(c) == c.finalframeblocks
                   + IF c.totalframes > 1 THEN c.blocksperframe * (c.totalframes - 1) ELSE 0

(* apeDuration(): in seconds, or -1; ctx->fd is left open when there is no  *)
(* header to be read, and closed when the version or the table is refused.  *)
apeDuration(f) ==
    LET c == ape_parseheaderbuf(f)
        refused == [answer |-> -1, fdIsOpen |-> FALSE]
    IN  IF ~ (Len(f.image) >= INPUT_CHUNKSIZE /\ f.magic) THEN [refused EXCEPT !.fdIsOpen = TRUE]
        ELSE IF \/ ~ Readable(f) \/ c.seektablefilepos + c.seektablelength > Len(f.image) THEN refused
        ELSE [answer |-> totalsamples(c) \div c.samplerate, fdIsOpen |-> FALSE]

(* The frame of a sample, where it is in the file, and how far in the frame.*)
Entry(n) == LET at == ctx.seektablefilepos + 4 * n
            IN  Reads(at, 1)[1] + 256 * Reads(at + 1, 1)[1]
(* mutant: all the samples before are skipped, not those of the frame *)
ape_calc_seekpos_all(new_sample) ==
    LET n == new_sample \div ctx.blocksperframe
    IN  IF n >= ctx.seektablelength \div 4 THEN {}
        ELSE {[newframe |-> n, filepos |-> Entry(n), samplestoskip |-> new_sample]}

ape_calc_seekpos(new_sample) ==
    LET n == new_sample \div ctx.blocksperframe
    IN  IF n >= ctx.seektablelength \div 4 THEN {}
        ELSE {[newframe |-> n, filepos |-> Entry(n), samplestoskip |-> new_sample - n * ctx.blocksperframe]}

(*----------------------------------- playing -----------------------------*)

Ends(how) == phase' = how /\ UNCHANGED <<ctx, pos, inbuffer, d, currentframe, nblocks, samplestoskip, heard>>

Open ==
    /\ phase = "opened"
    /\ \/ ~ Readable(file) /\ Ends("refused")
       \/ /\ Readable(file)
          /\ ctx' = ape_parseheaderbuf(file) /\ phase' = "placing"
          /\ UNCHANGED <<pos, inbuffer, d, currentframe, nblocks, samplestoskip, heard>>

(* Words are read from where a multiple of four is in the file, but they    *)
(* begin where the first frame does.                                        *)
Begin(frame, filepos, firstbyte, skip) ==
    /\ currentframe' = frame /\ samplestoskip' = skip /\ nblocks' = 0
    /\ inbuffer' = Reads(filepos, INPUT_CHUNKSIZE)
    /\ pos' = filepos + Len(inbuffer') /\ d' = [d EXCEPT !.e.r.off = firstbyte]
    /\ phase' = IF (filepos - ctx.firstframe) % 4 = 0 THEN "playing" ELSE "noise"
    /\ UNCHANGED <<ctx, heard>>
Place ==
    /\ phase = "placing"
    /\ \/ start = 0 /\ Begin(0, ctx.firstframe, 3, 0)
       \/ start # 0 /\ Len(Reads(ctx.seektablefilepos, ctx.seektablelength)) # ctx.seektablelength
          /\ Ends("refused")
       \/ /\ start # 0 /\ Len(Reads(ctx.seektablefilepos, ctx.seektablelength)) = ctx.seektablelength
          /\ \/ ape_calc_seekpos(start * ctx.samplerate) = {} /\ Ends("refused")
             \/ \E s \in ape_calc_seekpos(start * ctx.samplerate) :
                  Begin(s.newframe, s.filepos - (s.filepos % 4), 3 - (s.filepos % 4), s.samplestoskip)

(* What is used up goes out of the buffer and more comes in; of a file cut  *)
(* short the decoder can use more than there is, and memmove() gets a       *)
(* negative count.                                                          *)
Refill(used, next) ==
    IF used > Len(inbuffer) THEN phase' = "crashed" /\ UNCHANGED <<pos, inbuffer>>
    ELSE /\ \E rest \in {SubSeq(inbuffer, used + 1, Len(inbuffer))} :
              /\ inbuffer' = rest \o Reads(pos, INPUT_CHUNKSIZE - Len(rest))
              /\ pos' = pos + Len(inbuffer') - Len(rest)
         /\ phase' = next

FrameBlocks == IF currentframe = ctx.totalframes - 1 THEN ctx.finalframeblocks ELSE ctx.blocksperframe
Frame ==
    /\ phase = "playing" /\ currentframe < ctx.totalframes
    /\ \E new \in {init_frame_decoder(ctx, inbuffer, d.e.r.off, stale)} :
         d' = new /\ Refill(new.e.r.at, "frame")
    /\ nblocks' = FrameBlocks
    /\ UNCHANGED <<ctx, currentframe, samplestoskip, heard>>

AsBytes(v, bps) ==
    CASE bps = 8  -> <<(v + 128) % 256>>
      [] bps = 16 -> <<v % 256, Floor(v, 8) % 256>>
      [] bps = 24 -> <<v % 256, Floor(v, 8) % 256, Floor(v, 16) % 256>>
      [] OTHER -> <<>>
Pcm(c) == [j \in DOMAIN c.out0 |-> AsBytes(c.out0[j], ctx.bps)
                                   \o (IF ctx.channels = 2 THEN AsBytes(c.out1[j], ctx.bps) ELSE <<>>)]

(* When samples are to be skipped, as many as are not are taken from the    *)
(* front of the first chunk that holds more.                                *)
Kept(samples) ==
    IF samplestoskip = 0 THEN samples
    ELSE IF samplestoskip >= Len(samples) THEN <<>>
    ELSE SubSeq(samples, Len(samples) - samplestoskip + 1, Len(samples))
Played(c, count) ==
    /\ heard' = heard \o Kept(Pcm(c)) /\ d' = c.d /\ nblocks' = nblocks - count
    /\ samplestoskip' = IF samplestoskip >= count THEN samplestoskip - count ELSE 0
    /\ IF c.d.e.lost THEN phase' = "lost" /\ UNCHANGED <<pos, inbuffer>> ELSE Refill(c.d.e.r.at, "frame")
    /\ UNCHANGED <<ctx, currentframe>>
PlayChunk ==
    /\ phase = "frame" /\ nblocks > 0
    /\ \E count \in {Least(BLOCKS_PER_LOOP, nblocks)} :
         \E c \in {decode_chunk(ctx, d, inbuffer, count, FrameBlocks)} : Played(c, count)

NextFrame ==
    /\ phase = "frame" /\ nblocks = 0
    /\ currentframe' = currentframe + 1 /\ phase' = "playing"
    /\ UNCHANGED <<ctx, pos, inbuffer, d, nblocks, samplestoskip, heard>>
End == phase = "playing" /\ currentframe >= ctx.totalframes /\ Ends("done")

NoDecoder == [e |-> Entropy(Reader(<<>>, 3, 0), 0)]
ApeInit ==
    /\ \E p \in Plays : file = p[1] /\ start = p[2]
    /\ stale \in Stales /\ phase = "opened"
    /\ ctx = ape_parseheaderbuf(file) /\ pos = 0 /\ inbuffer = <<>> /\ d = NoDecoder
    /\ currentframe = 0 /\ nblocks = 0 /\ samplestoskip = 0 /\ heard = <<>>
apePlay == (Open \/ Place \/ Frame \/ PlayChunk \/ NextFrame \/ End) /\ UNCHANGED <<file, start, stale>>
=============================================================================
