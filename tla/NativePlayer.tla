---------------------------- MODULE NativePlayer ----------------------------
(***************************************************************************)
(* The native player: jni/main.c, jni/std_audio.cpp and the play functions *)
(* of the six codecs, as LosslessMediaCodecHandler.java drives them.  The  *)
(* thread "main" calls stop(), start(), seekTo(), pause() and resume();    *)
(* the thread "play" is a PlayThread inside a play function; the third     *)
(* thread is the AudioTrack's, which calls cbf().  They share the context  *)
(* (msm_ctx).  Sound is counted in units: unit i of a file is the i-th     *)
(* second of it.  What the AudioTrack, or the device, does with the sound  *)
(* it has taken is the platform's part: while it plays it plays on, and it *)
(* takes more while it has room.                                           *)
(***************************************************************************)
EXTENDS Integers, Sequences

CONSTANTS Codecs,       (* the play functions to study                     *)
          Modes,        (* "DIRECT", "LIBMEDIA", "CALLBACK"                *)
          FileLen,      (* units in a file                                 *)
          ConfSize,     (* conf_size: units in a write                     *)
          RingSize,     (* cbbuf_size                                      *)
          TrackSize,    (* what the AudioTrack holds: its frame count      *)
          Starts,       (* the units a play can be asked to start from     *)
          Frames,       (* how many units a decoder can yield at a time    *)
          Requests,     (* how many the AudioTrack can ask for at a time   *)
          MaxPlays, MaxPauses   (* bounds of a behaviour                   *)

ASSUME SizesAssumption ==
    /\ {FileLen, ConfSize, RingSize, TrackSize, MaxPlays} \subseteq Nat \ {0}
    /\ MaxPauses \in Nat
    /\ Frames \subseteq 1 .. FileLen /\ Frames # {} /\ Requests \subseteq Nat \ {0}
    /\ ConfSize < RingSize
    /\ Starts \subseteq 1 .. FileLen

(* How the play functions differ: what they do at the end of the data, of a *)
(* frame they cannot decode, and of a file closed under them ("data" is what*)
(* they had read before); what they return at the end; how a failed opening *)
(* leaves the descriptor; whether a write can be short of ConfSize, whether *)
(* the descriptor is tested before it, whether it is counted while it is    *)
(* still locked; and the bytes they write of a sample, with the bytes that  *)
(* audioGetCurPosition() takes it to have, in the files they can meet.      *)
Same == {<<1, 1>>}

wavPlay  == [end |-> "fail", broken |-> {}, closed |-> {"fail"}, returns |-> "read",
             bad |-> {"open", "stale"},
             tail |-> FALSE, tests |-> FALSE, inside |-> FALSE, rates |-> Same]
flacPlay == [end |-> "done", broken |-> {"break"}, closed |-> {"data", "fail"},
             returns |-> "done", bad |-> {"open", "stale"},
             tail |-> FALSE, tests |-> FALSE, inside |-> FALSE, rates |-> Same]
alacPlay == [end |-> "done", broken |-> {"broken"}, closed |-> {"data", "done"},
             returns |-> "done", bad |-> {"reset"},
             tail |-> FALSE, tests |-> TRUE, inside |-> FALSE,
             rates |-> Same \cup {<<2, 3>>, <<2, 4>>}]
apePlay  == [end |-> "done", broken |-> {"error"}, returns |-> "done",
             closed |-> {"data", "done", "fail", "error"}, bad |-> {"open", "stale"},
             tail |-> FALSE, tests |-> FALSE, inside |-> FALSE, rates |-> Same]
wvPlay   == [end |-> "done", broken |-> {"broken"}, closed |-> {"data", "done"},
             returns |-> "done", bad |-> {"open", "stale"},
             tail |-> TRUE, tests |-> FALSE, inside |-> TRUE,
             rates |-> {<<2, b>> : b \in 1 .. 4}]
mpcPlay  == [end |-> "done", broken |-> {"error"}, closed |-> {"data", "done", "error"},
             returns |-> "done", bad |-> {"stale"},
             tail |-> FALSE, tests |-> FALSE, inside |-> FALSE, rates |-> Same]

Play == [wav |-> wavPlay, flac |-> flacPlay, alac |-> alacPlay,
         ape |-> apePlay, wv |-> wvPlay, mpc |-> mpcPlay]

ASSUME KindsAssumption ==
    Codecs \subseteq DOMAIN Play /\ Modes \subseteq {"DIRECT", "LIBMEDIA", "CALLBACK"}

VARIABLES
  codec, mode,          (* of this behaviour                               *)
  state,                (* ctx->state                                      *)
  mutex,                (* who holds ctx->mutex, or "free"                 *)
  fd,                   (* ctx->fd, 0 for -1                               *)
  files,                (* the descriptors that are open                   *)
  track,                (* the AudioTrack: "none", "playing", "paused"     *)
  cbbuf, cbstart, cbend,(* the callback buffer                             *)
  wavbuf,               (* decoded units that are not yet counted          *)
  next,                 (* the next unit the decoder yields                *)
  pc, after,            (* where a thread is, and where it goes afterwards *)
  th,                   (* a PlayThread exists and was not joined          *)
  stopped, paused,      (* fields of LosslessMediaCodecHandler             *)
  startpos,             (* another: the unit that was asked for            *)
  written,              (* ctx->written: units since audio_start()         *)
  put,                  (* what a write has put that is not counted yet    *)
  given,                (* the units the track took since audio_start()    *)
  heard,                (* how many of them it has played                  *)
  plays, pauses,        (* history: how many so far                        *)
  outcome,              (* history: of the last play: how it ended         *)
  ignored,              (* history: the last stop found nothing to stop    *)
  early,                (* history: the last stop came before run() began  *)
  pausedStop            (* history: audio_stop() reset the state of a pause*)

ctx  == <<state, mutex, fd, files, track>>
ring == <<cbbuf, cbstart, cbend>>
java == <<th, stopped, paused>>
counts == <<startpos, written, put>>
sound == <<given, heard>>
hist == <<sound, plays, pauses, outcome, ignored, early, pausedStop>>
vars == <<codec, mode, ctx, ring, wavbuf, next, pc, after, java, counts, hist>>

Units == 1 .. FileLen
MainPC == {"idle", "stop", "close", "clear", "ring", "silence", "join", "spawn", "pause"}
PlayPC == {"dead", "run", "init", "open", "begin", "loop", "decode", "write", "put",
           "push", "wait", "woken", "unlock", "count", "leave", "lock", "shut", "shut2", "end", "abandon", "abandon2",
           "drain", "sleep", "doneWait", "over", "complete",
           "stop", "close", "clear", "ring", "silence"}

Blank == [i \in 0 .. RingSize - 1 |-> 0]

Init ==
    /\ codec \in Codecs /\ mode \in Modes
    /\ state = "STOPPED" /\ mutex = "free" /\ fd = 0 /\ files = {} /\ track = "none"
    /\ cbbuf = Blank /\ cbstart = 0 /\ cbend = 0
    /\ wavbuf = <<>> /\ next = 1
    /\ pc = [main |-> "idle", play |-> "dead"]
    /\ after = [main |-> "idle", play |-> "over"]
    /\ th = FALSE /\ stopped = TRUE /\ paused = FALSE
    /\ startpos = 1 /\ written = 0 /\ put = 0 /\ given = <<>> /\ heard = 0 /\ plays = 0 /\ pauses = 0 /\ outcome = "none"
    /\ ignored = FALSE /\ early = FALSE /\ pausedStop = FALSE

Goto(t, p) == pc' = [pc EXCEPT ![t] = p]
Call(p, back) == Goto("play", p) /\ after' = [after EXCEPT !.play = back]

(* Where audio_stop() returns to: stop() goes on to join the thread.       *)
Back(t) == IF t = "main" THEN "join" ELSE after[t]

(* close(ctx->fd), by either thread.                                       *)
Close == files' = files \ {fd}

-----------------------------------------------------------------------------
(* The callback buffer.                                                    *)
get_free_bytes == IF cbend >= cbstart THEN RingSize - (cbend - cbstart)
                                      ELSE cbstart - cbend

Contents == [i \in 1 .. RingSize - get_free_bytes |->
                 cbbuf[(cbstart + i - 1) % RingSize]]

(* Mutant: a write may fill the buffer.                                    *)
FitsExactly(count) == get_free_bytes >= count

(* libmediacb_write() waits while k <= count.                              *)
Fits(count) == get_free_bytes > count

(* libmediacb_write(): the copy, in two parts where the buffer ends.       *)
Copy(s) ==
    /\ cbbuf' = [i \in 0 .. RingSize - 1 |->
                    LET j == (i - cbend) % RingSize
                    IN  IF j < Len(s) THEN s[j + 1] ELSE cbbuf[i]]
    /\ cbend' = (cbend + Len(s)) % RingSize
    /\ UNCHANGED cbstart

(* The track plays what it holds, and holds no more than it has room for.  *)
Held == Len(given) - heard
Room == TrackSize - Held

Sound ==
    /\ track = "playing" /\ Held > 0
    /\ heard' = heard + 1
    /\ UNCHANGED <<codec, mode, ctx, ring, wavbuf, next, pc, after, java, counts, given,
                   plays, pauses, outcome, ignored, early, pausedStop>>

(* cbf(): the AudioTrack asks for sound and takes what there is; when there *)
(* is none, whoever waits for the end of it is signalled.  The model blanks *)
(* what was taken, so that taking it again would show.                     *)
cbf == \E size \in Requests :
    /\ mode = "CALLBACK" /\ track = "playing" /\ size <= Room /\ cbstart >= 0
    /\ LET n == IF Len(Contents) < size THEN Len(Contents) ELSE size
       IN  IF n = 0
           THEN /\ pc.play = "doneWait" /\ Goto("play", "over")
                /\ UNCHANGED <<given, cbbuf, cbstart>>
           ELSE /\ given' = given \o SubSeq(Contents, 1, n)
                /\ cbstart' = (cbstart + n) % RingSize
                /\ cbbuf' = [i \in 0 .. RingSize - 1 |->
                                IF (i - cbstart) % RingSize < n THEN 0 ELSE cbbuf[i]]
                /\ IF pc.play = "wait" THEN Goto("play", "woken") ELSE UNCHANGED pc
    /\ UNCHANGED <<codec, mode, ctx, cbend, wavbuf, next, after, java, counts, heard,
                   plays, pauses, outcome, ignored, early, pausedStop>>

-----------------------------------------------------------------------------
(* audio_stop(), on either thread, without the mutex: its lock is commented *)
(* out.                                                                    *)
Tested(t, done) ==
    /\ pc[t] = "stop"
    /\ Goto(t, IF done THEN Back(t) ELSE IF fd # 0 THEN "close" ELSE "ring")
    /\ ignored' = IF t = "main" THEN done ELSE ignored
    /\ UNCHANGED <<codec, mode, ctx, ring, wavbuf, next, after, java, counts, sound,
                   plays, pauses, outcome, early, pausedStop>>

Test(t) == Tested(t, state = "STOPPED")

CloseFile(t) ==
    /\ pc[t] = "close"
    /\ Close /\ Goto(t, "clear")
    /\ UNCHANGED <<codec, mode, state, mutex, fd, track, ring, wavbuf, next, after, java,
                   counts, hist>>

Clear(t) ==
    /\ pc[t] = "clear"
    /\ fd' = 0 /\ Goto(t, "ring")
    /\ UNCHANGED <<codec, mode, state, mutex, files, track, ring, wavbuf, next, after, java,
                   counts, hist>>

(* Mutant: the writer is not woken.                                        *)
StopRingSilently(t) ==
    /\ pc[t] = "ring"
    /\ cbstart' = IF mode = "CALLBACK" /\ track # "none" THEN -1 ELSE cbstart
    /\ Goto(t, "silence")
    /\ UNCHANGED <<codec, mode, ctx, cbbuf, cbend, wavbuf, next, after, java, counts, hist>>

(* libmediacb_stop(): the buffer is closed and a writer woken.             *)
StopRing(t) ==
    /\ pc[t] = "ring"
    /\ IF mode = "CALLBACK" /\ track # "none"
       THEN /\ cbstart' = -1
            /\ pc' = [pc EXCEPT ![t] = "silence",
                         !.play = IF pc.play = "wait" THEN "woken"
                                  ELSE IF t = "play" THEN "silence" ELSE @]
       ELSE Goto(t, "silence") /\ UNCHANGED cbstart
    /\ UNCHANGED <<codec, mode, ctx, cbbuf, cbend, wavbuf, next, after, java, counts, hist>>

(* The state is reset; a pause is forgotten, and with it the mutex.        *)
Reset(t) ==
    /\ pc[t] = "silence"
    /\ state' = "STOPPED"
    /\ pausedStop' = (pausedStop \/ state = "PAUSED")
    /\ Goto(t, Back(t))
    /\ UNCHANGED <<codec, mode, mutex, fd, files, ring, wavbuf, next, after, java, counts,
                   sound, plays, pauses, outcome, ignored, early>>

(* Mutant: the track is left playing.                                      *)
SilenceNothing(t) == Reset(t) /\ UNCHANGED track

(* The track is paused with what it holds, the device is closed.           *)
Silence(t) ==
    Reset(t) /\ track' = IF track = "none" \/ mode = "DIRECT" THEN "none" ELSE "paused"

audio_stop(t) == Test(t) \/ CloseFile(t) \/ Clear(t) \/ StopRing(t) \/ Silence(t)

-----------------------------------------------------------------------------
(* LosslessMediaCodecHandler on the main thread.  stop() joins the thread; *)
(* seekTo() is stop() and a new thread.                                    *)
StopAs(then, flag) ==
    /\ pc.main = "idle"
    /\ stopped' = flag
    /\ Goto("main", IF th THEN "stop" ELSE then)
    /\ after' = [after EXCEPT !.main = then]
    /\ early' = (th /\ pc.play = "run")
    /\ UNCHANGED <<codec, mode, ctx, ring, wavbuf, next, th, paused, counts, sound,
                   plays, pauses, outcome, ignored, pausedStop>>

(* Mutant: the thread is not told.                                         *)
stopUntold(then) == StopAs(then, stopped)

stop(then) == StopAs(then, TRUE)

Join ==
    /\ pc.main = "join" /\ pc.play = "dead"
    /\ Goto("main", after.main)
    /\ th' = FALSE /\ paused' = FALSE
    /\ UNCHANGED <<codec, mode, ctx, ring, wavbuf, next, after, stopped, counts, hist>>

Spawn == \E p \in Starts :
    /\ pc.main = "spawn" /\ plays < MaxPlays
    /\ pc' = [main |-> "idle", play |-> "run"]
    /\ startpos' = p /\ th' = TRUE /\ plays' = plays + 1
    /\ outcome' = "none" /\ ignored' = FALSE /\ early' = FALSE
    /\ UNCHANGED <<codec, mode, ctx, ring, wavbuf, next, after, stopped, paused, written, put,
                   sound, pauses, pausedStop>>

seekTo == plays < MaxPlays /\ stop("spawn")

(* audioPause(): the test, then the mutex, which is kept.                  *)
pause ==
    /\ pc.main = "idle" /\ state = "PLAYING" /\ pauses < MaxPauses
    /\ Goto("main", "pause") /\ pauses' = pauses + 1
    /\ UNCHANGED <<codec, mode, ctx, ring, wavbuf, next, after, java, counts, sound,
                   plays, outcome, ignored, early, pausedStop>>

audioPause ==
    /\ pc.main = "pause" /\ mutex = "free"
    /\ mutex' = "main" /\ state' = "PAUSED" /\ paused' = TRUE
    /\ track' = IF mode # "DIRECT" /\ track # "none" THEN "paused" ELSE track
    /\ Goto("main", "idle")
    /\ UNCHANGED <<codec, mode, fd, files, ring, wavbuf, next, after, th, stopped, counts, hist>>

(* audioResume().                                                          *)
Resumed ==
    /\ pc.main = "idle" /\ state = "PAUSED"
    /\ track' = IF mode # "DIRECT" /\ track # "none" THEN "playing" ELSE track
    /\ state' = "PLAYING" /\ paused' = FALSE
    /\ UNCHANGED <<codec, mode, fd, files, ring, wavbuf, next, pc, after, th, stopped, counts, hist>>

(* Mutant: the mutex is kept.                                              *)
resumeLocked == Resumed /\ UNCHANGED mutex

resume == Resumed /\ mutex' = "free"

(* start(): a thread that was not stopped is resumed if it is paused.      *)
start ==
    \/ ~stopped /\ paused /\ resume
    \/ stopped /\ seekTo

Main ==
    \/ stop("idle") \/ seekTo \/ start \/ pause \/ resume
    \/ audio_stop("main") \/ Join \/ Spawn \/ audioPause

-----------------------------------------------------------------------------
(* The PlayThread: run() and audioInit(), ...                              *)
run ==
    /\ pc.play = "run"
    /\ stopped' = FALSE
    /\ Call("stop", "init")
    /\ UNCHANGED <<codec, mode, ctx, ring, wavbuf, next, th, paused, counts, hist>>

audioInit ==
    /\ pc.play = "init"
    /\ state' = "STOPPED"
    /\ Call("stop", "open")
    /\ UNCHANGED <<codec, mode, mutex, fd, files, track, ring, wavbuf, next, java, counts, hist>>

(* ... and the opening of a file, which may fail, ...                      *)
OpenFails ==
    /\ pc.play = "open"
    /\ \/ fd' = 0 /\ UNCHANGED files
       \/ "open" \in Play[codec].bad /\ fd' = plays /\ files' = files \cup {plays}
       \/ "stale" \in Play[codec].bad /\ fd' = plays /\ UNCHANGED files
    /\ outcome' = "unopened"
    /\ Goto("play", "over")
    /\ UNCHANGED <<codec, mode, state, mutex, track, ring, wavbuf, next, after, java,
                   counts, sound, plays, pauses, ignored, early, pausedStop>>

(* audio_start(): a new AudioTrack over an empty buffer, or an AudioTrack,  *)
(* new or flushed and restarted, or the device.  What the track before held *)
(* is not played any more.                                                 *)
libmediacb_start == track' = "playing" /\ cbstart' = 0 /\ cbend' = 0 /\ cbbuf' = Blank
libmedia_start   == track' = "playing" /\ UNCHANGED ring
msm_start        == track' = "playing" /\ UNCHANGED ring

audio_start ==
    \/ mode = "CALLBACK" /\ libmediacb_start
    \/ mode = "LIBMEDIA" /\ libmedia_start
    \/ mode = "DIRECT" /\ msm_start

(* ... or succeed, at startpos in flacPlay and at 0 in the others.         *)
First == IF codec = "flac" THEN startpos ELSE 1

Opened ==
    /\ pc.play = "open"
    /\ fd' = plays /\ files' = files \cup {plays}
    /\ audio_start
    /\ wavbuf' = <<>> /\ next' = First
    /\ given' = <<>> /\ heard' = 0 /\ put' = 0
    /\ outcome' = "none"
    /\ Goto("play", "begin")
    /\ UNCHANGED <<codec, mode, state, mutex, after, java, startpos, plays, pauses, ignored,
                   early, pausedStop>>

(* Mutant: the units of the play before still count.                       *)
OpenOnly == Opened /\ UNCHANGED written

Open == Opened /\ written' = 0

Begin ==
    /\ pc.play = "begin" /\ mutex = "free"
    /\ state' = "PLAYING"
    /\ Goto("play", "loop")
    /\ UNCHANGED <<codec, mode, mutex, fd, files, track, ring, wavbuf, next, after, java, counts, hist>>

-----------------------------------------------------------------------------
(* The loop of a play function: a frame is decoded, ...                    *)
Loop ==
    /\ pc.play = "loop"
    /\ IF state = "STOPPED" THEN Call("leave", "done") ELSE Goto("play", "decode") /\ UNCHANGED after
    /\ UNCHANGED <<codec, mode, ctx, ring, wavbuf, next, java, counts, hist>>

Frame(n) ==
    /\ wavbuf' = wavbuf \o [i \in 1 .. n |-> next + i - 1]
    /\ next' = next + n
    /\ Goto("play", "write") /\ UNCHANGED after

Ends(how) == Call("leave", how) /\ UNCHANGED <<wavbuf, next>>

(* The last frame is what is left, but wavPlay reads what it writes, and a *)
(* file that is short of it ends the loop.  wvPlay asks for one write.     *)
FrameSizes ==
    LET left == FileLen + 1 - next
    IN  CASE codec = "wav" -> {ConfSize} \cap 1 .. left
          [] codec = "wv"  -> {IF left < ConfSize THEN left ELSE ConfSize} \ {0}
          [] OTHER         -> {IF left < n THEN left ELSE n : n \in Frames} \ {0}

Decode ==
    /\ pc.play = "decode"
    /\ LET readable == fd # 0 /\ fd \in files
       IN  \/ /\ readable \/ "data" \in Play[codec].closed
              /\ \/ \E n \in FrameSizes : Frame(n)
                 \/ FrameSizes = {} /\ Ends(Play[codec].end)
           \/ readable /\ \E how \in Play[codec].broken : Ends(how)
           \/ ~readable /\ \E how \in Play[codec].closed \ {"data"} : Ends(how)
    /\ UNCHANGED <<codec, mode, ctx, ring, java, counts, hist>>

(* ... and when it is enough for a write, written under the mutex.         *)
Chunk == IF Len(wavbuf) < ConfSize THEN wavbuf ELSE SubSeq(wavbuf, 1, ConfSize)

Write ==
    /\ pc.play = "write"
    /\ IF \/ Len(wavbuf) >= ConfSize
          \/ Play[codec].tail /\ wavbuf # <<>>
       THEN mutex = "free" /\ mutex' = "play" /\ Goto("play", "put")
       ELSE Goto("play", "loop") /\ UNCHANGED mutex
    /\ UNCHANGED <<codec, mode, state, fd, files, track, ring, wavbuf, next, after, java, counts, hist>>

(* The write is done; it is still to be unlocked, and to be counted.       *)
Taken ==
    /\ Goto("play", IF Play[codec].inside THEN "count" ELSE "unlock")
    /\ UNCHANGED <<mutex, state, after>>

(* A short write ends the play; alacPlay leaves the state to audio_stop(). *)
Short ==
    /\ mutex' = "free"
    /\ IF Play[codec].tests THEN Call("leave", "broken") /\ UNCHANGED state
       ELSE state' = "STOPPED" /\ Goto("play", "abandon") /\ UNCHANGED after
    /\ UNCHANGED put

(* libmediacb_write() in a file that is still open; alacPlay tests that.   *)
PutRing ==
    /\ mode = "CALLBACK"
    /\ IF cbstart < 0 THEN Short /\ UNCHANGED ring
       ELSE IF Fits(Len(Chunk)) THEN Copy(Chunk) /\ put' = Len(Chunk) /\ Taken
       ELSE Goto("play", "wait") /\ UNCHANGED <<ring, put, mutex, state, after>>
    /\ UNCHANGED given

(* libmedia_write() or the device takes what it has room for until it has  *)
(* all of it; a track that does not play takes nothing.                    *)
Enter ==
    /\ mode # "CALLBACK" /\ pc.play = "put"
    /\ Goto("play", "push")
    /\ UNCHANGED <<ring, put, mutex, state, after, given>>

PutTrack ==
    /\ pc.play = "push"
    /\ IF track # "playing" THEN Short /\ UNCHANGED given
       ELSE LET rest == Len(Chunk) - put
                n    == IF Room < rest THEN Room ELSE rest
            IN  /\ n > 0
                /\ given' = given \o SubSeq(Chunk, put + 1, put + n)
                /\ put' = put + n
                /\ IF n = rest THEN Taken ELSE UNCHANGED <<pc, mutex, state, after>>
    /\ UNCHANGED ring

NothingToPut ==
    /\ mutex' = "free" /\ Goto("play", "loop")
    /\ UNCHANGED <<ring, put, state, given, after>>

audio_write ==
    /\ pc.play \in {"put", "push", "woken"}
    /\ IF Play[codec].tests /\ pc.play = "put" /\ fd = 0 THEN NothingToPut
       ELSE \/ pc.play # "push" /\ PutRing
            \/ Enter \/ PutTrack
    /\ UNCHANGED <<codec, mode, fd, files, track, wavbuf, next, java, startpos, written,
                   heard, plays, pauses, outcome, ignored, early, pausedStop>>

(* The mutex is released and the write is counted; in wvPlay it is counted *)
(* first.                                                                  *)
Unlock ==
    /\ pc.play = "unlock"
    /\ mutex' = "free"
    /\ Goto("play", IF Play[codec].inside THEN "write" ELSE "count")
    /\ UNCHANGED <<codec, mode, state, fd, files, track, ring, wavbuf, next, after, java,
                   counts, hist>>

Count ==
    /\ pc.play = "count"
    /\ written' = written + put /\ put' = 0
    /\ wavbuf' = SubSeq(wavbuf, put + 1, Len(wavbuf))
    /\ Goto("play", IF Play[codec].inside THEN "unlock" ELSE "write")
    /\ UNCHANGED <<codec, mode, ctx, ring, next, after, java, startpos, hist>>

-----------------------------------------------------------------------------
(* The ways out of the loop.  "done", and "broken" in alacPlay and wvPlay,  *)
(* close the file and wait for the sound; "fail" returns an error unless    *)
(* the file was closed by audio_stop, and so does "break", but near the end *)
(* of the file; "error" is the decoders' own.  The mutex is taken unless the*)
(* state is PAUSED, when the main thread holds it, and released in any case.*)
Left == CASE after.play \in {"done", "broken"} -> "drain"
          [] after.play \in {"fail", "break"}  -> "abandon"
          [] after.play = "error" -> "over"

Leave ==
    /\ pc.play = "leave"
    /\ Goto("play", IF state = "STOPPED" THEN Left ELSE "lock")
    /\ UNCHANGED <<codec, mode, ctx, ring, wavbuf, next, after, java, counts, hist>>

Lock ==
    /\ pc.play = "lock"
    /\ IF state = "PAUSED" THEN UNCHANGED mutex ELSE mutex = "free" /\ mutex' = "play"
    /\ Goto("play", IF after.play \in {"fail", "break"} \/ fd = 0 THEN "end" ELSE "shut")
    /\ UNCHANGED <<codec, mode, state, fd, files, track, ring, wavbuf, next, after, java, counts, hist>>

Shut ==
    /\ pc.play \in {"shut", "abandon"}
    /\ pc.play = "abandon" => fd # 0
    /\ Close
    /\ Goto("play", IF pc.play = "shut" THEN "shut2" ELSE "abandon2")
    /\ UNCHANGED <<codec, mode, state, mutex, fd, track, ring, wavbuf, next, after, java,
                   counts, hist>>

Forget ==
    /\ pc.play \in {"shut2", "abandon2"}
    /\ fd' = 0
    /\ IF pc.play = "shut2" THEN Goto("play", "end") /\ UNCHANGED outcome
       ELSE /\ Goto("play", "over")
            /\ outcome' = IF after.play = "fail" THEN "read" ELSE "error"
    /\ UNCHANGED <<codec, mode, state, mutex, files, track, ring, wavbuf, next, after, java,
                   counts, sound, plays, pauses, ignored, early, pausedStop>>

End ==
    /\ pc.play = "end"
    /\ state' = "STOPPED" /\ mutex' = "free"
    /\ Goto("play", Left)
    /\ UNCHANGED <<codec, mode, fd, files, track, ring, wavbuf, next, after, java, counts, hist>>

(* "we were stopped from the main thread": return 0.                       *)
StoppedFromMain ==
    /\ pc.play = "abandon" /\ fd = 0
    /\ outcome' = "stopped"
    /\ Goto("play", "over")
    /\ UNCHANGED <<codec, mode, ctx, ring, wavbuf, next, after, java, counts, sound,
                   plays, pauses, ignored, early, pausedStop>>

(* flacPlay stays silent about a frame it cannot decode within two seconds *)
(* of the end, where a tag may follow, and leaves its file open.  Whether   *)
(* two seconds are left is not counted here.                               *)
NearTheEnd ==
    /\ pc.play = "abandon" /\ fd # 0 /\ after.play = "break"
    /\ Goto("play", "drain")
    /\ UNCHANGED <<codec, mode, ctx, ring, wavbuf, next, after, java, counts, hist>>

How == IF after.play = "done" THEN "done" ELSE "broken"

(* Mutant: the end is not waited for.                                      *)
DrainNothing ==
    /\ pc.play = "drain"
    /\ outcome' = How
    /\ Goto("play", "over")
    /\ UNCHANGED <<codec, mode, ctx, ring, wavbuf, next, after, java, counts, sound,
                   plays, pauses, ignored, early, pausedStop>>

(* audio_wait_done(): cbstart is tested before cbmutex is taken, and then  *)
(* cbdone is waited for once; audio_stop() does not signal it.             *)
Drain ==
    /\ pc.play = "drain"
    /\ outcome' = How
    /\ Goto("play", IF mode # "CALLBACK" \/ cbstart = -1 THEN "over" ELSE "sleep")
    /\ UNCHANGED <<codec, mode, ctx, ring, wavbuf, next, after, java, counts, sound,
                   plays, pauses, ignored, early, pausedStop>>

Sleep ==
    /\ pc.play = "sleep"
    /\ Goto("play", IF get_free_bytes > 0 THEN "doneWait" ELSE "over")
    /\ UNCHANGED <<codec, mode, ctx, ring, wavbuf, next, after, java, counts, hist>>

(* The end of run(): the play function's variables are gone, and the       *)
(* completion is reported unless stop() came first.                        *)
Over ==
    /\ pc.play = "over"
    /\ Call(IF stopped THEN "dead" ELSE "stop", "complete")
    /\ wavbuf' = <<>> /\ next' = 1 /\ outcome' = "none"
    /\ UNCHANGED <<codec, mode, ctx, ring, java, counts, sound, plays, pauses, ignored, early,
                   pausedStop>>

Complete ==
    /\ pc.play = "complete"
    /\ stopped' = TRUE /\ paused' = FALSE
    /\ Goto("play", "dead")
    /\ UNCHANGED <<codec, mode, ctx, ring, wavbuf, next, after, th, counts, hist>>

PlayThread ==
    \/ run \/ audioInit \/ audio_stop("play") \/ Open \/ OpenFails \/ Begin
    \/ Loop \/ Decode \/ Write \/ audio_write \/ Unlock \/ Count
    \/ Leave \/ Lock \/ Shut \/ Forget \/ End \/ StoppedFromMain \/ NearTheEnd
    \/ Drain \/ Sleep \/ Over \/ Complete

Next == Main \/ PlayThread \/ cbf \/ Sound

(* The scheduler runs each thread that can run, and a playing track plays  *)
(* on and keeps asking for sound.  The user owes nothing, but the rest of   *)
(* a call that was begun.                                                  *)
Fairness ==
    /\ WF_vars(PlayThread) /\ WF_vars(cbf) /\ WF_vars(Sound)
    /\ WF_vars(audio_stop("main")) /\ WF_vars(Join) /\ WF_vars(Spawn) /\ WF_vars(audioPause)

Spec == Init /\ [][Next]_vars /\ Fairness

-----------------------------------------------------------------------------
(* What waits in an open callback buffer.                                  *)
Waiting == IF mode = "CALLBACK" /\ cbstart >= 0 THEN Contents ELSE <<>>

(* The callback buffer is a first-in first-out pipe, whatever the sizes of *)
(* writes and requests and wherever they wrap: cbstart = cbend never means *)
(* full (std_audio.cpp:235).                                               *)
Pipe == INSTANCE AudioPipe WITH
            Capacity <- RingSize, Chunk <- ConfSize, open <- cbstart >= 0,
            queue <- Waiting, heard <- IF mode = "CALLBACK" THEN given ELSE <<>>

ImplementsPipe == Pipe!PipeSpec

(* stop() found something to stop and has not joined the thread yet.       *)
Stopping ==
    \/ pc.main \in {"close", "clear", "ring", "silence"}
    \/ pc.main = "join" /\ ~ignored

(* When a play comes to the end of its file, the track was given the file   *)
(* from where it was opened, unit by unit, but for less than one write at   *)
(* its end (of a WavPack file all of it), and but for what still waits in   *)
(* the callback buffer when wavPlay ends: it returns a read error and, the  *)
(* only one, does not wait.  Nothing waits for the track: of what it was    *)
(* given as much as it holds is not heard yet, and the next audio_start()   *)
(* may come first.                                                         *)
EndReachesTheTrack ==
    pc.play = "over" /\ outcome = Play[codec].returns /\ ~Stopping =>
        LET left == FileLen - First + 1 - Len(given) - Len(Waiting)
        IN  /\ \A i \in 1 .. Len(given) : given[i] = First + i - 1
            /\ left < (IF Play[codec].tail THEN 1 ELSE ConfSize)
            /\ outcome = "done" => Waiting = <<>>
            /\ Held <= TrackSize

(* audioGetCurPosition() and getCurrentPosition(), in units from 0, of a    *)
(* file that is written and counted at rate r.                             *)
audioGetCurPosition(r) == IF state = "STOPPED" THEN 0 ELSE (written * r[1]) \div r[2]
getCurrentPosition(r)  == IF stopped THEN 0 ELSE startpos - 1 + audioGetCurPosition(r)

(* How much can be written and not heard.                                  *)
Ahead == TrackSize + (IF mode = "CALLBACK" THEN RingSize - 1 ELSE 0)

(* The position that is shown of a play is that of the sound, ahead of it by*)
(* what waits in the callback buffer and in the track, or behind it by a    *)
(* write that is not counted yet.  It starts from the whole way that was    *)
(* asked for, also of a file that is not a FLAC file and plays from its     *)
(* beginning.  It runs at the rate of the sound only where as many bytes of *)
(* a sample are written as are counted: of a WavPack file of 8 bits at twice*)
(* the rate, of one of 24 or 32 bits, and of such an ALAC file, at two      *)
(* thirds or a half.                                                       *)
PositionFollowsTheSound ==
    ~stopped /\ state # "STOPPED" /\ pc.main = "idle" =>
        \A r \in Play[codec].rates : \E n \in heard - put .. heard + Ahead :
            getCurrentPosition(r) = startpos - 1 + (n * r[1]) \div r[2]

(* A play that is being stopped does not go on to report its completion,   *)
(* unless the stop came before run() set "stopped" to false again.         *)
CompletionMeansEnd ==
    [][pc.play = "over" /\ pc'.play = "stop" => early \/ ~Stopping]_vars

(* A stop that found something to stop is final: while stop() joins, and   *)
(* until a new thread is asked for, nothing more is heard.                 *)
SilentAfterStop ==
    [][pc.main = "join" \/ (pc.main = "idle" /\ ~th) =>
           ignored \/ heard' = heard]_vars

(* The mutex outlives its use only when a pause was stopped: audio_stop()  *)
(* forgets that a paused context keeps it.                                 *)
MutexComesBack ==
    mutex = "main" => state = "PAUSED" \/ pausedStop

(* stop() returns, if no pause was stopped and the play was not just about *)
(* to wait for the end of the sound, which audio_stop() does not signal.   *)
Stuck == pausedStop \/ (pc.play = "doneWait" /\ (cbstart = -1 \/ track # "playing"))

StopReturnsOrStuck == pc.main = "join" ~> (pc.main # "join" \/ Stuck)

(* flac/main.c:692 and its like: the play function returns when it was     *)
(* stopped from the main thread, so that stop() can join the thread.       *)
StopReturns == pc.main = "join" ~> pc.main # "join"
=============================================================================
