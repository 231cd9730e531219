------------------------- MODULE NativePlayer_proofs -------------------------
(***************************************************************************)
(* Proofs about NativePlayer: for every set of codecs and audio modes, for *)
(* files, buffers and writes of any size, and for any number of plays and  *)
(* pauses, what stop() and pause() leave behind.                           *)
(***************************************************************************)
EXTENDS NativePlayer, TLAPS

Stopped == {"close", "clear", "ring", "silence"}

(* The program counters, and the return addresses where they matter.       *)
PCType ==
    /\ codec \in Codecs
    /\ DOMAIN pc = {"main", "play"} /\ DOMAIN after = {"main", "play"}
    /\ pc.main \in MainPC /\ pc.play \in PlayPC
    /\ after.main \in {"idle", "spawn"}
    /\ pc.play \in {"stop"} \cup Stopped => after.play \in {"init", "open", "complete"}
    /\ pc.play \in {"leave", "lock", "shut", "shut2", "end"}
           => after.play \in {"done", "fail", "broken", "break", "error"}

(* The play thread has not come to its loop.                               *)
Opening ==
    \/ pc.play \in {"run", "init", "open", "begin"}
    \/ pc.play \in {"stop"} \cup Stopped /\ after.play \in {"init", "open"}

(* The play thread is in its loop, or on the way out of it.                *)
InPlay == pc.play \in {"loop", "decode", "write", "put", "push", "wait", "woken", "unlock",
                       "count", "leave", "lock", "shut", "shut2", "end"}

(* The state is STOPPED while a play opens, while there is no thread, and  *)
(* when a thread that is being joined has left its loop.                   *)
StateInv ==
    /\ Opening => state = "STOPPED" /\ pc.main # "pause"
    /\ ~th => pc.play = "dead" /\ state = "STOPPED" /\ pc.main \in {"idle", "spawn"}
    /\ pc.main = "spawn" => pc.play = "dead" /\ state = "STOPPED"
    /\ pc.main = "join" => state # "PAUSED" /\ (~InPlay => state = "STOPPED")

(* A stop that found something to stop meets no play that is opening, and   *)
(* has paused the track by the time it joins.                              *)
StopInv ==
    /\ pc.main \in Stopped => ~Opening
    /\ pc.main = "join" /\ ~ignored => ~Opening /\ track # "playing"
    /\ ~th => ignored \/ track # "playing"

(* A thread that is being stopped was told so, unless it had not begun.    *)
ToldInv ==
    pc.main \in {"stop", "join"} \cup Stopped
        => early \/ (stopped /\ pc.play # "run")

IInv == PCType /\ StateInv /\ StopInv /\ ToldInv /\ MutexComesBack

-----------------------------------------------------------------------------
LEMMA InitIInv == Init => IInv
BY DEF Init, IInv, PCType, StateInv, StopInv, ToldInv, MutexComesBack, Stopped,
       Opening, InPlay, MainPC, PlayPC

(* libmediacb_stop() moves its own thread on, and a writer that waits.     *)
LEMMA StopRingMoves ==
    ASSUME PCType, NEW t \in {"main", "play"}, StopRing(t)
    PROVE  /\ pc[t] = "ring" /\ pc'[t] = "silence"
           /\ DOMAIN pc' = {"main", "play"}
           /\ t = "play" => pc'.main = pc.main
           /\ t = "main" => \/ pc'.play = pc.play
                            \/ pc.play = "wait" /\ pc'.play = "woken"
<1>1. CASE t = "main"
  BY <1>1 DEF StopRing, PCType, Goto
<1>2. CASE t = "play"
  BY <1>2 DEF StopRing, PCType, Goto
<1>3. QED
  BY <1>1, <1>2

(* audio_stop(), by either thread.                                         *)
LEMMA AudioStopIInv ==
    ASSUME IInv, NEW t \in {"main", "play"}, audio_stop(t)
    PROVE  IInv'
<1> USE DEF IInv, PCType, StateInv, StopInv, ToldInv, MutexComesBack, Stopped, Opening,
            InPlay, MainPC, PlayPC, Goto, Back, ctx, ring, java, counts, hist, sound
<1>1. CASE Test(t)
  <2>1. CASE t = "main"
    BY <1>1, <2>1, ZenonT(60) DEF Test, Tested
  <2>2. CASE t = "play"
    BY <1>1, <2>2 DEF Test, Tested
  <2>3. QED
    BY <2>1, <2>2
<1>2. CASE CloseFile(t)
  <2>1. CASE t = "main"
    BY <1>2, <2>1 DEF CloseFile, Close
  <2>2. CASE t = "play"
    BY <1>2, <2>2 DEF CloseFile, Close
  <2>3. QED
    BY <2>1, <2>2
<1>3. CASE Clear(t)
  <2>1. CASE t = "main"
    BY <1>3, <2>1 DEF Clear
  <2>2. CASE t = "play"
    BY <1>3, <2>2 DEF Clear
  <2>3. QED
    BY <2>1, <2>2
<1>4. CASE StopRing(t)
  <2>1. /\ pc[t] = "ring" /\ pc'[t] = "silence" /\ DOMAIN pc' = {"main", "play"}
        /\ t = "play" => pc'.main = pc.main
        /\ t = "main" => \/ pc'.play = pc.play
                         \/ pc.play = "wait" /\ pc'.play = "woken"
    BY <1>4, StopRingMoves
  <2>2. UNCHANGED <<codec, mode, ctx, wavbuf, next, after, java, counts, hist>>
    BY <1>4 DEF StopRing
  <2>3. QED
    BY <2>1, <2>2
<1>5. CASE Silence(t)
  <2>1. CASE t = "main"
    BY <1>5, <2>1, ZenonT(60) DEF Silence, Reset
  <2>2. CASE t = "play"
    BY <1>5, <2>2, ZenonT(60) DEF Silence, Reset
  <2>3. QED
    BY <2>1, <2>2
<1>6. QED
  BY <1>1, <1>2, <1>3, <1>4, <1>5 DEF audio_stop

(* The calls of the main thread.                                           *)
LEMMA MainIInv == ASSUME IInv, Main PROVE IInv'
<1> USE DEF IInv, PCType, StateInv, StopInv, ToldInv, MutexComesBack, Stopped, Opening,
            InPlay, MainPC, PlayPC, Goto, ctx, ring, java, counts, hist, sound
<1>1. CASE stop("idle")
  BY <1>1, ZenonT(60) DEF stop, StopAs
<1>2. CASE seekTo
  BY <1>2, ZenonT(60) DEF seekTo, stop, StopAs
<1>3. CASE pause
  BY <1>3 DEF pause
<1>4. CASE resume
  BY <1>4 DEF resume, Resumed
<1>5. CASE audio_stop("main")
  BY <1>5, AudioStopIInv
<1>6. CASE Join
  BY <1>6 DEF Join
<1>7. CASE Spawn
  BY <1>7 DEF Spawn
<1>8. CASE audioPause
  BY <1>8 DEF audioPause
<1>9. QED
  BY <1>1, <1>2, <1>3, <1>4, <1>5, <1>6, <1>7, <1>8 DEF Main, start

(* How a play ends is known to Left.                                       *)
LEMMA EndsAs ==
    ASSUME PCType
    PROVE  /\ Play[codec].end \in {"done", "fail"}
           /\ Play[codec].closed \subseteq {"data", "done", "fail", "error"}
           /\ Play[codec].broken \subseteq {"broken", "break", "error"}
BY KindsAssumption DEF PCType, Play, wavPlay, flacPlay, alacPlay, apePlay, wvPlay, mpcPlay

(* The steps of the play thread.                                           *)
LEMMA PlayThreadIInv == ASSUME IInv, PlayThread PROVE IInv'
<1> USE DEF IInv, PCType, StateInv, StopInv, ToldInv, MutexComesBack, Stopped, Opening,
            InPlay, MainPC, PlayPC, Goto, Call, ctx, ring, java, counts, hist, sound
<1>1. CASE run
  BY <1>1 DEF run
<1>2. CASE audioInit
  BY <1>2 DEF audioInit
<1>3. CASE audio_stop("play")
  BY <1>3, AudioStopIInv
<1>4. CASE Open
  BY <1>4 DEF Open, Opened, audio_start, libmediacb_start, libmedia_start, msm_start
<1>5. CASE OpenFails
  BY <1>5 DEF OpenFails
<1>6. CASE Begin
  BY <1>6 DEF Begin
<1>7. CASE Loop
  BY <1>7 DEF Loop
<1>8. CASE Decode
  <2>1. \/ pc' = [pc EXCEPT !.play = "write"] /\ after' = after
        \/ \E how \in {"done", "fail", "broken", "break", "error"} :
              pc' = [pc EXCEPT !.play = "leave"] /\ after' = [after EXCEPT !.play = how]
    BY <1>8, EndsAs DEF Decode, Frame, Ends
  <2>2. pc.play = "decode" /\ UNCHANGED <<codec, mode, ctx, ring, java, counts, hist>>
    BY <1>8 DEF Decode
  <2>3. QED
    BY <2>1, <2>2
<1>9. CASE Write
  BY <1>9 DEF Write
<1>10. CASE audio_write
  BY <1>10 DEF audio_write, PutRing, Enter, PutTrack, NothingToPut, Taken, Short
<1>11. CASE Leave
  BY <1>11 DEF Leave, Left
<1>12. CASE Lock
  BY <1>12 DEF Lock
<1>13. CASE Shut
  BY <1>13 DEF Shut, Close
<1>14. CASE Forget
  BY <1>14 DEF Forget
<1>15. CASE End
  BY <1>15 DEF End, Left
<1>16. CASE StoppedFromMain
  BY <1>16 DEF StoppedFromMain
<1>17. CASE Drain
  BY <1>17 DEF Drain
<1>18. CASE Sleep
  BY <1>18 DEF Sleep
<1>19. CASE Over
  BY <1>19 DEF Over
<1>20. CASE Complete
  BY <1>20 DEF Complete
<1>21. CASE Unlock
  BY <1>21 DEF Unlock
<1>22. CASE Count
  BY <1>22 DEF Count
<1>23. CASE NearTheEnd
  BY <1>23 DEF NearTheEnd
<1>24. QED
  BY <1>1, <1>2, <1>3, <1>4, <1>5, <1>6, <1>7, <1>8, <1>9, <1>10, <1>11, <1>12, <1>13,
     <1>14, <1>15, <1>16, <1>17, <1>18, <1>19, <1>20, <1>21, <1>22, <1>23 DEF PlayThread

LEMMA CbfIInv == ASSUME IInv, cbf PROVE IInv'
BY DEF cbf, IInv, PCType, StateInv, StopInv, ToldInv, MutexComesBack, Stopped, Opening,
       InPlay, MainPC, PlayPC, Goto, ctx, ring, java, counts, hist, sound

(* The track plays on.                                                     *)
LEMMA TrackIInv == ASSUME IInv, Sound PROVE IInv'
BY DEF Sound, IInv, PCType, StateInv, StopInv, ToldInv, MutexComesBack, Stopped, Opening,
       InPlay, MainPC, PlayPC, ctx, ring, java, counts

LEMMA StutterIInv == ASSUME IInv, UNCHANGED vars PROVE IInv'
BY DEF vars, IInv, PCType, StateInv, StopInv, ToldInv, MutexComesBack, Stopped, Opening,
       InPlay, MainPC, PlayPC, ctx, ring, java, counts, hist, sound

LEMMA PlayerInvariance == Spec => []IInv
<1>1. IInv /\ [Next]_vars => IInv'
  BY MainIInv, PlayThreadIInv, CbfIInv, TrackIInv, StutterIInv DEF Next
<1>2. QED
  BY <1>1, InitIInv, PTL DEF Spec

-----------------------------------------------------------------------------
(* A pause whose mutex is not given back was stopped: nothing else that    *)
(* audioPause() (main.c:135) can meet leaves the mutex locked.             *)
THEOREM MutexReturned == Spec => []MutexComesBack
<1>1. IInv => MutexComesBack
  BY DEF IInv
<1>2. QED
  BY <1>1, PlayerInvariance, PTL

(* Only its end takes a thread from "over" to the stop that reports the    *)
(* completion.                                                             *)
LEMMA OverReports ==
    ASSUME PCType, Next, pc.play = "over", pc'.play = "stop"
    PROVE  ~stopped
<1> USE DEF PCType, Goto, Call
<1>1. CASE Main
  <2>1. ASSUME audio_stop("main") PROVE FALSE
    <3>1. ASSUME StopRing("main") PROVE FALSE
      BY <3>1, StopRingMoves
    <3>2. QED
      BY <2>1, <3>1 DEF audio_stop, Test, Tested, CloseFile, Clear, Silence, Reset
  <2>2. QED
    BY <1>1, <2>1 DEF Main, start, stop, StopAs, seekTo, pause, resume, Resumed, Join, Spawn,
                      audioPause
<1>2. CASE PlayThread
  BY <1>2 DEF PlayThread, audio_stop, Test, Tested, CloseFile, Clear, StopRing, Silence, Reset,
              run, audioInit, Open, Opened, OpenFails, Begin, Loop, Decode, Write, audio_write,
              Unlock, Count, Leave, Lock, Shut, Forget, End, StoppedFromMain, NearTheEnd, Drain,
              Sleep, Over, Complete
<1>3. CASE cbf \/ Sound
  BY <1>3 DEF cbf, Sound
<1>4. QED
  BY <1>1, <1>2, <1>3 DEF Next

(* The play thread reports a completion (LosslessMediaCodecHandler.java:118)*)
(* of a play that is being stopped only if the stop came before run().     *)
THEOREM CompletionIsEnd == Spec => CompletionMeansEnd
<1>1. IInv /\ [Next]_vars
        => [pc.play = "over" /\ pc'.play = "stop" => early \/ ~Stopping]_vars
  <2> SUFFICES ASSUME IInv, Next, pc.play = "over", pc'.play = "stop", Stopping
               PROVE  early
    OBVIOUS
  <2>1. ~stopped
    BY OverReports DEF IInv
  <2>2. QED
    BY <2>1 DEF IInv, ToldInv, Stopping, Stopped
<1>2. QED
  BY <1>1, PlayerInvariance, PTL DEF Spec, CompletionMeansEnd

-----------------------------------------------------------------------------
(* Sound is heard of a playing track, and the units heard are counted anew  *)
(* in the play thread's opening.                                           *)
LEMMA HeardChanges ==
    ASSUME Next, heard' # heard
    PROVE  track = "playing" \/ pc.play = "open"
<1>1. CASE Main
  <2>1. ASSUME audio_stop("main") PROVE FALSE
    BY <2>1 DEF audio_stop, Test, Tested, CloseFile, Clear, StopRing, Silence, Reset, hist, sound
  <2>2. QED
    BY <1>1, <2>1 DEF Main, start, stop, StopAs, seekTo, pause, resume, Resumed, Join, Spawn,
                      audioPause, hist, sound
<1>2. CASE PlayThread
  BY <1>2 DEF PlayThread, audio_stop, Test, Tested, CloseFile, Clear, StopRing, Silence, Reset,
              run, audioInit, Open, Opened, OpenFails, Begin, Loop, Decode, Write, audio_write,
              Unlock, Count, Leave, Lock, Shut, Forget, End, StoppedFromMain, NearTheEnd, Drain,
              Sleep, Over, Complete, hist, sound
<1>3. CASE cbf \/ Sound
  BY <1>3 DEF cbf, Sound
<1>4. QED
  BY <1>1, <1>2, <1>3 DEF Next

(* After audio_stop() (main.c:87) found a play to stop, and until start()  *)
(* or seekTo() ask for a new thread, not a unit more is heard.             *)
THEOREM StopSilences == Spec => SilentAfterStop
<1>1. IInv /\ [Next]_vars
        => [pc.main = "join" \/ (pc.main = "idle" /\ ~th) => ignored \/ heard' = heard]_vars
  <2> SUFFICES ASSUME IInv, Next, pc.main = "join" \/ ~th, ~ignored
               PROVE  heard' = heard
    OBVIOUS
  <2>1. track # "playing" /\ pc.play # "open"
    BY DEF IInv, StopInv, StateInv, Opening
  <2>2. QED
    BY <2>1, HeardChanges
<1>2. QED
  BY <1>1, PlayerInvariance, PTL DEF Spec, SilentAfterStop

-----------------------------------------------------------------------------
(* The callback buffer.  Arithmetic modulo its size, one turn at a time.   *)
LEMMA Turns ==
    ASSUME NEW R \in Nat \ {0}
    PROVE  /\ \A x \in 0 .. R - 1 : x % R = x
           /\ \A x \in R .. 2 * R - 1 : x % R = x - R
           /\ \A x \in -R .. -1 : x % R = x + R
<1>1. ASSUME NEW x \in 0 .. R - 1 PROVE x % R = x
  OBVIOUS
<1>2. ASSUME NEW x \in R .. 2 * R - 1 PROVE x % R = x - R
  OBVIOUS
<1>3. ASSUME NEW x \in -R .. -1 PROVE x % R = x + R
  OBVIOUS
<1>4. QED
  BY <1>1, <1>2, <1>3

(* How much lies between a and b, and how far the i-th place after a is    *)
(* from b and from a.                                                      *)
Filled(R, a, b) == IF b >= a THEN b - a ELSE R - (a - b)

LEMMA RingIndex ==
    ASSUME NEW R \in Nat \ {0}, NEW a \in 0 .. R - 1, NEW b \in 0 .. R - 1,
           NEW i \in 1 .. R
    PROVE  /\ (a + i - 1) % R \in 0 .. R - 1
           /\ (((a + i - 1) % R) - a) % R = i - 1
           /\ i <= Filled(R, a, b) =>
                 (((a + i - 1) % R) - b) % R = R - Filled(R, a, b) + i - 1
           /\ i > Filled(R, a, b) =>
                 (((a + i - 1) % R) - b) % R = i - 1 - Filled(R, a, b)
<1>1. CASE a + i - 1 < R
  <2>1. (a + i - 1) % R = a + i - 1
    BY <1>1, Turns
  <2>2. (i - 1) % R = i - 1
    BY Turns
  <2>3. ASSUME a + i - 1 < b PROVE (a + i - 1 - b) % R = a + i - 1 - b + R
    BY <2>3, Turns
  <2>4. ASSUME a + i - 1 >= b PROVE (a + i - 1 - b) % R = a + i - 1 - b
    BY <1>1, <2>4, Turns
  <2>5. QED
    BY <1>1, <2>1, <2>2, <2>3, <2>4 DEF Filled
<1>2. CASE a + i - 1 >= R
  <2>1. (a + i - 1) % R = a + i - 1 - R
    <3> DEFINE x == a + i - 1
    <3>1. x \in R .. 2 * R - 1
      BY <1>2
    <3> HIDE DEF x
    <3>2. x % R = x - R
      BY <3>1, Turns
    <3>3. QED
      BY <3>2 DEF x
  <2>2. (i - 1 - R) % R = i - 1
    <3>1. i - 1 - R \in -R .. -1
      OBVIOUS
    <3>2. (i - 1 - R) % R = i - 1 - R + R
      BY <3>1, Turns
    <3>3. QED
      BY <3>2
  <2>3. ASSUME a + i - 1 - R < b PROVE (a + i - 1 - R - b) % R = a + i - 1 - b
    BY <1>2, <2>3, Turns
  <2>4. ASSUME a + i - 1 - R >= b PROVE (a + i - 1 - R - b) % R = a + i - 1 - R - b
    BY <1>2, <2>4, Turns
  <2>5. QED
    BY <1>2, <2>1, <2>2, <2>3, <2>4 DEF Filled
<1>3. QED
  BY <1>1, <1>2

LEMMA TwoTurns ==
    ASSUME NEW R \in Nat \ {0}, NEW a \in 0 .. R - 1, NEW n \in 0 .. R - 1,
           NEW i \in 1 .. R - n
    PROVE  (((a + n) % R) + i - 1) % R = (a + (n + i) - 1) % R
<1> DEFINE z == a + (n + i) - 1
<1>1. CASE a + n < R
  <2>1. (a + n) % R = a + n
    <3> DEFINE x == a + n
    <3>1. x \in 0 .. R - 1
      BY <1>1
    <3> HIDE DEF x
    <3>2. x % R = x
      BY <3>1, Turns
    <3>3. QED
      BY <3>2 DEF x
  <2>2. QED
    BY <2>1
<1>2. CASE a + n >= R
  <2>1. (a + n) % R = a + n - R
    <3> DEFINE x == a + n
    <3>1. x \in R .. 2 * R - 1
      BY <1>2
    <3> HIDE DEF x
    <3>2. x % R = x - R
      BY <3>1, Turns
    <3>3. QED
      BY <3>2 DEF x
  <2>2. ((a + n) % R) + i - 1 = z - R /\ z \in R .. 2 * R - 1
    BY <1>2, <2>1
  <2> HIDE DEF z
  <2>3. z % R = z - R
    BY <2>2, Turns
  <2>4. (z - R) % R = z - R
    <3> DEFINE y == z - R
    <3>1. y \in 0 .. R - 1
      BY <2>2
    <3> HIDE DEF y
    <3>2. y % R = y
      BY <3>1, Turns
    <3>3. QED
      BY <3>2 DEF y
  <2>5. QED
    BY <2>2, <2>3, <2>4 DEF z
<1>3. QED
  BY <1>1, <1>2

RingOpen == cbstart \in 0 .. RingSize - 1 /\ cbend \in 0 .. RingSize - 1

(* What get_free_bytes() leaves is what lies between the two indices.      *)
LEMMA ContentsLength ==
    ASSUME RingOpen
    PROVE  /\ RingSize - get_free_bytes = Filled(RingSize, cbstart, cbend)
           /\ get_free_bytes \in 1 .. RingSize
           /\ Filled(RingSize, cbstart, cbend) \in 0 .. RingSize - 1
           /\ Contents = [i \in 1 .. Filled(RingSize, cbstart, cbend) |->
                              cbbuf[(cbstart + i - 1) % RingSize]]
<1>1. RingSize - get_free_bytes = Filled(RingSize, cbstart, cbend)
  BY SizesAssumption DEF RingOpen, get_free_bytes, Filled
<1>2. get_free_bytes \in 1 .. RingSize
  BY SizesAssumption DEF RingOpen, get_free_bytes
<1>3. QED
  BY <1>1, <1>2, SizesAssumption DEF Contents

LEMMA ContentsAfter ==
    ASSUME RingOpen'
    PROVE  Contents' = [i \in 1 .. Filled(RingSize, cbstart', cbend') |->
                           cbbuf'[(cbstart' + i - 1) % RingSize]]
<1>1. RingSize - get_free_bytes' = Filled(RingSize, cbstart', cbend')
  BY SizesAssumption DEF RingOpen, get_free_bytes, Filled
<1>2. QED
  BY <1>1 DEF Contents

(* libmediacb_write() puts what it is given behind what is there.          *)
LEMMA CopyAppends ==
    ASSUME RingOpen, NEW S, NEW s \in Seq(S), Len(s) < get_free_bytes, Copy(s)
    PROVE  RingOpen' /\ Contents' = Contents \o s
<1> DEFINE R == RingSize
           L == Filled(R, cbstart, cbend)
           n == Len(s)
<1>1. /\ R \in Nat \ {0} /\ n \in Nat /\ L \in 0 .. R - 1 /\ L + n < R
      /\ Contents = [i \in 1 .. L |-> cbbuf[(cbstart + i - 1) % R]]
  BY ContentsLength, SizesAssumption
<1>2. /\ cbstart' = cbstart /\ cbend' = (cbend + n) % R
      /\ cbbuf' = [i \in 0 .. R - 1 |->
                      IF (i - cbend) % R < n THEN s[((i - cbend) % R) + 1] ELSE cbbuf[i]]
  BY DEF Copy
<1>3. cbend' \in 0 .. R - 1 /\ Filled(R, cbstart, cbend') = L + n
  <2>1. CASE cbend + n < R
    <3> DEFINE x == cbend + n
    <3>1. x \in 0 .. R - 1
      BY <1>1, <2>1 DEF RingOpen
    <3> HIDE DEF x, R
    <3>2. x % R = x
      BY <1>1, <3>1, Turns
    <3>3. cbend' = cbend + n
      BY <1>2, <3>2 DEF x, R
    <3>4. QED
      BY <1>1, <2>1, <3>3 DEF RingOpen, Filled, R
  <2>2. CASE cbend + n >= R
    <3> DEFINE x == cbend + n
    <3>1. x \in R .. 2 * R - 1
      BY <1>1, <2>2 DEF RingOpen
    <3> HIDE DEF x, R
    <3>2. x % R = x - R
      BY <1>1, <3>1, Turns
    <3>3. cbend' = x % R
      BY <1>2 DEF x
    <3>4. cbend' = cbend + n - R
      BY <1>1, <3>2, <3>3 DEF x, RingOpen
    <3>5. QED
      BY <1>1, <2>2, <3>4 DEF RingOpen, Filled, R
  <2>3. QED
    BY <1>1, <2>1, <2>2 DEF RingOpen
<1>4. RingOpen'
  BY <1>2, <1>3 DEF RingOpen
<1>5. Contents' = [i \in 1 .. L + n |-> cbbuf'[(cbstart + i - 1) % R]]
  <2>1. Contents' = [i \in 1 .. Filled(R, cbstart', cbend') |->
                        cbbuf'[(cbstart' + i - 1) % R]]
    BY <1>4, ContentsAfter
  <2>2. QED
    BY <1>2, <1>3, <2>1
<1>6. ASSUME NEW i \in 1 .. L + n
      PROVE  cbbuf'[(cbstart + i - 1) % R]
               = IF i <= L THEN cbbuf[(cbstart + i - 1) % R] ELSE s[i - L]
  <2> DEFINE k == (cbstart + i - 1) % R
  <2>1. /\ k \in 0 .. R - 1
        /\ i <= L => (k - cbend) % R = R - L + i - 1
        /\ i > L => (k - cbend) % R = i - 1 - L
    BY <1>1, RingIndex, SMTT(40) DEF RingOpen
  <2>2. cbbuf'[k] = IF (k - cbend) % R < n THEN s[((k - cbend) % R) + 1] ELSE cbbuf[k]
    BY <1>2, <2>1
  <2> HIDE DEF k
  <2>3. CASE i <= L
    BY <1>1, <2>1, <2>2, <2>3 DEF k
  <2>4. CASE i > L
    <3>1. (k - cbend) % R < n /\ ((k - cbend) % R) + 1 = i - L
      BY <1>1, <2>1, <2>4
    <3>2. cbbuf'[k] = s[i - L] /\ ~(i <= L)
      BY <1>1, <2>2, <2>4, <3>1
    <3>3. QED
      BY <3>2 DEF k
  <2>5. QED
    BY <1>1, <2>3, <2>4
<1>7. Contents \o s = [i \in 1 .. L + n |->
                         IF i <= L THEN cbbuf[(cbstart + i - 1) % R] ELSE s[i - L]]
  BY <1>1
<1>8. QED
  BY <1>4, <1>5, <1>6, <1>7

(* cbf() takes the oldest and leaves the rest.                             *)
LEMMA TakeIsTail ==
    ASSUME RingOpen, NEW n \in 1 .. Len(Contents),
           cbstart' = (cbstart + n) % RingSize, cbend' = cbend,
           cbbuf' = [i \in 0 .. RingSize - 1 |->
                        IF (i - cbstart) % RingSize < n THEN 0 ELSE cbbuf[i]]
    PROVE  RingOpen' /\ Contents' = SubSeq(Contents, n + 1, Len(Contents))
<1> DEFINE R == RingSize
           L == Filled(R, cbstart, cbend)
<1>1. /\ R \in Nat \ {0} /\ L \in 0 .. R - 1 /\ n \in 1 .. L
      /\ Contents = [i \in 1 .. L |-> cbbuf[(cbstart + i - 1) % R]]
  BY ContentsLength, SizesAssumption
<1>2. cbstart' \in 0 .. R - 1 /\ Filled(R, cbstart', cbend) = L - n
  <2> DEFINE x == cbstart + n
  <2>1. CASE x < R
    <3>1. x \in 0 .. R - 1
      BY <1>1, <2>1 DEF RingOpen
    <3> HIDE DEF x, R
    <3>2. x % R = x
      BY <1>1, <3>1, Turns
    <3>3. cbstart' = x
      BY <3>2 DEF x, R
    <3>4. QED
      BY <1>1, <3>1, <3>3 DEF x, R, RingOpen, Filled
  <2>2. CASE x >= R
    <3>1. x \in R .. 2 * R - 1
      BY <1>1, <2>2 DEF RingOpen
    <3> HIDE DEF x, R
    <3>2. x % R = x - R
      BY <1>1, <3>1, Turns
    <3>3. cbstart' = x - R
      BY <3>2 DEF x, R
    <3>4. QED
      BY <1>1, <3>1, <3>3 DEF x, R, RingOpen, Filled
  <2>3. QED
    BY <1>1, <2>1, <2>2 DEF RingOpen
<1>3. RingOpen'
  BY <1>2 DEF RingOpen
<1>4. Contents' = [i \in 1 .. L - n |-> cbbuf'[(cbstart' + i - 1) % R]]
  BY <1>2, <1>3, ContentsAfter
<1>5. ASSUME NEW i \in 1 .. L - n
      PROVE  (cbstart' + i - 1) % R = (cbstart + (n + i) - 1) % R
  <2>1. n \in 0 .. R - 1 /\ i \in 1 .. R - n /\ cbstart \in 0 .. R - 1
    BY <1>1 DEF RingOpen
  <2>2. (((cbstart + n) % R) + i - 1) % R = (cbstart + (n + i) - 1) % R
    BY <1>1, <2>1, TwoTurns
  <2>3. QED
    BY <2>2
<1>6. ASSUME NEW i \in 1 .. L - n
      PROVE  cbbuf'[(cbstart' + i - 1) % R] = cbbuf[(cbstart + (n + i) - 1) % R]
  <2> DEFINE k == (cbstart + (n + i) - 1) % R
  <2>1. n + i \in 1 .. R /\ n + i <= L
    BY <1>1
  <2>2. k \in 0 .. R - 1 /\ (k - cbstart) % R = n + i - 1
    BY <1>1, <2>1, RingIndex DEF RingOpen
  <2>3. cbbuf'[k] = IF (k - cbstart) % R < n THEN 0 ELSE cbbuf[k]
    BY <2>2
  <2> HIDE DEF k
  <2>4. cbbuf'[k] = cbbuf[k]
    BY <1>1, <2>2, <2>3
  <2>5. QED
    BY <1>5, <2>4 DEF k
<1>7. SubSeq(Contents, n + 1, Len(Contents))
        = [i \in 1 .. L - n |-> cbbuf[(cbstart + (n + i) - 1) % R]]
  BY <1>1
<1>8. QED
  BY <1>3, <1>4, <1>6, <1>7

-----------------------------------------------------------------------------
(* What a play function is about to write is sound, ...                    *)
WavInv ==
    /\ wavbuf \in Seq(Units) /\ next \in 1 .. FileLen + 1 /\ startpos \in 1 .. FileLen
    /\ written \in Nat /\ put \in Nat

(* ... and there is some from before the write until it is counted: none of *)
(* it is put before, and all of it after.                                  *)
Pending ==
    \/ pc.play \in {"put", "push", "wait", "woken", "count"}
    \/ pc.play = "unlock" /\ ~Play[codec].inside

Clean ==
    \/ pc.play \in {"begin", "loop", "decode", "write", "put", "wait", "woken"}
    \/ pc.play = "unlock" /\ Play[codec].inside

PutInv ==
    /\ Pending => wavbuf # <<>>
    /\ Clean => put = 0
    /\ pc.play = "push" => put < Len(Chunk) /\ mode # "CALLBACK"
    /\ Pending /\ pc.play \in {"unlock", "count"} => put = Len(Chunk)

(* What was put since the play was opened.                                 *)
Handed == written + put

(* The track holds what it has room for.                                   *)
RingType ==
    /\ cbbuf \in [0 .. RingSize - 1 -> 0 .. FileLen]
    /\ cbstart \in -1 .. RingSize - 1 /\ cbend \in 0 .. RingSize - 1
    /\ given \in Seq(0 .. FileLen) /\ heard \in 0 .. Len(given) /\ Held <= TrackSize
    /\ Handed \in Nat

(* What was put is given to the track or waits in the buffer, or was in it  *)
(* when it was thrown away.                                                *)
CountInv ==
    /\ mode # "CALLBACK" => Handed = Len(given)
    /\ mode = "CALLBACK" /\ cbstart >= 0 => Handed = Len(given) + Len(Contents)
    /\ mode = "CALLBACK" /\ cbstart < 0 => Handed - Len(given) \in 0 .. RingSize - 1

PlayInv == IInv /\ WavInv /\ PutInv /\ RingType /\ CountInv

(* The actions that leave the buffer and the sound alone.                  *)
Aside == UNCHANGED <<mode, cbbuf, cbstart, cbend, given, heard, written, put>>

LEMMA AsideKeeps == ASSUME RingType, CountInv, Aside PROVE RingType' /\ CountInv'
BY DEF Aside, RingType, CountInv, Contents, get_free_bytes, Handed, Held

LEMMA StopsAside ==
    ASSUME NEW t \in {"main", "play"}, audio_stop(t), ~StopRing(t)
    PROVE  Aside /\ UNCHANGED <<codec, wavbuf, next, startpos>>
BY DEF audio_stop, Test, Tested, CloseFile, Clear, Silence, Reset, Aside, ctx, ring, java,
       counts, hist, sound

LEMMA MainAside ==
    ASSUME Main, ~StopRing("main")
    PROVE  Aside /\ UNCHANGED <<codec, wavbuf, next>>
<1>1. CASE audio_stop("main")
  BY <1>1, StopsAside
<1>2. CASE ~audio_stop("main")
  BY <1>2 DEF Main, start, stop, StopAs, seekTo, pause, resume, Resumed, Join, Spawn, audioPause,
              Aside, ctx, ring, java, counts, hist, sound
<1>3. QED
  BY <1>1, <1>2

LEMMA PlayThreadAside ==
    ASSUME PlayThread, ~StopRing("play"), ~Open, ~audio_write, ~Count
    PROVE  Aside
<1>1. CASE audio_stop("play")
  BY <1>1, StopsAside
<1>2. CASE ~audio_stop("play")
  BY <1>2 DEF PlayThread, run, audioInit, OpenFails, Begin, Loop, Decode, Write, Unlock,
              Leave, Lock, Shut, Forget, End, StoppedFromMain, NearTheEnd, Drain, Sleep, Over, Complete,
              Aside, ctx, ring, java, counts, hist, sound
<1>3. QED
  BY <1>1, <1>2

-----------------------------------------------------------------------------
(* The decoded sound.                                                      *)
LEMMA ChunkFacts ==
    ASSUME WavInv, PutInv, Pending
    PROVE  /\ Chunk \in Seq(Units) /\ Len(Chunk) \in 1 .. ConfSize
           /\ SubSeq(wavbuf, Len(Chunk) + 1, Len(wavbuf)) \in Seq(Units)
<1>1. wavbuf \in Seq(Units) /\ Len(wavbuf) \in Nat \ {0} /\ ConfSize \in Nat \ {0}
  BY SizesAssumption DEF WavInv, PutInv
<1>2. CASE Len(wavbuf) < ConfSize
  <2>1. Chunk = wavbuf
    BY <1>2 DEF Chunk
  <2>2. SubSeq(wavbuf, Len(wavbuf) + 1, Len(wavbuf)) = <<>>
    BY <1>1
  <2>3. QED
    BY <1>1, <1>2, <2>1, <2>2
<1>3. CASE ~(Len(wavbuf) < ConfSize)
  <2>1. Chunk = SubSeq(wavbuf, 1, ConfSize)
    BY <1>3 DEF Chunk
  <2>2. Chunk \in Seq(Units) /\ Len(Chunk) = ConfSize
    BY <1>1, <1>3, <2>1
  <2>3. SubSeq(wavbuf, ConfSize + 1, Len(wavbuf)) \in Seq(Units)
    BY <1>1
  <2>4. QED
    BY <1>1, <2>2, <2>3
<1>4. QED
  BY <1>2, <1>3

LEMMA ChunkIsFirst ==
    ASSUME WavInv, PutInv, Pending
    PROVE  Chunk = SubSeq(wavbuf, 1, Len(Chunk)) /\ Len(Chunk) \in 1 .. Len(wavbuf)
<1>1. wavbuf \in Seq(Units) /\ Len(wavbuf) \in Nat \ {0} /\ ConfSize \in Nat \ {0}
  BY SizesAssumption DEF WavInv, PutInv
<1>2. CASE Len(wavbuf) < ConfSize
  BY <1>1, <1>2 DEF Chunk
<1>3. CASE ~(Len(wavbuf) < ConfSize)
  BY <1>1, <1>3 DEF Chunk
<1>4. QED
  BY <1>2, <1>3

LEMMA FrameFacts ==
    ASSUME WavInv, NEW n \in FrameSizes
    PROVE  n \in 1 .. FileLen + 1 - next
<1> DEFINE left == FileLen + 1 - next
<1>1. left \in Nat /\ ConfSize \in Nat \ {0} /\ Frames \subseteq Nat \ {0}
  BY SizesAssumption DEF WavInv
<1> HIDE DEF left
<1>2. CASE codec = "wav"
  <2>1. FrameSizes = {ConfSize} \cap 1 .. FileLen + 1 - next
    BY <1>2 DEF FrameSizes
  <2>2. QED
    BY <2>1
<1>3. CASE codec = "wv"
  <2>1. n = (IF left < ConfSize THEN left ELSE ConfSize) /\ n # 0
    BY <1>3 DEF FrameSizes, left
  <2>2. n \in 1 .. left
    BY <1>1, <2>1
  <2>3. QED
    BY <2>2 DEF left
<1>4. CASE codec \notin {"wav", "wv"}
  <2>1. n # 0 /\ \E f \in Frames : n = IF left < f THEN left ELSE f
    BY <1>4 DEF FrameSizes, left
  <2>2. PICK f \in Frames : n = IF left < f THEN left ELSE f
    BY <2>1
  <2>3. n \in 1 .. left
    BY <1>1, <2>1, <2>2
  <2>4. QED
    BY <2>3 DEF left
<1>5. QED
  BY <1>2, <1>3, <1>4

(* An action that leaves what is written alone has only its places to show.*)
LEMMA PutKept ==
    ASSUME PutInv, UNCHANGED <<codec, mode, wavbuf, put>>,
           Pending' => wavbuf # <<>>, Clean' => put = 0,
           pc'.play \in {"push", "count"} => pc.play = pc'.play,
           Pending' /\ pc'.play = "unlock" => Pending /\ pc.play = "unlock"
    PROVE  PutInv'
BY DEF PutInv, Pending, Clean, Chunk

LEMMA SamePlace ==
    ASSUME PutInv, UNCHANGED <<codec, mode, wavbuf, put>>,
           \/ pc'.play = pc.play
           \/ pc.play = "wait" /\ pc'.play = "woken"
           \/ pc'.play \notin {"begin", "loop", "decode", "write", "put", "push", "wait", "woken",
                              "unlock", "count"}
    PROVE  PutInv'
BY PutKept DEF PutInv, Pending, Clean

LEMMA MainWav == ASSUME IInv, WavInv, PutInv, Main PROVE WavInv' /\ PutInv'
<1>1. ASSUME StopRing("main") PROVE WavInv' /\ PutInv'
  <2>1. UNCHANGED <<codec, mode, wavbuf, next, startpos, written, put>>
    BY <1>1 DEF StopRing, counts
  <2>2. pc'.play = pc.play \/ (pc.play = "wait" /\ pc'.play = "woken")
    BY <1>1, StopRingMoves DEF IInv
  <2>3. QED
    BY <2>1, <2>2, SamePlace DEF WavInv
<1>2. ASSUME Spawn PROVE WavInv' /\ PutInv'
  <2>1. /\ UNCHANGED <<codec, mode, wavbuf, next, written, put>> /\ startpos' \in Starts
        /\ pc'.play = "run"
    BY <1>2 DEF Spawn
  <2>2. PutInv'
    BY <2>1, SamePlace
  <2>3. QED
    BY <2>1, <2>2, SizesAssumption DEF WavInv
<1>3. ASSUME ~StopRing("main"), ~Spawn PROVE WavInv' /\ PutInv'
  <2>1. UNCHANGED <<codec, mode, wavbuf, next, startpos, written, put>> /\ pc'.play = pc.play
    <3>1. CASE audio_stop("main")
      BY <1>3, <3>1 DEF audio_stop, Test, Tested, CloseFile, Clear, Silence, Reset, Goto, counts,
                        IInv, PCType
    <3>2. CASE ~audio_stop("main")
      BY <1>3, <3>2 DEF Main, start, stop, StopAs, seekTo, pause, resume, Resumed, Join,
                        audioPause, Goto, counts, IInv, PCType
    <3>3. QED
      BY <3>1, <3>2
  <2>2. QED
    BY <2>1, SamePlace DEF WavInv
<1>4. QED
  BY <1>1, <1>2, <1>3

(* A write is put, by the ring or by the track, ...                        *)
LEMMA WriteWav == ASSUME IInv, WavInv, PutInv, RingType, audio_write PROVE WavInv' /\ PutInv'
<1>1. /\ pc.play \in {"put", "push", "woken"} /\ Pending /\ wavbuf # <<>> /\ put \in Nat
      /\ UNCHANGED <<codec, mode, wavbuf, next, startpos, written>> /\ Chunk' = Chunk
      /\ DOMAIN pc = {"main", "play"}
  BY DEF audio_write, Pending, PutInv, WavInv, Chunk, IInv, PCType
<1>2. Len(Chunk) \in 1 .. ConfSize /\ ConfSize \in Nat
  BY <1>1, ChunkFacts, SizesAssumption
<1>3. pc.play # "push" => put = 0
  BY <1>1 DEF PutInv, Clean
<1> USE DEF Goto, Call
(* The whole of it is put.                                                 *)
<1>4. ASSUME Taken, put' = Len(Chunk) PROVE WavInv' /\ PutInv'
  <2>1. pc'.play = IF Play[codec].inside THEN "count" ELSE "unlock"
    BY <1>1, <1>4 DEF Taken
  <2>2. WavInv'
    BY <1>1, <1>2, <1>4 DEF WavInv
  <2>3. ~Clean' /\ pc'.play # "push"
    BY <1>1, <2>1 DEF Clean
  <2>4. QED
    BY <1>1, <1>4, <2>1, <2>2, <2>3 DEF PutInv, Pending
(* The play is over.                                                       *)
<1>5. ASSUME Short PROVE WavInv' /\ PutInv'
  <2>1. put' = put /\ pc'.play \in {"leave", "abandon"}
    BY <1>1, <1>5 DEF Short
  <2>2. QED
    BY <1>1, <2>1, SamePlace DEF WavInv
<1>6. CASE NothingToPut /\ pc.play = "put"
  <2>1. put' = put /\ pc'.play = "loop"
    BY <1>1, <1>6 DEF NothingToPut
  <2>2. QED
    BY <1>1, <1>3, <1>6, <2>1, PutKept DEF WavInv, Pending
<1>7. CASE Enter
  <2>1. put' = put /\ pc'.play = "push" /\ pc.play = "put" /\ mode # "CALLBACK"
    BY <1>1, <1>7 DEF Enter
  <2>2. put' = 0
    BY <1>3, <2>1
  <2>3. QED
    BY <1>1, <1>2, <2>1, <2>2 DEF WavInv, PutInv, Pending, Clean
<1>8. CASE PutRing /\ pc.play # "push"
  <2>1. CASE cbstart < 0
    BY <1>5, <1>8, <2>1 DEF PutRing
  <2>2. CASE cbstart >= 0 /\ Fits(Len(Chunk))
    <3>1. Taken /\ put' = Len(Chunk)
      BY <1>8, <2>2 DEF PutRing, RingType
    <3>2. QED
      BY <1>4, <3>1
  <2>3. CASE cbstart >= 0 /\ ~Fits(Len(Chunk))
    <3>1. put' = put /\ pc'.play = "wait"
      BY <1>1, <1>8, <2>3 DEF PutRing, RingType
    <3>2. QED
      BY <1>1, <1>3, <1>8, <3>1, PutKept DEF WavInv, Pending
  <2>4. QED
    BY <2>1, <2>2, <2>3 DEF RingType
<1>9. CASE PutTrack
  <2>1. CASE track # "playing"
    BY <1>5, <1>9, <2>1 DEF PutTrack
  <2>2. CASE track = "playing"
    <3> DEFINE rest == Len(Chunk) - put
               n    == IF Room < rest THEN Room ELSE rest
    <3>1. /\ pc.play = "push" /\ n > 0 /\ put' = put + n
          /\ IF n = rest THEN Taken ELSE pc' = pc
      BY <1>9, <2>2 DEF PutTrack
    <3>2. rest \in Nat \ {0} /\ Room \in Int
      <4>1. put < Len(Chunk)
        BY <3>1 DEF PutInv
      <4>2. Room \in Int
        BY SizesAssumption DEF Room, Held, RingType
      <4>3. QED
        BY <1>1, <1>2, <4>1, <4>2
    <3>3. n \in 1 .. rest
      BY <3>1, <3>2
    <3>4. CASE n = rest
      <4>1. put' = Len(Chunk)
        BY <1>1, <1>2, <3>1, <3>4
      <4>2. QED
        BY <1>4, <3>1, <3>4, <4>1
    <3>5. CASE n # rest
      <4>1. pc' = pc /\ put' \in Nat /\ put' < Len(Chunk)
        <5> HIDE DEF n
        <5>1. QED
          BY <1>1, <1>2, <3>1, <3>3, <3>5
      <4>2. WavInv'
        BY <1>1, <4>1 DEF WavInv
      <4>3. QED
        BY <1>1, <3>1, <4>1, <4>2 DEF PutInv, Pending, Clean
    <3>6. QED
      BY <3>4, <3>5
  <2>3. QED
    BY <2>1, <2>2
<1>10. QED
  BY <1>6, <1>7, <1>8, <1>9, <1>1 DEF audio_write, PutTrack, Enter

(* ... and then counted.                                                   *)
LEMMA CountWav ==
    ASSUME IInv, WavInv, PutInv, Count
    PROVE  /\ WavInv' /\ PutInv'
           /\ put \in 1 .. Len(wavbuf) /\ put = Len(Chunk)
<1>1. /\ pc.play = "count" /\ Pending /\ put = Len(Chunk)
      /\ wavbuf' = SubSeq(wavbuf, put + 1, Len(wavbuf)) /\ put' = 0 /\ written' = written + put
      /\ UNCHANGED <<codec, next, startpos>>
      /\ pc'.play = IF Play[codec].inside THEN "unlock" ELSE "write"
  BY DEF Count, Pending, PutInv, Goto, IInv, PCType
<1>2. /\ SubSeq(wavbuf, put + 1, Len(wavbuf)) \in Seq(Units) /\ put \in 1 .. Len(wavbuf)
      /\ put \in Nat
  BY <1>1, ChunkFacts, ChunkIsFirst, SizesAssumption
<1>3. WavInv'
  BY <1>1, <1>2 DEF WavInv
<1>4. ~Pending' /\ pc'.play # "push"
  BY <1>1 DEF Pending
<1>5. QED
  BY <1>1, <1>2, <1>3, <1>4 DEF PutInv

LEMMA PlayThreadWav ==
    ASSUME IInv, WavInv, PutInv, RingType, PlayThread
    PROVE  WavInv' /\ PutInv'
<1> USE DEF Goto, Call, ctx, ring, java, counts, hist, sound
<1>0. /\ DOMAIN pc = {"main", "play"} /\ FileLen \in Nat \ {0}
      /\ wavbuf \in Seq(Units) /\ next \in 1 .. FileLen + 1 /\ startpos \in 1 .. FileLen
      /\ written \in Nat /\ put \in Nat
  BY SizesAssumption DEF IInv, PCType, WavInv
<1>1. CASE audio_stop("play")
  <2>1. /\ UNCHANGED <<codec, mode, wavbuf, next, startpos, written, put>>
        /\ pc'.play \in Stopped \cup {"init", "open", "complete"}
    <3>1. CASE StopRing("play")
      <4>1. pc'.play = "silence"
        BY <3>1, StopRingMoves DEF IInv
      <4>2. QED
        BY <3>1, <4>1 DEF StopRing, Stopped
    <3>2. CASE ~StopRing("play")
      BY <1>0, <1>1, <3>2 DEF audio_stop, Test, Tested, CloseFile, Clear, Silence, Reset, IInv,
                              PCType, Back, Stopped
    <3>3. QED
      BY <3>1, <3>2
  <2>2. QED
    BY <1>0, <2>1, SamePlace DEF WavInv, Stopped
<1>2. CASE Open
  <2>1. /\ wavbuf' = <<>> /\ next' = First /\ written' = 0 /\ put' = 0 /\ startpos' = startpos
        /\ pc'.play = "begin"
    BY <1>0, <1>2 DEF Open, Opened
  <2>2. PutInv'
    BY <2>1 DEF PutInv, Pending
  <2>3. QED
    BY <1>0, <2>1, <2>2 DEF First, WavInv, Units
<1>3. CASE Decode
  <2>0. pc.play = "decode" /\ put = 0 /\ UNCHANGED <<codec, mode, startpos, written, put>>
    BY <1>3 DEF Decode, PutInv, Clean
  <2>1. CASE \E n \in FrameSizes : Frame(n)
    <3>1. PICK n \in FrameSizes : Frame(n)
      BY <2>1
    <3>2. n \in 1 .. FileLen + 1 - next
      BY FrameFacts
    <3>3. [i \in 1 .. n |-> next + i - 1] \in Seq(Units)
      BY <1>0, <3>2 DEF Units
    <3>4. wavbuf' \in Seq(Units) /\ next' \in 1 .. FileLen + 1
      BY <1>0, <3>1, <3>2, <3>3 DEF Frame
    <3>5. pc'.play = "write"
      BY <1>0, <3>1 DEF Frame
    <3>6. PutInv'
      BY <2>0, <3>5 DEF PutInv, Pending
    <3>7. QED
      BY <1>0, <2>0, <3>4, <3>6 DEF WavInv
  <2>2. CASE ~ \E n \in FrameSizes : Frame(n)
    <3>1. pc'.play = "leave" /\ UNCHANGED <<wavbuf, next>>
      BY <1>0, <1>3, <2>2 DEF Decode, Ends
    <3>2. QED
      BY <1>0, <2>0, <3>1, SamePlace DEF WavInv
  <2>3. QED
    BY <2>1, <2>2
<1>4. CASE Write
  <2>1. /\ UNCHANGED <<codec, mode, wavbuf, next, startpos, written, put>>
        /\ pc.play = "write" /\ pc'.play \in {"put", "loop"}
        /\ pc'.play = "put" => wavbuf # <<>>
    BY <1>0, <1>4, SizesAssumption DEF Write
  <2>2. put = 0
    BY <2>1 DEF PutInv, Clean
  <2>3. QED
    BY <1>0, <2>1, <2>2, PutKept DEF WavInv, Pending
<1>5. CASE audio_write
  BY <1>5, WriteWav
<1>6. CASE Count
  BY <1>6, CountWav
<1>7. CASE Unlock
  <2>1. /\ pc.play = "unlock" /\ UNCHANGED <<codec, mode, wavbuf, next, startpos, written, put>>
        /\ pc'.play = IF Play[codec].inside THEN "write" ELSE "count"
    BY <1>0, <1>7 DEF Unlock
  <2>2. Chunk' = Chunk
    BY <2>1 DEF Chunk
  <2>3. QED
    BY <1>0, <2>1, <2>2 DEF WavInv, PutInv, Pending, Clean
<1>8. CASE Over
  <2>1. /\ UNCHANGED <<startpos, written, put>> /\ wavbuf' = <<>> /\ next' = 1
        /\ pc'.play \in {"dead", "stop"}
    BY <1>0, <1>8 DEF Over
  <2>2. QED
    BY <1>0, <2>1 DEF WavInv, PutInv, Pending, Clean
<1>9. CASE Leave \/ End
  <2>1. after.play \in {"done", "fail", "broken", "break", "error"}
    BY <1>9 DEF Leave, End, IInv, PCType
  <2>2. Left \in {"drain", "abandon", "over"}
    BY <2>1 DEF Left
  <2>3. /\ UNCHANGED <<codec, mode, wavbuf, next, startpos, written, put>>
        /\ pc'.play \in {"lock", Left}
    BY <1>0, <1>9 DEF Leave, End
  <2>4. QED
    BY <1>0, <2>2, <2>3, SamePlace DEF WavInv
<1>10. CASE Begin \/ Loop
  <2>1. /\ UNCHANGED <<codec, mode, wavbuf, next, startpos, written, put>>
        /\ pc.play \in {"begin", "loop"} /\ pc'.play \in {"loop", "decode", "leave"}
    BY <1>0, <1>10 DEF Begin, Loop
  <2>2. put = 0
    BY <2>1 DEF PutInv, Clean
  <2>3. QED
    BY <1>0, <2>1, <2>2, PutKept DEF WavInv, Pending
<1>11. CASE \/ run \/ audioInit \/ OpenFails \/ Lock \/ Shut \/ Forget
            \/ StoppedFromMain \/ NearTheEnd \/ Drain \/ Sleep \/ Complete
  <2>1. UNCHANGED <<codec, mode, wavbuf, next, startpos, written, put>>
    BY <1>11 DEF run, audioInit, OpenFails, Lock, Shut, Forget, StoppedFromMain,
                 NearTheEnd, Drain, Sleep, Complete
  <2>2. pc'.play \in {"stop", "over", "end", "shut", "shut2", "abandon2", "drain", "sleep",
                      "doneWait", "dead"}
    BY <1>0, <1>11 DEF run, audioInit, OpenFails, Lock, Shut, Forget,
                       StoppedFromMain, NearTheEnd, Drain, Sleep, Complete
  <2>3. QED
    BY <1>0, <2>1, <2>2, SamePlace DEF WavInv
<1>12. QED
  BY <1>1, <1>2, <1>3, <1>4, <1>5, <1>6, <1>7, <1>8, <1>9, <1>10, <1>11 DEF PlayThread

LEMMA CbfWav == ASSUME IInv, WavInv, PutInv, cbf PROVE WavInv' /\ PutInv'
<1>1. UNCHANGED <<codec, mode, wavbuf, next, startpos, written, put>>
  BY DEF cbf, counts
<1>2. \/ pc'.play = pc.play
      \/ pc.play = "wait" /\ pc'.play = "woken"
      \/ pc'.play = "over"
  BY DEF cbf, Goto, IInv, PCType
<1>3. QED
  BY <1>1, <1>2, SamePlace DEF WavInv

-----------------------------------------------------------------------------
(* The four actions that touch the buffer or the sound.                    *)
LEMMA RingOpens == ASSUME RingType, cbstart >= 0 PROVE RingOpen
BY DEF RingType, RingOpen

LEMMA ContentsType == ASSUME RingType, RingOpen PROVE Contents \in Seq(0 .. FileLen)
<1> DEFINE L == Filled(RingSize, cbstart, cbend)
<1>1. /\ L \in 0 .. RingSize - 1
      /\ Contents = [i \in 1 .. L |-> cbbuf[(cbstart + i - 1) % RingSize]]
  BY ContentsLength
<1>2. ASSUME NEW i \in 1 .. L PROVE cbbuf[(cbstart + i - 1) % RingSize] \in 0 .. FileLen
  <2>1. i \in 1 .. RingSize /\ RingSize \in Nat \ {0}
    BY <1>1, SizesAssumption
  <2>2. (cbstart + i - 1) % RingSize \in 0 .. RingSize - 1
    BY <2>1, RingIndex DEF RingOpen
  <2>3. QED
    BY <2>2 DEF RingType
<1> HIDE DEF L
<1>3. QED
  BY <1>1, <1>2

(* The buffer is thrown away with what is in it.                           *)
LEMMA StopRingCounts ==
    ASSUME RingType, CountInv, NEW t \in {"main", "play"}, StopRing(t)
    PROVE  RingType' /\ CountInv'
<1>1. UNCHANGED <<mode, cbbuf, cbend, given, heard, written, put>>
  BY DEF StopRing, hist, sound, counts
<1>2. CASE cbstart' = cbstart
  BY <1>1, <1>2, AsideKeeps DEF Aside
<1>3. CASE cbstart' # cbstart
  <2>1. mode = "CALLBACK" /\ cbstart' = -1
    BY <1>3 DEF StopRing, Goto
  <2>2. RingType'
    BY <1>1, <2>1, SizesAssumption DEF RingType, Handed, Held
  <2>3. CountInv'
    <3>1. CASE cbstart < 0
      BY <1>1, <2>1, <3>1 DEF CountInv, Handed
    <3>2. CASE cbstart >= 0
      <4>1. Len(Contents) \in 0 .. RingSize - 1 /\ Handed = Len(given) + Len(Contents)
        BY <2>1, <3>2, RingOpens, ContentsLength DEF CountInv
      <4>2. QED
        BY <1>1, <2>1, <4>1 DEF CountInv, RingType, Handed
    <3>3. QED
      BY <3>1, <3>2 DEF RingType
  <2>4. QED
    BY <2>2, <2>3
<1>4. QED
  BY <1>2, <1>3

LEMMA OpenCounts ==
    ASSUME RingType, CountInv, Open
    PROVE  RingType' /\ CountInv' /\ (mode = "CALLBACK" => cbstart' = 0 /\ Contents' = <<>>)
<1>1. /\ given' = <<>> /\ heard' = 0 /\ mode' = mode
      /\ Handed' = 0 /\ Held' = 0 /\ TrackSize \in Nat
  BY SizesAssumption DEF Open, Opened, Handed, Held
<1>2. CASE mode = "CALLBACK"
  <2>1. cbstart' = 0 /\ cbend' = 0 /\ cbbuf' = Blank
    BY <1>2 DEF Open, Opened, audio_start, libmediacb_start
  <2>2. RingType' /\ RingOpen'
    BY <1>1, <2>1, SizesAssumption DEF RingType, RingOpen, Blank
  <2>3. Contents' = <<>>
    BY <2>1, <2>2, ContentsAfter DEF Filled
  <2>4. CountInv'
    BY <1>1, <1>2, <2>1, <2>3 DEF CountInv
  <2>5. QED
    BY <2>1, <2>2, <2>3, <2>4
<1>3. CASE mode # "CALLBACK"
  <2>1. UNCHANGED <<cbbuf, cbstart, cbend>>
    BY <1>3 DEF Open, Opened, audio_start, libmedia_start, msm_start, ring
  <2>2. QED
    BY <1>1, <1>3, <2>1 DEF RingType, CountInv
<1>4. QED
  BY <1>2, <1>3

(* A write changes nothing, puts a part of a chunk into the track, or       *)
(* appends a chunk to an open buffer.                                      *)
Pushes(n) ==
    /\ mode # "CALLBACK" /\ UNCHANGED <<mode, cbbuf, cbstart, cbend, heard, written>>
    /\ given' = given \o SubSeq(Chunk, put + 1, put + n) /\ put' = put + n /\ n <= Room

Appends(c) ==
    /\ mode = "CALLBACK" /\ cbstart >= 0 /\ RingOpen' /\ cbstart' = cbstart
    /\ Contents' = Contents \o c /\ Len(Contents) + Len(c) < RingSize
    /\ put = 0 /\ put' = Len(c) /\ UNCHANGED <<given, heard, written>>

LEMMA WriteCases ==
    ASSUME WavInv, PutInv, RingType, audio_write
    PROVE  \/ Aside
           \/ \E n \in 1 .. Len(Chunk) - put : Pushes(n)
           \/ mode' = mode /\ Copy(Chunk) /\ Appends(Chunk)
<1>1. /\ pc.play \in {"put", "push", "woken"} /\ UNCHANGED <<mode, heard, written>>
      /\ Pending /\ put \in Nat
  BY DEF audio_write, Pending, WavInv
<1>2. Chunk \in Seq(Units) /\ Len(Chunk) \in 1 .. ConfSize /\ ConfSize \in Nat
  BY <1>1, ChunkFacts, SizesAssumption
<1>3. CASE NothingToPut \/ Enter
  BY <1>1, <1>3 DEF NothingToPut, Enter, Aside, ring
<1>4. CASE PutTrack /\ (Enter \/ pc.play = "push") /\ ~Enter
  <2>1. CASE track # "playing"
    BY <1>1, <1>4, <2>1 DEF PutTrack, Short, Aside, ring
  <2>2. CASE track = "playing"
    <3> DEFINE rest == Len(Chunk) - put
               n    == IF Room < rest THEN Room ELSE rest
    <3>1. /\ pc.play = "push" /\ n > 0 /\ put' = put + n
          /\ given' = given \o SubSeq(Chunk, put + 1, put + n)
          /\ UNCHANGED <<cbbuf, cbstart, cbend>>
      BY <1>4, <2>2 DEF PutTrack, ring
    <3>2. rest \in Nat \ {0} /\ Room \in Int
      <4>1. put < Len(Chunk)
        BY <3>1 DEF PutInv
      <4>2. Room \in Int
        BY SizesAssumption DEF Room, Held, RingType
      <4>3. QED
        BY <1>1, <1>2, <4>1, <4>2
    <3>3. n \in 1 .. rest /\ n <= Room
      BY <3>1, <3>2
    <3>4. mode # "CALLBACK"
      BY <3>1 DEF PutInv
    <3> HIDE DEF n
    <3>5. QED
      BY <1>1, <3>1, <3>3, <3>4 DEF Pushes
  <2>3. QED
    BY <2>1, <2>2
<1>5. CASE PutRing /\ pc.play # "push"
  <2>0. put = 0
    BY <1>1, <1>5 DEF PutInv, Clean
  <2>1. CASE cbstart < 0 \/ ~Fits(Len(Chunk))
    BY <1>1, <1>5, <2>1 DEF PutRing, Short, Aside, ring
  <2>2. CASE cbstart >= 0 /\ Fits(Len(Chunk))
    <3>1. mode = "CALLBACK" /\ Copy(Chunk) /\ put' = Len(Chunk) /\ given' = given
      BY <1>5, <2>2 DEF PutRing, RingType
    <3>2. RingOpen /\ Len(Chunk) < get_free_bytes
      BY <1>2, <2>2, RingOpens, ContentsLength DEF Fits
    <3>3. RingOpen' /\ Contents' = Contents \o Chunk
      BY <1>2, <3>1, <3>2, CopyAppends
    <3>4. Len(Contents) + Len(Chunk) < RingSize
      <4>1. /\ RingSize - get_free_bytes = Len(Contents) /\ get_free_bytes \in 1 .. RingSize
            /\ RingSize \in Nat /\ Len(Contents) \in Nat
        BY <3>2, ContentsLength, SizesAssumption
      <4>2. QED
        BY <1>2, <3>2, <4>1
    <3>5. cbstart' = cbstart
      BY <3>1 DEF Copy
    <3>6. QED
      BY <1>1, <2>0, <2>2, <3>1, <3>3, <3>4, <3>5 DEF Appends
  <2>3. QED
    BY <2>1, <2>2 DEF RingType
<1>6. QED
  BY <1>1, <1>3, <1>4, <1>5 DEF audio_write, PutTrack, Enter

LEMMA WriteCounts ==
    ASSUME IInv, WavInv, PutInv, RingType, CountInv, audio_write
    PROVE  RingType' /\ CountInv'
<1>1. /\ Chunk \in Seq(Units) /\ Len(Chunk) \in 1 .. ConfSize /\ ConfSize \in Nat
      /\ FileLen \in Nat /\ put \in Nat /\ written \in Nat
  BY ChunkFacts, SizesAssumption DEF audio_write, Pending, WavInv
<1>2. CASE Aside
  BY <1>2, AsideKeeps
<1>3. ASSUME NEW n \in 1 .. Len(Chunk) - put, Pushes(n) PROVE RingType' /\ CountInv'
  <2> DEFINE part == SubSeq(Chunk, put + 1, put + n)
  <2>1. part \in Seq(0 .. FileLen) /\ Len(part) = n
    BY <1>1 DEF Units
  <2>2. given' = given \o part
    BY <1>3 DEF Pushes
  <2> HIDE DEF part
  <2>3. given' \in Seq(0 .. FileLen) /\ Len(given') = Len(given) + n /\ Len(given) \in Nat
    <3>1. given \in Seq(0 .. FileLen)
      BY DEF RingType
    <3>2. Len(given \o part) = Len(given) + Len(part) /\ given \o part \in Seq(0 .. FileLen)
      BY <2>1, <3>1
    <3>3. QED
      BY <2>1, <2>2, <3>1, <3>2
  <2>4. /\ Handed' = Handed + n /\ Handed \in Nat /\ heard' = heard /\ heard \in 0 .. Len(given)
        /\ n <= TrackSize - (Len(given) - heard) /\ TrackSize \in Nat
    BY <1>1, <1>3, SizesAssumption DEF Pushes, Handed, Room, Held, RingType
  <2>5. heard' \in 0 .. Len(given') /\ Held' <= TrackSize
    BY <2>3, <2>4 DEF Held
  <2>6. RingType'
    BY <1>1, <1>3, <2>3, <2>4, <2>5 DEF Pushes, RingType
  <2>7. CountInv'
    BY <1>3, <2>3, <2>4 DEF Pushes, CountInv
  <2>8. QED
    BY <2>6, <2>7
<1>4. CASE mode' = mode /\ Copy(Chunk) /\ Appends(Chunk)
  <2>1. cbbuf' \in [0 .. RingSize - 1 -> 0 .. FileLen]
    <3>1. cbbuf' = [i \in 0 .. RingSize - 1 |->
                      IF (i - cbend) % RingSize < Len(Chunk)
                      THEN Chunk[((i - cbend) % RingSize) + 1] ELSE cbbuf[i]]
      BY <1>4 DEF Copy
    <3>2. ASSUME NEW i \in 0 .. RingSize - 1 PROVE cbbuf'[i] \in 0 .. FileLen
      <4> DEFINE j == (i - cbend) % RingSize
      <4>1. j \in Nat
        <5> DEFINE x == i - cbend
        <5>1. x \in Int /\ RingSize \in Nat \ {0}
          BY SizesAssumption DEF RingType
        <5> HIDE DEF x
        <5>2. x % RingSize \in Nat
          BY <5>1
        <5>3. QED
          BY <5>2 DEF x
      <4>2. cbbuf'[i] = IF j < Len(Chunk) THEN Chunk[j + 1] ELSE cbbuf[i]
        BY <3>1
      <4> HIDE DEF j
      <4>3. CASE j < Len(Chunk)
        <5>1. Chunk[j + 1] \in Units
          BY <1>1, <4>1, <4>3
        <5>2. QED
          BY <1>1, <4>2, <4>3, <5>1 DEF Units
      <4>4. CASE ~(j < Len(Chunk))
        BY <4>2, <4>4 DEF RingType
      <4>5. QED
        BY <4>3, <4>4
    <3>3. QED
      BY <3>1, <3>2
  <2>2. Len(Contents') = Len(Contents) + Len(Chunk) /\ Len(Contents) \in Nat
    <3>1. Contents \in Seq(0 .. FileLen)
      <4>1. RingOpen
        BY <1>4, RingOpens DEF Appends
      <4>2. QED
        BY <4>1, ContentsType
    <3>2. QED
      BY <1>1, <1>4, <3>1 DEF Appends
  <2>3. Handed' = Handed + Len(Chunk) /\ Handed \in Nat /\ Handed' \in Nat
    BY <1>1, <1>4 DEF Appends, Handed
  <2>4. UNCHANGED <<given, heard>> /\ Held' = Held
    BY <1>4 DEF Appends, Held
  <2>5. RingType'
    BY <1>4, <2>1, <2>3, <2>4 DEF Appends, RingOpen, RingType
  <2>6. CountInv'
    <3>1. Handed = Len(given) + Len(Contents) /\ Len(given) \in Nat
      BY <1>4 DEF Appends, CountInv, RingType
    <3>2. Handed' = Len(given') + Len(Contents')
      BY <1>1, <2>2, <2>3, <2>4, <3>1
    <3>3. mode' = "CALLBACK" /\ ~(cbstart' < 0)
      BY <1>4 DEF Appends, RingType
    <3>4. QED
      BY <3>2, <3>3 DEF CountInv
  <2>7. QED
    BY <2>5, <2>6
<1>5. QED
  BY <1>2, <1>3, <1>4, WriteCases

(* Counting moves a write from one count to the other, ...                 *)
LEMMA CountCounts ==
    ASSUME WavInv, RingType, CountInv, Count
    PROVE  RingType' /\ CountInv'
<1>1. /\ UNCHANGED <<mode, cbbuf, cbstart, cbend, given, heard>>
      /\ written' = written + put /\ put' = 0
  BY DEF Count, ring, hist, sound
<1>2. Handed' = Handed
  BY <1>1 DEF Handed, WavInv
<1>3. QED
  BY <1>1, <1>2 DEF RingType, CountInv, Contents, get_free_bytes, Held

(* ... and the track holds less when it has played.                        *)
LEMMA TrackCounts ==
    ASSUME RingType, CountInv, Sound
    PROVE  RingType' /\ CountInv'
<1>1. /\ UNCHANGED <<mode, cbbuf, cbstart, cbend, given, written, put>>
      /\ heard' = heard + 1 /\ Held > 0
  BY DEF Sound, ring, counts
<1>2. heard' \in 0 .. Len(given') /\ Held' <= TrackSize
  BY <1>1, SizesAssumption DEF RingType, Held
<1>3. QED
  BY <1>1, <1>2 DEF RingType, CountInv, Contents, get_free_bytes, Handed

LEMMA CbfCases ==
    ASSUME RingType, cbf
    PROVE  \/ Aside
           \/ \E n \in 1 .. Len(Contents) :
                 /\ mode = "CALLBACK" /\ cbstart >= 0 /\ RingOpen'
                 /\ UNCHANGED <<mode, heard, written, put>>
                 /\ given' = given \o SubSeq(Contents, 1, n) /\ n <= Room
                 /\ Contents' = SubSeq(Contents, n + 1, Len(Contents))
                 /\ cbbuf' \in [0 .. RingSize - 1 -> 0 .. FileLen]
<1>1. PICK size \in Requests :
        /\ mode = "CALLBACK" /\ track = "playing" /\ size <= Room /\ cbstart >= 0
        /\ LET n == IF Len(Contents) < size THEN Len(Contents) ELSE size
           IN  IF n = 0
               THEN UNCHANGED <<given, cbbuf, cbstart>>
               ELSE /\ given' = given \o SubSeq(Contents, 1, n)
                    /\ cbstart' = (cbstart + n) % RingSize
                    /\ cbbuf' = [i \in 0 .. RingSize - 1 |->
                                    IF (i - cbstart) % RingSize < n THEN 0 ELSE cbbuf[i]]
        /\ UNCHANGED <<mode, cbend, heard, written, put>>
  BY DEF cbf, counts
<1>2. RingOpen /\ Len(Contents) \in Nat /\ size \in Nat \ {0} /\ Room \in Int
  BY <1>1, RingOpens, ContentsLength, SizesAssumption DEF Room, Held, RingType
<1> DEFINE n == IF Len(Contents) < size THEN Len(Contents) ELSE size
<1>3. CASE n = 0
  BY <1>1, <1>3 DEF Aside
<1>4. CASE n # 0
  <2>1. n \in 1 .. Len(Contents) /\ n <= Room
    BY <1>1, <1>2, <1>4
  <2>2. /\ given' = given \o SubSeq(Contents, 1, n) /\ cbstart' = (cbstart + n) % RingSize
        /\ cbbuf' = [i \in 0 .. RingSize - 1 |->
                        IF (i - cbstart) % RingSize < n THEN 0 ELSE cbbuf[i]]
    BY <1>1, <1>4
  <2> HIDE DEF n
  <2>3. RingOpen' /\ Contents' = SubSeq(Contents, n + 1, Len(Contents))
    BY <1>1, <1>2, <2>1, <2>2, TakeIsTail
  <2>4. cbbuf' \in [0 .. RingSize - 1 -> 0 .. FileLen]
    BY <2>2, SizesAssumption DEF RingType
  <2>5. QED
    BY <1>1, <2>1, <2>2, <2>3, <2>4
<1>5. QED
  BY <1>3, <1>4

LEMMA Cut ==
    ASSUME NEW S, NEW s \in Seq(S), NEW n \in 1 .. Len(s)
    PROVE  /\ SubSeq(s, 1, n) \in Seq(S) /\ Len(SubSeq(s, 1, n)) = n
           /\ Len(SubSeq(s, n + 1, Len(s))) = Len(s) - n
<1>1. SubSeq(s, 1, n) \in Seq(S) /\ Len(SubSeq(s, 1, n)) = n
  OBVIOUS
<1>2. CASE n = Len(s)
  BY <1>1, <1>2
<1>3. CASE n < Len(s)
  BY <1>1, <1>3
<1>4. QED
  BY <1>1, <1>2, <1>3

LEMMA CbfCounts ==
    ASSUME RingType, CountInv, cbf
    PROVE  RingType' /\ CountInv'
<1>1. CASE Aside
  BY <1>1, AsideKeeps
<1>2. ASSUME NEW n \in 1 .. Len(Contents),
             mode = "CALLBACK", cbstart >= 0, RingOpen',
             UNCHANGED <<mode, heard, written, put>>,
             given' = given \o SubSeq(Contents, 1, n), n <= Room,
             Contents' = SubSeq(Contents, n + 1, Len(Contents)),
             cbbuf' \in [0 .. RingSize - 1 -> 0 .. FileLen]
      PROVE  RingType' /\ CountInv'
  <2>1. Contents \in Seq(0 .. FileLen) /\ given \in Seq(0 .. FileLen)
    BY <1>2, RingOpens, ContentsType DEF RingType
  <2>2. /\ SubSeq(Contents, 1, n) \in Seq(0 .. FileLen) /\ Len(SubSeq(Contents, 1, n)) = n
        /\ Len(SubSeq(Contents, n + 1, Len(Contents))) = Len(Contents) - n
    BY <1>2, <2>1, Cut
  <2>3. given' \in Seq(0 .. FileLen) /\ Len(given') = Len(given) + n
    BY <1>2, <2>1, <2>2
  <2>4. Handed' = Handed /\ Handed \in Nat
    BY <1>2 DEF Handed, RingType
  <2>5. Len(Contents) \in Nat /\ Len(given) \in Nat /\ n \in Nat
    BY <1>2, <2>1
  <2>6. heard' \in 0 .. Len(given') /\ Held' <= TrackSize
    <3>1. heard \in 0 .. Len(given) /\ n <= TrackSize - (Len(given) - heard) /\ TrackSize \in Nat
      BY <1>2, SizesAssumption DEF RingType, Room, Held
    <3>2. QED
      BY <1>2, <2>3, <2>5, <3>1 DEF Held
  <2>7. RingType'
    <3>1. cbstart' \in -1 .. RingSize - 1 /\ cbend' \in 0 .. RingSize - 1
      BY <1>2, SizesAssumption DEF RingOpen
    <3>2. QED
      BY <1>2, <2>3, <2>4, <2>6, <3>1 DEF RingType
  <2>8. CountInv'
    <3>1. Handed = Len(given) + Len(Contents)
      BY <1>2 DEF CountInv
    <3>2. Handed' = Len(given') + Len(Contents')
      <4>1. Len(Contents') = Len(Contents) - n
        BY <1>2, <2>2
      <4>2. QED
        BY <2>3, <2>4, <2>5, <3>1, <4>1
    <3>3. cbstart' >= 0 /\ mode' = "CALLBACK" /\ ~(cbstart' < 0)
      BY <1>2 DEF RingOpen
    <3>4. QED
      BY <3>2, <3>3 DEF CountInv
  <2>9. QED
    BY <2>7, <2>8
<1>3. QED
  BY <1>1, <1>2, CbfCases

LEMMA InitPlayInv == Init => PlayInv
<1> SUFFICES ASSUME Init PROVE PlayInv
  OBVIOUS
<1>1. IInv
  BY InitIInv
<1>2. RingType /\ RingOpen
  <2>1. given = <<>> /\ heard = 0 /\ Handed = 0 /\ Held = 0
    BY DEF Init, Handed, Held
  <2>2. QED
    BY <2>1, SizesAssumption DEF Init, RingType, RingOpen, Blank
<1>3. Contents = <<>>
  BY <1>2, ContentsLength DEF Init, Filled
<1>4. WavInv /\ PutInv /\ CountInv
  BY <1>3, SizesAssumption DEF Init, WavInv, PutInv, Pending, Clean, CountInv, Units, Handed
<1>5. QED
  BY <1>1, <1>2, <1>4 DEF PlayInv

LEMMA NextPlayInv == PlayInv /\ [Next]_vars => PlayInv'
<1> SUFFICES ASSUME PlayInv, [Next]_vars PROVE PlayInv'
  OBVIOUS
<1>1. IInv /\ WavInv /\ PutInv /\ RingType /\ CountInv
  BY DEF PlayInv
<1>2. CASE Main
  <2>1. RingType' /\ CountInv'
    <3>1. CASE StopRing("main")
      BY <1>1, <3>1, StopRingCounts
    <3>2. CASE ~StopRing("main")
      BY <1>1, <1>2, <3>2, MainAside, AsideKeeps
    <3>3. QED
      BY <3>1, <3>2
  <2>2. QED
    BY <1>1, <1>2, <2>1, MainIInv, MainWav DEF PlayInv
<1>3. CASE PlayThread
  <2>1. RingType' /\ CountInv'
    <3>1. CASE StopRing("play")
      BY <1>1, <3>1, StopRingCounts
    <3>2. CASE Open
      BY <1>1, <3>2, OpenCounts
    <3>3. CASE audio_write
      BY <1>1, <3>3, WriteCounts
    <3>4. CASE Count
      BY <1>1, <3>4, CountCounts
    <3>5. CASE ~StopRing("play") /\ ~Open /\ ~audio_write /\ ~Count
      BY <1>1, <1>3, <3>5, PlayThreadAside, AsideKeeps
    <3>6. QED
      BY <3>1, <3>2, <3>3, <3>4, <3>5
  <2>2. QED
    BY <1>1, <1>3, <2>1, PlayThreadIInv, PlayThreadWav DEF PlayInv
<1>4. CASE cbf
  BY <1>1, <1>4, CbfIInv, CbfWav, CbfCounts DEF PlayInv
<1>5. CASE Sound
  <2>1. UNCHANGED <<codec, mode, wavbuf, next, pc, startpos, written, put>>
    BY <1>5 DEF Sound, counts
  <2>2. WavInv' /\ PutInv'
    BY <1>1, <2>1, SamePlace DEF WavInv
  <2>3. QED
    BY <1>1, <1>5, <2>2, TrackIInv, TrackCounts DEF PlayInv
<1>6. CASE UNCHANGED vars
  <2>1. UNCHANGED <<codec, mode, wavbuf, next, pc, startpos, written, put>> /\ Aside
    BY <1>6 DEF vars, Aside, ring, hist, sound, counts
  <2>2. IInv' /\ WavInv' /\ PutInv'
    BY <1>1, <1>6, <2>1, StutterIInv, SamePlace DEF WavInv
  <2>3. QED
    BY <1>1, <2>1, <2>2, AsideKeeps DEF PlayInv
<1>7. QED
  BY <1>2, <1>3, <1>4, <1>5, <1>6 DEF Next

(* The invariant of the player with its buffer: besides IInv, what was      *)
(* put, counted (ctx->written, main.c:112) or not, was given to the track   *)
(* or waits for it; what is put is counted once, after the write.          *)
THEOREM PlayInvariance == Spec => []PlayInv
BY InitPlayInv, NextPlayInv, PTL DEF Spec

(* What was counted is behind what was heard by no more than a write that   *)
(* is not counted, and ahead of it by what can wait.                       *)
LEMMA CountedIsNear ==
    ASSUME PlayInv
    PROVE  written \in heard - put .. heard + Ahead
<1>1. /\ written \in Nat /\ put \in Nat /\ Len(given) \in Nat /\ heard \in 0 .. Len(given)
      /\ Len(given) - heard <= TrackSize /\ TrackSize \in Nat /\ RingSize \in Nat \ {0}
  BY SizesAssumption DEF PlayInv, RingType, WavInv, Held
<1>2. written + put - Len(given) \in 0 .. (IF mode = "CALLBACK" THEN RingSize - 1 ELSE 0)
  <2>1. CASE mode # "CALLBACK"
    BY <1>1, <2>1 DEF PlayInv, CountInv, Handed
  <2>2. CASE mode = "CALLBACK" /\ cbstart < 0
    BY <1>1, <2>2 DEF PlayInv, CountInv, Handed
  <2>3. CASE mode = "CALLBACK" /\ cbstart >= 0
    <3>1. Len(Contents) \in 0 .. RingSize - 1
      BY <2>3, RingOpens, ContentsLength DEF PlayInv
    <3>2. QED
      BY <1>1, <2>3, <3>1 DEF PlayInv, CountInv, Handed
  <2>4. QED
    BY <2>1, <2>2, <2>3 DEF PlayInv, RingType
<1>3. QED
  BY <1>1, <1>2 DEF Ahead

(* getCurrentPosition() (LosslessMediaCodecHandler.java:304) is that of a   *)
(* unit that is written and not heard yet, or heard and not counted yet,    *)
(* at the rate at which the codec counts what it writes.                   *)
THEOREM PositionIsThatOfTheSound == Spec => []PositionFollowsTheSound
<1>1. PlayInv => PositionFollowsTheSound
  <2> SUFFICES ASSUME PlayInv, ~stopped, state # "STOPPED", NEW r \in Play[codec].rates
               PROVE  \E n \in heard - put .. heard + Ahead :
                         getCurrentPosition(r) = startpos - 1 + (n * r[1]) \div r[2]
    BY DEF PositionFollowsTheSound
  <2>1. getCurrentPosition(r) = startpos - 1 + (written * r[1]) \div r[2]
    BY DEF getCurrentPosition, audioGetCurPosition
  <2>2. QED
    BY <2>1, CountedIsNear
<1>2. QED
  BY <1>1, PlayInvariance, PTL

-----------------------------------------------------------------------------
(* The callback buffer is a pipe.                                          *)
PutChunk   == Pipe!Put
TakeSome   == Pipe!Get
ThrowAway  == Pipe!Drop
OpenAnew   == Pipe!Reopen
Shown      == <<Waiting, cbstart >= 0, IF mode = "CALLBACK" THEN given ELSE <<>>>>

LEMMA AsidePipe == ASSUME Aside PROVE UNCHANGED Shown
BY DEF Aside, Shown, Waiting, Contents, get_free_bytes

LEMMA StopRingPipe ==
    ASSUME RingType, NEW t \in {"main", "play"}, StopRing(t)
    PROVE  ThrowAway \/ UNCHANGED Shown
<1>1. UNCHANGED <<mode, cbbuf, cbend, given, heard, written, put>>
  BY DEF StopRing, hist, sound, counts
<1>2. CASE cbstart' = cbstart
  BY <1>1, <1>2, AsidePipe DEF Aside
<1>3. CASE cbstart' # cbstart
  <2>1. mode = "CALLBACK" /\ cbstart' = -1
    BY <1>3 DEF StopRing, Goto
  <2>2. QED
    BY <1>1, <2>1 DEF ThrowAway, Pipe!Drop, Waiting
<1>4. QED
  BY <1>2, <1>3

LEMMA OpenPipe ==
    ASSUME RingType, CountInv, Open
    PROVE  OpenAnew \/ UNCHANGED Shown
<1>1. given' = <<>> /\ mode' = mode
  BY DEF Open, Opened
<1>2. CASE mode = "CALLBACK"
  BY <1>1, <1>2, OpenCounts DEF OpenAnew, Pipe!Reopen, Waiting
<1>3. CASE mode # "CALLBACK"
  <2>1. UNCHANGED <<cbbuf, cbstart, cbend>>
    BY <1>3 DEF Open, Opened, audio_start, libmedia_start, msm_start, ring
  <2>2. QED
    BY <1>1, <1>3, <2>1 DEF Shown, Waiting
<1>4. QED
  BY <1>2, <1>3

LEMMA WritePipe ==
    ASSUME WavInv, PutInv, RingType, audio_write
    PROVE  PutChunk \/ UNCHANGED Shown
<1>1. Chunk \in Seq(Units) /\ Len(Chunk) \in 1 .. ConfSize
  BY ChunkFacts DEF audio_write, Pending
<1>2. CASE Aside
  BY <1>2, AsidePipe
<1>3. ASSUME NEW n \in 1 .. Len(Chunk) - put, Pushes(n) PROVE UNCHANGED Shown
  BY <1>3 DEF Pushes, Shown, Waiting
<1>4. CASE mode' = mode /\ Copy(Chunk) /\ Appends(Chunk)
  <2>1. Chunk \in [1 .. Len(Chunk) -> Units]
    BY <1>1
  <2>2. QED
    BY <1>1, <1>4, <2>1 DEF Appends, PutChunk, Pipe!Put, Waiting
<1>5. QED
  BY <1>2, <1>3, <1>4, WriteCases

(* Counting, and the playing of the track, are not the buffer's.           *)
LEMMA RestPipe == ASSUME Count \/ Sound PROVE UNCHANGED Shown
BY DEF Count, Sound, ctx, ring, hist, sound, Shown, Waiting, Contents, get_free_bytes

LEMMA CbfPipe ==
    ASSUME RingType, cbf
    PROVE  TakeSome \/ UNCHANGED Shown
<1>1. CASE Aside
  BY <1>1, AsidePipe
<1>2. ASSUME NEW n \in 1 .. Len(Contents),
             mode = "CALLBACK", cbstart >= 0, RingOpen', mode' = mode,
             given' = given \o SubSeq(Contents, 1, n),
             Contents' = SubSeq(Contents, n + 1, Len(Contents))
      PROVE  TakeSome
  <2>1. cbstart' >= 0 /\ mode' = "CALLBACK"
    BY <1>2 DEF RingOpen
  <2>2. Pipe!Get = \E k \in 1 .. Len(Contents) :
                     /\ given' = given \o SubSeq(Contents, 1, k)
                     /\ Contents' = SubSeq(Contents, k + 1, Len(Contents))
                     /\ UNCHANGED (cbstart >= 0)
    BY <1>2, <2>1 DEF Pipe!Get, Waiting
  <2>3. QED
    BY <1>2, <2>1, <2>2 DEF TakeSome
<1>3. QED
  BY <1>1, <1>2, CbfCases

(* libmediacb_write(), cbf() and libmediacb_stop() (std_audio.cpp:185-321)  *)
(* make the callback buffer a first-in first-out pipe of less than RingSize *)
(* units, for every size of the buffer, the writes and the requests.       *)
THEOREM PipeRefinement == Spec => ImplementsPipe
<1>1. Init => Pipe!PipeInit
  <2> SUFFICES ASSUME Init PROVE Pipe!PipeInit
    OBVIOUS
  <2>1. RingOpen
    BY SizesAssumption DEF Init, RingOpen
  <2>2. Contents = <<>>
    BY <2>1, ContentsLength DEF Init, Filled
  <2>3. QED
    BY <2>2 DEF Init, Pipe!PipeInit, Waiting
<1>2. PlayInv /\ [Next]_vars
        => [Pipe!Put \/ Pipe!Get \/ Pipe!Drop \/ Pipe!Reopen]_Shown
  <2> SUFFICES ASSUME PlayInv, [Next]_vars
               PROVE  PutChunk \/ TakeSome \/ ThrowAway \/ OpenAnew \/ UNCHANGED Shown
    BY DEF PutChunk, TakeSome, ThrowAway, OpenAnew
  <2>1. IInv /\ WavInv /\ PutInv /\ RingType /\ CountInv
    BY DEF PlayInv
  <2>2. CASE Main
    BY <2>1, <2>2, StopRingPipe, MainAside, AsidePipe
  <2>3. CASE PlayThread
    BY <2>1, <2>3, StopRingPipe, OpenPipe, WritePipe, PlayThreadAside, AsidePipe, RestPipe
  <2>4. CASE cbf \/ Sound
    BY <2>1, <2>4, CbfPipe, RestPipe
  <2>5. CASE UNCHANGED vars
    BY <2>5, AsidePipe DEF vars, Aside, ring, hist, sound, counts
  <2>6. QED
    BY <2>2, <2>3, <2>4, <2>5 DEF Next
<1>3. QED
  BY <1>1, <1>2, PlayInvariance, PTL DEF Spec, ImplementsPipe, Pipe!PipeSpec, Shown

-----------------------------------------------------------------------------
(* The end of a play.  Stages of the play thread: its loop, the way out of *)
(* it, and the wait for the sound.                                         *)
Running  == {"begin", "loop", "decode", "write", "put", "push", "wait", "woken", "unlock", "count"}
Leaving  == {"leave", "lock", "shut", "shut2", "end"}
Draining == {"drain", "sleep", "doneWait"}

(* The sound that the track was given is that of the present play.         *)
Sounding ==
    \/ pc.play \in Running \cup Leaving \cup Draining \cup {"abandon", "abandon2"}
    \/ pc.play = "over" /\ outcome # "unopened"

(* Who holds the mutex: a pause, or a write.                               *)
HoldInv ==
    /\ plays \in Nat /\ (pc.play # "dead" => plays > 0)
    /\ state = "PAUSED" => mutex = "main"
    /\ pc.play \in {"put", "push", "wait", "woken", "unlock"} => mutex = "play"
    /\ pc.play = "count" /\ Play[codec].inside => mutex = "play"
    /\ pc.main \in Stopped => ~ignored

(* What a play that is not being stopped finds: its file, a track that     *)
(* takes sound unless it is paused, and an open buffer.                    *)
UndisturbedInv ==
    ~Stopping =>
        /\ pc.play \in Running =>
             /\ fd # 0 /\ fd \in files
             /\ track # "none"
             /\ state # "PAUSED" \/ mode = "DIRECT" => track = "playing"
             /\ pc.play # "begin" => state # "STOPPED"
        /\ Sounding /\ mode = "CALLBACK" => cbstart >= 0

OutcomeInv ==
    /\ pc.play \in Running \cup Leaving => outcome = "none"
    /\ pc.play \in {"sleep", "doneWait"} => outcome = How /\ mode = "CALLBACK"

ControlInv == HoldInv /\ UndisturbedInv /\ OutcomeInv

LEMMA MainControl ==
    ASSUME IInv, ControlInv, Main
    PROVE  ControlInv'
<1> USE DEF IInv, PCType, StateInv, StopInv, Stopped, Opening, InPlay, MainPC, PlayPC,
            ControlInv, HoldInv, UndisturbedInv, OutcomeInv, Stopping, Sounding, Running,
            Leaving, Draining, How, Goto, ctx, ring, java, counts, hist, sound
<1>1. CASE stop("idle")
  BY <1>1 DEF stop, StopAs
<1>2. CASE seekTo
  BY <1>2 DEF seekTo, stop, StopAs
<1>3. CASE pause
  BY <1>3 DEF pause
<1>4. CASE resume
  BY <1>4 DEF resume, Resumed
<1>5. CASE Test("main")
  BY <1>5, ZenonT(60) DEF Test, Tested, Back
<1>6. CASE CloseFile("main")
  BY <1>6 DEF CloseFile, Close
<1>7. CASE Clear("main")
  BY <1>7 DEF Clear
<1>8. CASE StopRing("main")
  <2>1. /\ pc.main = "ring" /\ pc'.main = "silence"
        /\ \/ pc'.play = pc.play
           \/ pc.play = "wait" /\ pc'.play = "woken"
    BY <1>8, StopRingMoves
  <2>2. UNCHANGED <<codec, mode, ctx, wavbuf, next, after, java, counts, hist>>
    BY <1>8 DEF StopRing
  <2>3. QED
    BY <2>1, <2>2
<1>9. CASE Silence("main")
  BY <1>9 DEF Silence, Reset, Back
<1>10. CASE Join
  BY <1>10 DEF Join
<1>11. CASE Spawn
  BY <1>11 DEF Spawn
<1>12. CASE audioPause
  BY <1>12 DEF audioPause
<1>13. QED
  BY <1>1, <1>2, <1>3, <1>4, <1>5, <1>6, <1>7, <1>8, <1>9, <1>10, <1>11, <1>12
  DEF Main, start, audio_stop

(* The play thread leaves the main thread's part of a stop alone.          *)
LEMMA StoppingKept ==
    ASSUME PCType, PlayThread \/ cbf \/ Sound
    PROVE  pc'.main = pc.main /\ ignored' = ignored
<1>1. CASE cbf \/ Sound
  BY <1>1 DEF cbf, Sound, PCType, Goto
<1>2. CASE audio_stop("play")
  <2>1. CASE StopRing("play")
    BY <2>1, StopRingMoves DEF StopRing, hist, sound
  <2>2. CASE ~StopRing("play")
    BY <1>2, <2>2 DEF audio_stop, Test, Tested, CloseFile, Clear, Silence, Reset, PCType, Goto,
                      hist, sound
  <2>3. QED
    BY <2>1, <2>2
<1>3. CASE PlayThread /\ ~audio_stop("play")
  BY <1>3 DEF PlayThread, PCType, Goto, Call, hist, sound,
              run, audioInit, Open, Opened, OpenFails, Begin, Loop, Decode, Frame, Ends, Write,
              audio_write, Unlock, Count, PutRing, Enter, PutTrack, NothingToPut, Taken, Short,
              Leave, Lock, Shut, Forget, End, StoppedFromMain, NearTheEnd, Drain, Sleep, Over, Complete
<1>4. QED
  BY <1>1, <1>2, <1>3

(* A play that goes on undisturbed does not meet what would end it early:  *)
(* a short write, a closed file, a full stop.                              *)
LEMMA PlayThreadControl ==
    ASSUME IInv, PutInv, RingType, ControlInv, PlayThread
    PROVE  ControlInv'
<1> USE DEF IInv, PCType, StateInv, StopInv, Stopped, Opening, InPlay, MainPC, PlayPC,
            ControlInv, HoldInv, UndisturbedInv, OutcomeInv, Stopping, Sounding, Running,
            Leaving, Draining, How, Goto, Call, ctx, ring, java, counts, hist, sound
<1>1. CASE run
  BY <1>1 DEF run
<1>2. CASE audioInit
  BY <1>2 DEF audioInit
<1>3. CASE Test("play")
  BY <1>3 DEF Test, Tested, Back
<1>4. CASE CloseFile("play")
  BY <1>4 DEF CloseFile, Close
<1>5. CASE Clear("play")
  BY <1>5 DEF Clear
<1>6. CASE StopRing("play")
  <2>1. /\ pc.play = "ring" /\ pc'.play = "silence" /\ pc'.main = pc.main
    BY <1>6, StopRingMoves
  <2>2. UNCHANGED <<codec, mode, ctx, wavbuf, next, after, java, counts, hist>>
    BY <1>6 DEF StopRing
  <2>3. QED
    BY <2>1, <2>2
<1>7. CASE Silence("play")
  BY <1>7 DEF Silence, Reset, Back
<1>8. CASE Open
  BY <1>8, SizesAssumption DEF Open, Opened, audio_start, libmediacb_start,
                              libmedia_start, msm_start
<1>9. CASE OpenFails
  BY <1>9 DEF OpenFails
<1>10. CASE Begin
  BY <1>10 DEF Begin
<1>11. CASE Loop
  BY <1>11 DEF Loop
<1>12. CASE Decode
  <2>1. \/ pc' = [pc EXCEPT !.play = "write"]
        \/ pc' = [pc EXCEPT !.play = "leave"]
    BY <1>12 DEF Decode, Frame, Ends
  <2>2. pc.play = "decode" /\ UNCHANGED <<codec, mode, ctx, ring, java, counts, hist>>
    BY <1>12 DEF Decode
  <2>3. QED
    BY <2>1, <2>2
<1>13. CASE Write
  BY <1>13 DEF Write
<1>14. CASE audio_write
  <2>1. /\ pc.play \in {"put", "push", "woken"} /\ mutex = "play"
        /\ UNCHANGED <<codec, mode, fd, files, track, next, java, plays, pauses, outcome, ignored,
                       cbstart>>
    BY <1>14 DEF audio_write, PutRing, Enter, PutTrack, NothingToPut, Copy
  <2>2. \/ mutex' = "free" /\ state' = state /\ pc' = [pc EXCEPT !.play = "loop"]
        \/ /\ UNCHANGED <<state, mutex>>
           /\ \/ \E p \in {"wait", "push", "unlock", "count"} : pc' = [pc EXCEPT !.play = p]
              \/ pc' = pc
        \/ /\ mutex' = "free" /\ Short
           /\ (mode = "CALLBACK" /\ cbstart < 0) \/ (mode # "CALLBACK" /\ track # "playing")
    <3>1. CASE NothingToPut
      BY <3>1 DEF NothingToPut
    <3>0. Short => mutex' = "free"
      BY DEF Short
    <3>2. CASE PutRing
      <4>1. mode = "CALLBACK"
        BY <3>2 DEF PutRing
      <4>2. CASE cbstart < 0
        BY <3>0, <3>2, <4>1, <4>2 DEF PutRing
      <4>3. CASE ~(cbstart < 0)
        BY <3>2, <4>3 DEF PutRing, Taken
      <4>4. QED
        BY <4>2, <4>3
    <3>3. CASE PutTrack
      <4>1. mode # "CALLBACK"
        BY <3>3 DEF PutTrack, PutInv
      <4>2. CASE track # "playing"
        BY <3>0, <3>3, <4>1, <4>2 DEF PutTrack
      <4>3. CASE track = "playing"
        BY <3>3, <4>3 DEF PutTrack, Taken
      <4>4. QED
        BY <4>2, <4>3
    <3>4. CASE Enter
      BY <3>4 DEF Enter
    <3>5. QED
      BY <1>14, <3>1, <3>2, <3>3, <3>4 DEF audio_write
  <2>3. ASSUME Short, Stopping PROVE ControlInv'
    BY <2>1, <2>3 DEF Short
  <2>4. ASSUME (mode = "CALLBACK" /\ cbstart < 0) \/ (mode # "CALLBACK" /\ track # "playing")
        PROVE  Stopping
    BY <2>1, <2>4 DEF RingType
  <2>5. QED
    BY <2>1, <2>2, <2>3, <2>4
<1>15. CASE Leave
  BY <1>15 DEF Leave, Left
<1>16. CASE Lock
  BY <1>16 DEF Lock
<1>17. CASE Shut
  BY <1>17 DEF Shut, Close
<1>18. CASE Forget
  BY <1>18 DEF Forget
<1>19. CASE End
  BY <1>19 DEF End, Left
<1>20. CASE StoppedFromMain
  BY <1>20 DEF StoppedFromMain
<1>21. CASE Drain
  BY <1>21 DEF Drain
<1>22. CASE Sleep
  BY <1>22 DEF Sleep
<1>23. CASE Over
  BY <1>23 DEF Over
<1>24. CASE Complete
  BY <1>24 DEF Complete
<1>25. CASE Unlock
  BY <1>25 DEF Unlock
<1>26. CASE Count
  BY <1>26 DEF Count
<1>27. CASE NearTheEnd
  BY <1>27 DEF NearTheEnd
<1>28. QED
  BY <1>1, <1>2, <1>3, <1>4, <1>5, <1>6, <1>7, <1>8, <1>9, <1>10, <1>11, <1>12, <1>13,
     <1>14, <1>15, <1>16, <1>17, <1>18, <1>19, <1>20, <1>21, <1>22, <1>23, <1>24,
     <1>25, <1>26, <1>27
  DEF PlayThread, audio_stop

LEMMA CbfControl == ASSUME IInv, RingType, ControlInv, cbf PROVE ControlInv'
<1>1. cbstart >= 0 => cbstart' >= 0
  BY CbfCases DEF Aside, RingOpen
<1>2. UNCHANGED <<codec, mode, ctx, after, java, plays, outcome, ignored>>
  BY DEF cbf
<1>3. \/ pc' = pc
      \/ pc.play = "wait" /\ pc' = [pc EXCEPT !.play = "woken"]
      \/ pc.play = "doneWait" /\ pc' = [pc EXCEPT !.play = "over"]
  BY DEF cbf, Goto
<1>4. QED
  BY <1>1, <1>2, <1>3 DEF IInv, PCType, ControlInv, HoldInv, UndisturbedInv, OutcomeInv,
     Stopping, Stopped, Sounding, Running, Leaving, Draining, How, ctx, java

LEMMA TrackControl == ASSUME ControlInv, Sound PROVE ControlInv'
BY DEF Sound, ControlInv, HoldInv, UndisturbedInv, OutcomeInv, Stopping, Sounding, How, ctx,
       ring, java, counts

-----------------------------------------------------------------------------
(* The sound is the file's: s counts up from a.                            *)
CountsFrom(s, a) == \A i \in 1 .. Len(s) : s[i] = a + i - 1

LEMMA CountsOn ==
    ASSUME NEW s \in Seq(Int), NEW t \in Seq(Int), NEW a \in Int,
           CountsFrom(s, a), CountsFrom(t, a + Len(s))
    PROVE  CountsFrom(s \o t, a)
<1>1. s \o t \in Seq(Int) /\ Len(s \o t) = Len(s) + Len(t) /\ Len(s) \in Nat /\ Len(t) \in Nat
  OBVIOUS
<1>2. ASSUME NEW i \in 1 .. Len(s) + Len(t) PROVE (s \o t)[i] = a + i - 1
  <2>1. CASE i <= Len(s)
    <3>1. (s \o t)[i] = s[i] /\ i \in 1 .. Len(s)
      BY <1>1, <2>1
    <3>2. QED
      BY <3>1 DEF CountsFrom
  <2>2. CASE i > Len(s)
    <3>1. (s \o t)[i] = t[i - Len(s)] /\ i - Len(s) \in 1 .. Len(t)
      BY <1>1, <2>2
    <3>2. t[i - Len(s)] = a + Len(s) + (i - Len(s)) - 1
      BY <3>1 DEF CountsFrom
    <3>3. QED
      BY <1>1, <3>1, <3>2
  <2>3. QED
    BY <1>1, <2>1, <2>2
<1>3. QED
  BY <1>1, <1>2 DEF CountsFrom

LEMMA CountsCut ==
    ASSUME NEW s \in Seq(Int), NEW a \in Int, NEW n \in 1 .. Len(s), CountsFrom(s, a)
    PROVE  /\ CountsFrom(SubSeq(s, 1, n), a)
           /\ CountsFrom(SubSeq(s, n + 1, Len(s)), a + n)
<1>1. Len(s) \in Nat /\ n \in Nat
  OBVIOUS
<1>2. CountsFrom(SubSeq(s, 1, n), a)
  <2>1. /\ Len(SubSeq(s, 1, n)) = n
        /\ \A i \in 1 .. n : SubSeq(s, 1, n)[i] = s[i] /\ i \in 1 .. Len(s)
    BY <1>1
  <2>2. QED
    BY <2>1 DEF CountsFrom
<1>3. CountsFrom(SubSeq(s, n + 1, Len(s)), a + n)
  <2>1. Len(SubSeq(s, n + 1, Len(s))) = Len(s) - n
    BY Cut
  <2>2. ASSUME NEW i \in 1 .. Len(s) - n
        PROVE  SubSeq(s, n + 1, Len(s))[i] = a + n + i - 1
    <3>1. SubSeq(s, n + 1, Len(s))[i] = s[n + i] /\ n + i \in 1 .. Len(s)
      BY <1>1, SMTT(40)
    <3>2. s[n + i] = a + (n + i) - 1
      BY <3>1 DEF CountsFrom
    <3>3. QED
      BY <1>1, <3>1, <3>2
  <2>3. QED
    BY <2>1, <2>2 DEF CountsFrom
<1>4. QED
  BY <1>2, <1>3

(* What the track was given, what waits to be given and what is not counted *)
(* follow one another, and the decoder goes on behind them.                *)
SoundInv ==
    Sounding =>
        /\ next = First + written + Len(wavbuf)
        /\ CountsFrom(given, First)
        /\ mode = "CALLBACK" /\ cbstart >= 0 => CountsFrom(Contents, First + Len(given))
        /\ CountsFrom(wavbuf, First + written)

LEMMA StillSounds ==
    ASSUME SoundInv, Sounding' => Sounding, UNCHANGED <<codec, startpos, wavbuf, next>>,
           UNCHANGED <<mode, cbbuf, cbend, given, written>>, cbstart' \in {cbstart, -1}
    PROVE  SoundInv'
<1>1. First' = First
  BY DEF First
<1>2. cbstart' >= 0 => cbstart >= 0 /\ Contents' = Contents
  BY DEF Contents, get_free_bytes
<1>3. QED
  BY <1>1, <1>2 DEF SoundInv

(* The track is given sound of a play from when it is opened.              *)
LEMMA SoundingKept ==
    ASSUME PCType, Main \/ (PlayThread /\ ~Open) \/ cbf \/ Sound, Sounding'
    PROVE  Sounding
<1> USE DEF PCType, Stopped, MainPC, PlayPC, Sounding, Running, Leaving, Draining, Goto, Call,
            hist, sound
<1>1. CASE cbf \/ Sound
  BY <1>1 DEF cbf, Sound
<1>2. ASSUME NEW t \in {"main", "play"}, audio_stop(t) PROVE Sounding
  <2>1. CASE StopRing(t)
    BY <2>1, StopRingMoves, ZenonT(60) DEF StopRing
  <2>2. CASE ~StopRing(t)
    BY <1>2, <2>2 DEF audio_stop, Test, Tested, CloseFile, Clear, Silence, Reset, Back
  <2>3. QED
    BY <2>1, <2>2
<1>3. CASE Main /\ ~audio_stop("main")
  BY <1>3 DEF Main, start, stop, StopAs, seekTo, pause, resume, Resumed, Join, Spawn, audioPause
<1>4. CASE PlayThread /\ ~audio_stop("play") /\ ~Open
  <2>1. CASE run \/ audioInit \/ OpenFails \/ Begin
    BY <2>1 DEF run, audioInit, OpenFails, Begin
  <2>2. CASE Loop \/ Decode
    BY <2>2 DEF Loop, Decode, Frame, Ends
  <2>3. CASE Write \/ Unlock \/ Count
    BY <2>3 DEF Write, Unlock, Count
  <2>4. CASE audio_write
    BY <2>4 DEF audio_write, PutRing, Enter, PutTrack, NothingToPut, Taken, Short
  <2>5. CASE Leave \/ Lock \/ Shut \/ Forget \/ End \/ StoppedFromMain \/ NearTheEnd
    BY <2>5 DEF Leave, Lock, Shut, Forget, End, StoppedFromMain, NearTheEnd
  <2>6. CASE Drain \/ Sleep \/ Over \/ Complete
    BY <2>6 DEF Drain, Sleep, Over, Complete
  <2>7. QED
    BY <1>4, <2>1, <2>2, <2>3, <2>4, <2>5, <2>6 DEF PlayThread
<1>5. QED
  BY <1>1, <1>2, <1>3, <1>4

LEMMA MainSound == ASSUME IInv, SoundInv, Main PROVE SoundInv'
<1>1. Sounding' => Sounding
  BY SoundingKept DEF IInv
<1>2. CASE StopRing("main")
  <2>1. /\ UNCHANGED <<codec, startpos, wavbuf, next, mode, cbbuf, cbend, given, written>>
        /\ cbstart' \in {cbstart, -1}
    BY <1>2 DEF StopRing, counts, hist, sound
  <2>2. QED
    BY <1>1, <2>1, StillSounds
<1>3. CASE Spawn
  <2>1. pc'.play = "run"
    BY <1>3 DEF Spawn
  <2>2. QED
    BY <2>1 DEF SoundInv, Sounding, Running, Leaving, Draining
<1>4. CASE ~StopRing("main") /\ ~Spawn
  <2>1. Aside /\ UNCHANGED <<wavbuf, next>>
    BY <1>4, MainAside
  <2>2. UNCHANGED <<codec, startpos>>
    BY <1>4 DEF Main, start, stop, StopAs, seekTo, pause, resume, Resumed, Join, audioPause,
                audio_stop, Test, Tested, CloseFile, Clear, Silence, Reset, counts
  <2>3. QED
    BY <1>1, <2>1, <2>2, StillSounds DEF Aside
<1>5. QED
  BY <1>2, <1>3, <1>4

LEMMA OpenSound == ASSUME RingType, WavInv, CountInv, Open PROVE SoundInv'
<1>1. /\ given' = <<>> /\ written' = 0 /\ wavbuf' = <<>> /\ next' = First /\ First' = First
      /\ mode' = mode
  BY DEF Open, Opened, First
<1>2. First \in Int
  BY SizesAssumption DEF WavInv, First
<1>3. mode = "CALLBACK" => Contents' = <<>>
  BY OpenCounts
<1>4. QED
  BY <1>1, <1>2, <1>3 DEF SoundInv, CountsFrom

LEMMA DecodeSound == ASSUME IInv, WavInv, RingType, SoundInv, Decode PROVE SoundInv'
<1>1. Sounding /\ Aside /\ UNCHANGED <<codec, startpos>>
  BY DEF Decode, Sounding, Running, Aside, ring, counts, hist, sound
<1>2. First' = First /\ (cbstart' >= 0 => Contents' = Contents)
  BY <1>1 DEF First, Aside, Contents, get_free_bytes
<1>3. CASE \E n \in FrameSizes : Frame(n)
  <2>1. PICK n \in FrameSizes : Frame(n)
    BY <1>3
  <2> DEFINE more == [i \in 1 .. n |-> next + i - 1]
  <2>2. /\ wavbuf \in Seq(Int) /\ next \in Int /\ written \in Int /\ First \in Int /\ n \in Nat
        /\ Len(wavbuf) \in Nat
    BY FrameFacts, SizesAssumption, SMTT(40) DEF WavInv, RingType, First, Units
  <2>3. more \in Seq(Int) /\ Len(more) = n /\ CountsFrom(more, next)
    BY <2>2 DEF CountsFrom
  <2>4. wavbuf' = wavbuf \o more /\ next' = next + n
    BY <2>1 DEF Frame
  <2>5. /\ next = First + written + Len(wavbuf) /\ CountsFrom(wavbuf, First + written)
    BY <1>1 DEF SoundInv
  <2> HIDE DEF more
  <2>6. Len(wavbuf') = Len(wavbuf) + n
    <3>1. Len(wavbuf \o more) = Len(wavbuf) + Len(more)
      BY <2>2, <2>3, SMTT(40)
    <3>2. QED
      BY <2>3, <2>4, <3>1
  <2>7. next' = First + written + Len(wavbuf')
    BY <2>2, <2>4, <2>5, <2>6
  <2>8. CountsFrom(wavbuf', First + written)
    BY <2>2, <2>3, <2>4, <2>5, CountsOn
  <2>9. QED
    BY <1>1, <1>2, <2>7, <2>8 DEF SoundInv, Aside
<1>4. CASE ~ \E n \in FrameSizes : Frame(n)
  <2>1. UNCHANGED <<wavbuf, next>>
    BY <1>4 DEF Decode, Ends
  <2>2. QED
    BY <1>1, <1>2, <2>1 DEF SoundInv, Aside
<1>5. QED
  BY <1>3, <1>4

LEMMA SoundTypes ==
    ASSUME WavInv, RingType
    PROVE  /\ wavbuf \in Seq(Int) /\ given \in Seq(Int)
           /\ Len(wavbuf) \in Nat /\ Len(given) \in Nat
           /\ First \in Int /\ written \in Int /\ next \in Int
           /\ cbstart >= 0 => Contents \in Seq(Int) /\ Len(Contents) \in Nat
<1>1. wavbuf \in Seq(Int)
  BY SizesAssumption DEF WavInv, Units
<1>2. given \in Seq(Int)
  BY SizesAssumption DEF RingType
<1>3. First \in Int /\ written \in Int /\ next \in Int
  BY SizesAssumption DEF WavInv, RingType, First
<1>4. ASSUME cbstart >= 0 PROVE Contents \in Seq(Int)
  <2>1. Contents \in Seq(0 .. FileLen)
    BY <1>4, RingOpens, ContentsType
  <2>2. QED
    BY <2>1, SizesAssumption
<1>5. QED
  BY <1>1, <1>2, <1>3, <1>4

LEMMA WriteSound ==
    ASSUME WavInv, PutInv, RingType, CountInv, SoundInv, audio_write
    PROVE  SoundInv'
<1> DEFINE c == Chunk
<1>1. /\ Sounding /\ Pending
      /\ UNCHANGED <<codec, startpos, wavbuf, next, written, mode>> /\ First' = First
  BY DEF audio_write, Sounding, Running, Pending, First
<1>2. /\ c \in Seq(Int) /\ Len(c) \in 1 .. Len(wavbuf) /\ c = SubSeq(wavbuf, 1, Len(c))
      /\ wavbuf \in Seq(Int) /\ given \in Seq(Int) /\ Len(given) \in Nat /\ Len(wavbuf) \in Nat
      /\ First \in Int /\ written \in Int /\ put \in Nat
  <2>1. c = SubSeq(wavbuf, 1, Len(c)) /\ Len(c) \in 1 .. Len(wavbuf)
    BY <1>1, ChunkIsFirst
  <2>2. c \in Seq(Int)
    BY <1>1, ChunkFacts, SizesAssumption DEF Units
  <2>3. QED
    BY <2>1, <2>2, SoundTypes DEF WavInv
<1>3. /\ next = First + written + Len(wavbuf) /\ CountsFrom(given, First)
      /\ mode = "CALLBACK" /\ cbstart >= 0 => CountsFrom(Contents, First + Len(given))
      /\ CountsFrom(wavbuf, First + written)
  BY <1>1 DEF SoundInv
<1>4. CountsFrom(c, First + written)
  <2>1. CountsFrom(SubSeq(wavbuf, 1, Len(c)), First + written)
    <3>1. First + written \in Int
      BY <1>2
    <3> HIDE DEF c
    <3>2. QED
      BY <1>2, <1>3, <3>1, CountsCut
  <2>2. QED
    BY <1>2, <2>1
<1>5. CASE Aside
  <2>1. given' = given /\ (cbstart' >= 0 => cbstart >= 0 /\ Contents' = Contents)
    BY <1>5 DEF Aside, Contents, get_free_bytes
  <2>2. QED
    BY <1>1, <1>3, <2>1 DEF SoundInv
<1>6. ASSUME NEW n \in 1 .. Len(c) - put, Pushes(n) PROVE SoundInv'
  <2> DEFINE part == SubSeq(c, put + 1, put + n)
  <2>1. written + put = Len(given)
    BY <1>6 DEF Pushes, CountInv, Handed
  <2> HIDE DEF c
  <2>2. part \in Seq(Int) /\ Len(part) = n
    BY <1>2
  <2>3. CountsFrom(part, First + Len(given))
    <3>1. ASSUME NEW i \in 1 .. n PROVE part[i] = First + Len(given) + i - 1
      <4>1. part[i] = c[put + i] /\ put + i \in 1 .. Len(c)
        BY <1>2
      <4>2. c[put + i] = First + written + (put + i) - 1
        BY <1>4, <4>1 DEF CountsFrom
      <4>3. i \in Int /\ written \in Int /\ put \in Int /\ First \in Int
        BY <1>2
      <4>4. First + written + (put + i) - 1 = First + (written + put) + i - 1
        BY <4>3
      <4>5. c[put + i] = First + Len(given) + i - 1
        BY <2>1, <4>2, <4>4
      <4>6. QED
        BY <4>1, <4>5
    <3>2. QED
      BY <2>2, <3>1 DEF CountsFrom
  <2>4. given' = given \o part
    BY <1>6 DEF Pushes, c
  <2> HIDE DEF part
  <2>5. CountsFrom(given', First)
    BY <1>2, <1>3, <2>2, <2>3, <2>4, CountsOn
  <2>6. mode' # "CALLBACK"
    BY <1>6 DEF Pushes
  <2>7. QED
    BY <1>1, <1>3, <2>5, <2>6 DEF SoundInv
<1>7. CASE Appends(c)
  <2>1. Contents \in Seq(Int) /\ Len(Contents) \in Nat
    BY <1>7, SoundTypes DEF Appends
  <2>2. /\ written = Len(given) + Len(Contents) /\ CountsFrom(Contents, First + Len(given))
        /\ given' = given
    BY <1>2, <1>3, <1>7 DEF Appends, CountInv, Handed
  <2>3. First + written = First + Len(given) + Len(Contents)
    BY <1>2, <2>1, <2>2
  <2> HIDE DEF c
  <2>4. CountsFrom(Contents \o c, First + Len(given))
    <3>1. First + Len(given) \in Int /\ CountsFrom(c, First + Len(given) + Len(Contents))
      BY <1>2, <1>4, <2>3
    <3>2. QED
      BY <1>2, <2>1, <2>2, <3>1, CountsOn
  <2>5. QED
    BY <1>1, <1>3, <1>7, <2>2, <2>4 DEF SoundInv, Appends
<1>8. QED
  BY <1>5, <1>6, <1>7, WriteCases DEF c

LEMMA CountSound ==
    ASSUME IInv, WavInv, PutInv, RingType, SoundInv, Count
    PROVE  SoundInv'
<1>1. /\ Sounding /\ UNCHANGED <<codec, startpos, next, mode, cbbuf, cbstart, cbend, given>>
      /\ wavbuf' = SubSeq(wavbuf, put + 1, Len(wavbuf)) /\ written' = written + put
  BY DEF Count, Sounding, Running, ring, hist, sound
<1>2. put \in 1 .. Len(wavbuf)
  BY CountWav
<1>3. /\ wavbuf \in Seq(Int) /\ Len(wavbuf) \in Nat /\ First \in Int /\ written \in Int
      /\ First' = First
  BY <1>1, SoundTypes DEF First
<1>4. /\ next = First + written + Len(wavbuf) /\ CountsFrom(given, First)
      /\ mode = "CALLBACK" /\ cbstart >= 0 => CountsFrom(Contents, First + Len(given))
      /\ CountsFrom(wavbuf, First + written)
  BY <1>1 DEF SoundInv
<1>5. CountsFrom(wavbuf', First + written')
  <2>1. First + written \in Int
    BY <1>3
  <2>2. CountsFrom(SubSeq(wavbuf, put + 1, Len(wavbuf)), First + written + put)
    BY <1>2, <1>3, <1>4, <2>1, CountsCut
  <2>3. First + written + put = First + written'
    BY <1>1, <1>2, <1>3
  <2>4. QED
    BY <1>1, <2>2, <2>3
<1>6. next' = First + written' + Len(wavbuf')
  <2>1. Len(wavbuf') = Len(wavbuf) - put
    BY <1>1, <1>2, <1>3, Cut
  <2>2. next' = First + written + Len(wavbuf) /\ written' = written + put
    BY <1>1, <1>4
  <2>3. QED
    BY <1>2, <1>3, <2>1, <2>2
<1>7. Contents' = Contents
  BY <1>1 DEF Contents, get_free_bytes
<1>8. QED
  BY <1>1, <1>3, <1>4, <1>5, <1>6, <1>7 DEF SoundInv

LEMMA CbfSound == ASSUME IInv, WavInv, RingType, SoundInv, cbf PROVE SoundInv'
<1>1. Sounding' => Sounding
  BY SoundingKept DEF IInv
<1>2. UNCHANGED <<codec, startpos, wavbuf, next>> /\ First' = First
  BY DEF cbf, counts, First
<1>3. CASE Aside
  BY <1>1, <1>2, <1>3, StillSounds DEF Aside
<1>4. ASSUME NEW n \in 1 .. Len(Contents),
             mode = "CALLBACK", cbstart >= 0, UNCHANGED <<mode, written>>,
             given' = given \o SubSeq(Contents, 1, n),
             Contents' = SubSeq(Contents, n + 1, Len(Contents)),
             Sounding
      PROVE  SoundInv'
  <2>1. Contents \in Seq(Int) /\ given \in Seq(Int) /\ First \in Int /\ Len(given) \in Nat
    BY <1>4, SoundTypes
  <2>2. CountsFrom(given, First) /\ CountsFrom(Contents, First + Len(given))
    BY <1>4 DEF SoundInv
  <2> DEFINE taken == SubSeq(Contents, 1, n)
  <2>3. /\ CountsFrom(taken, First + Len(given))
        /\ CountsFrom(Contents', First + Len(given) + n)
    <3>1. First + Len(given) \in Int
      BY <2>1
    <3>2. QED
      BY <1>4, <2>1, <2>2, <3>1, CountsCut
  <2>4. taken \in Seq(Int) /\ Len(taken) = n
    BY <2>1, Cut
  <2>5. given' = given \o taken
    BY <1>4
  <2> HIDE DEF taken
  <2>6. CountsFrom(given', First)
    BY <2>1, <2>2, <2>3, <2>4, <2>5, CountsOn
  <2>7. First + Len(given') = First + Len(given) + n
    <3>1. ASSUME NEW s \in Seq(Int), NEW t \in Seq(Int)
          PROVE  Len(s \o t) = Len(s) + Len(t)
      OBVIOUS
    <3>2. Len(given') = Len(given) + n
      BY <2>1, <2>4, <2>5, <3>1
    <3>3. QED
      BY <1>4, <2>1, <3>2
  <2>8. QED
    BY <1>2, <1>4, <2>3, <2>6, <2>7 DEF SoundInv
<1>5. CASE ~Sounding
  BY <1>1, <1>5 DEF SoundInv
<1>6. QED
  BY <1>3, <1>4, <1>5, CbfCases

-----------------------------------------------------------------------------
(* What is not written when there is not enough for a write, or at the end *)
(* of a WavPack file not even that; wavPlay decodes what it writes.        *)
Flushed ==
    /\ Len(wavbuf) < ConfSize
    /\ Play[codec].tail \/ codec = "wav" => wavbuf = <<>>

(* The play comes to its own end.                                          *)
Done ==
    \/ /\ pc.play \in Leaving \cup Draining \cup {"abandon", "abandon2"}
       /\ after.play = Play[codec].end
    \/ pc.play = "over" /\ outcome = Play[codec].returns

FlushInv ==
    /\ pc.play = "begin" => wavbuf = <<>>
    /\ ~Stopping /\ pc.play \in {"loop", "decode"} => Flushed
    /\ ~Stopping /\ pc.play \in Running /\ codec = "wav" => Len(wavbuf) \in {0, ConfSize}

(* All of the file is decoded, but for what is short of a write of wavPlay. *)
Decoded == FileLen + 1 - next < (IF codec = "wav" THEN ConfSize ELSE 1)

DoneInv ==
    ~Stopping /\ Done =>
        /\ Flushed /\ Decoded
        /\ pc.play = "over" /\ outcome = "done" => Waiting = <<>>

(* Only a file that was decoded to its end ends.                           *)
LEMMA EndIsLast ==
    ASSUME IInv, WavInv, FrameSizes = {}
    PROVE  Decoded
<1> DEFINE left == FileLen + 1 - next
<1>1. /\ left \in Nat /\ ConfSize \in Nat \ {0} /\ Frames \subseteq Nat \ {0} /\ Frames # {}
  BY SizesAssumption DEF WavInv
<1>2. CASE codec = "wav"
  <2>1. FrameSizes = {ConfSize} \cap 1 .. left
    BY <1>2 DEF FrameSizes
  <2> HIDE DEF left
  <2>2. left < ConfSize
    BY <1>1, <2>1
  <2>3. QED
    BY <1>2, <2>2 DEF left, Decoded
<1>3. CASE codec # "wav"
  <2> SUFFICES ASSUME left # 0 PROVE FALSE
    BY <1>1, <1>3 DEF Decoded
  <2> HIDE DEF left
  <2>1. CASE codec = "wv"
    <3>1. FrameSizes = {IF left < ConfSize THEN left ELSE ConfSize} \ {0}
      BY <2>1 DEF FrameSizes, left
    <3>2. (IF left < ConfSize THEN left ELSE ConfSize) \in FrameSizes
      BY <1>1, <3>1
    <3>3. QED
      BY <3>2
  <2>2. CASE codec # "wv"
    <3>1. FrameSizes = {IF left < n THEN left ELSE n : n \in Frames} \ {0}
      BY <1>3, <2>2 DEF FrameSizes, left
    <3>2. PICK n \in Frames : TRUE
      BY <1>1
    <3>3. (IF left < n THEN left ELSE n) \in FrameSizes
      BY <1>1, <3>1, <3>2
    <3>4. QED
      BY <3>3
  <2>3. QED
    BY <2>1, <2>2
<1>4. QED
  BY <1>2, <1>3

(* How a play ends and what it returns then go together.                   *)
LEMMA EndReturns ==
    ASSUME PCType
    PROVE  /\ Play[codec].returns \in {"done", "read"}
           /\ Play[codec].returns = "read" <=> codec = "wav"
           /\ Play[codec].end = IF codec = "wav" THEN "fail" ELSE "done"
BY KindsAssumption DEF PCType, Play, wavPlay, flacPlay, alacPlay, apePlay, wvPlay, mpcPlay

(* The main thread disturbs a play only by stopping it.                    *)
LEMMA MainDone ==
    ASSUME IInv, ControlInv, FlushInv, DoneInv, Main
    PROVE  FlushInv' /\ DoneInv'
<1> USE DEF IInv, PCType, MainPC, Stopping, Stopped, Goto, ctx, ring, java, counts, hist, sound
<1>1. CASE StopRing("main")
  <2>1. /\ pc'.main = "silence"
        /\ \/ pc'.play = pc.play
           \/ pc.play = "wait" /\ pc'.play = "woken"
    BY <1>1, StopRingMoves
  <2>2. wavbuf' = wavbuf
    BY <1>1 DEF StopRing
  <2>3. QED
    BY <2>1, <2>2 DEF FlushInv, DoneInv
<1>2. CASE Spawn
  <2>1. pc'.play = "run"
    BY <1>2 DEF Spawn
  <2>2. QED
    BY <2>1 DEF FlushInv, DoneInv, Done, Running, Leaving, Draining
<1>3. CASE Join
  <2>1. pc'.play = "dead"
    BY <1>3 DEF Join
  <2>2. QED
    BY <2>1 DEF FlushInv, DoneInv, Done, Running, Leaving, Draining
<1>4. CASE ~StopRing("main") /\ ~Spawn /\ ~Join
  <2>1. /\ pc'.play = pc.play /\ after'.play = after.play
        /\ UNCHANGED <<codec, mode, wavbuf, next, cbbuf, cbstart, cbend, outcome>>
    BY <1>4 DEF Main, start, stop, StopAs, seekTo, pause, resume, Resumed, audioPause,
                audio_stop, Test, Tested, CloseFile, Clear, Silence, Reset, Back
  <2>2. ~Stopping' => ~Stopping
    BY <1>4 DEF Main, start, stop, StopAs, seekTo, pause, resume, Resumed, audioPause,
                audio_stop, Test, Tested, CloseFile, Clear, Silence, Reset, Back,
                ControlInv, HoldInv
  <2>3. /\ (Flushed' <=> Flushed) /\ (Done' <=> Done) /\ (Decoded' <=> Decoded)
        /\ Waiting' = Waiting
    BY <2>1 DEF Flushed, Done, Decoded, Waiting, Contents, get_free_bytes
  <2>4. QED
    BY <2>1, <2>2, <2>3 DEF FlushInv, DoneInv
<1>5. QED
  BY <1>1, <1>2, <1>3, <1>4

(* The AudioTrack takes nothing after the end, and what it plays is its own.*)
LEMMA CbfDone ==
    ASSUME IInv, ControlInv, RingType, FlushInv, DoneInv, cbf
    PROVE  FlushInv' /\ DoneInv'
<1>1. /\ UNCHANGED <<codec, mode, wavbuf, next, after, outcome>>
      /\ mode = "CALLBACK" /\ cbstart >= 0
  BY DEF cbf
<1>2. (Stopping' <=> Stopping) /\ (Flushed' <=> Flushed) /\ (Decoded' <=> Decoded)
  BY <1>1, StoppingKept DEF IInv, Stopping, Flushed, Decoded
<1>3. Contents \in Seq(0 .. FileLen) /\ Len(Contents) \in Nat /\ Waiting = Contents
  BY <1>1, RingOpens, ContentsType DEF Waiting
<1>4. \/ pc' = pc
      \/ pc.play = "wait" /\ pc'.play = "woken"
      \/ pc.play = "doneWait" /\ pc'.play = "over" /\ Len(Contents) = 0
  BY <1>1, <1>3, SizesAssumption DEF cbf, Goto, IInv, PCType
<1>5. ASSUME Waiting = <<>> PROVE Waiting' = <<>>
  <2>1. Len(Contents) = 0
    BY <1>3, <1>5
  <2>2. Aside
    BY <2>1, CbfCases
  <2>3. QED
    BY <1>5, <2>2 DEF Aside, Waiting, Contents, get_free_bytes
<1>6. FlushInv'
  BY <1>1, <1>2, <1>4 DEF FlushInv, Running
<1>7. CASE pc' = pc \/ (pc.play = "wait" /\ pc'.play = "woken")
  BY <1>1, <1>2, <1>5, <1>6, <1>7 DEF DoneInv, Done, Leaving, Draining
<1>8. CASE pc.play = "doneWait" /\ pc'.play = "over" /\ Len(Contents) = 0
  <2>1. Waiting' = <<>>
    BY <1>3, <1>5, <1>8
  <2>2. ASSUME Done' PROVE Done
    <3>1. outcome = How /\ outcome = Play[codec].returns
      BY <1>1, <1>8, <2>2 DEF ControlInv, OutcomeInv, Done, Leaving, Draining
    <3>2. after.play = Play[codec].end
      BY <3>1, EndReturns DEF How, IInv
    <3>3. QED
      BY <1>8, <3>2 DEF Done, Draining
  <2>3. QED
    BY <1>2, <1>6, <2>1, <2>2 DEF DoneInv
<1>9. QED
  BY <1>4, <1>7, <1>8

LEMMA TrackDone == ASSUME FlushInv, DoneInv, Sound PROVE FlushInv' /\ DoneInv'
BY DEF Sound, FlushInv, DoneInv, Done, Decoded, Flushed, Stopping, Waiting, Contents,
       get_free_bytes, ring, counts

(* The play thread comes to its end with nothing left to decode.           *)
LEMMA PlayThreadDone ==
    ASSUME PlayInv, ControlInv, FlushInv, DoneInv, PlayThread
    PROVE  FlushInv' /\ DoneInv'
<1> USE DEF Goto, Call, ctx, ring, java, counts, hist, sound
<1>0. /\ IInv /\ WavInv /\ PutInv /\ RingType /\ CountInv /\ ControlInv
      /\ DOMAIN pc = {"main", "play"} /\ DOMAIN after = {"main", "play"}
      /\ wavbuf \in Seq(Units) /\ Len(wavbuf) \in Nat /\ ConfSize \in Nat \ {0}
  BY SizesAssumption DEF PlayInv, IInv, PCType, WavInv
<1>1. Stopping' <=> Stopping
  BY <1>0, StoppingKept DEF IInv, Stopping
<1>e. /\ Play[codec].returns \in {"done", "read"}
      /\ Play[codec].returns = "read" <=> codec = "wav"
      /\ Play[codec].end = IF codec = "wav" THEN "fail" ELSE "done"
  BY <1>0, EndReturns DEF IInv
(* An action that leaves what is decoded alone has only its places to show.*)
<1>2. ASSUME UNCHANGED <<codec, wavbuf, next>>, pc'.play # "begin",
             ~Stopping /\ pc'.play \in {"loop", "decode"} => Flushed,
             ~Stopping /\ pc'.play \in Running /\ codec = "wav" => Len(wavbuf) \in {0, ConfSize},
             ~Stopping /\ Done' => /\ Flushed /\ Decoded
                                   /\ pc'.play = "over" /\ outcome' = "done" => Waiting' = <<>>
      PROVE  FlushInv' /\ DoneInv'
  <2>1. (Flushed' <=> Flushed) /\ (Decoded' <=> Decoded)
    BY <1>2 DEF Flushed, Decoded
  <2>2. QED
    BY <1>1, <1>2, <2>1 DEF FlushInv, DoneInv
<1>3. CASE audio_stop("play")
  <2>1. UNCHANGED <<codec, wavbuf, next>>
    BY <1>3 DEF audio_stop, Test, Tested, CloseFile, Clear, StopRing, Silence, Reset
  <2>2. pc'.play \in Stopped \cup {"init", "open", "complete"}
    <3>1. CASE StopRing("play")
      BY <1>0, <3>1, StopRingMoves DEF IInv, Stopped
    <3>2. CASE ~StopRing("play")
      BY <1>0, <1>3, <3>2 DEF audio_stop, Test, Tested, CloseFile, Clear, Silence, Reset, Back,
                              IInv, PCType, Stopped
    <3>3. QED
      BY <3>1, <3>2
  <2>3. QED
    BY <1>2, <2>1, <2>2 DEF Stopped, Running, Done, Leaving, Draining
<1>4. CASE run \/ audioInit \/ Over \/ Complete
  <2>1. pc'.play \in {"stop", "dead"}
    BY <1>0, <1>4 DEF run, audioInit, Over, Complete
  <2>2. QED
    BY <2>1 DEF FlushInv, DoneInv, Done, Running, Leaving, Draining
<1>5. CASE Open
  <2>1. pc'.play = "begin" /\ wavbuf' = <<>>
    BY <1>0, <1>5 DEF Open, Opened
  <2>2. QED
    BY <2>1 DEF FlushInv, DoneInv, Done, Leaving, Draining
<1>6. CASE OpenFails \/ StoppedFromMain
  <2>1. pc'.play = "over" /\ outcome' \in {"unopened", "stopped"} /\ codec' = codec
    BY <1>0, <1>6 DEF OpenFails, StoppedFromMain
  <2>2. ~Done'
    BY <1>e, <2>1 DEF Done, Leaving, Draining
  <2>3. QED
    BY <2>1, <2>2 DEF FlushInv, DoneInv, Running
<1>7. CASE Begin
  <2>1. pc'.play = "loop" /\ UNCHANGED <<codec, wavbuf, next>> /\ wavbuf = <<>>
    BY <1>0, <1>7 DEF Begin, FlushInv
  <2>2. Flushed /\ Len(wavbuf) = 0
    BY <1>0, <2>1 DEF Flushed
  <2>3. QED
    BY <1>2, <2>1, <2>2 DEF Done, Leaving, Draining
<1>8. CASE Loop
  <2>1. /\ pc.play = "loop" /\ UNCHANGED <<codec, wavbuf, next>>
        /\ \/ state = "STOPPED" /\ pc'.play = "leave"
           \/ pc'.play = "decode"
    BY <1>0, <1>8 DEF Loop
  <2>2. state = "STOPPED" => Stopping
    BY <2>1 DEF ControlInv, UndisturbedInv, Running
  <2>3. ~Stopping => Flushed /\ (codec = "wav" => Len(wavbuf) \in {0, ConfSize})
    BY <2>1 DEF FlushInv, Running
  <2>4. QED
    BY <1>2, <2>1, <2>2, <2>3 DEF Done, Leaving, Draining
<1>9. CASE Decode
  <2>1. pc.play = "decode" /\ UNCHANGED <<codec, fd, files>>
    BY <1>9 DEF Decode
  <2>2. ~Stopping => Flushed
    BY <2>1 DEF FlushInv
  <2>3. CASE \E n \in FrameSizes : Frame(n)
    <3>1. PICK n \in FrameSizes : Frame(n)
      BY <2>3
    <3>2. pc'.play = "write" /\ wavbuf' = wavbuf \o [i \in 1 .. n |-> next + i - 1]
      BY <1>0, <3>1 DEF Frame
    <3>3. ASSUME ~Stopping, codec = "wav" PROVE Len(wavbuf') = ConfSize
      <4>1. n = ConfSize /\ wavbuf = <<>>
        BY <2>2, <3>1, <3>3 DEF FrameSizes, Flushed
      <4>2. QED
        BY <1>0, <3>2, <4>1
    <3>4. QED
      BY <1>1, <2>1, <3>2, <3>3 DEF FlushInv, DoneInv, Done, Leaving, Draining
  <2>4. CASE ~ \E n \in FrameSizes : Frame(n)
    <3>1. pc'.play = "leave" /\ UNCHANGED <<wavbuf, next>>
      BY <1>0, <1>9, <2>4 DEF Decode, Ends
    <3>2. ASSUME ~Stopping, after'.play = Play[codec].end PROVE Decoded
      <4>1. fd # 0 /\ fd \in files
        BY <2>1, <3>2 DEF ControlInv, UndisturbedInv, Running
      <4>2. \/ FrameSizes = {}
            \/ \E how \in Play[codec].broken : after' = [after EXCEPT !.play = how]
        BY <1>9, <2>4, <4>1 DEF Decode, Ends
      <4>3. Play[codec].end \notin Play[codec].broken
        BY <1>0, <1>e, EndsAs DEF IInv
      <4>4. FrameSizes = {}
        BY <1>0, <3>2, <4>2, <4>3
      <4>5. QED
        BY <1>0, <4>4, EndIsLast
    <3>3. QED
      BY <1>2, <2>1, <2>2, <3>1, <3>2 DEF Done, Running, Leaving, Draining
  <2>5. QED
    BY <2>3, <2>4
<1>10. CASE Write
  <2>1. /\ UNCHANGED <<codec, wavbuf, next>> /\ pc.play = "write" /\ pc'.play \in {"put", "loop"}
        /\ pc'.play = "loop" => /\ Len(wavbuf) < ConfSize
                                /\ Play[codec].tail => wavbuf = <<>>
    BY <1>0, <1>10 DEF Write
  <2>2. ~Stopping /\ codec = "wav" => Len(wavbuf) \in {0, ConfSize}
    BY <2>1 DEF FlushInv, Running
  <2>3. ~Stopping /\ pc'.play = "loop" => Flushed
    BY <1>0, <2>1, <2>2 DEF Flushed
  <2>4. QED
    BY <1>2, <2>1, <2>2, <2>3 DEF Done, Leaving, Draining
<1>11. CASE audio_write
  <2>1. pc.play \in {"put", "push", "woken"} /\ UNCHANGED <<codec, wavbuf, next>>
    BY <1>11 DEF audio_write
  <2>2. ASSUME ~Stopping
        PROVE  fd # 0 /\ track = "playing" /\ (mode = "CALLBACK" => ~(cbstart < 0))
    <3>1. state # "PAUSED" \/ mode = "DIRECT"
      BY <1>0, <2>1 DEF ControlInv, HoldInv
    <3>2. QED
      BY <1>0, <2>1, <2>2, <3>1 DEF ControlInv, UndisturbedInv, Sounding, Running, RingType
  <2>3. pc'.play \in {"loop", "push", "wait", "unlock", "count", "leave", "abandon"}
    BY <1>0, <1>11 DEF audio_write, PutRing, Enter, PutTrack, NothingToPut, Taken, Short
  <2>4. ASSUME ~Stopping PROVE pc'.play \in {"push", "wait", "unlock", "count"}
    BY <1>0, <1>11, <2>2, <2>4 DEF audio_write, PutRing, Enter, PutTrack, Taken
  <2>5. ~Stopping /\ codec = "wav" => Len(wavbuf) \in {0, ConfSize}
    BY <2>1 DEF FlushInv, Running
  <2>6. QED
    BY <1>2, <2>1, <2>3, <2>4, <2>5 DEF Done, Leaving, Draining
<1>12. CASE Unlock
  <2>1. /\ pc.play = "unlock" /\ UNCHANGED <<codec, wavbuf, next>>
        /\ pc'.play \in {"write", "count"}
    BY <1>0, <1>12 DEF Unlock
  <2>2. ~Stopping /\ codec = "wav" => Len(wavbuf) \in {0, ConfSize}
    BY <2>1 DEF FlushInv, Running
  <2>3. QED
    BY <1>2, <2>1, <2>2 DEF Done, Leaving, Draining
<1>13. CASE Count
  <2>1. /\ pc.play = "count" /\ codec' = codec /\ pc'.play \in {"unlock", "write"}
        /\ wavbuf' = SubSeq(wavbuf, put + 1, Len(wavbuf))
    BY <1>0, <1>13 DEF Count
  <2>2. put \in 1 .. Len(wavbuf) /\ put = Len(Chunk)
    BY <1>0, <1>13, CountWav
  <2>3. ASSUME ~Stopping, codec = "wav" PROVE Len(wavbuf') = 0
    <3>1. Len(wavbuf) = ConfSize
      BY <1>0, <2>1, <2>2, <2>3 DEF FlushInv, Running
    <3>2. Chunk = SubSeq(wavbuf, 1, ConfSize)
      BY <1>0, <3>1 DEF Chunk
    <3>3. put = ConfSize
      BY <1>0, <2>2, <3>1, <3>2
    <3>4. QED
      BY <1>0, <2>1, <3>1, <3>3
  <2>4. QED
    BY <1>1, <2>1, <2>3 DEF FlushInv, DoneInv, Done, Leaving, Draining
<1>14. CASE Leave \/ End
  <2>1. /\ UNCHANGED <<codec, wavbuf, next, outcome>>
        /\ pc.play \in Leaving /\ after' = after
        /\ pc'.play \in {"lock", Left}
    BY <1>0, <1>14 DEF Leave, End, Leaving
  <2>2. after.play \in {"done", "fail", "broken", "break", "error"} /\ outcome = "none"
    BY <1>0, <2>1 DEF IInv, PCType, ControlInv, OutcomeInv, Leaving
  <2>3. pc'.play \in {"lock", "drain", "abandon", "over"}
    BY <2>1, <2>2 DEF Left
  <2>4. Done' => Done
    BY <1>e, <2>1, <2>2, <2>3 DEF Done, Leaving, Draining
  <2>5. QED
    BY <1>2, <2>1, <2>2, <2>3, <2>4 DEF DoneInv, Running
<1>15. CASE Lock \/ Shut
  <2>1. /\ UNCHANGED <<codec, wavbuf, next, outcome, after>>
        /\ pc.play \in Leaving \cup {"abandon"}
        /\ pc'.play \in {"end", "shut", "shut2", "abandon2"}
    BY <1>0, <1>15 DEF Lock, Shut, Leaving
  <2>2. Done' => Done
    BY <2>1 DEF Done
  <2>3. QED
    BY <1>2, <2>1, <2>2 DEF DoneInv, Running
<1>16. CASE Forget
  <2>1. /\ UNCHANGED <<codec, wavbuf, next, after>>
        /\ \/ pc.play = "shut2" /\ pc'.play = "end"
           \/ /\ pc.play = "abandon2" /\ pc'.play = "over"
              /\ outcome' = IF after.play = "fail" THEN "read" ELSE "error"
    BY <1>0, <1>16 DEF Forget
  <2>2. Done' => Done
    BY <1>e, <2>1 DEF Done, Leaving, Draining
  <2>3. QED
    BY <1>2, <2>1, <2>2 DEF DoneInv, Running
<1>17. CASE Drain
  <2>1. /\ pc.play = "drain" /\ UNCHANGED <<codec, mode, wavbuf, next, cbbuf, cbstart, cbend, after>>
        /\ outcome' = How
        /\ \/ pc'.play = "over" /\ (mode # "CALLBACK" \/ cbstart = -1)
           \/ pc'.play = "sleep"
    BY <1>0, <1>17 DEF Drain
  <2>2. pc'.play = "over" => Waiting' = <<>>
    BY <1>0, <2>1 DEF Waiting, RingType
  <2>3. Done' => Done
    BY <1>e, <2>1 DEF Done, Leaving, Draining, How
  <2>4. QED
    BY <1>2, <2>1, <2>2, <2>3 DEF DoneInv, Running
<1>18. CASE Sleep
  <2>1. /\ pc.play = "sleep" /\ UNCHANGED <<codec, wavbuf, next, after, outcome>>
        /\ pc'.play = IF get_free_bytes > 0 THEN "doneWait" ELSE "over"
    BY <1>0, <1>18 DEF Sleep
  <2>2. ~Stopping => pc'.play = "doneWait"
    <3>1. ~Stopping => cbstart >= 0
      BY <1>0, <2>1 DEF ControlInv, UndisturbedInv, OutcomeInv, Sounding, Draining
    <3>2. cbstart >= 0 => get_free_bytes > 0
      BY <1>0, RingOpens, ContentsLength
    <3>3. QED
      BY <2>1, <3>1, <3>2
  <2>3. ~Stopping /\ Done' => Done
    BY <2>1, <2>2 DEF Done, Draining
  <2>4. QED
    BY <1>2, <2>1, <2>2, <2>3 DEF DoneInv, Running
<1>19. CASE NearTheEnd
  <2>1. /\ UNCHANGED <<codec, wavbuf, next, after>> /\ pc'.play = "drain"
        /\ after.play = "break"
    BY <1>0, <1>19 DEF NearTheEnd
  <2>2. ~Done'
    BY <1>e, <2>1 DEF Done
  <2>3. QED
    BY <1>2, <2>1, <2>2 DEF Running
<1>20. QED
  BY <1>3, <1>4, <1>5, <1>6, <1>7, <1>8, <1>9, <1>10, <1>11, <1>12, <1>13, <1>14, <1>15,
     <1>16, <1>17, <1>18, <1>19 DEF PlayThread

EndInv == ControlInv /\ SoundInv /\ FlushInv /\ DoneInv

LEMMA InitEndInv == Init => EndInv
BY SizesAssumption
DEF Init, EndInv, ControlInv, HoldInv, UndisturbedInv, OutcomeInv, SoundInv, Sounding, FlushInv,
    DoneInv, Done, Running, Leaving, Draining, Stopped

LEMMA NextEndInv == PlayInv /\ EndInv /\ [Next]_vars => EndInv'
<1> SUFFICES ASSUME PlayInv, EndInv, [Next]_vars PROVE EndInv'
  OBVIOUS
<1>1. /\ IInv /\ WavInv /\ PutInv /\ RingType /\ CountInv
      /\ ControlInv /\ SoundInv /\ FlushInv /\ DoneInv
  BY DEF PlayInv, EndInv
<1>2. CASE Main
  BY <1>1, <1>2, MainControl, MainSound, MainDone DEF EndInv
<1>3. CASE PlayThread
  <2>1. SoundInv'
    <3>1. CASE StopRing("play")
      <4>1. /\ UNCHANGED <<codec, startpos, wavbuf, next, mode, cbbuf, cbend, given, written>>
            /\ cbstart' \in {cbstart, -1} /\ ~Open
        BY <3>1 DEF StopRing, Open, Opened, counts, hist, sound
      <4>2. QED
        BY <1>1, <1>3, <4>1, SoundingKept, StillSounds DEF IInv
    <3>2. CASE Open
      BY <1>1, <3>2, OpenSound
    <3>3. CASE Decode
      BY <1>1, <3>3, DecodeSound
    <3>4. CASE audio_write
      BY <1>1, <3>4, WriteSound
    <3>5. CASE Count
      BY <1>1, <3>5, CountSound
    <3>6. CASE Over
      <4>1. pc'.play \in {"dead", "stop"}
        BY <1>1, <3>6 DEF Over, Goto, Call, IInv, PCType
      <4>2. QED
        BY <4>1 DEF SoundInv, Sounding, Running, Leaving, Draining
    <3>7. CASE ~StopRing("play") /\ ~Open /\ ~Decode /\ ~audio_write /\ ~Count /\ ~Over
      <4>1. Aside
        BY <1>3, <3>7, PlayThreadAside
      <4>2. UNCHANGED <<codec, startpos, wavbuf, next>>
        BY <1>3, <3>7 DEF PlayThread, audio_stop, Test, Tested, CloseFile, Clear, Silence, Reset,
                          run, audioInit, OpenFails, Begin, Loop, Write, Unlock, Leave, Lock, Shut,
                          Forget, End, StoppedFromMain, NearTheEnd, Drain, Sleep, Complete, counts
      <4>3. QED
        BY <1>1, <1>3, <3>7, <4>1, <4>2, SoundingKept, StillSounds DEF Aside, IInv
    <3>8. QED
      BY <3>1, <3>2, <3>3, <3>4, <3>5, <3>6, <3>7
  <2>2. QED
    BY <1>1, <1>3, <2>1, PlayThreadControl, PlayThreadDone DEF EndInv
<1>4. CASE cbf
  BY <1>1, <1>4, CbfControl, CbfSound, CbfDone DEF EndInv
<1>5. CASE Sound
  <2>1. UNCHANGED <<codec, startpos, wavbuf, next, mode, cbbuf, cbend, cbstart, given, written>>
    BY <1>5 DEF Sound, ring, counts
  <2>2. SoundInv'
    BY <1>1, <1>5, <2>1, SoundingKept, StillSounds DEF IInv
  <2>3. QED
    BY <1>1, <1>5, <2>2, TrackControl, TrackDone DEF EndInv
<1>6. CASE UNCHANGED vars
  <2>1. ControlInv'
    BY <1>1, <1>6 DEF vars, ctx, ring, java, counts, hist, sound, ControlInv, HoldInv,
       UndisturbedInv, OutcomeInv, Sounding, How, Stopping
  <2>2. SoundInv'
    BY <1>1, <1>6 DEF vars, ring, counts, hist, sound, SoundInv, Sounding, First, Contents,
       get_free_bytes
  <2>3. FlushInv' /\ DoneInv'
    BY <1>1, <1>6 DEF vars, ring, hist, FlushInv, DoneInv, Done, Flushed, Decoded, Stopping,
       Waiting, Contents, get_free_bytes
  <2>4. QED
    BY <2>1, <2>2, <2>3 DEF EndInv
<1>7. QED
  BY <1>2, <1>3, <1>4, <1>5, <1>6 DEF Next

(* A play that nobody stops is disturbed by nothing (ControlInv), gives the *)
(* track the units of its file one after another (SoundInv) and comes to    *)
(* its end with less than a write left over (FlushInv, DoneInv): for every *)
(* codec, audio mode, size of the buffer, of the track and of the writes.  *)
THEOREM EndInvariance == Spec => []EndInv
BY PlayInvariance, InitEndInv, NextEndInv, PTL DEF Spec

LEMMA WhatIsLeft ==
    ASSUME NEW total \in Int, NEW first \in Int, NEW w \in Int, NEW p \in Int,
           NEW g \in Int, NEW q \in Int, NEW b \in Int, NEW x,
           w + p = g + q, x = first + w + b
    PROVE  total - first + 1 - g - q = (total + 1 - x) + b - p
OBVIOUS

(* When the play functions return after audio_wait_done() (std_audio.cpp:  *)
(* 323), the track was given the whole file in its order, but for less than *)
(* one write (of a WavPack file all of it); when wavPlay returns a read     *)
(* error instead (wav/main.c:149), so it was but for what still waits.      *)
THEOREM EndOfFileReachesTheTrack == Spec => []EndReachesTheTrack
<1>1. PlayInv /\ EndInv => EndReachesTheTrack
  <2> SUFFICES ASSUME PlayInv, EndInv, pc.play = "over", outcome = Play[codec].returns, ~Stopping
               PROVE  /\ CountsFrom(given, First)
                      /\ FileLen - First + 1 - Len(given) - Len(Waiting)
                           < (IF Play[codec].tail THEN 1 ELSE ConfSize)
                      /\ outcome = "done" => Waiting = <<>>
                      /\ Held <= TrackSize
    BY DEF EndReachesTheTrack, CountsFrom
  <2>1. IInv /\ WavInv /\ RingType /\ CountInv /\ PCType
    BY DEF PlayInv, IInv
  <2>2. Sounding
    BY <2>1, EndReturns DEF Sounding
  <2>3. /\ Flushed /\ Decoded /\ (outcome = "done" => Waiting = <<>>)
        /\ next = First + written + Len(wavbuf) /\ CountsFrom(given, First)
        /\ mode = "CALLBACK" => cbstart >= 0
    BY <2>2 DEF EndInv, ControlInv, UndisturbedInv, DoneInv, Done, SoundInv
  <2>4. Handed = Len(given) + Len(Waiting) /\ Len(Waiting) \in Nat
    <3>1. CASE mode = "CALLBACK"
      <4>1. Waiting = Contents
        BY <2>3, <3>1 DEF Waiting
      <4>2. QED
        BY <2>1, <2>3, <3>1, <4>1, SoundTypes DEF CountInv
    <3>2. CASE mode # "CALLBACK"
      <4>1. Waiting = <<>> /\ Len(given) \in Nat
        BY <2>1, <3>2, SoundTypes DEF Waiting
      <4>2. QED
        BY <2>1, <3>2, <4>1 DEF CountInv
    <3>3. QED
      BY <3>1, <3>2
  <2>5. /\ Len(wavbuf) \in Nat /\ Len(given) \in Nat /\ First \in Int /\ FileLen \in Int
        /\ ConfSize \in Nat \ {0} /\ written \in Nat /\ put \in Nat
    BY <2>1, SoundTypes, SizesAssumption DEF WavInv
  <2>6. FileLen - First + 1 - Len(given) - Len(Waiting)
          = (FileLen + 1 - next) + Len(wavbuf) - put
    <3>1. written + put = Len(given) + Len(Waiting)
      BY <2>4 DEF Handed
    <3>2. next = First + written + Len(wavbuf)
      BY <2>3
    <3>3. Len(Waiting) \in Int /\ Len(given) \in Int /\ Len(wavbuf) \in Int
          /\ written \in Int /\ put \in Int /\ First \in Int /\ FileLen \in Int
      BY <2>4, <2>5
    <3>4. QED
      BY <3>1, <3>2, <3>3, WhatIsLeft
  <2>7. (FileLen + 1 - next) + Len(wavbuf) < (IF Play[codec].tail THEN 1 ELSE ConfSize)
    <3>1. next \in Int
      BY <2>1, SoundTypes
    <3>2. CASE codec = "wav"
      <4>1. wavbuf = <<>> /\ FileLen + 1 - next < ConfSize /\ ~Play[codec].tail
        BY <2>3, <3>2 DEF Flushed, Decoded, Play, wavPlay
      <4>2. QED
        BY <2>5, <3>1, <4>1
    <3>3. CASE codec # "wav"
      <4>1. /\ FileLen + 1 - next < 1 /\ Len(wavbuf) < ConfSize
            /\ Play[codec].tail => Len(wavbuf) = 0
        BY <2>3, <3>3 DEF Flushed, Decoded
      <4>2. QED
        BY <2>5, <3>1, <4>1
    <3>4. QED
      BY <3>2, <3>3
  <2>8. FileLen - First + 1 - Len(given) - Len(Waiting)
          < (IF Play[codec].tail THEN 1 ELSE ConfSize)
    <3>1. next \in Int /\ (FileLen + 1 - next) + Len(wavbuf) \in Int
      BY <2>1, <2>5, SoundTypes
    <3>2. QED
      BY <2>5, <2>6, <2>7, <3>1
  <2>9. QED
    BY <2>1, <2>3, <2>8 DEF RingType
<1>2. QED
  BY <1>1, PlayInvariance, EndInvariance, PTL
==============================================================================
