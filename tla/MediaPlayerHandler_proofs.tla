---------------------- MODULE MediaPlayerHandler_proofs ----------------------
(***************************************************************************)
(* Proofs about MediaPlayerHandler, for any number of players, tracks and  *)
(* waiting messages.                                                       *)
(***************************************************************************)
EXTENDS MediaPlayerHandler, TLAPS

(* A player has been started since it was prepared, whatever came after.   *)
Playing == {"started", "paused", "complete"}

(* The held player is alive and the title describes it.                    *)
HeldInv == mp # NoPlayer => Live(mp) /\ title = source[mp]

(* Only the held player was ever started, and stopPlayback() can reach it. *)
PlayingInv == \A p \in Players : native[p] \in Playing => p = mp /\ prepared

(* A seek in progress is one of the held player ...                        *)
SeekingInv == \A p \in seeking : p = mp /\ prepared

(* ... and so is every seek that is complete but not yet handled, unless   *)
(* its player was released and the message will be discarded.              *)
SeekedInv ==
    \A i \in 1 .. Len(looper) :
        looper[i].kind = "seeked" /\ Live(looper[i].player)
            => looper[i].player = mp /\ prepared

(* After a final stop nothing is left that could start a player.           *)
FinalInv ==
    stopped = "final" =>
        /\ ~playonprepare
        /\ seeking = {}
        /\ \A p \in Players : native[p] \notin Playing
        /\ \A i \in 1 .. Len(looper) :
              Live(looper[i].player) => looper[i].kind # "seeked"

IInv == TypeOK /\ HeldInv /\ PlayingInv /\ SeekingInv /\ SeekedInv /\ FinalInv

-----------------------------------------------------------------------------
(* What a call posts is a sequence of at most one completion message.      *)
LEMMA ComplaintType ==
    ASSUME NEW p \in Players, NEW s, NEW t
    PROVE  /\ Complaint(p, s, t) \in Seq(Message)
           /\ Len(Complaint(p, s, t)) \in {0, 1}
           /\ \A i \in 1 .. Len(Complaint(p, s, t)) :
                 Complaint(p, s, t)[i].kind = "completion"
<1> DEFINE m == [kind |-> "completion", player |-> p]
<1>1. m \in Message /\ m.kind = "completion"
  BY DEF Message, MessageKind
<1>2. CASE t = "error" /\ s # "none"
  <2>1. Complaint(p, s, t) = <<m>>
    BY <1>2 DEF Complaint
  <2> HIDE DEF m
  <2>2. QED
    BY <1>1, <2>1
<1>3. CASE ~(t = "error" /\ s # "none")
  BY <1>3 DEF Complaint
<1>4. QED
  BY <1>2, <1>3

(* The results of the calls are player states.                             *)
LEMMA CallType ==
    ASSUME NEW s \in PlayerState
    PROVE  /\ AfterStart(s) \in {"started", "idle", "error"}
           /\ AfterPause(s) \in {"complete", "paused", "idle", "error"}
           /\ AfterPause(s) \in Playing => s \in Playing
           /\ AfterPause(s) \in Startable => s \in Playing
           /\ AfterStart(s) # "none" /\ AfterPause(s) # "none"
BY DEF AfterStart, AfterPause, Startable, PlayerState, Playing

(* A message appended to, or taken from, the looper.                       *)
LEMMA AppendSeeked ==
    ASSUME NEW q \in Seq(Message), NEW c \in Seq(Message), Len(c) \in {0, 1},
           \A i \in 1 .. Len(c) : c[i].kind = "completion"
    PROVE  /\ q \o c \in Seq(Message)
           /\ \A i \in 1 .. Len(q \o c) :
                 (q \o c)[i].kind = "seeked" =>
                     i \in 1 .. Len(q) /\ (q \o c)[i] = q[i]
<1>1. q \o c \in Seq(Message)
  OBVIOUS
<1>2. ASSUME NEW i \in 1 .. Len(q \o c), (q \o c)[i].kind = "seeked"
      PROVE  i \in 1 .. Len(q) /\ (q \o c)[i] = q[i]
  <2>1. Len(q \o c) = Len(q) + Len(c)
    OBVIOUS
  <2>2. CASE i \in 1 .. Len(q)
    BY <2>2
  <2>3. CASE i \notin 1 .. Len(q)
    <3>1. Len(c) = 1 /\ i = Len(q) + 1
      BY <2>1, <2>3, <1>2
    <3>2. (q \o c)[i] = c[1]
      BY <3>1, <2>1
    <3>3. QED
      BY <3>1, <3>2, <1>2
  <2>4. QED
    BY <2>2, <2>3
<1>3. QED
  BY <1>1, <1>2

LEMMA TailMessages ==
    ASSUME NEW q \in Seq(Message), q # <<>>
    PROVE  /\ Tail(q) \in Seq(Message)
           /\ Head(q) \in Message /\ Head(q) = q[1] /\ 1 \in 1 .. Len(q)
           /\ \A i \in 1 .. Len(Tail(q)) :
                 i + 1 \in 1 .. Len(q) /\ Tail(q)[i] = q[i + 1]
OBVIOUS

-----------------------------------------------------------------------------
LEMMA MessagePlayer ==
    ASSUME NEW q \in Seq(Message), NEW i \in 1 .. Len(q)
    PROVE  q[i] \in Message /\ q[i].player \in Players
<1>1. q[i] \in Message
  OBVIOUS
<1>2. QED
  BY <1>1 DEF Message

(* No step but SeekDone adds a "seeked" message of a live player.          *)
NoNewSeeked ==
    \A i \in 1 .. Len(looper') :
        looper'[i].kind = "seeked" /\ native'[looper'[i].player] # "none"
            => \E j \in 1 .. Len(looper) :
                  looper[j] = looper'[i] /\ Live(looper[j].player)

LEMMA InitIInv == Init => IInv
<1> SUFFICES ASSUME Init PROVE IInv
  OBVIOUS
<1>1. TypeOK
  <2>1. native \in [Players -> PlayerState] /\ source \in [Players -> Tracks \cup {NoTrack}]
    BY DEF Init, PlayerState
  <2>2. seeking \in SUBSET Players /\ looper \in Seq(Message)
    BY DEF Init
  <2>3. QED
    BY <2>1, <2>2 DEF Init, TypeOK
<1>2. Len(looper) = 0
  BY DEF Init
<1>3. HeldInv /\ PlayingInv /\ SeekingInv /\ SeekedInv /\ FinalInv
  BY <1>2 DEF Init, HeldInv, PlayingInv, SeekingInv, SeekedInv, FinalInv, Playing
<1>4. QED
  BY <1>1, <1>3 DEF IInv

(* A call on the held player, in any of its uses.                          *)
LEMMA CallStep ==
    ASSUME IInv, mp \in Players, NEW q \in Seq(Message), NEW st \in PlayerState,
           Call(st, q), st # "none", native[mp] # "none",
           \A i \in 1 .. Len(q) : \E j \in 1 .. Len(looper) : q[i] = looper[j]
    PROVE  /\ native' = [native EXCEPT ![mp] = st]
           /\ native' \in [Players -> PlayerState]
           /\ looper' \in Seq(Message)
           /\ \A p \in Players : native'[p] # "none" <=> native[p] # "none"
           /\ NoNewSeeked
<1> DEFINE c == Complaint(mp, native[mp], st)
<1>1. /\ native' = [native EXCEPT ![mp] = st]
      /\ native' \in [Players -> PlayerState]
      /\ \A p \in Players : native'[p] # "none" <=> native[p] # "none"
  BY DEF Call, IInv, TypeOK
<1>2. c \in Seq(Message) /\ Len(c) \in {0, 1}
        /\ \A i \in 1 .. Len(c) : c[i].kind = "completion"
  BY ComplaintType
<1>3. looper' = q \o c
  BY DEF Call
<1> HIDE DEF c
<1>4. /\ looper' \in Seq(Message)
      /\ \A i \in 1 .. Len(looper') : looper'[i].kind = "seeked" =>
             i \in 1 .. Len(q) /\ looper'[i] = q[i]
  BY <1>2, <1>3, AppendSeeked
<1>5. ASSUME NEW i \in 1 .. Len(looper'), looper'[i].kind = "seeked",
             native'[looper'[i].player] # "none"
      PROVE  \E j \in 1 .. Len(looper) :
                looper[j] = looper'[i] /\ Live(looper[j].player)
  <2>1. i \in 1 .. Len(q) /\ looper'[i] = q[i]
    BY <1>4, <1>5
  <2>2. PICK j \in 1 .. Len(looper) : q[i] = looper[j]
    BY <2>1
  <2>3. looper[j].player \in Players
    BY MessagePlayer DEF IInv, TypeOK
  <2>4. QED
    BY <1>1, <1>5, <2>1, <2>2, <2>3 DEF Live
<1>6. QED
  BY <1>1, <1>4, <1>5 DEF NoNewSeeked

(* Messages only leave the looper, and no player comes to life.            *)
LEMMA FewerMessages ==
    ASSUME IInv, looper' \in Seq(Message),
           \A i \in 1 .. Len(looper') : \E j \in 1 .. Len(looper) :
               looper'[i] = looper[j],
           \A p \in Players : native'[p] # "none" => native[p] # "none"
    PROVE  NoNewSeeked
<1>1. \A j \in 1 .. Len(looper) : looper[j].player \in Players
  BY MessagePlayer DEF IInv, TypeOK
<1>2. QED
  BY <1>1 DEF NoNewSeeked, Live

-----------------------------------------------------------------------------
(* One lemma per action: the invariant survives it.                        *)

(* The player stopPlayback() releases, if any, was the only one playing or *)
(* seeking.                                                                *)
LEMMA ReleaseFacts ==
    ASSUME IInv
    PROVE  /\ Released \in [Players -> PlayerState]
           /\ \A p \in Players : Released[p] # "none" =>
                 native[p] # "none" /\ Released[p] = native[p]
                   /\ ~(StopReleases /\ p = mp)
           /\ \A p \in Players : Released[p] \notin Playing
           /\ (IF StopReleases THEN seeking \ {mp} ELSE seeking) = {}
<1> USE DEF IInv, TypeOK, StopReleases
<1>1. Released \in [Players -> PlayerState]
  BY DEF Released, PlayerState
<1>2. ASSUME NEW p \in Players, Released[p] # "none"
      PROVE  /\ native[p] # "none" /\ Released[p] = native[p]
             /\ ~(StopReleases /\ p = mp)
  BY <1>2 DEF Released
<1>3. ASSUME NEW p \in Players
      PROVE  Released[p] \notin Playing
  BY <1>1, <1>2, PlayersAssumption DEF PlayingInv, Playing
<1>4. (IF StopReleases THEN seeking \ {mp} ELSE seeking) = {}
  BY PlayersAssumption DEF SeekingInv
<1>5. QED
  BY <1>1, <1>2, <1>3, <1>4

LEMMA StopStep == ASSUME IInv, StopPlayback PROVE IInv'
<1> USE DEF StopPlayback, Cleared
<1>1. TypeOK'
  BY ReleaseFacts DEF IInv, TypeOK
<1>2. HeldInv'
  BY DEF IInv, TypeOK, HeldInv, Live, Released, StopReleases
<1>3. PlayingInv' /\ SeekingInv'
  BY ReleaseFacts DEF PlayingInv, SeekingInv
<1>4. \A i \in 1 .. Len(looper) :
         native'[looper[i].player] # "none" => looper[i].kind # "seeked"
  <2> SUFFICES ASSUME NEW i \in 1 .. Len(looper),
                      native'[looper[i].player] # "none",
                      looper[i].kind = "seeked"
               PROVE  FALSE
    OBVIOUS
  <2>1. looper[i].player \in Players
    BY MessagePlayer DEF IInv, TypeOK
  <2>2. looper[i].player = mp /\ prepared
    BY <2>1, ReleaseFacts DEF IInv, SeekedInv, Live
  <2>3. QED
    BY <2>1, <2>2, ReleaseFacts, PlayersAssumption DEF StopReleases
<1>5. SeekedInv'
  BY <1>4 DEF SeekedInv, Live
<1>6. FinalInv'
  BY <1>4, ReleaseFacts DEF FinalInv, Live
<1>7. QED
  BY <1>1, <1>2, <1>3, <1>5, <1>6 DEF IInv

LEMMA OpeningStep ==
    ASSUME IInv, NEW t \in Paths, NEW survives, Opening(t, survives)
    PROVE  IInv'
<1> USE DEF Opening
<1>1. CASE Open(t)
  <2>1. PICK p \in Players :
          /\ Quiet(p)
          /\ native' = [Released EXCEPT ![p] = "preparing"]
          /\ source' = [source EXCEPT ![p] = t]
          /\ mp' = p
    BY <1>1 DEF Open
  <2>2. title' = t
    BY <1>1 DEF Open
  <2>3. TypeOK'
    BY <2>1, <2>2, ReleaseFacts DEF IInv, TypeOK, PlayerState, Paths
  <2>4. HeldInv'
    BY <2>1, <2>2, ReleaseFacts DEF HeldInv, Live, IInv, TypeOK
  <2>5. PlayingInv' /\ SeekingInv'
    BY <2>1, ReleaseFacts DEF PlayingInv, SeekingInv, Playing
  <2>6. SeekedInv'
    <3> SUFFICES ASSUME NEW i \in 1 .. Len(looper),
                        native'[looper[i].player] # "none",
                        looper[i].kind = "seeked"
                 PROVE  FALSE
      BY DEF SeekedInv, Live
    <3>1. looper[i].player \in Players /\ looper[i].player # p
      BY <2>1, MessagePlayer DEF IInv, TypeOK, Quiet
    <3>2. Released[looper[i].player] # "none"
      BY <2>1, <3>1, ReleaseFacts
    <3>3. looper[i].player = mp /\ prepared
      BY <3>1, <3>2, ReleaseFacts DEF IInv, SeekedInv, Live
    <3>4. QED
      BY <3>1, <3>2, <3>3, ReleaseFacts, PlayersAssumption DEF StopReleases
  <2>7. FinalInv'
    BY DEF FinalInv
  <2>8. QED
    BY <2>3, <2>4, <2>5, <2>6, <2>7 DEF IInv
<1>2. CASE OpenFails({t}) \/ OpenFails({})
  <2> USE <1>2 DEF OpenFails
  <2>1. TypeOK'
    BY ReleaseFacts DEF IInv, TypeOK, Paths
  <2>2. HeldInv' /\ PlayingInv' /\ SeekingInv' /\ FinalInv'
    BY ReleaseFacts DEF HeldInv, PlayingInv, SeekingInv, FinalInv
  <2>3. SeekedInv'
    <3> SUFFICES ASSUME NEW i \in 1 .. Len(looper),
                        native'[looper[i].player] # "none",
                        looper[i].kind = "seeked"
                 PROVE  FALSE
      BY DEF SeekedInv, Live
    <3>1. looper[i].player \in Players
      BY MessagePlayer DEF IInv, TypeOK
    <3>2. looper[i].player = mp /\ prepared
      BY <3>1, ReleaseFacts DEF IInv, SeekedInv, Live
    <3>3. QED
      BY <3>1, <3>2, ReleaseFacts, PlayersAssumption DEF StopReleases
  <2>4. QED
    BY <2>1, <2>2, <2>3 DEF IInv
<1>3. QED
  BY <1>1, <1>2

(* When the held player and prepared stay what they were, the obligations  *)
(* on seeks carry over.                                                    *)
LEMMA SeekedCarries ==
    ASSUME IInv, NoNewSeeked, mp' = mp, prepared => prepared'
    PROVE  /\ SeekedInv'
           /\ stopped = "final" => \A i \in 1 .. Len(looper') :
                 native'[looper'[i].player] # "none" => looper'[i].kind # "seeked"
<1>1. SeekedInv'
  BY DEF IInv, SeekedInv, NoNewSeeked, Live
<1>2. ASSUME stopped = "final", NEW i \in 1 .. Len(looper'),
             native'[looper'[i].player] # "none", looper'[i].kind = "seeked"
      PROVE  FALSE
  BY <1>2 DEF IInv, FinalInv, NoNewSeeked, Live
<1>3. QED
  BY <1>1, <1>2

LEMMA StartStep == ASSUME IInv, StartPlayback PROVE IInv'
<1> USE DEF StartPlayback
<1>1. CASE prepared /\ mp # NoPlayer
  <2>1. mp \in Players /\ native[mp] # "none" /\ native[mp] \in PlayerState
    BY <1>1 DEF IInv, TypeOK, HeldInv, Live
  <2>2. Call(AfterStart(native[mp]), looper)
    BY <1>1
  <2>3. AfterStart(native[mp]) \in PlayerState /\ AfterStart(native[mp]) # "none"
    BY <2>1, CallType DEF PlayerState
  <2>4. looper \in Seq(Message)
    BY DEF IInv, TypeOK
  <2>5. /\ native' = [native EXCEPT ![mp] = AfterStart(native[mp])]
        /\ native' \in [Players -> PlayerState]
        /\ looper' \in Seq(Message)
        /\ NoNewSeeked
    BY <2>1, <2>2, <2>3, <2>4, CallStep
  <2>6. TypeOK'
    BY <2>5 DEF IInv, TypeOK
  <2>7. HeldInv' /\ PlayingInv' /\ SeekingInv' /\ FinalInv'
    BY <1>1, <2>1, <2>3, <2>5
       DEF IInv, TypeOK, HeldInv, PlayingInv, SeekingInv, FinalInv, Live
  <2>8. QED
    BY <2>5, <2>6, <2>7, SeekedCarries DEF IInv
<1>2. CASE ~(prepared /\ mp # NoPlayer)
  BY <1>2 DEF IInv, TypeOK, HeldInv, PlayingInv, SeekingInv, SeekedInv, FinalInv,
              Live
<1>3. QED
  BY <1>1, <1>2

(* pausePlayback() and the pause of seekPlayback(): the held player does   *)
(* not play, and may seek, only if it was playing.                         *)
LEMMA PauseFacts ==
    ASSUME IInv, prepared, mp # NoPlayer,
           Call(AfterPause(native[mp]), looper)
    PROVE  /\ mp \in Players
           /\ native' \in [Players -> PlayerState]
           /\ looper' \in Seq(Message)
           /\ NoNewSeeked
           /\ native'[mp] # "none"
           /\ native'[mp] \in Startable => native[mp] \in Playing
           /\ \A p \in Players : native'[p] \in Playing => native[p] \in Playing
<1>1. mp \in Players /\ native[mp] # "none" /\ native[mp] \in PlayerState
  BY DEF IInv, TypeOK, HeldInv, Live
<1>2. AfterPause(native[mp]) \in PlayerState /\ AfterPause(native[mp]) # "none"
  BY <1>1, CallType DEF PlayerState
<1>3. looper \in Seq(Message)
  BY DEF IInv, TypeOK
<1>4. /\ native' = [native EXCEPT ![mp] = AfterPause(native[mp])]
      /\ native' \in [Players -> PlayerState]
      /\ looper' \in Seq(Message)
      /\ NoNewSeeked
  BY <1>1, <1>2, <1>3, CallStep
<1>5. QED
  BY <1>1, <1>2, <1>4, CallType DEF IInv, TypeOK

LEMMA PauseStep == ASSUME IInv, PausePlayback PROVE IInv'
<1> USE DEF PausePlayback, handlerVars, history
<1>1. /\ mp \in Players
      /\ native' \in [Players -> PlayerState] /\ looper' \in Seq(Message)
      /\ NoNewSeeked /\ native'[mp] # "none"
      /\ \A p \in Players : native'[p] \in Playing => native[p] \in Playing
  BY PauseFacts
<1>2. TypeOK'
  BY <1>1 DEF IInv, TypeOK
<1>3. HeldInv' /\ PlayingInv' /\ SeekingInv'
  BY <1>1 DEF IInv, HeldInv, PlayingInv, SeekingInv, Live
<1>4. SeekedInv'
  BY <1>1, SeekedCarries
<1>5. FinalInv'
  BY <1>1, SeekedCarries DEF IInv, FinalInv, Live
<1>6. QED
  BY <1>2, <1>3, <1>4, <1>5 DEF IInv

LEMMA SeekStep == ASSUME IInv, SeekPlayback PROVE IInv'
<1> USE DEF SeekPlayback, handlerVars, history
<1>1. /\ mp \in Players
      /\ native' \in [Players -> PlayerState] /\ looper' \in Seq(Message)
      /\ NoNewSeeked /\ native'[mp] # "none"
      /\ native'[mp] \in Startable => native[mp] \in Playing
      /\ \A p \in Players : native'[p] \in Playing => native[p] \in Playing
  BY PauseFacts
<1>2. \/ seeking' = seeking
      \/ seeking' = seeking \cup {mp} /\ native[mp] \in Playing
  BY <1>1
<1>3. TypeOK'
  BY <1>1, <1>2 DEF IInv, TypeOK
<1>4. HeldInv' /\ PlayingInv' /\ SeekingInv'
  BY <1>1, <1>2 DEF IInv, HeldInv, PlayingInv, SeekingInv, Live
<1>5. SeekedInv'
  BY <1>1, SeekedCarries
<1>6. FinalInv'
  BY <1>1, <1>2, SeekedCarries DEF IInv, FinalInv, Live
<1>7. QED
  BY <1>3, <1>4, <1>5, <1>6 DEF IInv

-----------------------------------------------------------------------------
(* A message of kind k posted for p at the end of the looper.              *)
LEMMA PostFacts ==
    ASSUME IInv, NEW k \in MessageKind, NEW p \in Players, Post(k, p)
    PROVE  /\ looper' \in Seq(Message)
           /\ \A i \in 1 .. Len(looper') :
                 \/ i \in 1 .. Len(looper) /\ looper'[i] = looper[i]
                 \/ looper'[i].kind = k /\ looper'[i].player = p
<1> DEFINE m == [kind |-> k, player |-> p]
<1>1. m \in Message /\ m.kind = k /\ m.player = p
  BY DEF Message
<1>2. looper \in Seq(Message) /\ looper' = Append(looper, m)
  BY DEF IInv, TypeOK, Post
<1> HIDE DEF m
<1>3. QED
  BY <1>1, <1>2

(* A player that moves by itself keeps the invariant when it moves to a    *)
(* state the invariant allows it.                                          *)
LEMMA MoveStep ==
    ASSUME IInv, NEW p \in Players, NEW s \in PlayerState \ {"none"},
           NEW k \in {"prepared", "completion"},
           native[p] # "none", s \in Playing => native[p] \in Playing,
           native' = [native EXCEPT ![p] = s], Post(k, p),
           UNCHANGED <<source, seeking, handlerVars, crashed, history>>
    PROVE  IInv'
<1> USE DEF handlerVars, history
<1>1. /\ looper' \in Seq(Message)
      /\ \A i \in 1 .. Len(looper') :
            looper'[i].kind = "seeked" =>
                i \in 1 .. Len(looper) /\ looper'[i] = looper[i]
  BY PostFacts DEF MessageKind
<1>2. \A i \in 1 .. Len(looper) : looper[i].player \in Players
  BY MessagePlayer DEF IInv, TypeOK
<1>3. NoNewSeeked
  BY <1>1, <1>2 DEF NoNewSeeked, Live, IInv, TypeOK
<1>4. TypeOK'
  BY <1>1 DEF IInv, TypeOK
<1>5. HeldInv' /\ PlayingInv' /\ SeekingInv'
  BY DEF IInv, TypeOK, HeldInv, PlayingInv, SeekingInv, Live
<1>6. FinalInv'
  BY <1>3, SeekedCarries DEF IInv, TypeOK, FinalInv, Live
<1>7. QED
  BY <1>3, <1>4, <1>5, <1>6, SeekedCarries DEF IInv

LEMMA PrepareDoneStep ==
    ASSUME IInv, NEW p \in Players, PrepareDone(p) PROVE IInv'
<1> DEFINE s == "prepared"
<1>1. s \in PlayerState \ {"none"} /\ s \notin Playing
  BY DEF PlayerState, Playing
<1>2. QED
  BY <1>1, MoveStep DEF PrepareDone

LEMMA PlaybackEndsStep ==
    ASSUME IInv, NEW p \in Players, PlaybackEnds(p) PROVE IInv'
<1> DEFINE s == "complete"
<1>1. s \in PlayerState \ {"none"} /\ native[p] \in Playing /\ native[p] # "none"
  BY DEF PlayerState, Playing, PlaybackEnds
<1>2. QED
  BY <1>1, MoveStep DEF PlaybackEnds

LEMMA MediaFailsStep ==
    ASSUME IInv, NEW p \in Players, MediaFails(p) PROVE IInv'
<1> DEFINE s == "error"
<1>1. s \in PlayerState \ {"none"} /\ s \notin Playing /\ native[p] # "none"
  BY DEF PlayerState, Playing, MediaFails
<1>2. QED
  BY <1>1, MoveStep DEF MediaFails

LEMMA SeekDoneStep ==
    ASSUME IInv, NEW p \in Players, SeekDone(p) PROVE IInv'
<1> USE DEF SeekDone, handlerVars, history
<1>1. /\ looper' \in Seq(Message)
      /\ \A i \in 1 .. Len(looper') :
            \/ i \in 1 .. Len(looper) /\ looper'[i] = looper[i]
            \/ looper'[i].player = p
  BY PostFacts DEF MessageKind
<1>2. p = mp /\ prepared /\ stopped # "final"
  BY DEF IInv, SeekingInv, FinalInv
<1>3. TypeOK'
  BY <1>1 DEF IInv, TypeOK
<1>4. HeldInv' /\ PlayingInv' /\ SeekingInv' /\ FinalInv'
  BY <1>2 DEF IInv, HeldInv, PlayingInv, SeekingInv, FinalInv, Live
<1>5. SeekedInv'
  BY <1>1, <1>2 DEF IInv, SeekedInv, Live
<1>6. QED
  BY <1>3, <1>4, <1>5 DEF IInv

-----------------------------------------------------------------------------
(* Taking the oldest message off the looper.                               *)
LEMMA TailFacts ==
    ASSUME IInv, looper # <<>>
    PROVE  /\ Tail(looper) \in Seq(Message)
           /\ \A i \in 1 .. Len(Tail(looper)) :
                 \E j \in 1 .. Len(looper) : Tail(looper)[i] = looper[j]
           /\ Head(looper) = looper[1] /\ 1 \in 1 .. Len(looper)
           /\ Head(looper).player \in Players
<1>1. looper \in Seq(Message)
  BY DEF IInv, TypeOK
<1>2. QED
  BY <1>1, TailMessages, MessagePlayer

LEMMA DiscardStep == ASSUME IInv, Discard PROVE IInv'
<1> USE DEF Discard, handlerVars, history
<1>1. looper' \in Seq(Message) /\ NoNewSeeked
  BY TailFacts, FewerMessages
<1>2. TypeOK'
  BY <1>1 DEF IInv, TypeOK
<1>3. HeldInv' /\ PlayingInv' /\ SeekingInv'
  BY DEF IInv, HeldInv, PlayingInv, SeekingInv, Live
<1>4. SeekedInv' /\ FinalInv'
  BY <1>1, SeekedCarries DEF IInv, FinalInv, Live
<1>5. QED
  BY <1>2, <1>3, <1>4 DEF IInv

(* mp.start() in a listener.                                               *)
LEMMA StartHeldFacts ==
    ASSUME IInv, looper # <<>>, StartHeld
    PROVE  /\ native' \in [Players -> PlayerState]
           /\ looper' \in Seq(Message)
           /\ NoNewSeeked
           /\ crashed' \in BOOLEAN
           /\ \A p \in Players : native'[p] # "none" <=> native[p] # "none"
           /\ \A p \in Players :
                 native'[p] \in Playing => native[p] \in Playing \/ p = mp
<1>1. CASE mp = NoPlayer
  <2>1. native' = native /\ looper' = Tail(looper) /\ crashed' \in BOOLEAN
    BY <1>1 DEF StartHeld
  <2>2. looper' \in Seq(Message) /\ NoNewSeeked
    BY <2>1, TailFacts, FewerMessages
  <2>3. QED
    BY <2>1, <2>2 DEF IInv, TypeOK
<1>2. CASE mp # NoPlayer
  <2>1. mp \in Players /\ native[mp] # "none" /\ native[mp] \in PlayerState
    BY <1>2 DEF IInv, TypeOK, HeldInv, Live
  <2>2. AfterStart(native[mp]) \in PlayerState /\ AfterStart(native[mp]) # "none"
    BY <2>1, CallType DEF PlayerState
  <2>3. Call(AfterStart(native[mp]), Tail(looper)) /\ crashed' \in BOOLEAN
    BY <1>2 DEF StartHeld
  <2>4. /\ native' = [native EXCEPT ![mp] = AfterStart(native[mp])]
        /\ native' \in [Players -> PlayerState]
        /\ looper' \in Seq(Message)
        /\ \A p \in Players : native'[p] # "none" <=> native[p] # "none"
        /\ NoNewSeeked
    BY <2>1, <2>2, <2>3, TailFacts, CallStep
  <2>5. QED
    BY <2>3, <2>4 DEF IInv, TypeOK
<1>3. QED
  BY <1>1, <1>2

LEMMA OnPreparedStep == ASSUME IInv, OnPrepared PROVE IInv'
<1> USE DEF OnPrepared, history
<1>1. looper # <<>>
  BY DEF Handle
<1>2. CASE playonprepare /\ StartHeld
  <2>1. /\ native' \in [Players -> PlayerState] /\ looper' \in Seq(Message)
        /\ NoNewSeeked /\ crashed' \in BOOLEAN
        /\ \A p \in Players : native'[p] # "none" <=> native[p] # "none"
        /\ \A p \in Players :
              native'[p] \in Playing => native[p] \in Playing \/ p = mp
    BY <1>1, <1>2, StartHeldFacts
  <2>2. stopped # "final"
    BY <1>2 DEF IInv, FinalInv
  <2>3. TypeOK'
    BY <1>2, <2>1 DEF IInv, TypeOK
  <2>4. HeldInv' /\ PlayingInv' /\ SeekingInv' /\ FinalInv'
    BY <2>1, <2>2
       DEF IInv, TypeOK, HeldInv, PlayingInv, SeekingInv, FinalInv, Live
  <2>5. QED
    BY <2>1, <2>3, <2>4, SeekedCarries DEF IInv
<1>3. CASE ~playonprepare
  <2>1. native' = native /\ looper' = Tail(looper)
    BY <1>3
  <2>2. looper' \in Seq(Message) /\ NoNewSeeked
    BY <1>1, <2>1, TailFacts, FewerMessages
  <2>3. TypeOK'
    BY <1>3, <2>2 DEF IInv, TypeOK
  <2>4. HeldInv' /\ PlayingInv' /\ SeekingInv'
    BY <2>1 DEF IInv, HeldInv, PlayingInv, SeekingInv, Live
  <2>5. SeekedInv' /\ FinalInv'
    BY <1>3, <2>1, <2>2, SeekedCarries DEF IInv, FinalInv, Live
  <2>6. QED
    BY <2>3, <2>4, <2>5 DEF IInv
<1>4. QED
  BY <1>2, <1>3

LEMMA OnCompletionStep == ASSUME IInv, OnCompletion PROVE IInv'
<1> USE DEF OnCompletion, history
<1>1. looper # <<>> /\ looper' = Tail(looper)
  BY DEF Handle
<1>2. \A p \in Players : native'[p] # "none" =>
          native[p] # "none" /\ native'[p] = native[p] /\ p # mp
  OBVIOUS
<1>3. looper' \in Seq(Message) /\ NoNewSeeked
  BY <1>1, <1>2, TailFacts, FewerMessages
<1>4. \A i \in 1 .. Len(looper') :
          native'[looper'[i].player] # "none" => looper'[i].kind # "seeked"
  <2>1. \A i \in 1 .. Len(looper') : looper'[i].player \in Players
    BY <1>3, MessagePlayer
  <2>2. QED
    BY <1>2, <1>3, <2>1 DEF NoNewSeeked, IInv, SeekedInv
<1>5. seeking' = {}
  BY PlayersAssumption DEF IInv, SeekingInv
<1>6. TypeOK'
  BY <1>3, <1>5 DEF IInv, TypeOK, PlayerState
<1>7. HeldInv' /\ SeekingInv' /\ SeekedInv'
  BY <1>4, <1>5 DEF HeldInv, SeekingInv, SeekedInv, Live
<1>8. PlayingInv' /\ \A p \in Players : native'[p] \notin Playing
  BY DEF IInv, PlayingInv, Playing
<1>9. FinalInv'
  BY <1>4, <1>5, <1>8 DEF IInv, FinalInv, Live
<1>10. QED
  BY <1>6, <1>7, <1>8, <1>9 DEF IInv

LEMMA OnSeekCompleteStep == ASSUME IInv, OnSeekComplete PROVE IInv'
<1> USE DEF OnSeekComplete, handlerVars, history
<1>1. looper # <<>> /\ StartHeld
  BY DEF Handle
<1>2. /\ native' \in [Players -> PlayerState] /\ looper' \in Seq(Message)
      /\ NoNewSeeked /\ crashed' \in BOOLEAN
      /\ \A p \in Players : native'[p] # "none" <=> native[p] # "none"
      /\ \A p \in Players :
            native'[p] \in Playing => native[p] \in Playing \/ p = mp
  BY <1>1, StartHeldFacts
<1>3. prepared /\ stopped # "final"
  <2>1. Head(looper) = looper[1] /\ 1 \in 1 .. Len(looper)
    BY <1>1, TailFacts
  <2>2. looper[1].kind = "seeked" /\ Live(looper[1].player)
    BY <2>1 DEF Handle
  <2>3. QED
    BY <2>1, <2>2 DEF IInv, SeekedInv, FinalInv
<1>4. TypeOK'
  BY <1>2 DEF IInv, TypeOK
<1>5. HeldInv' /\ PlayingInv' /\ SeekingInv' /\ FinalInv'
  BY <1>2, <1>3 DEF IInv, TypeOK, HeldInv, PlayingInv, SeekingInv, FinalInv, Live
<1>6. QED
  BY <1>2, <1>4, <1>5, SeekedCarries DEF IInv

(* A new process starts in the initial state.                              *)
LEMMA RestartStep == ASSUME Restart PROVE IInv'
<1>1. Init'
  BY DEF Restart, Init
<1>2. QED
  BY <1>1, InitIInv, PTL

LEMMA NextIInv == IInv /\ [Next]_vars => IInv'
<1> SUFFICES ASSUME IInv, [Next]_vars PROVE IInv'
  OBVIOUS
<1>1. CASE Restart
  BY <1>1, RestartStep
<1>2. CASE Method
  BY <1>2, StopStep, StartStep, PauseStep, SeekStep, OpeningStep
     DEF Method, Initialize, Refresh
<1>3. CASE Platform
  BY <1>3, PrepareDoneStep, PlaybackEndsStep, MediaFailsStep, SeekDoneStep
     DEF Platform
<1>4. CASE Listener
  BY <1>4, DiscardStep, OnPreparedStep, OnCompletionStep, OnSeekCompleteStep
     DEF Listener
<1>5. CASE UNCHANGED vars
  BY <1>5 DEF vars, playerVars, handlerVars, history, IInv, TypeOK, HeldInv, PlayingInv,
              SeekingInv, SeekedInv, FinalInv, Live
<1>6. QED
  BY <1>1, <1>2, <1>3, <1>4, <1>5 DEF Next

(* The inductive invariant holds of every behaviour of the handler.        *)
THEOREM Invariance == Spec => []IInv
BY InitIInv, NextIInv, PTL DEF Spec

(* The variables keep their types.                                         *)
THEOREM TypeCorrect == Spec => []TypeOK
<1>1. IInv => TypeOK
  BY DEF IInv
<1>2. QED
  BY <1>1, Invariance, PTL

(* Whatever is heard comes from the held player, and stopPlayback() would  *)
(* silence it: MediaPlayerHandler.java 95-103, 207-259.                    *)
THEOREM AudibleStoppable == Spec => []AudibleIsStoppable
<1>1. IInv => AudibleIsStoppable
  BY DEF IInv, PlayingInv, AudibleIsStoppable, Audible, Playing
<1>2. QED
  BY <1>1, Invariance, PTL

(* The title shown belongs to the track of the held player:                *)
(* MediaPlayerHandler.java 99-131, 252-256.                                *)
THEOREM TitleMatches == Spec => []TitleMatchesPlayer
<1>1. IInv => TitleMatchesPlayer
  BY DEF IInv, HeldInv, TitleMatchesPlayer
<1>2. QED
  BY <1>1, Invariance, PTL

(* After a stop with no start request waiting nothing is heard until the   *)
(* next command: MediaPlayerHandler.java 138-149, 235-259, 299-313.        *)
THEOREM FinalStop == Spec => []StopIsFinal
<1>1. IInv => StopIsFinal
  BY DEF IInv, FinalInv, StopIsFinal, Audible, Playing
<1>2. QED
  BY <1>1, Invariance, PTL

-----------------------------------------------------------------------------
(* What HurryIsToBlame says of a process whose track was never changed too *)
(* early.                                                                  *)
Unhurried == ~crashed /\ (\A p \in Players : ~Abandoned(p))
                      /\ (prepared => mp # NoPlayer)

(* While no player comes to life, mp stays and prepared is only set when   *)
(* mp is, no player is left behind.                                        *)
LEMMA SameMp ==
    ASSUME Unhurried, ~crashed', mp' = mp, prepared' => prepared \/ mp # NoPlayer,
           \A p \in Players : native'[p] # "none" => native[p] # "none"
    PROVE  Unhurried'
BY DEF Unhurried, Abandoned, Live

(* A listener that runs was called by the held player.                     *)
LEMMA HandledIsHeld ==
    ASSUME IInv, Unhurried, NEW k, Handle(k)
    PROVE  mp # NoPlayer /\ mp \in Players /\ looper # <<>>
<1>1. looper # <<>> /\ Live(Head(looper).player)
  BY DEF Handle
<1>2. Head(looper).player \in Players
  BY <1>1, TailFacts
<1>3. Head(looper).player = mp
  BY <1>1, <1>2 DEF Unhurried, Abandoned
<1>4. QED
  BY <1>1, <1>2, <1>3, PlayersAssumption

(* Changing the track releases the previous player unless it is not yet    *)
(* prepared.                                                               *)
LEMMA NothingLeft ==
    ASSUME IInv, Unhurried, ~(mp # NoPlayer /\ ~prepared)
    PROVE  /\ prepared <=> StopReleases
           /\ \A p \in Players : Released[p] = "none"
<1>1. prepared <=> StopReleases
  BY DEF Unhurried, StopReleases
<1>2. ASSUME NEW p \in Players, Released[p] # "none"
      PROVE  FALSE
  <2>1. native[p] # "none" /\ ~(StopReleases /\ p = mp)
    BY <1>2, ReleaseFacts
  <2>2. p = mp
    BY <2>1 DEF Unhurried, Abandoned, Live
  <2>3. QED
    BY <1>1, <2>1, <2>2, PlayersAssumption
<1>3. QED
  BY <1>1, <1>2

LEMMA UnhurriedMethod ==
    ASSUME IInv, Unhurried, ~crashed, ~hurried', Method
    PROVE  Unhurried'
<1>1. CASE StopPlayback
  <2>1. CASE StopReleases
    <3>1. \A p \in Players : native'[p] = "none"
      BY <1>1, <2>1, NothingLeft DEF StopPlayback, StopReleases
    <3>2. ~prepared' /\ ~crashed'
      BY <1>1, <2>1 DEF StopPlayback
    <3>3. QED
      BY <3>1, <3>2 DEF Unhurried, Abandoned, Live
  <2>2. CASE ~StopReleases
    BY <1>1, <2>2, SameMp DEF StopPlayback, Released
  <2>3. QED
    BY <2>1, <2>2
<1>2. CASE \E t \in Paths : Initialize(t) \/ Refresh(t)
  <2>1. PICK t \in Paths, s \in BOOLEAN : Opening(t, s)
    BY <1>2 DEF Initialize, Refresh
  <2>2. \A p \in Players : Released[p] = "none"
    BY <2>1, NothingLeft DEF Opening
  <2>3. ~prepared' /\ ~crashed'
    BY <2>1, NothingLeft DEF Opening
  <2>4. \A p \in Players : native'[p] # "none" => p = mp'
    BY <2>1, <2>2, ReleaseFacts DEF Opening, Open, OpenFails
  <2>5. QED
    BY <2>3, <2>4 DEF Unhurried, Abandoned, Live
<1>3. CASE StartPlayback
  <2>1. CASE prepared /\ mp # NoPlayer
    <3>1. mp \in Players /\ native[mp] # "none"
      BY <2>1 DEF IInv, TypeOK, HeldInv, Live
    <3>2. native' = [native EXCEPT ![mp] = AfterStart(native[mp])]
      BY <1>3, <2>1 DEF StartPlayback, Call
    <3>3. QED
      BY <1>3, <3>1, <3>2, SameMp DEF StartPlayback, IInv, TypeOK
  <2>2. CASE ~(prepared /\ mp # NoPlayer)
    BY <1>3, <2>2, SameMp DEF StartPlayback
  <2>3. QED
    BY <2>1, <2>2
<1>4. CASE PausePlayback \/ SeekPlayback
  <2>1. /\ prepared /\ mp # NoPlayer
        /\ native' = [native EXCEPT ![mp] = AfterPause(native[mp])]
        /\ UNCHANGED <<handlerVars, crashed>>
    BY <1>4 DEF PausePlayback, SeekPlayback, Call
  <2>2. mp \in Players /\ native[mp] # "none"
    BY <2>1 DEF IInv, TypeOK, HeldInv, Live
  <2>3. QED
    BY <2>1, <2>2, SameMp DEF handlerVars, IInv, TypeOK
<1>5. QED
  BY <1>1, <1>2, <1>3, <1>4 DEF Method

LEMMA UnhurriedPlatform ==
    ASSUME IInv, Unhurried, ~crashed, Platform
    PROVE  Unhurried'
<1>1. UNCHANGED <<handlerVars, crashed>>
  BY DEF Platform, PrepareDone, PlaybackEnds, MediaFails, SeekDone
<1>2. \A p \in Players : native'[p] # "none" => native[p] # "none"
  BY DEF Platform, PrepareDone, PlaybackEnds, MediaFails, SeekDone, IInv, TypeOK
<1>3. QED
  BY <1>1, <1>2, SameMp DEF handlerVars

LEMMA UnhurriedListener ==
    ASSUME IInv, Unhurried, ~crashed, Listener
    PROVE  Unhurried'
<1>1. CASE Discard
  BY <1>1, SameMp DEF Discard, handlerVars
<1>2. CASE OnPrepared
  <2>1. mp # NoPlayer /\ looper # <<>>
    BY <1>2, HandledIsHeld DEF OnPrepared
  <2>2. \A p \in Players : native'[p] # "none" => native[p] # "none"
    BY <1>2, <2>1, StartHeldFacts DEF OnPrepared
  <2>3. mp' = mp /\ (StartHeld \/ UNCHANGED crashed)
    BY <1>2 DEF OnPrepared
  <2>4. ~crashed'
    BY <2>1, <2>3 DEF StartHeld
  <2>5. QED
    BY <2>1, <2>2, <2>3, <2>4, SameMp
<1>3. CASE OnCompletion
  <2>1. mp # NoPlayer /\ mp \in Players
    BY <1>3, HandledIsHeld DEF OnCompletion
  <2>2. ~crashed' /\ ~prepared'
    BY <1>3, <2>1 DEF OnCompletion
  <2>3. \A p \in Players : native'[p] = "none"
    BY <1>3 DEF OnCompletion, Unhurried, Abandoned, Live
  <2>4. QED
    BY <2>2, <2>3 DEF Unhurried, Abandoned, Live
<1>4. CASE OnSeekComplete
  <2>1. mp # NoPlayer /\ looper # <<>>
    BY <1>4, HandledIsHeld DEF OnSeekComplete
  <2>2. \A p \in Players : native'[p] # "none" => native[p] # "none"
    BY <1>4, <2>1, StartHeldFacts DEF OnSeekComplete
  <2>3. ~crashed' /\ mp' = mp /\ prepared' = prepared
    BY <1>4, <2>1 DEF OnSeekComplete, StartHeld, handlerVars
  <2>4. QED
    BY <2>2, <2>3, SameMp
<1>5. QED
  BY <1>1, <1>2, <1>3, <1>4 DEF Listener

(* No player is left behind, prepared never outlives mp and no listener    *)
(* finds mp null in a process that never changes the track while the       *)
(* previous one is being prepared: MediaPlayerHandler.java 95-103, 138-165,*)
(* 235-259, 309-312.                                                       *)
THEOREM HurryBlamed == Spec => []HurryIsToBlame
<1>1. Init => HurryIsToBlame
  BY DEF Init, HurryIsToBlame, Abandoned, Live
<1>2. IInv /\ HurryIsToBlame /\ [Next]_vars => HurryIsToBlame'
  <2> SUFFICES ASSUME IInv, HurryIsToBlame, [Next]_vars, ~hurried'
               PROVE  Unhurried'
    BY DEF HurryIsToBlame, Unhurried
  <2>1. CASE Restart
    BY <2>1 DEF Restart, Unhurried, Abandoned, Live
  <2>2. CASE ~crashed /\ (Method \/ Platform \/ Listener)
    <3>1. ~hurried
      BY <2>2 DEF Method, StopPlayback, StartPlayback, PausePlayback,
                  SeekPlayback, Initialize, Refresh, Opening, Platform, PrepareDone, PlaybackEnds,
                  MediaFails, SeekDone, Listener, Discard, OnPrepared,
                  OnCompletion, OnSeekComplete, history
    <3>2. Unhurried
      BY <3>1 DEF HurryIsToBlame, Unhurried
    <3>3. QED
      BY <2>2, <3>2, UnhurriedMethod, UnhurriedPlatform, UnhurriedListener
  <2>3. CASE UNCHANGED vars
    BY <2>3 DEF vars, playerVars, handlerVars, history, HurryIsToBlame,
                Unhurried, Abandoned, Live
  <2>4. QED
    BY <2>1, <2>2, <2>3 DEF Next
<1>3. QED
  BY <1>1, <1>2, Invariance, PTL DEF Spec
=============================================================================
