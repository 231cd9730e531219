------------------------ MODULE PlaybackService_proofs ------------------------
(***************************************************************************)
(* Proofs about PlaybackService, for any number of players, tracks,        *)
(* messages, threads and commands under way.  The service only moves the   *)
(* player by the methods of its handler, so that every theorem about the   *)
(* handler is one about the service.                                       *)
(***************************************************************************)
EXTENDS PlaybackService, MediaPlayerHandler_proofs, SequenceTheorems

(* The part of the type invariant that is the service's own.               *)
OwnType ==
    /\ content \in Kinds \cup {"none"}
    /\ file \in Paths
    /\ plan \in [Threads -> Seq(Steps)]
    /\ uri \in [Threads -> Paths]
    /\ pending \in SUBSET Button
    /\ nextTime \in BOOLEAN
    /\ died \in BOOLEAN /\ overlapped \in BOOLEAN /\ calm \in BOOLEAN

-----------------------------------------------------------------------------
(* What a thread may be given to do.                                       *)
LEMMA PlanTypes ==
    /\ refreshMediaPlayer \in Seq(Steps) /\ Play \in Seq(Steps)
    /\ NextTrack \in Seq(Steps) /\ <<"halt">> \in Seq(Steps)
<1>1. \A s \in Steps : <<s>> \in Seq(Steps)
  OBVIOUS
<1>2. refreshMediaPlayer \in Seq(Steps)
  BY DEF refreshMediaPlayer, Steps
<1>3. <<"start">> \in Seq(Steps) /\ <<"next">> \in Seq(Steps) /\ <<"halt">> \in Seq(Steps)
  BY DEF Steps
<1>4. \A q, r \in Seq(Steps) : q \o r \in Seq(Steps)
  OBVIOUS
<1>5. QED
  BY <1>2, <1>3, <1>4 DEF Play, NextTrack

LEMMA BeginType ==
    ASSUME OwnType, NEW t \in Threads, NEW p \in Seq(Steps), Begin(t, p)
    PROVE  plan' \in [Threads -> Seq(Steps)] /\ overlapped' \in BOOLEAN
BY DEF Begin, OwnType

LEMMA GoOnType ==
    ASSUME OwnType, NEW t \in Threads, NEW s, At(t, s), GoOn(t)
    PROVE  plan' \in [Threads -> Seq(Steps)]
<1>1. plan[t] \in Seq(Steps) /\ plan[t] # <<>>
  BY DEF OwnType, At, Idle
<1>2. Tail(plan[t]) \in Seq(Steps)
  BY <1>1
<1>3. QED
  BY <1>2 DEF GoOn, OwnType

LEMMA MoveContentType ==
    ASSUME OwnType, NEW still, MoveContent(still)
    PROVE  content' \in Kinds \cup {"none"} /\ file' \in Paths
BY DEF MoveContent, OwnType, Paths

LEMMA CommandType ==
    ASSUME OwnType, NEW t \in Threads, NEW p \in Seq(Steps), NEW still,
           Command(t, p, still)
    PROVE  /\ content' \in Kinds \cup {"none"} /\ file' \in Paths
           /\ plan' \in [Threads -> Seq(Steps)]
           /\ died' \in BOOLEAN /\ overlapped' \in BOOLEAN
<1>1. CASE MoveContent(still) /\ Begin(t, p) /\ UNCHANGED died
  BY <1>1, MoveContentType, BeginType DEF OwnType
<1>2. CASE Throws(still) /\ Idle(t) /\ Die
  BY <1>2 DEF Die, OwnType, contentVars
<1>3. QED
  BY <1>1, <1>2 DEF Command

-----------------------------------------------------------------------------
LEMMA UserType == ASSUME OwnType, User PROVE OwnType'
<1> USE DEF contentVars
<1>1. ASSUME NEW k \in Kinds, NEW f \in Tracks, SetPlaybackContent(k, f)
      PROVE  OwnType'
  <2>1. PICK t \in Threads : Begin(t, refreshMediaPlayer)
    BY <1>1 DEF SetPlaybackContent, Threads
  <2>2. QED
    BY <1>1, <2>1, BeginType, PlanTypes DEF SetPlaybackContent, OwnType, Paths
<1>2. CASE StopPressed
  <2>1. Main \in Threads
    BY DEF Threads
  <2>2. QED
    BY <1>2, <2>1, BeginType, PlanTypes DEF StopPressed, OwnType, Paths
<1>3. CASE PlayPressed
  BY <1>3 DEF PlayPressed, OwnType
<1>4. CASE PausePressed \/ SeekPressed
  BY <1>4 DEF PausePressed, SeekPressed, serviceVars, OwnType
<1>5. CASE RandomPressed
  <2>1. Main \in Threads
    BY DEF Threads
  <2>2. QED
    BY <1>5, <2>1, CommandType, PlanTypes DEF RandomPressed, OwnType
<1>6. CASE NextPressed
  BY <1>6 DEF NextPressed, Press, OwnType, Button
<1>7. CASE PrevPressed
  BY <1>7 DEF PrevPressed, Press, OwnType, Button
<1>8. QED
  BY <1>1, <1>2, <1>3, <1>4, <1>5, <1>6, <1>7 DEF User

LEMMA BackgroundType == ASSUME OwnType, Background PROVE OwnType'
<1> USE DEF contentVars
<1>1. ASSUME NEW b \in Button, RunTask(b) PROVE OwnType'
  <2>1. Task \in Threads
    BY DEF Threads
  <2>2. CASE StartWorker /\ UNCHANGED <<contentVars, died>>
    <3>1. PICK t \in Threads : Begin(t, NextTrack)
      BY <2>2 DEF StartWorker, Threads
    <3>2. QED
      BY <1>1, <2>2, <3>1, BeginType, PlanTypes DEF RunTask, OwnType
  <2>3. CASE \E still : Command(Task, Play, still)
    BY <1>1, <2>1, <2>3, CommandType, PlanTypes DEF RunTask, OwnType
  <2>4. QED
    BY <1>1, <2>2, <2>3 DEF RunTask
<1>2. CASE Halt
  <2>1. Main \in Threads
    BY DEF Threads
  <2>2. calm' \in BOOLEAN
    BY <1>2 DEF Halt, CalmStop
  <2>3. QED
    BY <1>2, <2>1, <2>2, GoOnType DEF Halt, OwnType
<1>3. CASE ListenerRuns
  BY <1>3 DEF ListenerRuns, serviceVars, OwnType
<1>4. CASE SongFinished
  <2>1. CASE UNCHANGED <<plan, overlapped>>
    BY <1>4, <2>1 DEF SongFinished, OwnType
  <2>2. CASE StartWorker
    <3>1. PICK t \in Threads : Begin(t, NextTrack)
      BY <2>2 DEF StartWorker, Threads
    <3>2. QED
      BY <1>4, <3>1, BeginType, PlanTypes DEF SongFinished, OwnType
  <2>3. QED
    BY <1>4, <2>1, <2>2 DEF SongFinished
<1>5. ASSUME NEW t \in Threads, Step(t) PROVE OwnType'
  <2>1. CASE MoveOn(t)
    <3>1. CASE MoveContent(NoOrder) /\ GoOn(t) /\ UNCHANGED <<died, overlapped>>
      BY <2>1, <3>1, MoveContentType, GoOnType DEF MoveOn, OwnType
    <3>2. CASE Throws(NoOrder) /\ Die
      BY <2>1, <3>2 DEF MoveOn, Die, OwnType
    <3>3. QED
      BY <2>1, <3>1, <3>2 DEF MoveOn
  <2>2. CASE Stop(t)
    BY <2>2, GoOnType DEF Stop, OwnType
  <2>3. CASE ReadUri(t)
    BY <2>3, GoOnType DEF ReadUri, OwnType
  <2>4. CASE InitializePlayer(t)
    <3>1. plan' \in [Threads -> Seq(Steps)]
      BY <2>4, GoOnType DEF InitializePlayer
    <3>2. uri' \in [Threads -> Paths]
      BY <2>4 DEF InitializePlayer, OwnType, Paths
    <3>3. QED
      BY <2>4, <3>1, <3>2 DEF InitializePlayer, OwnType
  <2>5. CASE Start(t)
    BY <2>5, GoOnType DEF Start, OwnType
  <2>6. QED
    BY <1>5, <2>1, <2>2, <2>3, <2>4, <2>5 DEF Step
<1>6. QED
  BY <1>1, <1>2, <1>3, <1>4, <1>5 DEF Background

LEMMA OwnTypeStep == OwnType /\ [ServiceNext]_allVars => OwnType'
<1> SUFFICES ASSUME OwnType, [ServiceNext]_allVars PROVE OwnType'
  OBVIOUS
<1>1. CASE ServiceRestart
  <2>1. <<>> \in Seq(Steps)
    OBVIOUS
  <2>2. QED
    BY <1>1, <2>1 DEF ServiceRestart, OwnType, Paths
<1>2. CASE PlatformActs
  BY <1>2 DEF PlatformActs, serviceVars, contentVars, OwnType
<1>3. CASE UNCHANGED allVars
  BY <1>3 DEF allVars, serviceVars, contentVars, OwnType
<1>4. QED
  BY <1>1, <1>2, <1>3, UserType, BackgroundType DEF ServiceNext

LEMMA OwnTypeInvariance == ServiceSpec => []OwnType
<1>1. ServiceInit => OwnType
  <2>1. <<>> \in Seq(Steps)
    OBVIOUS
  <2>2. QED
    BY <2>1 DEF ServiceInit, OwnType, Paths
<1>2. QED
  BY <1>1, OwnTypeStep, PTL DEF ServiceSpec

-----------------------------------------------------------------------------
(* Each step of the service is one of the handler, or leaves it alone.     *)
LEMMA UserIsMethod == ASSUME User PROVE Method \/ UNCHANGED vars
BY DEF User, SetPlaybackContent, StopPressed, PlayPressed, PausePressed,
       SeekPressed, RandomPressed, NextPressed, PrevPressed, Press, Method

LEMMA StepIsMethod ==
    ASSUME OwnType, NEW t \in Threads, Step(t)
    PROVE  Method \/ UNCHANGED vars
<1>1. CASE InitializePlayer(t)
  <2>1. uri[t] \in Paths
    BY DEF OwnType
  <2>2. QED
    BY <1>1, <2>1 DEF InitializePlayer, Method
<1>2. CASE MoveOn(t) \/ ReadUri(t)
  BY <1>2 DEF MoveOn, ReadUri
<1>3. CASE Stop(t) \/ Start(t)
  BY <1>3 DEF Stop, Start, Method
<1>4. QED
  BY <1>1, <1>2, <1>3 DEF Step

LEMMA HandlerStep == OwnType /\ [ServiceNext]_allVars => [Next]_vars
<1> SUFFICES ASSUME OwnType, [ServiceNext]_allVars PROVE [Next]_vars
  OBVIOUS
<1>1. CASE ServiceRestart
  BY <1>1 DEF ServiceRestart, Next
<1>2. CASE ~crashed /\ User
  BY <1>2, UserIsMethod DEF Next
<1>3. CASE ~crashed /\ PlatformActs
  BY <1>3 DEF PlatformActs, Next
<1>4. CASE ~crashed /\ Background
  <2>1. CASE \E b \in Button : RunTask(b)
    BY <2>1 DEF RunTask
  <2>2. CASE Halt
    BY <1>4, <2>2 DEF Halt, Method, Next
  <2>3. CASE ListenerRuns \/ SongFinished
    BY <1>4, <2>3 DEF ListenerRuns, SongFinished, Listener, Next
  <2>4. CASE \E t \in Threads : Step(t)
    BY <1>4, <2>4, StepIsMethod DEF Next
  <2>5. QED
    BY <1>4, <2>1, <2>2, <2>3, <2>4 DEF Background
<1>5. CASE UNCHANGED allVars
  BY <1>5 DEF allVars
<1>6. QED
  BY <1>1, <1>2, <1>3, <1>4, <1>5 DEF ServiceNext

(* The service drives the player as the handler allows: in whatever order  *)
(* its threads call the handler's methods (ContentPlaybackService.java     *)
(* 309-454), the handler behaves as specified in MediaPlayerHandler, which *)
(* takes each method as one step.  It says nothing of two threads inside   *)
(* the methods at once, which nothing in the code prevents.                *)
THEOREM ServiceUsesHandler == ServiceSpec => Spec
<1>1. ServiceInit => Init
  BY DEF ServiceInit
<1>2. QED
  BY <1>1, HandlerStep, OwnTypeInvariance, PTL DEF ServiceSpec, Spec

(* The handler's inductive invariant therefore holds of the service.       *)
LEMMA HandlerInvariance == ServiceSpec => []IInv
BY ServiceUsesHandler, Invariance, PTL

(* The variables of the service and of the handler keep their types.       *)
THEOREM ServiceTypeCorrect == ServiceSpec => []ServiceTypeOK
<1>1. OwnType /\ IInv => ServiceTypeOK
  BY DEF OwnType, IInv, ServiceTypeOK
<1>2. QED
  BY <1>1, OwnTypeInvariance, HandlerInvariance, PTL

-----------------------------------------------------------------------------
(* What a calm stop leaves behind: nothing that could start a player but   *)
(* the buttons.                                                            *)
CalmInv ==
    calm => /\ pending = {}
            /\ \A t \in Threads : Idle(t) \/ plan[t] = <<"halt">>
            /\ mp = NoPlayer
            /\ \A p \in Players : ~Live(p)

LEMMA CalmUser == ASSUME OwnType, CalmInv, User PROVE CalmInv'
<1>1. CASE StopPressed
  <2>1. \A t \in Threads : plan'[t] = plan[t] \/ plan'[t] = <<"halt">>
    BY <1>1 DEF StopPressed, Begin, OwnType
  <2>2. UNCHANGED vars /\ UNCHANGED <<pending, calm>>
    BY <1>1 DEF StopPressed
  <2>3. QED
    BY <2>1, <2>2 DEF CalmInv, Idle, Live, vars, playerVars, handlerVars
<1>2. CASE PausePressed \/ SeekPressed
  <2>1. mp # NoPlayer /\ UNCHANGED calm
    BY <1>2 DEF PausePressed, SeekPressed, PausePlayback, SeekPlayback, serviceVars
  <2>2. QED
    BY <2>1 DEF CalmInv
<1>3. ASSUME NEW k \in Kinds, NEW f \in Tracks, SetPlaybackContent(k, f)
      PROVE  ~calm'
  BY <1>3 DEF SetPlaybackContent
<1>4. CASE PlayPressed \/ RandomPressed
  <2>1. calm' = FALSE
    BY <1>4 DEF PlayPressed, RandomPressed
  <2>2. QED
    BY <2>1 DEF CalmInv
<1>5. CASE NextPressed \/ PrevPressed
  <2>1. calm' = FALSE
    BY <1>5 DEF NextPressed, PrevPressed, Press
  <2>2. QED
    BY <2>1 DEF CalmInv
<1>6. CASE \E k \in Kinds, f \in Tracks : SetPlaybackContent(k, f)
  BY <1>3, <1>6 DEF CalmInv
<1>7. QED
  BY <1>1, <1>2, <1>4, <1>5, <1>6 DEF User

LEMMA CalmHalt == ASSUME OwnType, IInv, CalmInv, Halt PROVE CalmInv'
<1> SUFFICES ASSUME calm' PROVE CalmInv'
  BY DEF CalmInv
<1>0. CalmStop
  BY DEF Halt
<1>1. pending' = {} /\ \A t \in Threads : Idle(t)'
  BY <1>0 DEF CalmStop, Quiescent
<1>2. mp' = NoPlayer
  BY <1>0 DEF Halt, StopPlayback, StopReleases, CalmStop
<1>3. ASSUME NEW p \in Players PROVE native'[p] = "none"
  <2>1. native[p] # "none" => p = mp
    BY <1>0 DEF CalmStop, Abandoned, Live
  <2>2. native' = Released
    BY DEF Halt, StopPlayback
  <2>3. CASE StopReleases
    BY <2>1, <2>2, <2>3 DEF Released, IInv, TypeOK
  <2>4. CASE ~StopReleases
    <3>1. mp = NoPlayer
      BY <1>0, <2>4 DEF StopReleases, CalmStop
    <3>2. p # mp
      BY <3>1, PlayersAssumption
    <3>3. QED
      BY <2>1, <2>2, <2>4, <3>2 DEF Released
  <2>5. QED
    BY <2>3, <2>4
<1>4. QED
  BY <1>1, <1>2, <1>3 DEF CalmInv, Live

LEMMA CalmQuiet ==
    ASSUME OwnType, IInv, CalmInv, calm
    PROVE  /\ ~OnPrepared /\ ~OnSeekComplete /\ ~OnCompletion
           /\ \A b \in Button : ~RunTask(b)
           /\ \A t \in Threads : ~Step(t)
<1>1. looper # <<>> => ~Live(Head(looper).player)
  <2> SUFFICES ASSUME looper # <<>> PROVE ~Live(Head(looper).player)
    OBVIOUS
  <2>1. Head(looper) = looper[1] /\ 1 \in 1 .. Len(looper)
    BY TailMessages DEF IInv, TypeOK
  <2>2. looper[1].player \in Players
    BY <2>1, MessagePlayer DEF IInv, TypeOK
  <2>3. QED
    BY <2>1, <2>2 DEF CalmInv
<1>2. ~OnPrepared /\ ~OnSeekComplete /\ ~OnCompletion
  BY <1>1 DEF OnPrepared, OnSeekComplete, OnCompletion, Handle
<1>3. \A b \in Button : ~RunTask(b)
  BY DEF CalmInv, RunTask
<1>4. ASSUME NEW t \in Threads, NEW s, At(t, s) PROVE s = "halt"
  <2>1. plan[t] = <<"halt">>
    BY <1>4 DEF CalmInv, At
  <2>2. QED
    BY <1>4, <2>1 DEF At
<1>5. \A t \in Threads : ~Step(t)
  BY <1>4 DEF Step, MoveOn, Stop, ReadUri, InitializePlayer, Start
<1>6. QED
  BY <1>2, <1>3, <1>5

LEMMA CalmStep == OwnType /\ IInv /\ CalmInv /\ [ServiceNext]_allVars => CalmInv'
<1> SUFFICES ASSUME OwnType, IInv, CalmInv, [ServiceNext]_allVars PROVE CalmInv'
  OBVIOUS
<1> USE DEF allVars, serviceVars, contentVars, vars, playerVars, handlerVars
<1>1. CASE ServiceRestart
  BY <1>1 DEF ServiceRestart, CalmInv
<1>2. CASE User
  BY <1>2, CalmUser
<1>3. CASE Halt
  BY <1>3, CalmHalt
<1>4. CASE Background /\ ~Halt
  <2>1. UNCHANGED calm
    BY <1>4 DEF Background, RunTask, ListenerRuns, SongFinished, Step, MoveOn,
                Stop, ReadUri, InitializePlayer, Start
  <2>2. CASE calm
    <3>1. ListenerRuns /\ Discard
      BY <1>4, <2>2, CalmQuiet DEF Background, ListenerRuns, SongFinished
    <3>2. QED
      BY <3>1 DEF ListenerRuns, Discard, CalmInv, Idle, Live
  <2>3. QED
    BY <2>1, <2>2 DEF CalmInv
<1>5. CASE PlatformActs
  <2>1. UNCHANGED <<calm, pending, plan, mp>>
    BY <1>5 DEF PlatformActs, Platform, PrepareDone, PlaybackEnds, MediaFails, SeekDone
  <2>2. (\A p \in Players : ~Live(p)) => UNCHANGED native
    BY <1>5 DEF PlatformActs, Platform, PrepareDone, PlaybackEnds, MediaFails,
                SeekDone, Live
  <2>3. QED
    BY <2>1, <2>2 DEF CalmInv, Idle, Live
<1>6. CASE UNCHANGED allVars
  BY <1>6 DEF CalmInv, Idle, Live
<1>7. QED
  BY <1>1, <1>2, <1>3, <1>4, <1>5, <1>6 DEF ServiceNext

(* A stop given while nothing is under way lasts until the next button:    *)
(* ContentPlaybackService.java 319-335 and the handler's stopPlayback().   *)
THEOREM CalmStopLasts == ServiceSpec => []CalmStopIsFinal
<1>1. ServiceInit => CalmInv
  BY DEF ServiceInit, CalmInv
<1>2. CalmInv => CalmStopIsFinal
  BY DEF CalmInv, CalmStopIsFinal, Audible, Live
<1>3. QED
  BY <1>1, <1>2, CalmStep, OwnTypeInvariance, HandlerInvariance, PTL DEF ServiceSpec

-----------------------------------------------------------------------------
(* What a thread can have left to do: the rest of one of the commands.     *)
Loading == {<<"init">>, <<"init", "start">>}
Asking  == {<<"uri", "init">>, <<"uri", "init", "start">>}
Ending  == {<<"stop", "uri", "init">>, <<"stop", "uri", "init", "start">>}
Plans   == {<<>>, <<"start">>, <<"halt">>, NextTrack} \cup Loading \cup Asking \cup Ending

PlansInv == \A t \in Threads : plan[t] \in Plans

(* The player, if there is one, has the file of the content, if there is   *)
(* one.                                                                    *)
Matches == mp # NoPlayer /\ file # NoTrack => source[mp] = file

(* The thread is not, or no longer, about to give the player a file.       *)
Settled(t) == plan[t] \in {<<>>, <<"start">>, <<"halt">>}

(* A command that no other overlaps is alone, what it has read of the      *)
(* content is still so when it uses it, and the player matches the content *)
(* before the command and from its initialize...() on.                     *)
NowInv ==
    ~overlapped =>
        /\ \A t, u \in Threads : ~Idle(t) /\ ~Idle(u) => t = u
        /\ \A t \in Threads : plan[t] \in Loading => uri[t] = file
        /\ (\A t \in Threads : Settled(t)) => Matches

LEMMA PlanShapes ==
    /\ refreshMediaPlayer \in Ending /\ Play \in Ending
    /\ \A q \in Plans :
         /\ q # <<>> =>
              /\ Tail(q) \in Plans
              /\ Head(q) = "next"  <=> q = NextTrack
              /\ Head(q) = "stop"  <=> q \in Ending
              /\ Head(q) = "uri"   <=> q \in Asking
              /\ Head(q) = "init"  <=> q \in Loading
              /\ Head(q) \in {"start", "halt"} <=> q \in {<<"start">>, <<"halt">>}
         /\ q = NextTrack  => Tail(q) \in Ending
         /\ q \in Ending   => Tail(q) \in Asking
         /\ q \in Asking   => Tail(q) \in Loading
         /\ q \in Loading  => Tail(q) \in {<<>>, <<"start">>}
         /\ q \in {<<"start">>, <<"halt">>} => Tail(q) = <<>>
         /\ q \in {<<>>, <<"start">>, <<"halt">>} =>
              q # NextTrack /\ q \notin Ending \cup Asking \cup Loading
<1>1. /\ Play = <<"stop", "uri", "init", "start">>
      /\ NextTrack = <<"next", "stop", "uri", "init", "start">>
  <2> DEFINE r == refreshMediaPlayer
             p == <<"stop", "uri", "init", "start">>
             n == <<"next", "stop", "uri", "init", "start">>
  <2>1. /\ r \in Seq(Steps) /\ Len(r) = 3
        /\ r[1] = "stop" /\ r[2] = "uri" /\ r[3] = "init"
    BY PlanTypes DEF refreshMediaPlayer
  <2>2. /\ p \in Seq(Steps) /\ Len(p) = 4
        /\ p[1] = "stop" /\ p[2] = "uri" /\ p[3] = "init" /\ p[4] = "start"
    BY DEF Steps
  <2>3. /\ n \in Seq(Steps) /\ Len(n) = 5 /\ n[1] = "next"
        /\ n[2] = "stop" /\ n[3] = "uri" /\ n[4] = "init" /\ n[5] = "start"
    BY DEF Steps
  <2> DEFINE a == <<"start">>
             b == <<"next">>
  <2>4. /\ a \in Seq(Steps) /\ Len(a) = 1 /\ a[1] = "start"
        /\ b \in Seq(Steps) /\ Len(b) = 1 /\ b[1] = "next"
    BY DEF Steps
  <2> HIDE DEF r, p, n, a, b
  <2>5. r \o a = p
    <3>1. /\ r \o a \in Seq(Steps) /\ Len(r \o a) = Len(r) + Len(a)
          /\ \A i \in 1 .. Len(r) + Len(a) :
                 (r \o a)[i] = IF i <= Len(r) THEN r[i] ELSE a[i - Len(r)]
      BY <2>1, <2>4, ConcatProperties
    <3>2. \A i \in 1 .. 4 : (r \o a)[i] = p[i]
      BY <2>1, <2>2, <2>4, <3>1
    <3>3. Len(r \o a) = Len(p) /\ Len(p) = 4
      BY <2>1, <2>2, <2>4, <3>1
    <3>4. QED
      BY <2>2, <3>1, <3>2, <3>3, SeqEqual
  <2>6. b \o p = n
    <3>1. /\ b \o p \in Seq(Steps) /\ Len(b \o p) = Len(b) + Len(p)
          /\ \A i \in 1 .. Len(b) + Len(p) :
                 (b \o p)[i] = IF i <= Len(b) THEN b[i] ELSE p[i - Len(b)]
      BY <2>2, <2>4, ConcatProperties
    <3>2. \A i \in 1 .. 5 : (b \o p)[i] = n[i]
      BY <2>2, <2>3, <2>4, <3>1
    <3>3. Len(b \o p) = Len(n) /\ Len(n) = 5
      BY <2>2, <2>3, <2>4, <3>1
    <3>4. QED
      BY <2>3, <3>1, <3>2, <3>3, SeqEqual
  <2>7. QED
    BY <2>5, <2>6 DEF Play, NextTrack, r, p, n, a, b
<1>2. QED
  BY <1>1 DEF refreshMediaPlayer, Plans, Loading, Asking, Ending

LEMMA Ways ==
    ASSUME PlansInv, NEW t \in Threads
    PROVE  /\ At(t, "next") => plan[t] = NextTrack /\ Tail(plan[t]) \in Ending
           /\ At(t, "stop") => plan[t] \in Ending  /\ Tail(plan[t]) \in Asking
           /\ At(t, "uri")  => plan[t] \in Asking  /\ Tail(plan[t]) \in Loading
           /\ At(t, "init") => /\ plan[t] \in Loading
                               /\ Tail(plan[t]) \in {<<>>, <<"start">>}
           /\ At(t, "start") \/ At(t, "halt") =>
                /\ plan[t] \in {<<"start">>, <<"halt">>} /\ Tail(plan[t]) = <<>>
           /\ ~Idle(t) => Tail(plan[t]) \in Plans
<1>1. plan[t] \in Plans
  BY DEF PlansInv
<1>2. QED
  BY <1>1, PlanShapes DEF At, Idle

(* A thread that turns to a command has everything left to do.             *)
LEMMA BeginNow ==
    ASSUME OwnType, PlansInv, NEW t \in Threads, NEW p \in Ending \cup {NextTrack},
           Begin(t, p)
    PROVE  PlansInv' /\ NowInv'
<1>1. /\ Idle(t) /\ plan'[t] = p /\ p \in Plans
      /\ \A u \in Threads : u # t => plan'[u] = plan[u]
      /\ overlapped' = \E u \in Threads : ~Idle(u)
  BY DEF Begin, OwnType, Plans
<1>2. p \notin Loading /\ p \notin {<<>>, <<"start">>, <<"halt">>}
  BY PlanShapes, <1>1 DEF Plans, Loading, Ending
<1>3. PlansInv'
  BY <1>1 DEF PlansInv
<1>4. ASSUME ~overlapped' PROVE \A u \in Threads : u # t => plan'[u] = <<>>
  BY <1>1, <1>4 DEF Idle
<1>5. NowInv'
  <2> SUFFICES ASSUME ~overlapped'
               PROVE  /\ \A u, v \in Threads : ~Idle(u)' /\ ~Idle(v)' => u = v
                      /\ \A u \in Threads : plan'[u] \in Loading => uri'[u] = file'
                      /\ (\A u \in Threads : Settled(u)') => Matches'
    BY DEF NowInv
  <2>1. \A u, v \in Threads : ~Idle(u)' /\ ~Idle(v)' => u = v
    BY <1>4 DEF Idle
  <2>2. \A u \in Threads : plan'[u] \notin Loading
    BY <1>1, <1>2, <1>4, PlanShapes DEF Plans
  <2>3. ~Settled(t)'
    BY <1>1, <1>2 DEF Settled
  <2>4. QED
    BY <2>1, <2>2, <2>3
<1>6. QED
  BY <1>3, <1>5

(* What leaves the threads and the content alone, and the player too       *)
(* unless it gives it up.                                                  *)
LEMMA DroppedNow ==
    ASSUME PlansInv, NowInv, mp' \in {mp, NoPlayer},
           UNCHANGED <<plan, uri, overlapped, file, source>>
    PROVE  PlansInv' /\ NowInv'
BY DEF PlansInv, NowInv, Idle, Settled, Matches

(* A thread alone takes a step of its command.                             *)
LEMMA GoOnNow ==
    ASSUME OwnType, PlansInv, NowInv, NEW t \in Threads, ~Idle(t), GoOn(t),
           UNCHANGED overlapped,
           ~overlapped => /\ plan'[t] \in Loading => uri'[t] = file'
                          /\ Settled(t)' => Matches'
    PROVE  PlansInv' /\ NowInv'
<1>1. plan'[t] = Tail(plan[t]) /\ \A u \in Threads : u # t => plan'[u] = plan[u]
  BY DEF GoOn, OwnType
<1>2. PlansInv'
  BY <1>1, Ways DEF PlansInv
<1>3. NowInv'
  <2> SUFFICES ASSUME ~overlapped
               PROVE  /\ \A u, v \in Threads : ~Idle(u)' /\ ~Idle(v)' => u = v
                      /\ \A u \in Threads : plan'[u] \in Loading => uri'[u] = file'
                      /\ (\A u \in Threads : Settled(u)') => Matches'
    BY DEF NowInv
  <2>1. \A u \in Threads : u # t => plan'[u] = <<>>
    BY <1>1 DEF NowInv, Idle
  <2>2. <<>> \notin Loading
    BY PlanShapes DEF Plans
  <2>3. QED
    BY <2>1, <2>2 DEF Idle
<1>4. QED
  BY <1>2, <1>3

LEMMA CommandNow ==
    ASSUME OwnType, PlansInv, NowInv, NEW t \in Threads, NEW still,
           Command(t, Play, still), UNCHANGED <<mp, source, uri>>
    PROVE  PlansInv' /\ NowInv'
<1>1. CASE MoveContent(still) /\ Begin(t, Play)
  BY <1>1, BeginNow, PlanShapes
<1>2. CASE Die
  BY <1>2, DroppedNow DEF Die, contentVars
<1>3. QED
  BY <1>1, <1>2 DEF Command

LEMMA UserNow ==
    ASSUME OwnType, PlansInv, NowInv, User PROVE PlansInv' /\ NowInv'
<1> USE DEF contentVars, vars, playerVars, handlerVars
<1>0. Main \in Threads
  BY DEF Threads
<1>1. ASSUME NEW k \in Kinds, NEW f \in Tracks, SetPlaybackContent(k, f)
      PROVE  PlansInv' /\ NowInv'
  <2>1. PICK t \in Threads : Begin(t, refreshMediaPlayer)
    BY <1>1 DEF SetPlaybackContent, Threads
  <2>2. QED
    BY <2>1, BeginNow, PlanShapes
<1>2. CASE StopPressed
  <2>1. /\ Begin(Main, <<"halt">>) /\ file' = NoTrack /\ UNCHANGED <<mp, source, uri>>
    BY <1>2 DEF StopPressed
  <2>2. /\ Idle(Main) /\ plan'[Main] = <<"halt">>
        /\ \A u \in Threads : u # Main => plan'[u] = plan[u]
        /\ overlapped' = \E u \in Threads : ~Idle(u)
    BY <1>0, <2>1 DEF Begin, OwnType
  <2>3. PlansInv'
    BY <2>2 DEF PlansInv, Plans
  <2>4. Matches'
    BY <2>1 DEF Matches
  <2>5. <<"halt">> \notin Loading /\ <<>> \notin Loading
    BY PlanShapes DEF Plans
  <2>6. ASSUME ~overlapped' PROVE \A u \in Threads : u # Main => plan'[u] = <<>>
    BY <2>2, <2>6 DEF Idle
  <2>7. NowInv'
    BY <2>2, <2>4, <2>5, <2>6 DEF NowInv, Idle
  <2>8. QED
    BY <2>3, <2>7
<1>3. CASE PlayPressed \/ PausePressed \/ SeekPressed
  BY <1>3, DroppedNow DEF PlayPressed, PausePressed, SeekPressed, StartPlayback,
                          PausePlayback, SeekPlayback, serviceVars
<1>4. CASE RandomPressed
  BY <1>0, <1>4, CommandNow DEF RandomPressed
<1>5. CASE NextPressed \/ PrevPressed
  BY <1>5, DroppedNow DEF NextPressed, PrevPressed, Press
<1>6. QED
  BY <1>1, <1>2, <1>3, <1>4, <1>5 DEF User

LEMMA StepNow ==
    ASSUME OwnType, IInv, PlansInv, NowInv, NEW t \in Threads, Step(t)
    PROVE  PlansInv' /\ NowInv'
<1> USE DEF contentVars, vars, playerVars, handlerVars
<1>1. ASSUME GoOn(t) PROVE plan'[t] = Tail(plan[t])
  BY <1>1 DEF GoOn, OwnType
<1>2. \A q \in Ending \cup Asking : q \notin Loading \cup {<<>>, <<"start">>, <<"halt">>}
  BY PlanShapes DEF Ending, Asking, Loading
<1>3. \A q \in Loading : q \notin {<<>>, <<"start">>, <<"halt">>}
  BY PlanShapes DEF Plans
<1>4. CASE MoveOn(t)
  <2>1. CASE Die
    BY <1>4, <2>1, DroppedNow DEF MoveOn, Die
  <2>2. CASE GoOn(t) /\ UNCHANGED overlapped
    <3>1. plan'[t] \in Ending /\ ~Idle(t)
      BY <1>1, <1>4, <2>2, Ways DEF MoveOn, At
    <3>2. QED
      BY <1>2, <2>2, <3>1, GoOnNow DEF Settled
  <2>3. QED
    BY <1>4, <2>1, <2>2 DEF MoveOn
<1>5. CASE Stop(t)
  <2>1. plan'[t] \in Asking /\ ~Idle(t)
    BY <1>1, <1>5, Ways DEF Stop, At
  <2>2. QED
    BY <1>2, <1>5, <2>1, GoOnNow DEF Stop, Settled
<1>6. CASE ReadUri(t)
  <2>1. plan'[t] \in Loading /\ ~Idle(t)
    BY <1>1, <1>6, Ways DEF ReadUri, At
  <2>2. uri'[t] = file'
    BY <1>6 DEF ReadUri, OwnType
  <2>3. QED
    BY <1>3, <1>6, <2>1, <2>2, GoOnNow DEF ReadUri, Settled
<1>7. CASE InitializePlayer(t)
  <2>1. plan[t] \in Loading /\ plan'[t] \in {<<>>, <<"start">>} /\ ~Idle(t)
    BY <1>1, <1>7, Ways DEF InitializePlayer, At
  <2>2. plan'[t] \notin Loading
    BY <1>3, <2>1
  <2>3. ASSUME ~overlapped PROVE Matches'
    <3>1. uri[t] = file /\ file' = file
      BY <1>7, <2>1, <2>3 DEF NowInv, InitializePlayer
    <3>2. CASE mp' = NoPlayer
      BY <3>2 DEF Matches
    <3>3. CASE Open(uri[t])
      <4>1. PICK p \in Players : source' = [source EXCEPT ![p] = uri[t]] /\ mp' = p
        BY <3>3 DEF Open
      <4>2. source'[mp'] = uri[t]
        BY <4>1 DEF IInv, TypeOK
      <4>3. QED
        BY <3>1, <4>2 DEF Matches
    <3>4. QED
      BY <1>7, <3>2, <3>3 DEF InitializePlayer, Initialize, Opening, OpenFails
  <2>4. QED
    BY <1>7, <2>1, <2>2, <2>3, GoOnNow DEF InitializePlayer
<1>8. CASE Start(t)
  <2>1. /\ plan[t] \in {<<"start">>, <<"halt">>} /\ plan'[t] = <<>> /\ ~Idle(t)
        /\ UNCHANGED <<mp, source, file>>
    BY <1>1, <1>8, Ways DEF Start, At, StartPlayback
  <2>2. ~overlapped => Matches
    BY <2>1 DEF NowInv, Settled, Idle
  <2>3. plan'[t] \notin Loading
    BY <1>3, <2>1
  <2>4. QED
    BY <1>8, <2>1, <2>2, <2>3, GoOnNow DEF Start, Matches
<1>9. QED
  BY <1>4, <1>5, <1>6, <1>7, <1>8 DEF Step

LEMMA BackgroundNow ==
    ASSUME OwnType, IInv, PlansInv, NowInv, Background PROVE PlansInv' /\ NowInv'
<1> USE DEF contentVars, vars, playerVars, handlerVars
<1>1. ASSUME StartWorker PROVE PlansInv' /\ NowInv'
  <2>1. PICK t \in Threads : Begin(t, NextTrack)
    BY <1>1 DEF StartWorker, Threads
  <2>2. QED
    BY <2>1, BeginNow
<1>2. ASSUME NEW b \in Button, RunTask(b) PROVE PlansInv' /\ NowInv'
  <2>1. Task \in Threads
    BY DEF Threads
  <2>2. CASE \E still : Command(Task, Play, still)
    BY <1>2, <2>1, <2>2, CommandNow DEF RunTask
  <2>3. QED
    BY <1>1, <1>2, <2>2 DEF RunTask
<1>3. CASE Halt
  <2>1. Main \in Threads
    BY DEF Threads
  <2>2. /\ plan[Main] \in {<<"start">>, <<"halt">>} /\ Tail(plan[Main]) = <<>>
        /\ ~Idle(Main) /\ GoOn(Main) /\ UNCHANGED <<source, file, overlapped>>
        /\ mp' \in {mp, NoPlayer}
    BY <1>3, <2>1, Ways DEF Halt, At, StopPlayback
  <2>3. plan'[Main] = <<>> /\ <<>> \notin Loading
    BY <2>1, <2>2, PlanShapes DEF GoOn, OwnType, Plans
  <2>4. ~overlapped => Matches
    BY <2>1, <2>2 DEF NowInv, Settled, Idle
  <2>5. QED
    BY <2>1, <2>2, <2>3, <2>4, GoOnNow DEF Matches
<1>4. CASE ListenerRuns
  BY <1>4, DroppedNow DEF ListenerRuns, serviceVars, Discard, OnPrepared,
                          OnSeekComplete
<1>5. CASE SongFinished
  <2>1. CASE UNCHANGED <<plan, overlapped>>
    BY <1>5, <2>1, DroppedNow DEF SongFinished, OnCompletion
  <2>2. QED
    BY <1>1, <1>5, <2>1 DEF SongFinished
<1>6. QED
  BY <1>2, <1>3, <1>4, <1>5, StepNow DEF Background

LEMMA NowStep ==
    OwnType /\ IInv /\ PlansInv /\ NowInv /\ [ServiceNext]_allVars
        => PlansInv' /\ NowInv'
<1> SUFFICES ASSUME OwnType, IInv, PlansInv, NowInv, [ServiceNext]_allVars
             PROVE  PlansInv' /\ NowInv'
  OBVIOUS
<1> USE DEF allVars, serviceVars, contentVars, vars, playerVars, handlerVars
<1>1. CASE ServiceRestart
  <2>1. <<>> \in Plans /\ <<>> \notin Loading
    BY PlanShapes DEF Plans
  <2>2. QED
    BY <1>1, <2>1 DEF ServiceRestart, Restart, PlansInv, NowInv, Idle, Matches
<1>2. CASE PlatformActs
  BY <1>2, DroppedNow DEF PlatformActs, Platform, PrepareDone, PlaybackEnds,
                          MediaFails, SeekDone
<1>3. CASE UNCHANGED allVars
  BY <1>3, DroppedNow
<1>4. QED
  BY <1>1, <1>2, <1>3, UserNow, BackgroundNow DEF ServiceNext

(* Once a command that no other overlapped is over, the track in the       *)
(* player is the track of the content, whatever raced before it            *)
(* (ContentPlaybackService.java 385-454): refreshMediaPlayer() reads the   *)
(* uri that no one else can change before it is used.                      *)
THEOREM PlayerFollowsContent == ServiceSpec => []NowPlayingMatchesContent
<1>1. ServiceInit => PlansInv /\ NowInv
  <2>1. <<>> \in Plans /\ <<>> \notin Loading
    BY PlanShapes DEF Plans
  <2>2. QED
    BY <2>1 DEF ServiceInit, Init, PlansInv, NowInv, Idle, Matches
<1>2. NowInv => NowPlayingMatchesContent
  BY DEF NowInv, NowPlayingMatchesContent, Idle, Settled, Matches
<1>3. QED
  BY <1>1, <1>2, NowStep, OwnTypeInvariance, HandlerInvariance, PTL DEF ServiceSpec
=============================================================================
