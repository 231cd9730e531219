--------------------------- MODULE PlaybackService ---------------------------
(***************************************************************************)
(* ContentPlaybackService/ContentPlaybackService.java over the media       *)
(* player handler: the buttons and their timers, the AsyncTasks, the new   *)
(* thread of every NextTrack(), the completion of a song, and the content  *)
(* field that all of them read.  The methods of the handler and of the     *)
(* content are indivisible here, though nothing in the code keeps two      *)
(* threads from being inside them at once; what comes between two of them  *)
(* is what this module is about.                                           *)
(***************************************************************************)
EXTENDS MediaPlayerHandler, FiniteSets

CONSTANTS Main,       (* the main thread                                    *)
          Task,       (* the thread the AsyncTasks run on, one by one       *)
          Workers,    (* the threads of NextTrack(), and those on which the *)
                      (* Subsonic fragment sets a content                   *)
          Kinds,      (* the kinds of content the user can choose           *)
          MaxBusy     (* bound: commands and presses under way when the     *)
                      (* user gives another                                 *)

Threads == {Main, Task} \cup Workers

ContentKind == {"filesystem", "library", "playlist", "subsonic"}

ASSUME ThreadsAssumption == Main # Task /\ Main \notin Workers /\ Task \notin Workers
ASSUME BusyAssumption    == MaxBusy \in Nat
ASSUME KindsAssumption   == Kinds \subseteq ContentKind

VARIABLES
  content,     (* the kind of the content object, or "none" for null       *)
  file,        (* its getNowPlayingUri(); NoTrack after its CleanUp()      *)
  plan,        (* what each thread has left to do of its command           *)
  uri,         (* the argument of its call of initialize...(), once read   *)
  pending,     (* button presses on their way: in a timer that runs, then  *)
               (* in a ButtonPressTask that waits; one of each at a time   *)
  nextTime,    (* NextTime was set: the next button was pressed before      *)
  died,        (* an exception of the service's or the content's code      *)
  overlapped,  (* history: the last command began before another's end     *)
  calm         (* history: nothing was under way at the last stop, and no  *)
               (* button was pressed since                                 *)

contentVars == <<content, file>>
serviceVars == <<contentVars, plan, uri, pending, nextTime,
                 died, overlapped, calm>>
allVars     == <<vars, serviceVars>>

(* The statements of a command.                                            *)
Steps == {"next",    (* content.NextTrack()                                 *)
          "stop",    (* mediaplayer.stopPlayback()                          *)
          "uri",     (* content.getNowPlayingUri()                          *)
          "init",    (* mediaplayer.initializeFile() or initializeStream()  *)
          "start",   (* mediaplayer.startPlayback()                         *)
          "halt"}    (* mediaplayer.stopPlayback() of StopPlayback()        *)

refreshMediaPlayer == <<"stop", "uri", "init">>
Play               == refreshMediaPlayer \o <<"start">>

(* Mutant: the player is refreshed before the content moves on.            *)
NextTrackMovesLast == refreshMediaPlayer \o <<"next", "start">>

NextTrack == <<"next">> \o Play

Button == {"prev", "next", "artist"}

Idle(t)   == plan[t] = <<>>
Quiescent == pending = {} /\ \A t \in Threads : Idle(t)

(* The variables keep their types (fields of ContentPlaybackService).      *)
ServiceTypeOK ==
    /\ TypeOK
    /\ content \in Kinds \cup {"none"}
    /\ file \in Paths
    /\ plan \in [Threads -> Seq(Steps)]
    /\ uri \in [Threads -> Paths]
    /\ pending \in SUBSET Button
    /\ nextTime \in BOOLEAN
    /\ died \in BOOLEAN /\ overlapped \in BOOLEAN /\ calm \in BOOLEAN

ServiceInit ==
    /\ Init
    /\ content = "none" /\ file = NoTrack
    /\ plan = [t \in Threads |-> <<>>] /\ uri = [t \in Threads |-> NoTrack]
    /\ pending = {} /\ nextTime = FALSE
    /\ died = FALSE /\ overlapped = FALSE /\ calm = FALSE

-----------------------------------------------------------------------------
(* A thread turns to a command.                                            *)
Begin(t, p) ==
    /\ Idle(t)
    /\ plan' = [plan EXCEPT ![t] = p]
    /\ overlapped' = \E u \in Threads : ~Idle(u)

(* A method of a content that moves to another track.  It is empty for the *)
(* kinds in still.  A library that was cleaned up follows its null cursor, *)
(* a Subsonic content that plays from the cache a null album; one that was *)
(* cleaned up finds no song with its id and does not move.                 *)
Throws(still) ==
    /\ content \notin still
    /\ \/ content \in {"none", "subsonic"}
       \/ content = "library" /\ file = NoTrack

MoveContent(still) ==
    /\ IF content \in still
       THEN UNCHANGED file
       ELSE \/ content = "playlist" /\ file' \in Tracks
            \/ content \in {"library", "subsonic"} /\ file # NoTrack /\ file' \in Tracks
            \/ content = "subsonic" /\ file = NoTrack /\ UNCHANGED file
    /\ UNCHANGED content

(* The kinds with an empty NextTrack() and PrevTrack(), RandomTrack(), and *)
(* NextArtist().                                                           *)
NoOrder  == {"filesystem"}
NoRandom == {"filesystem", "subsonic"}
NoArtist == ContentKind

(* The exception ends the process.                                        *)
Die == died' = TRUE /\ UNCHANGED <<contentVars, plan, overlapped>>

(* Thread t calls the method and goes on with plan p.                      *)
Command(t, p, still) ==
    \/ MoveContent(still) /\ Begin(t, p) /\ UNCHANGED died
    \/ Throws(still) /\ Idle(t) /\ Die

-----------------------------------------------------------------------------
(* The user, on the main thread.  Fragments and the activity choose a      *)
(* content; the Subsonic fragment does so on a thread of its own.          *)
SetPlaybackContent(k, f) ==
    /\ \E t \in IF k = "subsonic" THEN Workers ELSE {Main} :
          Begin(t, refreshMediaPlayer)
    /\ content' = k /\ file' = f
    /\ calm' = FALSE
    /\ UNCHANGED <<vars, uri, pending, nextTime, died>>

(* StopPlayback(): the content is cleaned up and kept, then the player is  *)
(* stopped in a second statement.                                          *)
StopPressed ==
    /\ Begin(Main, <<"halt">>)
    /\ file' = NoTrack
    /\ UNCHANGED <<vars, content, uri, pending, nextTime, died, calm>>

PlayPressed ==
    /\ Idle(Main)
    /\ StartPlayback
    /\ calm' = FALSE
    /\ UNCHANGED <<contentVars, plan, uri, pending, nextTime, died, overlapped>>

PausePressed ==
    /\ Idle(Main)
    /\ PausePlayback
    /\ UNCHANGED serviceVars

SeekPressed ==
    /\ Idle(Main)
    /\ SeekPlayback
    /\ UNCHANGED serviceVars

(* NextPressed() and PrevPressed() in random mode.                         *)
RandomPressed ==
    /\ Command(Main, Play, NoRandom)
    /\ calm' = FALSE
    /\ UNCHANGED <<vars, uri, pending, nextTime>>

(* NextPressed() and PrevPressed() in order.  A press of next starts a     *)
(* timer for the next track; one within the threshold of the last press of *)
(* next starts a timer for the next artist instead, and cancels the timer  *)
(* of the last press unless that has fired meanwhile.                      *)
Press(b, cancelled) ==
    /\ Idle(Main)
    /\ b \notin pending \ cancelled
    /\ pending' = (pending \ cancelled) \cup {b}
    /\ calm' = FALSE
    /\ UNCHANGED <<vars, contentVars, plan, uri, died, overlapped>>

NextPressed ==
    /\ \/ Press("next", {})
       \/ nextTime /\ Press("artist", {})
       \/ \E b \in pending \ {"prev"} : nextTime /\ Press("artist", {b})
    /\ nextTime' = TRUE

PrevPressed == Press("prev", {}) /\ UNCHANGED nextTime

Busy == Cardinality(pending) + Cardinality({t \in Threads : ~Idle(t)})

User ==
  /\ Busy <= MaxBusy
  /\ \/ \E k \in Kinds, f \in Tracks : SetPlaybackContent(k, f)
     \/ StopPressed \/ PlayPressed \/ PausePressed \/ SeekPressed
     \/ RandomPressed \/ NextPressed \/ PrevPressed

-----------------------------------------------------------------------------
(* NextTrack() carries the command out on a new thread.                    *)
StartWorker == \E t \in Workers : Begin(t, NextTrack)

(* ButtonPressTask: the previous track and the next artist on the thread   *)
(* of the tasks, the next track on a new one.  As no content has a next    *)
(* artist, that command plays the same track again.                        *)
RunTask(b) ==
    /\ b \in pending
    /\ Idle(Task)
    /\ pending' = pending \ {b}
    /\ \/ b = "prev" /\ Command(Task, Play, NoOrder)
       \/ b = "next" /\ StartWorker /\ UNCHANGED <<contentVars, died>>
       \/ b = "artist" /\ Command(Task, Play, NoArtist)
    /\ UNCHANGED <<vars, uri, nextTime, calm>>

-----------------------------------------------------------------------------
(* One statement of the command that thread t is in.                       *)
At(t, s)  == ~Idle(t) /\ Head(plan[t]) = s
GoOn(t)   == plan' = [plan EXCEPT ![t] = Tail(plan[t])]

MoveOn(t) ==
    /\ At(t, "next")
    /\ \/ MoveContent(NoOrder) /\ GoOn(t) /\ UNCHANGED <<died, overlapped>>
       \/ Throws(NoOrder) /\ Die
    /\ UNCHANGED <<vars, uri, pending, nextTime, calm>>

Stop(t) ==
    /\ At(t, "stop")
    /\ StopPlayback
    /\ GoOn(t)
    /\ UNCHANGED <<contentVars, uri, pending, nextTime, died, overlapped, calm>>

ReadUri(t) ==
    /\ At(t, "uri")
    /\ uri' = [uri EXCEPT ![t] = file]
    /\ GoOn(t)
    /\ UNCHANGED <<vars, contentVars, pending, nextTime, died, overlapped, calm>>

InitializePlayer(t) ==
    /\ At(t, "init")
    /\ Initialize(uri[t])
    /\ uri' = [uri EXCEPT ![t] = NoTrack]
    /\ GoOn(t)
    /\ UNCHANGED <<contentVars, pending, nextTime, died, overlapped, calm>>

Start(t) ==
    /\ At(t, "start")
    /\ StartPlayback
    /\ GoOn(t)
    /\ UNCHANGED <<contentVars, uri, pending, nextTime, died, overlapped, calm>>

(* The end of StopPlayback().  It is calm when no command, button, timer   *)
(* or preparation is under way and no player was left behind.              *)
CalmStop == /\ Quiescent'
            /\ mp # NoPlayer => prepared
            /\ \A p \in Players : ~Abandoned(p)

(* Mutant: the player is stopped only while it plays.                      *)
HaltIfPlaying ==
    /\ At(Main, "halt")
    /\ \/ mp # NoPlayer /\ Audible(mp) /\ StopPlayback
       \/ ~(mp # NoPlayer /\ Audible(mp)) /\ UNCHANGED vars
    /\ GoOn(Main)
    /\ UNCHANGED <<contentVars, uri, pending, nextTime, died, overlapped>>
    /\ calm' = CalmStop

Halt ==
    /\ At(Main, "halt")
    /\ StopPlayback
    /\ GoOn(Main)
    /\ UNCHANGED <<contentVars, uri, pending, nextTime, died, overlapped>>
    /\ calm' = CalmStop

Step(t) == MoveOn(t) \/ Stop(t) \/ ReadUri(t) \/ InitializePlayer(t) \/ Start(t)

(* The listeners of the player run on the main thread, between its         *)
(* commands; the end of a song asks for the next track.                    *)
ListenerRuns ==
    /\ Idle(Main)
    /\ Discard \/ OnPrepared \/ OnSeekComplete
    /\ UNCHANGED serviceVars

SongFinished ==
    /\ Idle(Main)
    /\ OnCompletion
    /\ IF crashed' THEN UNCHANGED <<plan, overlapped>> ELSE StartWorker
    /\ UNCHANGED <<contentVars, uri, pending, nextTime, died, calm>>

PlatformActs == Platform /\ UNCHANGED serviceVars

ServiceRestart ==
    /\ crashed \/ died
    /\ Restart
    /\ content' = "none" /\ file' = NoTrack
    /\ plan' = [t \in Threads |-> <<>>] /\ uri' = [t \in Threads |-> NoTrack]
    /\ pending' = {} /\ nextTime' = FALSE
    /\ died' = FALSE /\ overlapped' = FALSE /\ calm' = FALSE

Background ==
    \/ \E b \in Button : RunTask(b)
    \/ Halt \/ ListenerRuns \/ SongFinished
    \/ \E t \in Threads : Step(t)

ServiceNext ==
    \/ ServiceRestart
    \/ ~crashed /\ ~died /\ (User \/ Background \/ PlatformActs)

ServiceSpec == ServiceInit /\ [][ServiceNext]_allVars

-----------------------------------------------------------------------------
(* A stop given while nothing is under way lasts: nothing is heard until   *)
(* the next button is pressed, whatever listener or seek comes after it    *)
(* (ContentPlaybackService.java 319-335).                                  *)
CalmStopIsFinal == calm => \A p \in Players : ~Audible(p)

(* Once a command that no other overlapped is over, the track in the       *)
(* player is the track of the content - whatever raced before it left the  *)
(* player and its callbacks in (ContentPlaybackService.java 385-454).      *)
NowPlayingMatchesContent ==
    ~overlapped /\ (\A t \in Threads : Idle(t)) /\ mp # NoPlayer /\ file # NoTrack
        => source[mp] = file
=============================================================================
