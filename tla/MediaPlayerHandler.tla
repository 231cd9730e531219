------------------------- MODULE MediaPlayerHandler -------------------------
(***************************************************************************)
(* MediaPlayer/MediaPlayerHandler.java: the wrapper that owns the one      *)
(* MediaPlayer of the application and hides its asynchronous preparation.  *)
(*                                                                         *)
(* A method runs to its end before anything else happens, and the player's *)
(* callbacks are messages that the main thread handles in order.  What     *)
(* comes between two methods - callbacks of players started or given up    *)
(* earlier, methods called by other threads of the service - is any step   *)
(* of this module.                                                         *)
(***************************************************************************)
EXTENDS AndroidMediaPlayer

CONSTANTS Tracks,      (* the paths and stream URLs that can be opened      *)
          Playable,    (* those whose tags and data can be read             *)
          NoTrack,     (* the empty string, in current_path / current_title   *)
          MaxMessages  (* bound: messages waiting in the main looper        *)

ASSUME TracksAssumption   == NoTrack \notin Tracks /\ Playable \subseteq Tracks
ASSUME MessagesAssumption == MaxMessages \in Nat

VARIABLES
  native,         (* the state of each player object                        *)
  source,         (* the data source each player object was given           *)
  seeking,        (* players with a seekTo() in progress                    *)
  looper,         (* messages of the players, not yet handled               *)
  mp,             (* MediaPlayerHandler.mp                                  *)
  prepared,       (* MediaPlayerHandler.prepared                            *)
  playonprepare,  (* MediaPlayerHandler.playonprepare                       *)
  title,          (* current_title, with its artist, album and year         *)
  crashed,        (* a null reference was followed: the process died        *)
  stopped,        (* history: whether stopPlayback() was the last of the    *)
                  (* calls that decide if a track is to play, and whether   *)
                  (* a start request was waiting when it was called         *)
  hurried         (* history: the track was changed while the player of the *)
                  (* previous one was not prepared, in this process         *)

playerVars  == <<native, source, seeking, looper>>
handlerVars == <<mp, prepared, playonprepare, title>>
history     == <<stopped, hurried>>
vars        == <<playerVars, handlerVars, crashed, history>>

(* What a content may ask for; the path of a closed content is empty.     *)
Paths == Tracks \cup {NoTrack}

Live(p)    == native[p] # "none"
Audible(p) == native[p] = "started"

(* A player that was created, is not released and is no longer mp.         *)
Abandoned(p) == Live(p) /\ p # mp

Quiet(p) == ~Live(p) /\ \A i \in 1 .. Len(looper) : looper[i].player # p

TypeOK ==
    /\ native \in [Players -> PlayerState]
    /\ source \in [Players -> Tracks \cup {NoTrack}]
    /\ seeking \in SUBSET Players
    /\ looper \in Seq(Message)
    /\ mp \in Players \cup {NoPlayer}
    /\ prepared \in BOOLEAN
    /\ playonprepare \in BOOLEAN
    /\ title \in Tracks \cup {NoTrack}
    /\ crashed \in BOOLEAN
    /\ stopped \in {"no", "final", "waiting"}
    /\ hurried \in BOOLEAN

Init ==
    /\ native = [p \in Players |-> "none"]
    /\ source = [p \in Players |-> NoTrack]
    /\ seeking = {}
    /\ looper = <<>>
    /\ mp = NoPlayer
    /\ prepared = FALSE
    /\ playonprepare = FALSE
    /\ title = NoTrack
    /\ crashed = FALSE
    /\ stopped = "no"
    /\ hurried = FALSE

-----------------------------------------------------------------------------
(* Methods.  StopReleases: stopPlayback() reaches mp.release().            *)
StopReleases == prepared /\ mp # NoPlayer

(* Mutant: mp is set to null without a call of release().                  *)
ReleasedForgotten == native

Released == IF StopReleases THEN [native EXCEPT ![mp] = "none"] ELSE native

(* The texts are emptied inside the test of prepared - and in the mutant,  *)
(* outside it.                                                             *)
ClearedAlways == NoTrack
Cleared       == IF prepared THEN NoTrack ELSE title

(* stopPlayback(): nothing at all happens while prepared is false.         *)
StopPlayback ==
    /\ native' = Released
    /\ seeking' = IF StopReleases THEN seeking \ {mp} ELSE seeking
    /\ mp' = IF StopReleases THEN NoPlayer ELSE mp
    /\ prepared' = (prepared /\ ~StopReleases)
    /\ title' = Cleared
    /\ stopped' = IF playonprepare THEN "waiting" ELSE "final"
    /\ UNCHANGED <<source, looper, playonprepare, crashed, hurried>>

(* initialize() sets current_path and then calls stopPlayback(), which     *)
(* empties it while prepared is true: the opening that follows then fails. *)
(* The tags were read and prepareAsync() was accepted.                     *)
Open(t) ==
    /\ t \in Playable
    /\ \E p \in Players :
          /\ Quiet(p)
          /\ native' = [Released EXCEPT ![p] = "preparing"]
          /\ source' = [source EXCEPT ![p] = t]
          /\ mp' = p
    /\ title' = t

(* Reading the tags or setting the data source threw, and the handler of   *)
(* the exception released the new player.  The title is the one of the     *)
(* track when its tags could be read before the exception.                 *)
OpenFails(readable) ==
    /\ native' = Released
    /\ mp' = NoPlayer
    /\ title' \in readable \cup {NoTrack}
    /\ UNCHANGED source

Opening(t, pathSurvives) ==
    /\ \/ pathSurvives /\ Open(t)
       \/ pathSurvives /\ t \notin Playable /\ OpenFails({t})
       \/ ~pathSurvives /\ OpenFails({})
    /\ seeking' = IF StopReleases THEN seeking \ {mp} ELSE seeking
    /\ prepared' = (prepared /\ ~StopReleases)
    /\ stopped' = "no"
    /\ hurried' = (hurried \/ (mp # NoPlayer /\ ~prepared))
    /\ UNCHANGED <<looper, playonprepare, crashed>>

(* initializeFile(t) or initializeStream(t) by itself, as a thread of the  *)
(* service calls it some time after its stopPlayback().                    *)
Initialize(t) == Opening(t, ~prepared)

(* ContentPlaybackService.refreshMediaPlayer() on the main thread: nothing *)
(* comes between its stopPlayback() and initialize().                      *)
Refresh(t) == Opening(t, ~prepared \/ StopReleases)

(* A call of start(), pause() or seekTo() that takes mp to state s, and    *)
(* the messages waiting after it.                                          *)
Call(s, waiting) ==
    /\ native' = [native EXCEPT ![mp] = s]
    /\ looper' = waiting \o Complaint(mp, native[mp], s)

StartPlayback ==
    /\ Len(looper) < MaxMessages
    /\ \/ prepared /\ mp # NoPlayer /\ Call(AfterStart(native[mp]), looper)
       \/ ~(prepared /\ mp # NoPlayer) /\ UNCHANGED <<native, looper>>
    /\ playonprepare' = (playonprepare \/ ~prepared)
    /\ stopped' = "no"
    /\ UNCHANGED <<source, seeking, mp, prepared, title, crashed, hurried>>

PausePlayback ==
    /\ Len(looper) < MaxMessages
    /\ prepared /\ mp # NoPlayer
    /\ Call(AfterPause(native[mp]), looper)
    /\ UNCHANGED <<source, seeking, handlerVars, crashed, history>>

(* mp.pause(); mp.seekTo(): the seek proceeds only in a legal state.       *)
SeekPlayback ==
    /\ Len(looper) < MaxMessages
    /\ prepared /\ mp # NoPlayer
    /\ Call(AfterPause(native[mp]), looper)
    /\ seeking' = IF native'[mp] \in Startable THEN seeking \cup {mp}
                                               ELSE seeking
    /\ UNCHANGED <<source, handlerVars, crashed, history>>

-----------------------------------------------------------------------------
(* The platform: preparation, playback and seeks end by themselves.        *)
Post(k, p) ==
    /\ Len(looper) < MaxMessages
    /\ looper' = Append(looper, [kind |-> k, player |-> p])

PrepareDone(p) ==
    /\ native[p] = "preparing"
    /\ native' = [native EXCEPT ![p] = "prepared"]
    /\ Post("prepared", p)
    /\ UNCHANGED <<source, seeking, handlerVars, crashed, history>>

PlaybackEnds(p) ==
    /\ native[p] = "started"
    /\ native' = [native EXCEPT ![p] = "complete"]
    /\ Post("completion", p)
    /\ UNCHANGED <<source, seeking, handlerVars, crashed, history>>

(* An undecodable file, a lost connection, a dead media server.            *)
MediaFails(p) ==
    /\ native[p] \in {"preparing", "started"}
    /\ native' = [native EXCEPT ![p] = "error"]
    /\ Post("completion", p)
    /\ UNCHANGED <<source, seeking, handlerVars, crashed, history>>

SeekDone(p) ==
    /\ p \in seeking
    /\ seeking' = seeking \ {p}
    /\ Post("seeked", p)
    /\ UNCHANGED <<native, source, handlerVars, crashed, history>>

-----------------------------------------------------------------------------
(* The listeners, run by the main looper for the oldest message.  All      *)
(* three use the field mp, not the player the message came from.           *)
Handle(k) ==
    /\ looper # <<>>
    /\ Head(looper).kind = k
    /\ Live(Head(looper).player)

(* A released player has no listeners any more.                            *)
Discard ==
    /\ looper # <<>>
    /\ ~Live(Head(looper).player)
    /\ looper' = Tail(looper)
    /\ UNCHANGED <<native, source, seeking, handlerVars, crashed, history>>

(* mp.start() in a listener, without a check that mp is not null.          *)
StartHeld ==
    /\ crashed' = (mp = NoPlayer)
    /\ IF mp = NoPlayer
       THEN looper' = Tail(looper) /\ UNCHANGED native
       ELSE Call(AfterStart(native[mp]), Tail(looper))

(* Mutants: onPrepared() starts without asking playonprepare; it leaves    *)
(* playonprepare set.                                                      *)
OnPreparedStartsAlways ==
    /\ Handle("prepared")
    /\ prepared' = TRUE
    /\ StartHeld
    /\ playonprepare' = FALSE
    /\ UNCHANGED <<source, seeking, mp, title, history>>

OnPreparedKeepsRequest ==
    /\ Handle("prepared")
    /\ prepared' = TRUE
    /\ \/ playonprepare /\ StartHeld
       \/ ~playonprepare /\ looper' = Tail(looper) /\ UNCHANGED <<native, crashed>>
    /\ UNCHANGED <<source, seeking, mp, playonprepare, title, history>>

OnPrepared ==
    /\ Handle("prepared")
    /\ prepared' = TRUE
    /\ \/ /\ playonprepare
          /\ StartHeld
          /\ playonprepare' = (mp = NoPlayer)
       \/ /\ ~playonprepare
          /\ looper' = Tail(looper)
          /\ UNCHANGED <<native, playonprepare, crashed>>
    /\ UNCHANGED <<source, seeking, mp, title, history>>

(* The player of the handler, whichever it is by now, is released.  The    *)
(* call of cb.onSongFinished() that follows belongs to the service.        *)
OnCompletion ==
    /\ Handle("completion")
    /\ crashed' = (mp = NoPlayer)
    /\ native' = [p \in Players |-> IF p = mp THEN "none" ELSE native[p]]
    /\ seeking' = seeking \ {mp}
    /\ mp' = NoPlayer
    /\ prepared' = (prepared /\ mp = NoPlayer)
    /\ looper' = Tail(looper)
    /\ UNCHANGED <<source, playonprepare, title, history>>

OnSeekComplete ==
    /\ Handle("seeked")
    /\ StartHeld
    /\ UNCHANGED <<source, seeking, handlerVars, history>>
-----------------------------------------------------------------------------
Method   == StopPlayback \/ StartPlayback \/ PausePlayback \/ SeekPlayback
              \/ \E t \in Paths : Initialize(t) \/ Refresh(t)

Platform == \E p \in Players : \/ PrepareDone(p)
                               \/ PlaybackEnds(p)
                               \/ MediaFails(p)
                               \/ SeekDone(p)

Listener == Discard \/ OnPrepared \/ OnCompletion \/ OnSeekComplete

(* The process dies - of an exception or killed by the platform - and      *)
(* START_REDELIVER_INTENT has the service created again in a new one.      *)
Restart ==
    /\ native' = [p \in Players |-> "none"]
    /\ source' = [p \in Players |-> NoTrack]
    /\ seeking' = {}
    /\ looper' = <<>>
    /\ mp' = NoPlayer
    /\ prepared' = FALSE
    /\ playonprepare' = FALSE
    /\ title' = NoTrack
    /\ crashed' = FALSE
    /\ stopped' = "no"
    /\ hurried' = FALSE

Next == Restart \/ (~crashed /\ (Method \/ Platform \/ Listener))

(* Preparation always ends, one way or the other, and the main looper      *)
(* keeps handling messages.                                                *)
Fairness ==
    /\ \A p \in Players : WF_vars(~crashed /\ (PrepareDone(p) \/ MediaFails(p)))
    /\ WF_vars(~crashed /\ Listener)

Spec     == Init /\ [][Next]_vars
FairSpec == Spec /\ Fairness
-----------------------------------------------------------------------------
(* Whatever is heard comes from the player the handler holds, and          *)
(* stopPlayback() would silence it: prepared is set.  (stopPlayback() acts *)
(* only when prepared, and initialize() drops mp without releasing it      *)
(* when it is not: lines 95-103 and 235-259.)                              *)
AudibleIsStoppable == \A p \in Players : Audible(p) => p = mp /\ prepared

(* The title on display is the one of the track the held player opened,    *)
(* across every order of initialize(), stopPlayback() and late callbacks.  *)
TitleMatchesPlayer == mp # NoPlayer => title = source[mp]

(* Once stopPlayback() was called nothing is heard, and nothing will be    *)
(* until the next command - provided no start request was still waiting    *)
(* for onPrepared at the time: stopPlayback() does not withdraw it.        *)
StopIsFinal == stopped = "final" => \A p \in Players : ~Audible(p)

(* Changing the track while the previous one is not prepared is all that   *)
(* goes wrong: without it no player is ever left behind, prepared never    *)
(* outlives mp, and the listeners, which use mp unchecked (lines 145, 154  *)
(* and 311), find it set whatever the order of commands and callbacks.     *)
HurryIsToBlame ==
    ~hurried => /\ ~crashed
                /\ \A p \in Players : ~Abandoned(p)
                /\ prepared => mp # NoPlayer

(* A start request made before the player is ready is answered: it is      *)
(* carried out, or the player turns out unusable and is dropped.           *)
StartRequestAnswered ==
    playonprepare /\ mp # NoPlayer
        ~> ~playonprepare \/ mp = NoPlayer \/ crashed
=============================================================================
