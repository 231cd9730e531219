------------------------- MODULE AndroidMediaPlayer -------------------------
(***************************************************************************)
(* android.media.MediaPlayer as MediaPlayerHandler uses it.  The class is  *)
(* part of the platform, not of CalcTunes: this module states only what    *)
(* the handler can observe - which calls a player object accepts in which  *)
(* state, what an unacceptable call does to it, and which messages it      *)
(* posts to the main looper.                                               *)
(*                                                                         *)
(* A player object that was never created or that was released holds no    *)
(* resources and delivers no callback; both are "none".                    *)
(***************************************************************************)
EXTENDS Naturals, Sequences

CONSTANTS Players,   (* the player objects the process can hold at once *)
          NoPlayer   (* the Java reference null                         *)

ASSUME PlayersAssumption == NoPlayer \notin Players

PlayerState == {"none", "idle", "preparing", "prepared", "started",
                "paused", "complete", "error"}

(* The states start() and seekTo() are legal in.                           *)
Startable == {"prepared", "started", "paused", "complete"}

(* start() plays the track; in a state that does not allow it the call     *)
(* puts the player in the error state, except before any data source is    *)
(* set, where it has no effect.                                            *)
AfterStart(s) == CASE s \in Startable -> "started"
                   [] s = "idle"      -> "idle"
                   [] OTHER           -> "error"

AfterPause(s) == CASE s = "complete"              -> "complete"
                   [] s \in {"started", "paused"} -> "paused"
                   [] s = "idle"                  -> "idle"
                   [] OTHER                       -> "error"

(* Messages.  An error is delivered to the completion listener: the        *)
(* handler registers no OnErrorListener, and the platform then calls       *)
(* onCompletion.                                                           *)
MessageKind == {"prepared", "completion", "seeked"}
Message     == [kind : MessageKind, player : Players]

(* What a call that takes player p from state s to state t posts.          *)
Complaint(p, s, t) ==
    IF t = "error" /\ s # "none"
    THEN <<[kind |-> "completion", player |-> p]>>
    ELSE <<>>
=============================================================================
