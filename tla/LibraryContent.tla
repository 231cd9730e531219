--------------------------- MODULE LibraryContent ---------------------------
(***************************************************************************)
(* ContentPlaybackService/ContentPlaybackLibrary.java and the calls the    *)
(* service makes to it.  The object is shared without a lock by the main   *)
(* thread (random track, stop), by the background task of the previous     *)
(* button and by one new thread per NextTrack() of the service, so one     *)
(* action is one access to a shared field or to the cursor.                *)
(***************************************************************************)
EXTENDS Integers

CONSTANTS Rows,        (* rows of the library: the cursor's getCount()       *)
          Main,        (* the main thread                                    *)
          PrevThreads, (* the background tasks of the previous button        *)
          NextThreads, (* the threads started by the service's NextTrack()   *)
          NoFile,      (* the empty string, in nowPlayingFile                *)
          MaxDrift     (* bound: how far the position leaves the table       *)

Threads == {Main} \cup PrevThreads \cup NextThreads

(* The constructor reads the row the user chose: an empty library has none. *)
ASSUME RowsAssumption == Rows \in Nat \ {0}
ASSUME FileAssumption == NoFile \notin 0 .. Rows - 1
ASSUME DriftAssumption == MaxDrift \in Nat

VARIABLES
  nowPlayingPos,   (* nowPlayingPos                                        *)
  nowPlayingFile,  (* nowPlayingFile: the row its path was read from       *)
  cursor,          (* playbackCursor: "open", "closed" or "null"           *)
  row,             (* the cursor's own position                            *)
  pc,              (* what each thread does next                           *)
  op,              (* the method each thread is in, or "none"              *)
  val,             (* the value each thread is about to assign, or 0       *)
  crashed,         (* an exception nothing catches ended the process       *)
  overlapped,      (* history: a method was entered while another ran      *)
  cmd              (* history: the last move of nowPlayingPos              *)

vars == <<nowPlayingPos, nowPlayingFile, cursor, row, pc, op, val, crashed,
          overlapped, cmd>>

nowPlayingMax == Rows - 1

Moves      == {"next", "prev", "random"}
Operations == Moves \cup {"cleanup"}

(* Who calls what.                                                         *)
Methods(t) == CASE t = Main           -> {"random", "cleanup"}
                [] t \in PrevThreads  -> {"prev"}
                [] t \in NextThreads  -> {"next"}

PC == {"idle", "test", "load", "store", "move", "read", "assign",
       "close", "drop", "blank"}

TypeOK ==
    /\ nowPlayingPos \in Int
    /\ nowPlayingFile \in 0 .. nowPlayingMax \cup {NoFile}
    /\ cursor \in {"open", "closed", "null"}
    /\ row \in Int
    /\ pc \in [Threads -> PC]
    /\ op \in [Threads -> Operations \cup {"none"}]
    /\ val \in [Threads -> Int]
    /\ crashed \in BOOLEAN
    /\ overlapped \in BOOLEAN
    /\ cmd \in Moves \cup {"none"}

(* ContentPlaybackLibrary(): the chosen row is a row of the list.          *)
Init ==
    /\ nowPlayingPos \in 0 .. nowPlayingMax
    /\ nowPlayingFile = nowPlayingPos
    /\ row = nowPlayingPos
    /\ cursor = "open"
    /\ pc = [t \in Threads |-> "idle"]
    /\ op = [t \in Threads |-> "none"]
    /\ val = [t \in Threads |-> 0]
    /\ crashed = FALSE
    /\ overlapped = FALSE
    /\ cmd = "none"

-----------------------------------------------------------------------------
Goto(t, from, to) == pc[t] = from /\ pc' = [pc EXCEPT ![t] = to]

Return(t) == op' = [op EXCEPT ![t] = "none"] /\ val' = [val EXCEPT ![t] = 0]

(* The service calls a method: CleanUp() from StopPlayback(), the others   *)
(* from its methods of the same name.  Nothing keeps it from calling       *)
(* again after CleanUp(), or while another thread is in the object.        *)
Call(t, o) ==
    /\ o \in Methods(t)
    /\ Goto(t, "idle", CASE o \in {"next", "prev"} -> "test"
                         [] o = "random"           -> "load"
                         [] o = "cleanup"          -> "close")
    /\ op' = [op EXCEPT ![t] = o]
    /\ overlapped' = (overlapped \/ \E u \in Threads : pc[u] # "idle")
    /\ UNCHANGED <<nowPlayingPos, nowPlayingFile, cursor, row, val, crashed, cmd>>

(* Mutants: the table is left by one row; the last row is never reached.   *)
AtEndTooLate(t) == IF op[t] = "next" THEN nowPlayingPos > nowPlayingMax
                                     ELSE nowPlayingPos <= 0
AtEndTooSoon(t) == IF op[t] = "next" THEN nowPlayingPos >= nowPlayingMax - 1
                                     ELSE nowPlayingPos <= 0

(* if(nowPlayingPos >= nowPlayingMax), if(nowPlayingPos > 0): at its end   *)
(* the order wraps, and the value to assign is a constant.                 *)
AtEnd(t) == IF op[t] = "next" THEN nowPlayingPos >= nowPlayingMax
                              ELSE nowPlayingPos <= 0

Test(t) ==
    /\ Goto(t, "test", IF AtEnd(t) THEN "store" ELSE "load")
    /\ val' = [val EXCEPT ![t] = IF AtEnd(t) /\ op[t] = "prev"
                                 THEN nowPlayingMax ELSE 0]
    /\ UNCHANGED <<nowPlayingPos, nowPlayingFile, cursor, row, op, crashed,
                   overlapped, cmd>>

(* nowPlayingPos++ and nowPlayingPos-- read the field and assign it later. *)
Load(t) ==
    /\ Goto(t, "load", "store")
    /\ nowPlayingPos \in -MaxDrift .. nowPlayingMax + MaxDrift
    /\ \E v \in CASE op[t] = "next"   -> {nowPlayingPos + 1}
                  [] op[t] = "prev"   -> {nowPlayingPos - 1}
                  [] op[t] = "random" -> 0 .. nowPlayingMax :
          val' = [val EXCEPT ![t] = v]
    /\ UNCHANGED <<nowPlayingPos, nowPlayingFile, cursor, row, op, crashed,
                   overlapped, cmd>>

(* Mutant: moveToPosition() is not called.                                 *)
StoreAndRead(t) ==
    /\ Goto(t, "store", "read")
    /\ nowPlayingPos' = val[t]
    /\ cmd' = op[t]
    /\ val' = [val EXCEPT ![t] = 0]
    /\ UNCHANGED <<nowPlayingFile, cursor, row, op, crashed, overlapped>>

Store(t) ==
    /\ Goto(t, "store", "move")
    /\ nowPlayingPos' = val[t]
    /\ cmd' = op[t]
    /\ val' = [val EXCEPT ![t] = 0]
    /\ UNCHANGED <<nowPlayingFile, cursor, row, op, crashed, overlapped>>

(* Mutant: the cursor is moved to the nearest row.                         *)
ClampedToRow(p) == IF p < 0 THEN 0 ELSE IF p >= Rows THEN Rows - 1 ELSE p

(* playbackCursor.moveToPosition(nowPlayingPos): a position outside the    *)
(* table leaves the cursor before the first or after the last row.         *)
Clamped(p) == IF p < 0 THEN -1 ELSE IF p > Rows THEN Rows ELSE p

Move(t) ==
    /\ Goto(t, "move", "read")
    /\ crashed' = (cursor # "open")
    /\ row' = IF cursor = "open" THEN Clamped(nowPlayingPos) ELSE row
    /\ UNCHANGED <<nowPlayingPos, nowPlayingFile, cursor, op, val, overlapped,
                   cmd>>

(* playbackCursor.getString(...), which throws unless the cursor is open   *)
(* and on a row, and the assignment of its result.                         *)
Readable == cursor = "open" /\ row \in 0 .. nowPlayingMax

Read(t) ==
    /\ Goto(t, "read", "assign")
    /\ crashed' = ~Readable
    /\ val' = [val EXCEPT ![t] = IF Readable THEN row ELSE 0]
    /\ UNCHANGED <<nowPlayingPos, nowPlayingFile, cursor, row, op, overlapped,
                   cmd>>

Assign(t) ==
    /\ Goto(t, "assign", "idle")
    /\ nowPlayingFile' = val[t]
    /\ Return(t)
    /\ UNCHANGED <<nowPlayingPos, cursor, row, crashed, overlapped, cmd>>

(* CleanUp(): the cursor is closed, then forgotten, then the file is.      *)
Close(t) ==
    /\ Goto(t, "close", IF cursor = "null" THEN "blank" ELSE "drop")
    /\ cursor' = IF cursor = "null" THEN "null" ELSE "closed"
    /\ UNCHANGED <<nowPlayingPos, nowPlayingFile, row, op, val, crashed,
                   overlapped, cmd>>

Drop(t) ==
    /\ Goto(t, "drop", "blank")
    /\ cursor' = "null"
    /\ UNCHANGED <<nowPlayingPos, nowPlayingFile, row, op, val, crashed,
                   overlapped, cmd>>

Blank(t) ==
    /\ Goto(t, "blank", "idle")
    /\ nowPlayingFile' = NoFile
    /\ Return(t)
    /\ UNCHANGED <<nowPlayingPos, cursor, row, crashed, overlapped, cmd>>

Step(t) ==
    \/ Test(t) \/ Load(t) \/ Store(t) \/ Move(t) \/ Read(t) \/ Assign(t)
    \/ Close(t) \/ Drop(t) \/ Blank(t)
    \/ \E o \in Operations : Call(t, o)

Next == ~crashed /\ \E t \in Threads : Step(t)
Spec == Init /\ [][Next]_vars

-----------------------------------------------------------------------------
Quiet == \A t \in Threads : pc[t] = "idle"

(* The path handed to the player is that of the row the position names,    *)
(* whatever sequence of commands came before - as long as no two of them   *)
(* overlapped.                                                             *)
FileMatchesPosition ==
    ~overlapped /\ Quiet /\ cursor = "open" => nowPlayingFile = nowPlayingPos

(* The process only dies of overlapping commands or of a command that      *)
(* comes after stop: the position never leaves the table by itself.        *)
CrashNeedsOverlapOrStop == crashed => overlapped \/ cursor # "open"

(* Commands that overlap test the position before the others move it and   *)
(* can carry it beyond the table; but whoever moved it last reads the row  *)
(* there, so either the process dies or the position is a row's again.     *)
PositionRecovers == Quiet /\ ~crashed => nowPlayingPos \in 0 .. nowPlayingMax

(* NextTrack(), PrevTrack() and RandomTrack() move along the ring of the   *)
(* library's rows, until the first time two of them overlap.               *)
Ring == INSTANCE TrackRing WITH
            size <- Rows,
            at   <- IF overlapped THEN -1 ELSE nowPlayingPos,
            cmd  <- IF overlapped THEN "none" ELSE cmd

ImplementsRing == Ring!Spec
=============================================================================
