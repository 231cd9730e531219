---------------------------- MODULE DownloadQueue ----------------------------
(***************************************************************************)
(* What the download service promises of its queue: a request is queued    *)
(* once, requests leave the queue in the order they came, and a request    *)
(* that left never comes back.  The list behind it is not synchronized:    *)
(* with the first two changes of it that overlap the promise is given up.  *)
(***************************************************************************)
EXTENDS Sequences

CONSTANT Jobs      (* the downloadJob objects *)

VARIABLES waiting, (* the requests not yet taken, oldest first *)
          taken,   (* the requests some thread took            *)
          sound    (* no two changes of the list overlapped    *)

Enqueue(j) ==
    /\ j \notin taken
    /\ \A i \in DOMAIN waiting : waiting[i] # j
    /\ waiting' = Append(waiting, j)
    /\ UNCHANGED <<taken, sound>>

Dequeue ==
    /\ waiting # <<>>
    /\ waiting' = Tail(waiting)
    /\ taken' = taken \cup {Head(waiting)}
    /\ UNCHANGED sound

(* Two changes overlap: from now on anything may be in the list.           *)
GiveUp == sound' = FALSE

Init == waiting = <<>> /\ taken = {} /\ sound = TRUE
Next == GiveUp \/ (sound /\ (Dequeue \/ \E j \in Jobs : Enqueue(j)))
Spec == Init /\ [][Next]_<<waiting, taken, sound>>
=============================================================================
