------------------------------ MODULE AudioPipe ------------------------------
(***************************************************************************)
(* What the callback buffer between a decoder and the AudioTrack promises: *)
(* a bounded first-in first-out pipe that can be thrown away.              *)
(***************************************************************************)
EXTENDS Integers, Sequences

CONSTANTS Units,     (* the units of sound                                 *)
          Capacity,  (* the pipe holds fewer units than this               *)
          Chunk      (* a decoder puts at most this many at a time         *)

VARIABLES queue,     (* what was put and not yet heard                     *)
          open,      (* a pipe that was dropped is shut                    *)
          heard      (* what came out since the pipe was opened            *)

PipeInit == queue = <<>> /\ open = TRUE /\ heard = <<>>

Put == \E n \in 1 .. Chunk : \E s \in [1 .. n -> Units] :
    /\ open /\ Len(queue) + n < Capacity
    /\ queue' = queue \o s
    /\ UNCHANGED <<open, heard>>

Get == \E n \in 1 .. Len(queue) :
    /\ heard' = heard \o SubSeq(queue, 1, n)
    /\ queue' = SubSeq(queue, n + 1, Len(queue))
    /\ UNCHANGED open

Drop == queue' = <<>> /\ open' = FALSE /\ UNCHANGED heard

Reopen == queue' = <<>> /\ open' = TRUE /\ heard' = <<>>

PipeSpec == PipeInit /\ [][Put \/ Get \/ Drop \/ Reopen]_<<queue, open, heard>>
=============================================================================
