----------------------------- MODULE MCFrameChannel -----------------------------
(***************************************************************************)
(* FrameChannel for TLC: a viewer with two threads and a second client.     *)
(***************************************************************************)
EXTENDS FrameChannel

CONSTANTS viewer, other, tick, worker, rival

Both == [t \in Threads |-> IF t = rival THEN other ELSE viewer]

=============================================================================
