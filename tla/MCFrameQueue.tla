---------------------------- MODULE MCFrameQueue ----------------------------
(* Small instances of FrameQueue for TLC. *)
EXTENDS FrameQueue

CONSTANTS empty, small, large, huge

\* An empty datagram, two ordinary frames, and one larger than the queue.
MCSize == [f \in Frames |->
             CASE f = empty -> 0 [] f = small -> 1
               [] f = large -> 2 [] f = huge -> 4]
=============================================================================
