----------------------------- MODULE MCPipeline -----------------------------
(* Small instances of Pipeline for TLC. *)
EXTENDS Pipeline, TLC

CONSTANTS small, medium, large

\* A frame of one byte, one of two, and one that alone exceeds a batch.
MCSize == [f \in Frames |-> CASE f = small -> 1 [] f = medium -> 2 [] f = large -> 3]

MCEntrySize == [f \in Frames |-> IF f = large THEN 5 ELSE 2]

\* Workers are interchangeable; used where no liveness is checked.
WorkerSymmetry == Permutations(Workers)
=============================================================================
