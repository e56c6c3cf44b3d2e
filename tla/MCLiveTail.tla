----------------------------- MODULE MCLiveTail -----------------------------
(* Small instances of LiveTail for TLC. *)
EXTENDS LiveTail, TLC

\* Rows are interchangeable.
RowSymmetry == Permutations(Rows)
=============================================================================
