---------------------------- MODULE BoundedFifo ----------------------------
(***************************************************************************)
(* What the frame queue of backend/internal/ingestion promises: a FIFO of  *)
(* frames bounded both by number and by payload bytes, which once closed   *)
(* admits nothing and can still be emptied.  The slice, the locks and the  *)
(* blocked callers that implement it are in FrameQueue; Pipeline composes  *)
(* its stages around this specification.                                   *)
(***************************************************************************)
EXTENDS Naturals, Sequences, QueueLimits

VARIABLES pending,    \* admitted frames not yet taken, oldest first
          bytes,      \* payload bytes charged for them
          closed      \* close() has run

vars == <<pending, bytes, closed>>

Init == pending = <<>> /\ bytes = 0 /\ closed = FALSE

\* The admission test: one more frame and its bytes fit under both limits.
Room(f) == Len(pending) < MaxEvents /\ bytes + Size[f] <= MaxBytes

Put(f) ==
    /\ ~closed
    /\ Room(f)
    /\ pending' = Append(pending, f)
    /\ bytes' = bytes + Size[f]
    /\ UNCHANGED closed

Take(f) ==
    /\ pending # <<>>
    /\ f = Head(pending)
    /\ pending' = Tail(pending)
    /\ bytes' = bytes - Size[f]
    /\ UNCHANGED closed

Close ==
    /\ ~closed
    /\ closed' = TRUE
    /\ UNCHANGED <<pending, bytes>>

Next == (\E f \in Frames : Put(f) \/ Take(f)) \/ Close

Spec == Init /\ [][Next]_vars
=============================================================================
