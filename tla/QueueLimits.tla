---------------------------- MODULE QueueLimits ----------------------------
(* The limits of the frame queue, shared by the modules that describe it.    *)
EXTENDS Naturals, Sequences

CONSTANTS Frames,     \* the frames that may be offered
          Size,       \* Size[f]: payload bytes of frame f
          MaxEvents,  \* ingestion.queue.max_events
          MaxBytes    \* ingestion.queue.max_bytes

ASSUME QueueAssumption ==
    /\ Size \in [Frames -> Nat]
    /\ MaxEvents \in Nat \ {0}
    /\ MaxBytes \in Nat \ {0}

\* b is the sum of the sizes of q, and at most MaxBytes: some running total over
\* q starts at 0, grows by each frame's size and ends at b.
IsTotal(b, q) ==
    \E total \in [0..Len(q) -> 0..MaxBytes] :
        /\ total[0] = 0
        /\ total[Len(q)] = b
        /\ \A i \in 1..Len(q) : total[i] = total[i-1] + Size[q[i]]
=============================================================================
