----------------------------- MODULE FrameQueue -----------------------------
(***************************************************************************)
(* The bounded in-memory queue of backend/internal/ingestion/queue.go.     *)
(*                                                                         *)
(* The slice is kept as the code keeps it: `items' grows at its end, taken *)
(* slots are zeroed and skipped by `head', and the taken prefix is cut off *)
(* by the compaction in dequeue.  A critical section of q.mu is one step.  *)
(* Outside the lock a caller sits in its select: `parked' holds the        *)
(* callers whose captured `changed' channel is still open, so notifyLocked *)
(* (close the channel, install a fresh one) empties it, and a caller in    *)
(* its select but not in `parked' has its wake-up case ready.              *)
(***************************************************************************)
EXTENDS Naturals, Sequences, QueueLimits

CONSTANTS CompactAt,  \* 1024: taken slots tolerated before compaction
          Producers,  \* goroutines that call enqueue
          Consumers,  \* goroutines that call dequeue
          NoFrame     \* the zero queuedFrame a taken slot is overwritten with

ASSUME CallerAssumption ==
    /\ CompactAt \in Nat
    /\ NoFrame \notin Frames
    /\ Producers \cap Consumers = {}

Callers == Producers \cup Consumers

VARIABLES items, head, bytes, closed,
          pc,         \* where each caller is: idle, check (at the lock), select
          arg,        \* the frame a producer is enqueueing
          parked,     \* callers whose captured changed channel is open
          cancelled   \* callers whose context is done

vars == <<items, head, bytes, closed, pc, arg, parked, cancelled>>

\* The frames a dequeue can still return, oldest first.
Pending == SubSeq(items, head + 1, Len(items))

TypeOK ==
    /\ items \in Seq(Frames \cup {NoFrame})
    /\ head \in 0..Len(items)
    /\ bytes \in 0..MaxBytes
    /\ closed \in BOOLEAN
    /\ pc \in [Callers -> {"idle", "check", "select"}]
    /\ arg \in [Producers -> Frames \cup {NoFrame}]
    /\ parked \in SUBSET Callers
    /\ cancelled \in SUBSET Callers

Init ==
    /\ items = <<>> /\ head = 0 /\ bytes = 0 /\ closed = FALSE
    /\ pc = [c \in Callers |-> "idle"]
    /\ arg = [p \in Producers |-> NoFrame]
    /\ parked = {}
    /\ cancelled = {}

Goto(c, place) == pc' = [pc EXCEPT ![c] = place]

\* A producer's call is over: it forgets its frame.
Return(p) == Goto(p, "idle") /\ arg' = [arg EXCEPT ![p] = NoFrame]

NotifySkipped == UNCHANGED parked

notifyLocked == parked' = {}
-----------------------------------------------------------------------------
(* enqueue *)

\* A frame larger than the whole queue is refused before anything is locked.
EnqueueCall(p, f) ==
    /\ pc[p] = "idle"
    /\ IF Size[f] > MaxBytes
         THEN UNCHANGED <<pc, arg>>
         ELSE Goto(p, "check") /\ arg' = [arg EXCEPT ![p] = f]
    /\ UNCHANGED <<items, head, bytes, closed, parked, cancelled>>

RoomIgnoringFrame(f) == Len(items) - head < MaxEvents /\ bytes <= MaxBytes

Room(f) == Len(items) - head < MaxEvents /\ bytes + Size[f] <= MaxBytes

EnqueueClosed(p) ==
    /\ pc[p] = "check"
    /\ closed
    /\ Return(p)
    /\ UNCHANGED <<items, head, bytes, closed, parked, cancelled>>

EnqueueAdmitAfterClose(p) ==
    /\ pc[p] = "check"
    /\ Room(arg[p])
    /\ items' = Append(items, arg[p])
    /\ bytes' = bytes + Size[arg[p]]
    /\ notifyLocked
    /\ Return(p)
    /\ UNCHANGED <<head, closed, cancelled>>

EnqueueAdmit(p) ==
    /\ pc[p] = "check"
    /\ ~closed
    /\ Room(arg[p])
    /\ items' = Append(items, arg[p])
    /\ bytes' = bytes + Size[arg[p]]
    /\ notifyLocked
    /\ Return(p)
    /\ UNCHANGED <<head, closed, cancelled>>

\* No room: capture the current changed channel under the lock, then select.
EnqueuePark(p) ==
    /\ pc[p] = "check"
    /\ ~closed
    /\ ~Room(arg[p])
    /\ Goto(p, "select")
    /\ parked' = parked \cup {p}
    /\ UNCHANGED <<items, head, bytes, closed, arg, cancelled>>

EnqueueTimeoutRetries(p) ==
    /\ pc[p] = "select"
    /\ Goto(p, "check")
    /\ parked' = parked \ {p}
    /\ UNCHANGED <<items, head, bytes, closed, arg, cancelled>>

\* The timer or the context ends the wait.  Go picks at random among the ready
\* cases, so this may happen even when a wake-up has already arrived.
EnqueueTimeout(p) ==
    /\ pc[p] = "select"
    /\ Return(p)
    /\ parked' = parked \ {p}
    /\ UNCHANGED <<items, head, bytes, closed, cancelled>>

EnqueueCancelled(p) ==
    /\ pc[p] = "select"
    /\ p \in cancelled
    /\ Return(p)
    /\ parked' = parked \ {p}
    /\ UNCHANGED <<items, head, bytes, closed, cancelled>>

\* The captured channel was closed: back to the lock for another look.
Wake(c) ==
    /\ pc[c] = "select"
    /\ c \notin parked
    /\ Goto(c, "check")
    /\ UNCHANGED <<items, head, bytes, closed, arg, parked, cancelled>>
-----------------------------------------------------------------------------
(* dequeue *)

DequeueCall(c) ==
    /\ pc[c] = "idle"
    /\ Goto(c, "check")
    /\ UNCHANGED <<items, head, bytes, closed, arg, parked, cancelled>>

CompactNever(slots, h) == items' = slots /\ head' = h

CompactOneTooMany(slots, h) ==
    IF h > CompactAt /\ h * 2 >= Len(slots)
      THEN items' = SubSeq(slots, h + 2, Len(slots)) /\ head' = 0
      ELSE items' = slots /\ head' = h

\* Cut the taken prefix off once it is long and at least half of the slice.
Compact(slots, h) ==
    IF h > CompactAt /\ h * 2 >= Len(slots)
      THEN items' = SubSeq(slots, h + 1, Len(slots)) /\ head' = 0
      ELSE items' = slots /\ head' = h

\* Tried before closed and before the context: a closed queue is drained.
DequeueTake(c) ==
    /\ pc[c] = "check"
    /\ head < Len(items)
    /\ bytes' = bytes - Size[items[head + 1]]
    /\ Compact([items EXCEPT ![head + 1] = NoFrame], head + 1)
    /\ notifyLocked
    /\ Goto(c, "idle")
    /\ UNCHANGED <<closed, arg, cancelled>>

DequeueClosed(c) ==
    /\ pc[c] = "check"
    /\ head = Len(items)
    /\ closed
    /\ Goto(c, "idle")
    /\ UNCHANGED <<items, head, bytes, closed, arg, parked, cancelled>>

DequeuePark(c) ==
    /\ pc[c] = "check"
    /\ head = Len(items)
    /\ ~closed
    /\ Goto(c, "select")
    /\ parked' = parked \cup {c}
    /\ UNCHANGED <<items, head, bytes, closed, arg, cancelled>>

DequeueCancelled(c) ==
    /\ pc[c] = "select"
    /\ c \in cancelled
    /\ Goto(c, "idle")
    /\ parked' = parked \ {c}
    /\ UNCHANGED <<items, head, bytes, closed, arg, cancelled>>
-----------------------------------------------------------------------------
CloseSilently ==
    /\ ~closed
    /\ closed' = TRUE
    /\ UNCHANGED <<items, head, bytes, pc, arg, parked, cancelled>>

\* close(); a second call finds closed set and changes nothing.
Close ==
    /\ ~closed
    /\ closed' = TRUE
    /\ notifyLocked
    /\ UNCHANGED <<items, head, bytes, pc, arg, cancelled>>

\* Pipeline.Stop cancels the workers' context; the end of the service cancels
\* its parent, which the listeners pass to enqueue as well.
Cancel(group) ==
    /\ ~ group \subseteq cancelled
    /\ cancelled' = cancelled \cup group
    /\ UNCHANGED <<items, head, bytes, closed, pc, arg, parked>>

Produce(p) ==
    \/ \E f \in Frames : EnqueueCall(p, f)
    \/ EnqueueClosed(p)
    \/ EnqueueAdmit(p)
    \/ EnqueuePark(p)
    \/ EnqueueTimeout(p)
    \/ EnqueueCancelled(p)
    \/ Wake(p)

Consume(c) ==
    \/ DequeueCall(c)
    \/ DequeueTake(c)
    \/ DequeueClosed(c)
    \/ DequeuePark(c)
    \/ DequeueCancelled(c)
    \/ Wake(c)

Next ==
    \/ \E p \in Producers : Produce(p)
    \/ \E c \in Consumers : Consume(c)
    \/ Close
    \/ Cancel(Consumers)
    \/ Cancel(Callers)

Spec == Init /\ [][Next]_vars

(* A caller that can run does run (the Go scheduler), and a select that is   *)
(* entered again and again with its timer expired takes the timer case at    *)
(* some point (select chooses uniformly among ready cases).  Nobody is       *)
(* obliged to make a call, to close the queue or to cancel a context.        *)
Fairness ==
    /\ \A p \in Producers :
         /\ WF_vars(EnqueueClosed(p) \/ EnqueueAdmit(p) \/ EnqueuePark(p))
         /\ WF_vars(Wake(p))
         /\ SF_vars(EnqueueTimeout(p))
    /\ \A c \in Consumers :
         /\ WF_vars(DequeueTake(c) \/ DequeueClosed(c) \/ DequeuePark(c))
         /\ WF_vars(Wake(c))

FairSpec == Spec /\ Fairness
-----------------------------------------------------------------------------
(* Properties *)

\* The slice-and-head queue implements the bounded FIFO: order, both limits and
\* refusal after close survive compaction and every interleaving of callers.
Fifo == INSTANCE BoundedFifo WITH pending <- Pending

ImplementsFifo == Fifo!Spec

\* q.bytes is exactly the payload held: no take and no compaction loses or keeps
\* a charge, so the byte limit always limits what is really in memory.
BytesAreExact == IsTotal(bytes, Pending)

\* No lost wake-up: a consumer asleep on an open changed channel has nothing to
\* take and no close to report, and a producer asleep on one has no room.
NoLostWakeup ==
    \A c \in parked :
        /\ pc[c] = "select"
        /\ ~closed
        /\ IF c \in Consumers THEN head = Len(items) ELSE ~Room(arg[c])

\* The backing slice does not grow with the traffic: the taken prefix that
\* compaction leaves behind is at most the threshold, or shorter than what is
\* pending, so the slice never exceeds one full queue plus that prefix.
SliceIsBounded ==
    Len(items) <= MaxEvents + (IF CompactAt >= MaxEvents
                                 THEN CompactAt ELSE MaxEvents - 1)

\* enqueue is bounded by its timeout whatever the other callers do.
EnqueueReturns ==
    \A p \in Producers : pc[p] # "idle" ~> pc[p] = "idle"

\* close() releases every caller that is blocked in dequeue.
CloseReleasesConsumers ==
    \A c \in Consumers : closed /\ pc[c] # "idle" ~> pc[c] = "idle"
=============================================================================
