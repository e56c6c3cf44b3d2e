------------------------------ MODULE LiveTail ------------------------------
(***************************************************************************)
(* GET /api/v1/logs/tail: tailLogs of backend/internal/api/server.go.  A   *)
(* ticker starts a query of the last Window of time; rows that the stream  *)
(* remembers are skipped, the others are sent and remembered, and of the   *)
(* memory only the Capacity youngest keys are kept.                        *)
(*                                                                         *)
(* A row stands for its key (tailKey) and becomes visible in the backend   *)
(* at any time before or after its timestamp.  The unit of time is the     *)
(* ticker's period of 2 s, Window stands for 30 s, Limit for the 1000 rows *)
(* of a poll and Capacity for 4096.  A poll ends MaxDelay after its tick   *)
(* at the latest: storage.timeout bounds the query and a write deadline    *)
(* what follows.                                                           *)
(***************************************************************************)
EXTENDS Integers, Sequences, FiniteSets

CONSTANTS Rows, Window, Limit, Capacity, MaxDelay,
          MaxTime  \* bound: the clock

ASSUME TailAssumption ==
    /\ IsFiniteSet(Rows)
    /\ Window \in Nat /\ Limit \in Nat \ {0} /\ Capacity \in Nat \ {0}
    /\ MaxDelay \in Nat \ {0} /\ MaxTime \in Nat

None == -1

VARIABLES clock,
          stamp,    \* timestamp of each row
          arrival,  \* when it became visible in the backend, or None
          pending,  \* ticker.C: the time of a tick that was not received, or None
          stream,   \* "waiting", "querying", "sending" or "ended"
          tick,     \* time of the tick that started the current poll
          batch,    \* rows of its result still to be looked at, oldest first
          seen,     \* the set and ...
          order,    \* ... the order of the keys remembered
          sent,     \* history: rows sent to the client
          polled,   \* history: rows in the window of the last query
          told      \* history: rows a gap or a warning has stood for

backend == <<stamp, arrival>>
memory == <<seen, order, sent>>
vars == <<clock, backend, pending, stream, tick, batch, memory, polled, told>>

Init ==
    /\ clock = 0
    /\ stamp \in [Rows -> 0..MaxTime]
    /\ arrival = [r \in Rows |-> None]
    /\ pending = None /\ stream = "waiting" /\ tick = 0
    /\ batch = <<>> /\ seen = {} /\ order = <<>> /\ sent = <<>>
    /\ polled = {} /\ told = {}

InSeq(s) == {s[i] : i \in DOMAIN s}
-----------------------------------------------------------------------------
(* The environment: rows become visible, time passes *)

Ingest(r) ==
    /\ arrival[r] = None
    /\ arrival' = [arrival EXCEPT ![r] = clock]
    /\ UNCHANGED <<clock, stamp, pending, stream, tick, batch, memory, polled, told>>

Overdue ==
    \/ stream \in {"querying", "sending"} /\ clock - tick >= MaxDelay
    \/ pending # None /\ clock - pending >= MaxDelay

\* The ticker's channel holds one tick, the oldest that was not received.
Advance ==
    /\ clock < MaxTime /\ ~Overdue
    /\ clock' = clock + 1
    /\ pending' = IF pending = None /\ stream # "ended" THEN clock + 1 ELSE pending
    /\ UNCHANGED <<backend, stream, tick, batch, memory, polled, told>>
-----------------------------------------------------------------------------
(* tailLogs *)

ReceiveTick ==
    /\ stream = "waiting" /\ pending # None
    /\ tick' = pending /\ pending' = None
    /\ stream' = "querying"
    /\ UNCHANGED <<clock, backend, batch, memory, polled, told>>

WindowRowsSinceLastTick ==
    {r \in Rows : arrival[r] # None /\ stamp[r] \in tick..tick}

\* What the backend holds in the interval of the query, as it is executed.
WindowRows == {r \in Rows : arrival[r] # None /\ stamp[r] \in tick - Window..tick}

\* The newest Limit rows, oldest first; rows of equal time come in any order.
Results ==
    LET n == IF Cardinality(WindowRows) < Limit THEN Cardinality(WindowRows) ELSE Limit
    IN  {s \in [1..n -> WindowRows] :
            /\ \A i, j \in 1..n : i < j => s[i] # s[j] /\ stamp[s[i]] <= stamp[s[j]]
            /\ \A r \in WindowRows \ InSeq(s), i \in 1..n : stamp[r] <= stamp[s[i]]}

QuerySucceedsWithoutGap ==
    /\ stream = "querying"
    /\ batch' \in Results
    /\ polled' = WindowRows
    /\ stream' = "sending"
    /\ UNCHANGED <<clock, backend, pending, tick, memory, told>>

\* A truncated result is announced by a gap event.
QuerySucceeds ==
    /\ stream = "querying"
    /\ batch' \in Results
    /\ polled' = WindowRows
    /\ told' = told \cup (WindowRows \ InSeq(batch'))
    /\ stream' = "sending"
    /\ UNCHANGED <<clock, backend, pending, tick, memory>>

\* A failed query is announced by a warning event.
QueryFails ==
    /\ stream = "querying"
    /\ polled' = {} /\ told' = told \cup WindowRows
    /\ stream' = "waiting"
    /\ UNCHANGED <<clock, backend, pending, tick, batch, memory>>

EvictSetOnly(r) ==
    LET longer == Append(order, r)
    IN  IF Len(longer) > Capacity
        THEN seen' = (seen \cup {r}) \ {longer[1]} /\ order' = longer
        ELSE seen' = seen \cup {r} /\ order' = longer

EvictOrderOnly(r) ==
    LET longer == Append(order, r)
    IN  IF Len(longer) > Capacity
        THEN seen' = seen \cup {r} /\ order' = Tail(longer)
        ELSE seen' = seen \cup {r} /\ order' = longer

Remember(r) ==
    LET longer == Append(order, r)
    IN  IF Len(longer) > Capacity
        THEN seen' = (seen \cup {r}) \ {longer[1]} /\ order' = Tail(longer)
        ELSE seen' = seen \cup {r} /\ order' = longer

SendEveryRow ==
    /\ stream = "sending" /\ batch # <<>>
    /\ batch' = Tail(batch)
    /\ Remember(Head(batch)) /\ sent' = Append(sent, Head(batch))
    /\ UNCHANGED <<clock, backend, pending, stream, tick, polled, told>>

SendRow ==
    /\ stream = "sending" /\ batch # <<>>
    /\ batch' = Tail(batch)
    /\ IF Head(batch) \in seen THEN UNCHANGED memory
       ELSE Remember(Head(batch)) /\ sent' = Append(sent, Head(batch))
    /\ UNCHANGED <<clock, backend, pending, stream, tick, polled, told>>

\* The heartbeat and the flush.
PollEnds ==
    /\ stream = "sending" /\ batch = <<>>
    /\ stream' = "waiting"
    /\ UNCHANGED <<clock, backend, pending, tick, batch, memory, polled, told>>

\* The client is gone: the context is done, or a write fails.
StreamEnds ==
    /\ stream \in {"waiting", "sending"}
    /\ stream' = "ended" /\ pending' = None
    /\ UNCHANGED <<clock, backend, tick, batch, memory, polled, told>>

Rest ==
    /\ clock = MaxTime /\ (stream = "ended" \/ (stream = "waiting" /\ pending = None))
    /\ UNCHANGED vars

Next ==
    \/ \E r \in Rows : Ingest(r)
    \/ Advance \/ ReceiveTick \/ QuerySucceeds \/ QueryFails
    \/ SendRow \/ PollEnds \/ StreamEnds \/ Rest

Spec == Init /\ [][Next]_vars
-----------------------------------------------------------------------------
(* Properties *)

TypeOK ==
    /\ clock \in 0..MaxTime
    /\ stamp \in [Rows -> 0..MaxTime]
    /\ arrival \in [Rows -> 0..MaxTime \cup {None}]
    /\ pending \in 0..MaxTime \cup {None}
    /\ stream \in {"waiting", "querying", "sending", "ended"}
    /\ tick \in 0..MaxTime
    /\ batch \in Seq(Rows) /\ order \in Seq(Rows) /\ sent \in Seq(Rows)
    /\ Len(order) <= Capacity
    /\ seen \subseteq Rows /\ polled \subseteq Rows /\ told \subseteq Rows

\* The memory is exactly the end of what was sent: its set and its order agree,
\* and it forgets only when Capacity younger keys are known.
MemoryIsRecent ==
    /\ Len(order) = IF Len(sent) < Capacity THEN Len(sent) ELSE Capacity
    /\ \A i \in 1..Len(order) : order[i] = sent[Len(sent) - Len(order) + i]
    /\ seen = InSeq(order)

\* Overlapping polls do not repeat a row: between two times that a row is sent
\* there are at least Capacity others.
RepeatedOnlyWhenForgotten ==
    \A i, j \in DOMAIN sent : i < j /\ sent[i] = sent[j] => j - i > Capacity

\* When a poll is over, every row that was in its window has been sent, in this
\* poll or before, unless the client was told of a gap.
NothingSkipped ==
    stream = "waiting" => polled \subseteq InSeq(sent) \cup told

\* A row that becomes visible within Window - MaxDelay of its timestamp, and not
\* before it, is sent, or the client is told of a gap or a warning, before
\* 2 MaxDelay + 1 have passed: the windows overlap enough for slow polls.
PromptRowsAreSent ==
    \A r \in Rows :
        /\ arrival[r] # None /\ stream # "ended"
        /\ arrival[r] - stamp[r] \in 0..Window - MaxDelay
        /\ clock > arrival[r] + 2 * MaxDelay
        => r \in InSeq(sent) \cup told

\* The polls of tailLogs, whose windows overlap, show a row again only after it was
\* forgotten, leave out no row of their windows silently, and remember no more than
\* Capacity rows, the last that were sent.
TailIsFaithful == MemoryIsRecent /\ RepeatedOnlyWhenForgotten /\ NothingSkipped
=============================================================================
