--------------------------- MODULE LoadGenerator ---------------------------
(***************************************************************************)
(* The load generator: run of backend/cmd/loggen/main.go.  It sends Count  *)
(* messages no faster than Rate per tick after an allowance of Burst: each *)
(* burst is sized when it begins.  TCP goes through a buffered writer that *)
(* is flushed after a burst; HTTP posts batches and counts the accepted.   *)
(***************************************************************************)
EXTENDS Naturals

CONSTANTS Count,     \* messages to send
          Rate,      \* messages per tick
          Burst,     \* max(1, rate/10)
          BatchSize, \* 1000
          MaxTime    \* bound: ticks

VARIABLES protocol, \* "udp", "tcp" or "http"
          time,     \* ticks since the start
          run,      \* "pace", "burst", "post", or the result "nil", "error"
          target,   \* targetByNow
          sent,     \* the count that run returns
          buffered, \* messages in the bufio.Writer
          written,  \* messages that the socket, or the service, has taken
          batch     \* size of the batch under way

vars == <<protocol, time, run, target, sent, buffered, written, batch>>

\* validate has passed and the connection is up.
Init ==
    /\ protocol \in {"udp", "tcp", "http"}
    /\ time = 0 /\ run = "pace" /\ target = 0
    /\ sent = 0 /\ buffered = 0 /\ written = 0 /\ batch = 0

Tick ==
    /\ time < MaxTime /\ run \in {"pace", "burst", "post"}
    /\ time' = time + 1
    /\ UNCHANGED <<protocol, run, target, sent, buffered, written, batch>>
-----------------------------------------------------------------------------
\* A signal is seen between messages.
Fail ==
    /\ run' = "error"
    /\ UNCHANGED <<protocol, time, target, sent, buffered, written, batch>>

\* A write fails or meets its deadline when some of the buffer is written.
FailWriting ==
    /\ run' = "error"
    /\ \E n \in 0..buffered : written' = written + n /\ buffered' = buffered - n
    /\ UNCHANGED <<protocol, time, target, sent, batch>>

Lesser(a, b) == IF a <= b THEN a ELSE b

\* The outer loop: size the next burst, or sleep and look again.
Pace ==
    /\ run = "pace" /\ sent < Count
    /\ LET goal == Lesser(Count, time * Rate + Burst) IN
         goal > sent /\ target' = goal /\ run' = "burst"
    /\ UNCHANGED <<protocol, time, sent, buffered, written, batch>>

\* The wait of Pace ends by the signal.
Interrupted == run \in {"pace", "burst"} /\ sent < Count /\ Fail

Datagram ==
    /\ protocol = "udp" /\ run = "burst" /\ sent < target
    /\ written' = written + 1 /\ sent' = sent + 1
    /\ UNCHANGED <<protocol, time, run, target, buffered, batch>>

\* A full buffer is written out before the message is added.
WriteString ==
    /\ protocol = "tcp" /\ run = "burst" /\ sent < target
    /\ sent' = sent + 1
    /\ \/ buffered' = buffered + 1 /\ UNCHANGED written
       \/ written' = written + buffered /\ buffered' = 1
    /\ UNCHANGED <<protocol, time, run, target, batch>>

PostWholeBatches ==
    /\ protocol = "http" /\ run = "burst" /\ sent < target
    /\ batch' = Lesser(BatchSize, Count - sent)
    /\ run' = "post"
    /\ UNCHANGED <<protocol, time, target, sent, buffered, written>>

Post ==
    /\ protocol = "http" /\ run = "burst" /\ sent < target
    /\ batch' = Lesser(BatchSize, target - sent)
    /\ run' = "post"
    /\ UNCHANGED <<protocol, time, target, sent, buffered, written>>

PostCountsAll ==
    /\ run = "post"
    /\ sent' = sent + batch /\ batch' = 0
    /\ \/ written' = written + batch /\ run' = "burst"
       \/ UNCHANGED written /\ run' = "error"
    /\ UNCHANGED <<protocol, time, target, buffered>>

\* 202, or an error: of a batch that was answered 503, or not in time, the storage
\* may have taken any part.
Posted ==
    /\ run = "post"
    /\ \/ /\ sent' = sent + batch /\ written' = written + batch /\ batch' = 0
          /\ run' = "burst"
       \/ /\ written' \in written..(written + batch) /\ run' = "error"
          /\ UNCHANGED <<sent, batch>>
    /\ UNCHANGED <<protocol, time, target, buffered>>

EndBurstUnflushed ==
    /\ run = "burst" /\ sent >= target
    /\ run' = IF sent < Count THEN "pace" ELSE "nil"
    /\ UNCHANGED <<protocol, time, target, sent, buffered, written, batch>>

\* writer.Flush, and the test of the outer loop.
EndBurst ==
    /\ run = "burst" /\ sent >= target
    /\ \/ /\ written' = written + buffered /\ buffered' = 0
          /\ run' = IF sent < Count THEN "pace" ELSE "nil"
          /\ UNCHANGED <<protocol, time, target, sent, batch>>
       \/ protocol = "tcp" /\ FailWriting

WriteFails == run = "burst" /\ sent < target /\ protocol # "http" /\ FailWriting

Rest == (run \in {"nil", "error"} \/ time = MaxTime) /\ UNCHANGED vars

Next ==
    \/ Tick \/ Pace \/ Interrupted \/ Datagram \/ WriteString \/ Post \/ Posted
    \/ EndBurst \/ WriteFails \/ Rest

Spec == Init /\ [][Next]_vars
-----------------------------------------------------------------------------
(* Properties *)

\* Without an error every message was written, the buffered ones as well.
NilMeansAllWritten == run = "nil" => written = Count /\ sent = Count

\* The generator is never ahead of its rate by more than the allowance, although a
\* burst goes on for as long as its writes take.
PaceIsKept == sent + batch <= time * Rate + Burst

\* The count that is reported when a run is broken off: exact for datagrams; for TCP
\* it includes what the writer still holds; for HTTP everything counted is stored,
\* and what is not counted is at most a part of the batch that was not accepted.
CountIsHonest ==
    CASE protocol = "udp"  -> sent = written
      [] protocol = "tcp"  -> sent = written + buffered
      [] protocol = "http" -> sent <= written /\ written <= sent + batch

\* loggen's run keeps its pace and tells the truth about what it sent.
GeneratorIsHonest == NilMeansAllWritten /\ PaceIsKept /\ CountIsHonest
=============================================================================
