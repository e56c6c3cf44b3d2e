----------------------------- MODULE TcpFraming -----------------------------
(***************************************************************************)
(* How handleTCP of backend/internal/transport/syslog/manager.go cuts one  *)
(* connection's byte stream into frames: readFrame with its three framings *)
(* and the loop around it.  Bytes are ASCII codes.                         *)
(*                                                                         *)
(* A read blocks until enough bytes have arrived, so what it returns is a  *)
(* function of the stream: `wire' holds the bytes that were sent and not   *)
(* consumed, and "short" is the result that more bytes could still change. *)
(* The peer writes messages in the encodings of RFC 6587; it may stop in   *)
(* the middle of one.  MaxDigits stands for the 10 of looksOctetCounted    *)
(* and of readOctetCounted.                                                *)
(***************************************************************************)
EXTENDS Integers, Sequences

CONSTANTS Messages,   \* byte sequences that peers send
          Counts,     \* digits that they write for a length
          Framings,   \* configured framings to consider
          MaxBytes,   \* max_message_bytes
          MaxDigits,  \* longest decimal prefix that is looked at
          MaxSent     \* bound: messages per connection

\* Messages are bytes.  A sender's count has fewer digits than looksOctetCounted
\* looks at; the framings are those that Validate accepts.
ASSUME FramingAssumption ==
    /\ Messages \subseteq Seq(0..255)
    /\ Counts \subseteq Seq(48..57) /\ \A d \in Counts : Len(d) \in 1..MaxDigits - 1
    /\ Framings \subseteq {"auto", "newline", "octet_counting"}
    /\ MaxBytes \in Nat \ {0} /\ MaxDigits \in Nat \ {0} /\ MaxSent \in Nat

LF == 10
CR == 13
SP == 32
IsDigit(b) == b \in 48..57

VARIABLES framing,  \* the source's framing
          peer,     \* "open", "eof" after an orderly end, "broken" otherwise
          wire,     \* bytes not yet consumed
          reader,   \* the goroutine: "read", "submit", "returned", "refused"
          payload,  \* the frame passed to Submit
          frames,   \* frames that Submit accepted
          sent,     \* history: messages written, with their encodings
          cut       \* history: what was written of a last, incomplete one

framingVars == <<framing, peer, wire, reader, payload, frames, sent, cut>>

Nothing == [head |-> <<>>, msg |-> <<>>, tail |-> <<>>, bytes |-> <<>>]

FramingInit ==
    /\ framing \in Framings
    /\ peer = "open" /\ wire = <<>> /\ sent = <<>> /\ cut = Nothing
    /\ reader = "read" /\ payload = <<>> /\ frames = <<>>
-----------------------------------------------------------------------------
(* The peer *)

\* strconv.Atoi
Atoi(digits) ==
    LET n[k \in 0..Len(digits)] == IF k = 0 THEN 0 ELSE 10 * n[k - 1] + digits[k] - 48
    IN  n[Len(digits)]

\* A message with what is written before and after it.
Lines == [head : {<<>>}, msg : Messages, tail : {<<LF>>, <<CR, LF>>}]

Counted ==
    {e \in [head : {Append(d, SP) : d \in Counts}, msg : Messages, tail : {<<>>}] :
        Atoi(SubSeq(e.head, 1, Len(e.head) - 1)) = Len(e.msg)}

Encode(e) == e.head \o e.msg \o e.tail

IsLine(e) == e.head = <<>>

\* Senders use the framing that the source is configured for.
Mail == (IF framing # "newline" THEN Counted ELSE {})
            \cup (IF framing # "octet_counting" THEN Lines ELSE {})

Sends(e) ==
    /\ peer = "open" /\ Len(sent) < MaxSent
    /\ wire' = wire \o Encode(e)
    /\ sent' = Append(sent, e)
    /\ UNCHANGED <<framing, peer, reader, payload, frames, cut>>

StopsInside(e) ==
    /\ peer = "open" /\ Len(sent) < MaxSent
    /\ \E n \in 1..Len(Encode(e)) - 1 :
         LET bytes == SubSeq(Encode(e), 1, n)
         IN  /\ wire' = wire \o bytes
             /\ cut' = [head |-> e.head, msg |-> e.msg, tail |-> e.tail, bytes |-> bytes]
    /\ peer' = "eof"
    /\ UNCHANGED <<framing, reader, payload, frames, sent>>

HangsUp ==
    /\ peer = "open"
    /\ peer' = "eof"
    /\ UNCHANGED <<framing, wire, reader, payload, frames, sent, cut>>

\* A reset, the five-minute read deadline, or Manager.Close; what the reader
\* has not buffered by then is lost.
Breaks ==
    /\ peer = "open"
    /\ peer' = "broken"
    /\ \E n \in 0..Len(wire) : wire' = SubSeq(wire, 1, n)
    /\ UNCHANGED <<framing, reader, payload, frames, sent, cut>>
-----------------------------------------------------------------------------
(* readFrame: a result, and how many bytes it consumes *)

Frame(bytes, used) == [kind |-> "frame", payload |-> bytes, used |-> used]
Failure(kind) == [kind |-> kind, payload |-> <<>>, used |-> 0]

\* Digits at the front of w.
Leading(w) ==
    CHOOSE n \in 0..Len(w) :
        (\A k \in 1..n : IsDigit(w[k])) /\ (n < Len(w) => ~IsDigit(w[n + 1]))

\* Where the first line of w ends, 0 if it does not.
LineEnd(w) ==
    CHOOSE n \in 0..Len(w) :
        IF n = 0 THEN \A k \in 1..Len(w) : w[k] # LF
        ELSE w[n] = LF /\ \A k \in 1..n - 1 : w[k] # LF

LooksOctetCountedAtSpace(w) ==
    LET n == Leading(w)
    IN  CASE n >= MaxDigits -> "too_large"
          [] n < MaxDigits /\ n = Len(w) -> "short"
          [] OTHER -> IF w[n + 1] = SP THEN "octet_counting" ELSE "newline"

\* A prefix of MaxDigits digits is an error whatever follows it.
looksOctetCounted(w) ==
    LET n == Leading(w)
    IN  CASE n >= MaxDigits -> "too_large"
          [] n < MaxDigits /\ n = Len(w) -> "short"
          [] OTHER -> IF n > 0 /\ w[n + 1] = SP THEN "octet_counting"
                      ELSE "newline"

ReadOctetCountedKeepsSpace(w) ==
    LET n == Leading(w)
        count == Atoi(SubSeq(w, 1, n))
    IN  IF Len(w) < n + count THEN Failure("short")
        ELSE Frame(SubSeq(w, n + 1, n + count), n + count)

\* The loop reads at most MaxDigits + 1 digits, and a space only before that.
readOctetCounted(w) ==
    LET n == Leading(w)
        spaced == n <= MaxDigits
        head == IF spaced THEN n + 1 ELSE MaxDigits + 1
        count == Atoi(SubSeq(w, 1, IF spaced THEN n ELSE head))
    IN  CASE spaced /\ n = Len(w) -> Failure("short")
          [] spaced /\ n < Len(w) /\ (n = 0 \/ w[n + 1] # SP) -> Failure("invalid")
          [] OTHER -> IF count > MaxBytes THEN Failure("too_large")
                      ELSE IF Len(w) < head + count THEN Failure("short")
                      ELSE Frame(SubSeq(w, head + 1, head + count), head + count)

TrimSuffix(b, c) ==
    IF b # <<>> /\ b[Len(b)] = c THEN SubSeq(b, 1, Len(b) - 1) ELSE b

bytesTrimLine(b) == TrimSuffix(TrimSuffix(b, LF), CR)

ReadNewlineUnlimited(w) ==
    LET k == LineEnd(w)
    IN  IF k > 0 THEN Frame(bytesTrimLine(SubSeq(w, 1, k)), k) ELSE Failure("short")

\* The limit includes the terminator.  An over-long line without one is found
\* when the buffer of MaxBytes + 1 is full.  A line that the orderly end of the
\* stream terminates is a frame.
readNewline(w) ==
    LET k == LineEnd(w)
        n == IF k = 0 THEN Len(w) ELSE k
    IN  CASE n > MaxBytes -> Failure("too_large")
          [] n <= MaxBytes /\ (k > 0 \/ (peer = "eof" /\ n > 0)) ->
               Frame(bytesTrimLine(SubSeq(w, 1, n)), n)
          [] OTHER -> Failure("short")

readFrame(w) ==
    LET mode == IF framing = "auto" THEN looksOctetCounted(w) ELSE framing
    IN  CASE mode = "octet_counting" -> readOctetCounted(w)
          [] mode = "newline"        -> readNewline(w)
          [] OTHER                   -> Failure(mode)
-----------------------------------------------------------------------------
(* handleTCP's loop *)

\* An empty frame is skipped.
Reads ==
    /\ reader = "read"
    /\ LET r == readFrame(wire)
       IN  /\ r.kind = "frame"
           /\ payload' = r.payload
           /\ wire' = SubSeq(wire, r.used + 1, Len(wire))
           /\ reader' = IF r.payload = <<>> THEN "read" ELSE "submit"
    /\ UNCHANGED <<framing, peer, frames, sent, cut>>

RetriesAfterError ==
    /\ reader = "read"
    /\ LET kind == readFrame(wire).kind
       IN  kind # "frame" /\ (kind = "short" => peer # "open")
    /\ reader' = IF peer = "broken" THEN "read" ELSE "returned"
    /\ UNCHANGED <<framing, peer, wire, payload, frames, sent, cut>>

\* An error ends the connection: too large (counted as rejected), not a count,
\* or no more bytes to come.
Returns ==
    /\ reader = "read"
    /\ LET kind == readFrame(wire).kind
       IN  kind # "frame" /\ (kind = "short" => peer # "open")
    /\ reader' = "returned"
    /\ UNCHANGED <<framing, peer, wire, payload, frames, sent, cut>>

\* Submit accepts the frame, or its error ends the connection.
Submits ==
    /\ reader = "submit"
    /\ \/ reader' = "read" /\ frames' = Append(frames, payload)
       \/ reader' = "refused" /\ UNCHANGED frames
    /\ UNCHANGED <<framing, peer, wire, payload, sent, cut>>

Ended == reader \in {"returned", "refused"}

Peer ==
    \/ \E e \in Mail : Sends(e) \/ StopsInside(e)
    \/ HangsUp \/ Breaks

Reader == Reads \/ Returns \/ Submits

FramingRest == Ended /\ UNCHANGED framingVars

FramingNext == Peer \/ Reader \/ FramingRest

FramingSpec == FramingInit /\ [][FramingNext]_framingVars

\* The handler's goroutine runs; peers need not do anything.
FramingFairness == WF_framingVars(Reader)
-----------------------------------------------------------------------------
(* Properties *)

\* A message that fits and that its encoding can carry in this framing: a line
\* holds no line end, and with auto framing does not begin like a count.
BeginsLikeCount(m) ==
    Leading(m) >= MaxDigits \/ (Leading(m) \in 1..Len(m) - 1 /\ m[Leading(m) + 1] = SP)

Clear(e) ==
    IF IsLine(e)
    THEN /\ Len(Encode(e)) <= MaxBytes
         /\ \A i \in DOMAIN e.msg : e.msg[i] \notin {LF, CR}
         /\ framing = "auto" => ~BeginsLikeCount(e.msg)
    ELSE Len(e.msg) <= MaxBytes

AllClear == Clear(cut) /\ \A i \in DOMAIN sent : Clear(sent[i])

\* fs are the first k messages without the empty ones, in their order.
AreSent(fs, k) ==
    \E from \in [1..Len(fs) -> 1..k] :
        /\ \A i, j \in 1..Len(fs) : i < j => from[i] < from[j]
        /\ \A i \in 1..Len(fs) : fs[i] = sent[from[i]].msg
        /\ \A n \in 1..k : sent[n].msg # <<>> => \E i \in 1..Len(fs) : from[i] = n

\* They are all the messages, and what the peer wrote of a last line.
AreSentWithCut(fs) ==
    /\ fs # <<>> /\ cut.bytes # <<>> /\ IsLine(cut)
    /\ AreSent(SubSeq(fs, 1, Len(fs) - 1), Len(sent))
    /\ fs[Len(fs)] = bytesTrimLine(cut.bytes)

\* The pipeline receives the peer's messages, whole and in order, in whatever
\* mixture of encodings they came.  Of a message the peer did not finish it may
\* receive the beginning if that was a line, never if it was octet-counted.
DeliveredAsSent ==
    AllClear => (\E k \in 0..Len(sent) : AreSent(frames, k)) \/ AreSentWithCut(frames)

\* When the peer ends the stream in order, every message it finished has been
\* submitted before the handler returns, unless a Submit failed.
EndDeliversAll ==
    AllClear /\ peer = "eof" /\ reader = "returned" =>
        AreSent(frames, Len(sent)) \/ AreSentWithCut(frames)

\* Whatever the framing, handleTCP gives the pipeline what the peer wrote: in order,
\* completely after an orderly end, and no frame that is empty or too large.
StreamIsDelivered ==
    /\ DeliveredAsSent /\ EndDeliversAll
    /\ \A i \in DOMAIN frames : Len(frames[i]) \in 1..MaxBytes

\* A connection whose peer is gone does not occupy a handler for ever, however
\* the stream ended and whatever it ended in the middle of.
ConnectionHandlerReturns == peer # "open" ~> Ended
=============================================================================
