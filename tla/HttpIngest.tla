----------------------------- MODULE HttpIngest -----------------------------
(***************************************************************************)
(* POST /api/v1/ingest: ingestJSON of backend/internal/api/server.go and   *)
(* the Append that it calls without going through the queue, with clients  *)
(* that repeat a request they got no success for.                          *)
(*                                                                         *)
(* A body is a shape ("ndjson", "array", or "single" for one JSON value,   *)
(* whatever follows it) and what stands at each position: a usable "ok"    *)
(* object, one with "no_message" or a "bad_time", a JSON value that is     *)
(* "not_object", or a "syntax" error, which is also what the 10 MiB limit  *)
(* of the body looks like to the decoder.  MaxItems stands for 1000.       *)
(***************************************************************************)
EXTENDS Naturals, Sequences

CONSTANTS Bodies, MaxItems, MaxTries

VARIABLES body,     \* what the client wants stored
          tries,    \* requests it has sent
          handler,  \* "idle", "received" or "append", for the current request
          answer,   \* the last answer the client has seen: a status, or 0
          stored    \* copies of each position of the body in the backend

vars == <<body, tries, handler, answer, stored>>

Init ==
    /\ body \in Bodies
    /\ tries = 0 /\ handler = "idle" /\ answer = 0
    /\ stored = [i \in DOMAIN body.items |-> 0]
-----------------------------------------------------------------------------
(* What ingestJSON reads of a body, and its verdict *)

Unreadable == {"syntax", "not_object"}

Lesser(a, b) == IF a <= b THEN a ELSE b

\* The decoder stops behind the first MaxItems + 1 values of a stream.
Reads(b) ==
    CASE b.shape = "ndjson" -> SubSeq(b.items, 1, Lesser(Len(b.items), MaxItems + 1))
      [] b.shape = "array"  -> b.items
      [] b.shape = "single" -> SubSeq(b.items, 1, Lesser(Len(b.items), 1))

Decodes(b) ==
    /\ \A i \in DOMAIN Reads(b) : Reads(b)[i] \notin Unreadable
    /\ b.shape = "single" => b.items # <<>>

VerdictWhileReading(b) ==
    CASE ~Decodes(b)               -> 400
      [] Len(Reads(b)) > MaxItems  -> 413
      [] OTHER                     -> 202

\* Items are examined in order; the first bad one decides for the whole batch.
Verdict(b) ==
    CASE ~Decodes(b)                                       -> 400
      [] Decodes(b) /\ Len(Reads(b)) > MaxItems            -> 413
      [] Decodes(b) /\ Len(Reads(b)) <= MaxItems
           /\ \E i \in DOMAIN Reads(b) : Reads(b)[i] # "ok" -> 400
      [] OTHER                                             -> 202

\* Positions of the body that become log entries.
Entries(b) == DOMAIN Reads(b)
-----------------------------------------------------------------------------
(* Requests *)

Wants == tries = 0 \/ (tries < MaxTries /\ answer \in {0, 503})

Send ==
    /\ handler = "idle" /\ Wants
    /\ tries' = tries + 1
    /\ handler' = "received"
    /\ UNCHANGED <<body, answer, stored>>

\* The answer is written; the client may be gone by then and never see it.
Respond(code) == handler' = "idle" /\ answer' \in {code, 0}

StoreTwice(positions) ==
    stored' = [i \in DOMAIN stored |->
                  IF i \in positions THEN stored[i] + 2 ELSE stored[i]]

Store(positions) ==
    stored' = [i \in DOMAIN stored |->
                  IF i \in positions THEN stored[i] + 1 ELSE stored[i]]

RejectWhatIsLeft ==
    /\ handler = "received"
    /\ Verdict(body) # 202
    /\ Store({i \in Entries(body) : \A j \in 1..i : body.items[j] = "ok"})
    /\ Respond(Verdict(body))
    /\ UNCHANGED <<body, tries>>

Reject ==
    /\ handler = "received"
    /\ Verdict(body) # 202
    /\ Respond(Verdict(body))
    /\ UNCHANGED <<body, tries, stored>>

Accept ==
    /\ handler = "received"
    /\ Verdict(body) = 202
    /\ handler' = "append"
    /\ UNCHANGED <<body, tries, answer, stored>>

\* No request is made for an empty batch.
AppendSucceeds ==
    /\ handler = "append"
    /\ Store(Entries(body))
    /\ Respond(202)
    /\ UNCHANGED <<body, tries>>

\* A refused, broken or timed-out request may have stored any part of the batch.
AppendFails ==
    /\ handler = "append"
    /\ Entries(body) # {}
    /\ \E part \in SUBSET Entries(body) : Store(part)
    /\ Respond(503)
    /\ UNCHANGED <<body, tries>>

Rest == handler = "idle" /\ ~Wants /\ UNCHANGED vars

Next == Send \/ Reject \/ Accept \/ AppendSucceeds \/ AppendFails \/ Rest

Spec == Init /\ [][Next]_vars
-----------------------------------------------------------------------------
(* Properties *)

\* A batch is refused as a whole: wherever the bad position is, nothing of a batch
\* that is answered 400 or 413 reaches the backend.
RefusedLeavesNothing ==
    answer \in {400, 413} => \A i \in DOMAIN stored : stored[i] = 0

\* 202 means that every record of the body was usable and is in the backend,
\* unless the body was a single value with more behind it.
AcceptedIsStored ==
    answer = 202 /\ body.shape # "single" =>
        \A i \in DOMAIN stored : body.items[i] = "ok" /\ stored[i] > 0

\* A record is in the backend at most once per request sent: a failed append is
\* not repeated by the server, so only the client's own retries, after a failed
\* or a lost answer, make duplicates.
DuplicatesOnlyByRetry == \A i \in DOMAIN stored : stored[i] <= tries

\* The answers of ingestJSON can be relied on: a refused batch has left nothing, an
\* accepted one is stored, and only repeated requests make duplicates.
AnswersAreReliable == RefusedLeavesNothing /\ AcceptedIsStored /\ DuplicatesOnlyByRetry
=============================================================================
