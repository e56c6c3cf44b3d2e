------------------------------ MODULE Pipeline ------------------------------
(***************************************************************************)
(* The ingestion pipeline of backend/internal/ingestion/pipeline.go:       *)
(* Submit, the parse workers, the parsed channel, the batch worker with    *)
(* its retries, and Stop, around the bounded queue (BoundedFifo).          *)
(*                                                                         *)
(* Every frame is offered once.  The Prometheus counters that record the   *)
(* end of an event (Stored and Dropped) are kept per frame: counted[f] is  *)
(* how often f has been added to one of them, outcome[f] the last one.     *)
(* Contents, durations and the other metrics are left out.                 *)
(***************************************************************************)
EXTENDS Integers, Sequences, QueueLimits

CONSTANTS EntrySize,       \* raw plus message bytes of the entry a frame becomes
          Workers,         \* parse workers
          ParsedCap,       \* 64: capacity of the parsed channel
          BatchMaxEvents,  \* ingestion.batch.max_events
          BatchMaxBytes,   \* ingestion.batch.max_bytes
          MaxAttempts,     \* ingestion.retry.max_attempts
          NoFrame          \* what an idle worker or an empty hand holds

ASSUME PipelineAssumption ==
    /\ EntrySize \in [Frames -> Nat]
    /\ {ParsedCap, BatchMaxEvents, BatchMaxBytes, MaxAttempts} \subseteq Nat \ {0}
    /\ Workers # {}
    /\ NoFrame \notin Frames

VARIABLES queue, queueBytes, closed,  \* the frame queue
          submit,        \* progress of each frame's Submit call
          worker, job,   \* each worker's place in its loop and the frame it has
          parsed,        \* the buffered channel of normalised entries
          parsedClosed,
          flusher,       \* the batch worker's place in its loop
          batch, batchBytes,
          held,          \* entry received but waiting for the flush before it
          attempt,       \* attempt number of the append in progress
          stop,          \* progress of Stop
          copies,        \* rows the storage backend holds for each frame
          counted, outcome

queueVars   == <<queue, queueBytes, closed>>
workerVars  == <<worker, job, parsedClosed>>
batchVars   == <<flusher, batch, batchBytes, held, attempt>>
ledgerVars  == <<counted, outcome>>
vars == <<queueVars, submit, workerVars, parsed, batchVars, stop, copies,
          ledgerVars>>

Queue == INSTANCE BoundedFifo WITH pending <- queue, bytes <- queueBytes

Outcomes == {"admission", "parser", "normalization", "storage", "stored"}

\* Stop's first store (or main's, just before it) turns accepting off.
accepting == stop = "no"

\* The context of workers and batch worker is done: Stop called p.cancel.
cancelled == stop \in {"forced", "deadline"}

TypeOK ==
    /\ queue \in Seq(Frames) /\ queueBytes \in 0..MaxBytes /\ closed \in BOOLEAN
    /\ submit \in [Frames -> {"new", "checked", "waiting", "admitted",
                              "accepted", "refused"}]
    /\ worker \in [Workers -> {"dequeue", "asleep", "parse", "send", "exited"}]
    /\ job \in [Workers -> Frames \cup {NoFrame}]
    /\ parsed \in Seq(Frames) /\ Len(parsed) <= ParsedCap
    /\ parsedClosed \in BOOLEAN
    /\ flusher \in {"select", "drain", "call", "inflight", "backoff", "done"}
    /\ batch \in Seq(Frames) /\ batchBytes \in Nat
    /\ held \in Frames \cup {NoFrame}
    /\ attempt \in 1..MaxAttempts
    /\ stop \in {"no", "closing", "waiting", "forced", "ok", "deadline"}
    /\ copies \in [Frames -> Nat]
    /\ counted \in [Frames -> Nat]
    /\ outcome \in [Frames -> Outcomes \cup {"none"}]

Init ==
    /\ Queue!Init
    /\ submit = [f \in Frames |-> "new"]
    /\ worker = [w \in Workers |-> "dequeue"]
    /\ job = [w \in Workers |-> NoFrame]
    /\ parsed = <<>> /\ parsedClosed = FALSE
    /\ flusher = "select" /\ batch = <<>> /\ batchBytes = 0
    /\ held = NoFrame /\ attempt = 1
    /\ stop = "no"
    /\ copies = [f \in Frames |-> 0]
    /\ counted = [f \in Frames |-> 0]
    /\ outcome = [f \in Frames |-> "none"]

Elements(s) == {s[i] : i \in DOMAIN s}

\* Add the frames of S to the terminal counter o.
Count(S, o) ==
    /\ counted' = [f \in Frames |-> counted[f] + (IF f \in S THEN 1 ELSE 0)]
    /\ outcome' = [f \in Frames |-> IF f \in S THEN o ELSE outcome[f]]
-----------------------------------------------------------------------------
(* Submit *)

Refuse(f) ==
    /\ submit' = [submit EXCEPT ![f] = "refused"]
    /\ Count({f}, "admission")

\* Received is counted and accepting is read; enqueue is a later step, so Stop
\* may come in between.
Submit(f) ==
    /\ submit[f] = "new"
    /\ IF accepting
         THEN /\ submit' = [submit EXCEPT ![f] = "checked"]
              /\ UNCHANGED ledgerVars
         ELSE Refuse(f)
    /\ UNCHANGED <<queueVars, workerVars, parsed, batchVars, stop, copies>>

\* enqueue appends the frame, at its first look or after a wake-up.
SubmitAdmitted(f) ==
    /\ submit[f] \in {"checked", "waiting"}
    /\ Queue!Put(f)
    /\ submit' = [submit EXCEPT ![f] = "admitted"]
    /\ UNCHANGED <<workerVars, parsed, batchVars, stop, copies, ledgerVars>>

SubmitWaits(f) ==
    /\ submit[f] = "checked"
    /\ Size[f] <= MaxBytes /\ ~closed /\ ~Queue!Room(f)
    /\ submit' = [submit EXCEPT ![f] = "waiting"]
    /\ UNCHANGED <<queueVars, workerVars, parsed, batchVars, stop, copies,
                   ledgerVars>>

\* Too large for the queue, closed, or out of time: Dropped{admission}.
SubmitRefused(f) ==
    /\ \/ submit[f] = "checked" /\ (Size[f] > MaxBytes \/ closed)
       \/ submit[f] = "waiting"
    /\ Refuse(f)
    /\ UNCHANGED <<queueVars, workerVars, parsed, batchVars, stop, copies>>

\* Accepted is counted after the frame is already visible to the workers.
SubmitAccepted(f) ==
    /\ submit[f] = "admitted"
    /\ submit' = [submit EXCEPT ![f] = "accepted"]
    /\ UNCHANGED <<queueVars, workerVars, parsed, batchVars, stop, copies,
                   ledgerVars>>
-----------------------------------------------------------------------------
(* parseWorker *)

Work(w, place, f) ==
    /\ worker' = [worker EXCEPT ![w] = place]
    /\ job' = [job EXCEPT ![w] = f]
    /\ UNCHANGED parsedClosed

WorkerTakesShared(w) ==
    /\ worker[w] = "dequeue"
    /\ queue # <<>>
    /\ Work(w, "parse", Head(queue))
    /\ UNCHANGED <<queueVars, submit, parsed, batchVars, stop, copies, ledgerVars>>

WorkerTakes(w) ==
    /\ worker[w] = "dequeue"
    /\ \E f \in Frames : Queue!Take(f) /\ Work(w, "parse", f)
    /\ UNCHANGED <<submit, parsed, batchVars, stop, copies, ledgerVars>>

WorkerQuitsOnClose(w) ==
    /\ worker[w] = "dequeue"
    /\ closed
    /\ Work(w, "exited", NoFrame)
    /\ UNCHANGED <<queueVars, submit, parsed, batchVars, stop, copies, ledgerVars>>

\* dequeue finds nothing and sleeps until the queue changes in a way it can use
\* (no wake-up is lost: FrameQueue's NoLostWakeup).
WorkerWaits(w) ==
    /\ \/ /\ worker[w] = "dequeue" /\ queue = <<>> /\ ~closed
          /\ Work(w, "asleep", NoFrame)
       \/ /\ worker[w] = "asleep" /\ (queue # <<>> \/ closed)
          /\ Work(w, "dequeue", NoFrame)
    /\ UNCHANGED <<queueVars, submit, parsed, batchVars, stop, copies, ledgerVars>>

\* dequeue fails on an empty closed queue, and in its select on a done context,
\* even if a frame or close() has made the wake-up case ready as well.
WorkerQuits(w) ==
    /\ \/ worker[w] = "dequeue" /\ queue = <<>> /\ closed
       \/ worker[w] = "asleep" /\ cancelled
    /\ Work(w, "exited", NoFrame)
    /\ UNCHANGED <<queueVars, submit, parsed, batchVars, stop, copies, ledgerVars>>

WorkerDropsUncounted(w) ==
    /\ worker[w] = "parse"
    /\ Work(w, "dequeue", NoFrame)
    /\ UNCHANGED <<queueVars, submit, parsed, batchVars, stop, copies, ledgerVars>>

\* The parser rejects the payload, or Normalize fails to draw an identifier.
WorkerDrops(w) ==
    /\ worker[w] = "parse"
    /\ \E o \in {"parser", "normalization"} : Count({job[w]}, o)
    /\ Work(w, "dequeue", NoFrame)
    /\ UNCHANGED <<queueVars, submit, parsed, batchVars, stop, copies>>

WorkerParses(w) ==
    /\ worker[w] = "parse"
    /\ Work(w, "send", job[w])
    /\ UNCHANGED <<queueVars, submit, parsed, batchVars, stop, copies, ledgerVars>>

WorkerSends(w) ==
    /\ worker[w] = "send"
    /\ Len(parsed) < ParsedCap
    /\ parsed' = Append(parsed, job[w])
    /\ Work(w, "dequeue", NoFrame)
    /\ UNCHANGED <<queueVars, submit, batchVars, stop, copies, ledgerVars>>

\* The cancelled case of the same select; the worker returns.
WorkerAbandons(w) ==
    /\ worker[w] = "send"
    /\ cancelled
    /\ Count({job[w]}, "normalization")
    /\ Work(w, "exited", NoFrame)
    /\ UNCHANGED <<queueVars, submit, parsed, batchVars, stop, copies>>

CloseParsedEarly ==
    /\ ~parsedClosed
    /\ closed /\ queue = <<>>
    /\ parsedClosed' = TRUE
    /\ UNCHANGED <<queueVars, submit, worker, job, parsed, batchVars, stop,
                   copies, ledgerVars>>

\* The goroutine of Start that waits for all workers and closes the channel.
CloseParsed ==
    /\ ~parsedClosed
    /\ \A w \in Workers : worker[w] = "exited"
    /\ parsedClosed' = TRUE
    /\ UNCHANGED <<queueVars, submit, worker, job, parsed, batchVars, stop,
                   copies, ledgerVars>>
-----------------------------------------------------------------------------
(* batchWorker *)

BatchIsFull(n, size) == n >= BatchMaxEvents \/ size >= BatchMaxBytes

StartFlush == flusher' = "call" /\ attempt' = 1

\* append(batch, e), followed by the flush that a full batch starts at once.
AddToBatch(b, size, e) ==
    /\ batch' = Append(b, e)
    /\ batchBytes' = size + EntrySize[e]
    /\ IF BatchIsFull(Len(b) + 1, size + EntrySize[e])
         THEN StartFlush
         ELSE flusher' = "select" /\ attempt' = 1

MustFlushBeforeNever(e) == FALSE

MustFlushBefore(e) ==
    /\ batch # <<>>
    /\ \/ Len(batch) >= BatchMaxEvents
       \/ batchBytes + EntrySize[e] > BatchMaxBytes

\* An entry arrives; one that does not fit waits for the flush of the others.
BatchReceives ==
    /\ flusher = "select"
    /\ parsed # <<>>
    /\ parsed' = Tail(parsed)
    /\ IF MustFlushBefore(Head(parsed))
         THEN held' = Head(parsed) /\ StartFlush /\ UNCHANGED <<batch, batchBytes>>
         ELSE AddToBatch(batch, batchBytes, Head(parsed)) /\ UNCHANGED held
    /\ UNCHANGED <<queueVars, submit, workerVars, stop, copies, ledgerVars>>

BatchTimerWhenFull ==
    /\ flusher = "select"
    /\ BatchIsFull(Len(batch), batchBytes)
    /\ StartFlush
    /\ UNCHANGED <<queueVars, submit, workerVars, parsed, batch, batchBytes, held,
                   stop, copies, ledgerVars>>

\* max_age has passed; on an empty batch flush does nothing.
BatchTimer ==
    /\ flusher = "select"
    /\ batch # <<>>
    /\ StartFlush
    /\ UNCHANGED <<queueVars, submit, workerVars, parsed, batch, batchBytes, held,
                   stop, copies, ledgerVars>>

\* The context is done: collect what the workers still deliver, until closed.
BatchStartsDrain ==
    /\ flusher = "select"
    /\ cancelled
    /\ flusher' = "drain"
    /\ UNCHANGED <<queueVars, submit, workerVars, parsed, batch, batchBytes, held,
                   attempt, stop, copies, ledgerVars>>

BatchDrains ==
    /\ flusher = "drain"
    /\ parsed # <<>>
    /\ parsed' = Tail(parsed)
    /\ batch' = Append(batch, Head(parsed))
    /\ UNCHANGED <<queueVars, submit, workerVars, flusher, batchBytes, held, attempt,
                   stop, copies, ledgerVars>>

BatchEndsUnflushed ==
    /\ flusher \in {"select", "drain"}
    /\ parsedClosed /\ parsed = <<>>
    /\ flusher' = "done"
    /\ UNCHANGED <<queueVars, submit, workerVars, parsed, batch, batchBytes, held,
                   attempt, stop, copies, ledgerVars>>

\* The channel is closed and empty: a last flush, then done is closed.  The
\* return after that flush is the next look, which finds the batch empty.
BatchEnds ==
    /\ flusher \in {"select", "drain"}
    /\ parsedClosed /\ parsed = <<>>
    /\ IF batch = <<>> THEN flusher' = "done" /\ UNCHANGED attempt ELSE StartFlush
    /\ UNCHANGED <<queueVars, submit, workerVars, parsed, batch, batchBytes, held,
                   stop, copies, ledgerVars>>
-----------------------------------------------------------------------------
(* appendWithRetry *)

\* flush returns: a fresh batch, which an entry that was held back starts.
FlushReturns ==
    IF held = NoFrame
      THEN /\ batch' = <<>> /\ batchBytes' = 0
           /\ flusher' = "select" /\ attempt' = 1
           /\ UNCHANGED held
      ELSE AddToBatch(<<>>, 0, held) /\ held' = NoFrame

\* The rows of S reach the backend.
Write(S) == copies' = [f \in Frames |-> copies[f] + (IF f \in S THEN 1 ELSE 0)]

RetryOncePast == attempt <= MaxAttempts /\ ~cancelled

MayRetry == attempt < MaxAttempts /\ ~cancelled

LostCountsAsStored ==
    IF MayRetry
      THEN /\ flusher' = "backoff"
           /\ UNCHANGED <<batch, batchBytes, held, attempt, ledgerVars>>
      ELSE Count(Elements(batch), "stored") /\ FlushReturns

\* After an error: give the batch up, or count a retry and back off.
AfterError ==
    IF MayRetry
      THEN /\ flusher' = "backoff"
           /\ UNCHANGED <<batch, batchBytes, held, attempt, ledgerVars>>
      ELSE Count(Elements(batch), "storage") /\ FlushReturns

\* A request whose context is already done fails before it is sent.
AppendCalled ==
    /\ flusher = "call"
    /\ IF cancelled
         THEN AfterError
         ELSE /\ flusher' = "inflight"
              /\ UNCHANGED <<batch, batchBytes, held, attempt, ledgerVars>>
    /\ UNCHANGED <<queueVars, submit, workerVars, parsed, stop, copies>>

AppendSucceeds ==
    /\ flusher = "inflight"
    /\ Write(Elements(batch))
    /\ Count(Elements(batch), "stored")
    /\ FlushReturns
    /\ UNCHANGED <<queueVars, submit, workerVars, parsed, stop>>

\* The request fails, times out or is cut off, after none, some or all of its
\* rows were taken by the backend.
AppendFails ==
    /\ flusher = "inflight"
    /\ \E n \in 0..Len(batch) : Write(Elements(SubSeq(batch, 1, n)))
    /\ AfterError
    /\ UNCHANGED <<queueVars, submit, workerVars, parsed, stop>>

\* The backoff ends, or is cut short by the context: either way the next attempt.
BackoffEnds ==
    /\ flusher = "backoff"
    /\ flusher' = "call"
    /\ attempt' = attempt + 1
    /\ UNCHANGED <<queueVars, submit, workerVars, parsed, batch, batchBytes, held,
                   stop, copies, ledgerVars>>
-----------------------------------------------------------------------------
(* Stop *)

StopStep(from, to) ==
    /\ stop = from
    /\ stop' = to
    /\ UNCHANGED <<submit, workerVars, parsed, batchVars, copies, ledgerVars>>

StopBegins == StopStep("no", "closing") /\ UNCHANGED queueVars

StopForgetsClose == StopStep("closing", "waiting") /\ UNCHANGED queueVars

StopCloses == StopStep("closing", "waiting") /\ Queue!Close

StopDone ==
    /\ flusher = "done"
    /\ StopStep("waiting", "ok") /\ UNCHANGED queueVars

\* The deadline passes, possibly together with done: p.cancel is called.
StopDeadline == StopStep("waiting", "forced") /\ UNCHANGED queueVars

StopForcedDone ==
    /\ flusher = "done"
    /\ StopStep("forced", "deadline") /\ UNCHANGED queueVars

Submitter(f) ==
    \/ Submit(f) \/ SubmitAdmitted(f) \/ SubmitWaits(f)
    \/ SubmitRefused(f) \/ SubmitAccepted(f)

Worker(w) ==
    \/ WorkerTakes(w) \/ WorkerWaits(w) \/ WorkerQuits(w) \/ WorkerDrops(w)
    \/ WorkerParses(w) \/ WorkerSends(w) \/ WorkerAbandons(w)

Flusher ==
    \/ BatchReceives \/ BatchTimer \/ BatchStartsDrain \/ BatchDrains \/ BatchEnds
    \/ AppendCalled \/ AppendSucceeds \/ AppendFails \/ BackoffEnds

Stopper ==
    \/ StopBegins \/ StopCloses \/ StopDone \/ StopDeadline \/ StopForcedDone

\* Everything has come to rest after Stop returned.
Rest ==
    /\ stop \in {"ok", "deadline"}
    /\ \A f \in Frames : submit[f] \in {"accepted", "refused"}
    /\ UNCHANGED vars

Next ==
    \/ \E f \in Frames : Submitter(f)
    \/ \E w \in Workers : Worker(w)
    \/ CloseParsed
    \/ Flusher
    \/ Stopper
    \/ Rest

Spec == Init /\ [][Next]_vars

(* Goroutines that can run do run; a storage call returns (the client has a  *)
(* timeout); the batch timer is armed whenever the batch worker selects, so  *)
(* it fires in the end.  Nobody has to submit a frame or to call Stop, and   *)
(* Stop's deadline need not pass before the pipeline is drained.             *)
Fairness ==
    /\ \A f \in Frames : WF_vars(Submitter(f) /\ submit[f] # "new")
    /\ \A w \in Workers : WF_vars(Worker(w))
    /\ WF_vars(CloseParsed)
    /\ WF_vars(Flusher)
    /\ WF_vars(BatchTimer)
    /\ WF_vars(StopCloses \/ StopDone \/ StopForcedDone)

FairSpec == Spec /\ Fairness
-----------------------------------------------------------------------------
(* Properties *)

Places == {"queue", "worker", "parsed", "held", "batch"}

\* Frame f is in the hands of one stage of the pipeline.
At(place, f) ==
    CASE place = "queue"  -> f \in Elements(queue)
      [] place = "worker" -> \E w \in Workers : job[w] = f
      [] place = "parsed" -> f \in Elements(parsed)
      [] place = "held"   -> held = f
      [] place = "batch"  -> f \in Elements(batch)

InFlight(f) == \E place \in Places : At(place, f)

Admitted(f) == submit[f] \in {"admitted", "accepted"}

\* ADR 0005, "account every terminal outcome": an admitted frame is either in
\* the hands of exactly one stage and not yet counted, or in none and counted
\* exactly once as stored or dropped; a refused frame is counted once, and a
\* frame whose Submit has not decided is nowhere.
EveryFrameAccountedOnce ==
    \A f \in Frames :
        IF Admitted(f) /\ counted[f] = 0
          THEN \E place \in Places : {p \in Places : At(p, f)} = {place}
          ELSE /\ ~InFlight(f)
               /\ counted[f] = IF Admitted(f) \/ submit[f] = "refused" THEN 1 ELSE 0

Injective(s) == \A i, j \in DOMAIN s : s[i] = s[j] => i = j

\* No stage holds a frame twice, and no two workers hold the same frame: each
\* dequeued item has one owner and each batch row is sent once per attempt.
NoFrameTwice ==
    /\ Injective(queue) /\ Injective(parsed) /\ Injective(batch)
    /\ \A v, w \in Workers : job[v] = job[w] /\ job[v] # NoFrame => v = w

\* A Stop that returns nil has drained the pipeline: every admitted frame was
\* stored or counted as dropped, whatever was in progress when it was called.
GracefulStopSettlesAll ==
    stop = "ok" => \A f \in Frames : Admitted(f) => counted[f] = 1

\* docs/ingestion.md, "no send-on-closed-channel races": the parsed channel is
\* closed only when no worker can send on it any more, whichever way they left.
NoSendOnClosedChannel ==
    parsedClosed => \A w \in Workers : worker[w] = "exited"

\* Stored never over-reports: a frame counted as stored is in the backend.
StoredIsInBackend ==
    \A f \in Frames : outcome[f] = "stored" => copies[f] >= 1

\* Retries duplicate a row at most once per attempt: a frame enters one batch,
\* and that batch is sent at most max_attempts times.
CopiesWithinRetryBudget ==
    \A f \in Frames : copies[f] <= MaxAttempts

\* Until the shutdown deadline every batch respects both limits, except that a
\* single entry larger than max_bytes forms a batch of its own.
BatchWithinLimits ==
    ~cancelled =>
        /\ Len(batch) <= BatchMaxEvents
        /\ batchBytes <= BatchMaxBytes \/ Len(batch) = 1

\* Once the batch worker has closed done, nothing reaches the backend and no
\* event is counted, except calls to Submit that are refused.
NothingAfterDone ==
    [][flusher = "done" =>
         /\ flusher' = "done"
         /\ UNCHANGED copies
         /\ \A f \in Frames : counted'[f] # counted[f] => submit'[f] = "refused"]_vars

\* Stop returns, by draining or, after its deadline, by cancelling.
StopReturns == stop = "closing" ~> stop \in {"ok", "deadline"}

\* Unless Stop's deadline passes, every admitted frame is stored or dropped in
\* the end: no frame is left behind in a batch that never fills.
AdmittedIsSettled ==
    \A f \in Frames : submit[f] = "admitted" ~> counted[f] = 1 \/ cancelled

\* docs/configuration.md:34, "Remaining events are accounted as dropped if the
\* deadline is exhausted": also a Stop that returns after its deadline has
\* counted every admitted frame.
ForcedStopSettlesAll ==
    stop \in {"ok", "deadline"} => \A f \in Frames : Admitted(f) => counted[f] = 1
=============================================================================
