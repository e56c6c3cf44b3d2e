--------------------------- MODULE PipelineProofs ---------------------------
(***************************************************************************)
(* The pipeline, for every number of frames and workers and every limit:   *)
(* every frame is accounted exactly once, a graceful Stop settles all      *)
(* admitted frames, retries stay within their budget, and batches within   *)
(* their limits.                                                           *)
(***************************************************************************)
EXTENDS Pipeline, SequenceTheorems, TLAPS
-----------------------------------------------------------------------------
(* A running total that never decreases.  IsTotal alone is not preserved by  *)
(* arguments without induction when the first frame leaves; with the order   *)
(* stated, every later total is seen to be at least the first frame's size.  *)
Ledger(b, q) ==
    \E total \in [0..Len(q) -> 0..MaxBytes] :
        /\ total[0] = 0
        /\ total[Len(q)] = b
        /\ \A i \in 1..Len(q) : total[i] = total[i-1] + Size[q[i]]
        /\ \A i, j \in 0..Len(q) : i <= j => total[i] <= total[j]

\* A ledger is a total.
LEMMA LedgerIsTotal ==
  ASSUME NEW q \in Seq(Frames), NEW b, Ledger(b, q)
  PROVE  IsTotal(b, q) /\ b \in 0..MaxBytes
  <1>1. Len(q) \in Nat
    BY LenProperties
  <1> QED
    BY <1>1 DEF Ledger, IsTotal

\* The ledger of the empty queue is zero.
LEMMA LedgerEmpty == Ledger(0, <<>>)
  <1> DEFINE total == [i \in 0..0 |-> 0]
  <1>1. total \in [0..0 -> 0..MaxBytes]
    BY QueueAssumption
  <1>2. Len(<<>>) = 0
    BY EmptySeq
  <1>3. /\ total[0] = 0
        /\ \A i \in 1..0 : total[i] = total[i-1] + Size[<<>>[i]]
        /\ \A i, j \in 0..0 : i <= j => total[i] <= total[j]
    OBVIOUS
  <1> HIDE DEF total
  <1> QED
    BY <1>1, <1>2, <1>3 DEF Ledger

\* q.bytes += size on enqueue.
LEMMA LedgerAppend ==
  ASSUME NEW q \in Seq(Frames), NEW b, NEW f \in Frames,
         Ledger(b, q), b + Size[f] <= MaxBytes
  PROVE  Ledger(b + Size[f], Append(q, f))
  <1> DEFINE n == Len(q)
             r == Append(q, f)
  <1>1. n \in Nat
    BY LenProperties
  <1>2. r \in Seq(Frames) /\ Len(r) = n + 1 /\ r[n + 1] = f
        /\ \A i \in 1..n : r[i] = q[i]
    BY AppendProperties
  <1>3. Size[f] \in Nat /\ MaxBytes \in Nat
    BY QueueAssumption
  <1>4. PICK total \in [0..n -> 0..MaxBytes] :
          /\ total[0] = 0
          /\ total[n] = b
          /\ \A i \in 1..n : total[i] = total[i-1] + Size[q[i]]
          /\ \A i, j \in 0..n : i <= j => total[i] <= total[j]
    BY DEF Ledger
  <1> DEFINE more == [i \in 0..n+1 |-> IF i <= n THEN total[i] ELSE b + Size[f]]
  <1> HIDE DEF n, r
  <1>5. b \in 0..MaxBytes
    BY <1>1, <1>4
  <1>6. more \in [0..n+1 -> 0..MaxBytes]
    BY <1>1, <1>3, <1>4, <1>5
  <1>7. more[0] = 0 /\ more[n+1] = b + Size[f]
    BY <1>1, <1>4
  <1>8. \A i \in 1..n+1 : more[i] = more[i-1] + Size[r[i]]
    <2> TAKE i \in 1..n+1
    <2>1. CASE i <= n
      <3>1. i \in 1..n /\ i - 1 \in 0..n /\ i \in 0..n+1 /\ i - 1 \in 0..n+1
        BY <2>1, <1>1
      <3>2. more[i] = total[i] /\ more[i-1] = total[i-1]
        BY <3>1, <1>1
      <3> QED
        BY <3>1, <3>2, <1>2, <1>4
    <2>2. CASE i = n + 1
      BY <2>2, <1>1, <1>2, <1>4
    <2> QED
      BY <2>1, <2>2, <1>1
  <1>9. \A i, j \in 0..n+1 : i <= j => more[i] <= more[j]
    <2> TAKE i, j \in 0..n+1
    <2> HAVE i <= j
    <2>1. CASE j <= n
      BY <2>1, <1>1, <1>4
    <2>2. CASE i <= n /\ j = n + 1
      <3>1. total[i] <= total[n] /\ total[i] \in 0..MaxBytes
        BY <2>2, <1>1, <1>4
      <3>2. more[i] = total[i] /\ more[j] = b + Size[f]
        BY <2>2, <1>1
      <3> QED
        BY <3>1, <3>2, <1>3, <1>4, <1>5
    <2>3. CASE i = n + 1 /\ j = n + 1
      BY <2>3, <1>1, <1>3, <1>5
    <2> QED
      BY <2>1, <2>2, <2>3, <1>1
  <1> HIDE DEF more
  <1>10. Ledger(b + Size[f], r)
    BY Zenon, <1>2, <1>6, <1>7, <1>8, <1>9 DEF Ledger
  <1> QED
    BY <1>10 DEF r

\* q.bytes -= size on dequeue: what remains is the total of the remaining frames.
LEMMA LedgerTail ==
  ASSUME NEW q \in Seq(Frames), NEW b, q # <<>>, Ledger(b, q)
  PROVE  Ledger(b - Size[Head(q)], Tail(q))
  <1> DEFINE n == Len(q)
             r == Tail(q)
             s == Size[Head(q)]
  <1>1. n \in Nat /\ n > 0
    BY LenProperties, EmptySeq
  <1>2. r \in Seq(Frames) /\ Len(r) = n - 1 /\ (\A i \in 1..n-1 : r[i] = q[i+1])
        /\ Head(q) = q[1]
    BY HeadTailProperties
  <1>3. s \in Nat /\ MaxBytes \in Nat
    BY QueueAssumption, HeadTailProperties
  <1>4. PICK total \in [0..n -> 0..MaxBytes] :
          /\ total[0] = 0
          /\ total[n] = b
          /\ \A i \in 1..n : total[i] = total[i-1] + Size[q[i]]
          /\ \A i, j \in 0..n : i <= j => total[i] <= total[j]
    BY DEF Ledger
  <1> DEFINE less == [i \in 0..n-1 |-> total[i+1] - s]
  <1>5. total[1] = s
    <2>1. total[1] = total[0] + Size[q[1]]
      BY <1>1, <1>4
    <2> QED
      BY <2>1, <1>2, <1>3, <1>4
  <1> HIDE DEF n, r, s
  <1>6. less \in [0..n-1 -> 0..MaxBytes]
    <2> SUFFICES ASSUME NEW i \in 0..n-1 PROVE total[i+1] - s \in 0..MaxBytes
      OBVIOUS
    <2>1. total[1] <= total[i+1] /\ total[i+1] \in 0..MaxBytes
      BY <1>1, <1>4
    <2> QED
      BY <2>1, <1>3, <1>5
  <1>7. less[0] = 0 /\ less[n-1] = b - s
    BY <1>1, <1>3, <1>4, <1>5
  <1>8. \A i \in 1..n-1 : less[i] = less[i-1] + Size[r[i]]
    <2> TAKE i \in 1..n-1
    <2>1. total[i+1] = total[i] + Size[q[i+1]] /\ r[i] = q[i+1]
      <3>1. i + 1 \in 1..n /\ (i + 1) - 1 = i
        BY <1>1
      <3> QED
        BY <3>1, <1>2, <1>4
    <2>2. less[i] = total[i+1] - s /\ less[i-1] = total[i] - s
      BY <1>1
    <2>3. total[i] \in Nat /\ total[i+1] \in Nat /\ Size[q[i+1]] \in Nat
      <3>1. i + 1 \in 1..n /\ i \in 0..n /\ i + 1 \in 0..n
        BY <1>1
      <3>2. q[i+1] \in Frames
        BY <3>1, ElementOfSeq DEF n
      <3> QED
        BY <3>1, <3>2, <1>3, <1>4, QueueAssumption
    <2> QED
      BY SMTT(30), <2>1, <2>2, <2>3, <1>3
  <1>9. \A i, j \in 0..n-1 : i <= j => less[i] <= less[j]
    <2> TAKE i, j \in 0..n-1
    <2> HAVE i <= j
    <2>1. total[i+1] <= total[j+1] /\ total[i+1] \in Nat /\ total[j+1] \in Nat
      BY <1>1, <1>3, <1>4
    <2> QED
      BY <2>1, <1>1, <1>3
  <1> HIDE DEF less
  <1>10. Ledger(b - s, r)
    BY Zenon, <1>2, <1>6, <1>7, <1>8, <1>9 DEF Ledger
  <1> QED
    BY <1>10 DEF r, s
-----------------------------------------------------------------------------

\* The queue holds frames, and its byte counter is their total.
QueueInv ==
    /\ queue \in Seq(Frames)
    /\ Ledger(queueBytes, queue)
    /\ closed \in BOOLEAN

Flushing == flusher \in {"call", "inflight", "backoff"}

\* The order of shutdown: the queue is closed once Stop is past closing; a worker
\* leaves only a closed and, before the deadline, empty queue; the channel is
\* closed behind the last worker; the batch worker ends with empty hands.
ControlInv ==
    /\ closed <=> stop \notin {"no", "closing"}
    /\ \A w \in Workers : job[w] \in Frames <=> worker[w] \in {"parse", "send"}
    /\ \A w \in Workers : worker[w] = "exited" => closed /\ (cancelled \/ queue = <<>>)
    /\ parsedClosed => \A w \in Workers : worker[w] = "exited"
    /\ flusher = "done" => parsedClosed /\ parsed = <<>> /\ batch = <<>>
    /\ held # NoFrame => Flushing
    /\ flusher = "drain" => cancelled
    /\ flusher = "backoff" => attempt < MaxAttempts
    /\ stop = "ok" => flusher = "done"

\* loc names the one place of every frame.
Located(loc) ==
    /\ loc \in [Frames -> Places \cup {"outside", "counted"}]
    /\ \A f \in Frames :
        /\ f \in Elements(queue) <=> loc[f] = "queue"
        /\ (\E w \in Workers : job[w] = f) <=> loc[f] = "worker"
        /\ f \in Elements(parsed) <=> loc[f] = "parsed"
        /\ held = f <=> loc[f] = "held"
        /\ f \in Elements(batch) <=> loc[f] = "batch"
        /\ loc[f] = "outside" <=> submit[f] \in {"new", "checked", "waiting"}
        /\ counted[f] = IF loc[f] = "counted" THEN 1 ELSE 0
        /\ submit[f] = "refused" => loc[f] = "counted"

PlaceInv == NoFrameTwice /\ \E loc : Located(loc)

\* Rows written for a frame: none before its batch is sent, at most one for each
\* attempt already made while it is, and at most MaxAttempts afterwards.
Budget(f) ==
    IF f \in Elements(batch) /\ Flushing
      THEN IF flusher = "backoff" THEN attempt ELSE attempt - 1
      ELSE IF counted[f] = 0 THEN 0 ELSE MaxAttempts

CopiesInv == \A f \in Frames : copies[f] <= Budget(f)

\* Before the deadline a batch that is still being filled has room left.
BatchInv ==
    /\ BatchWithinLimits
    /\ ~cancelled /\ flusher = "select" => Len(batch) < BatchMaxEvents

Inv == /\ TypeOK /\ QueueInv /\ ControlInv /\ PlaceInv /\ CopiesInv /\ BatchInv
       /\ StoredIsInBackend
-----------------------------------------------------------------------------
(* Sequences without repetition *)

\* The empty sequence holds nothing.
LEMMA ElementsEmpty == Elements(<<>>) = {} /\ Injective(<<>>)
  BY DEF Elements, Injective

\* Appending a new element adds it and keeps the sequence free of repeats.
LEMMA ElementsAppend ==
  ASSUME NEW S, NEW s \in Seq(S), NEW e \in S
  PROVE  /\ Elements(Append(s, e)) = Elements(s) \cup {e}
         /\ Injective(s) /\ e \notin Elements(s) => Injective(Append(s, e))
  <1> DEFINE t == Append(s, e)
  <1>1. Len(s) \in Nat /\ DOMAIN s = 1..Len(s)
    BY LenProperties
  <1>2. t \in Seq(S) /\ Len(t) = Len(s) + 1 /\ t[Len(s) + 1] = e
        /\ \A i \in 1..Len(s) : t[i] = s[i]
    BY AppendProperties
  <1>3. DOMAIN t = 1..Len(s) + 1
    BY <1>2, LenProperties
  <1> HIDE DEF t
  <1>4. Elements(t) = Elements(s) \cup {e}
    BY <1>1, <1>2, <1>3 DEF Elements
  <1>5. ASSUME Injective(s), e \notin Elements(s)
        PROVE  Injective(t)
    <2> SUFFICES ASSUME NEW i \in DOMAIN t, NEW j \in DOMAIN t, t[i] = t[j]
                 PROVE  i = j
      BY DEF Injective
    <2>1. \A k \in 1..Len(s) : t[k] # e
      BY <1>1, <1>2, <1>5 DEF Elements
    <2>2. CASE i <= Len(s) /\ j <= Len(s)
      BY <2>2, <1>1, <1>2, <1>3, <1>5 DEF Injective
    <2>3. CASE i = Len(s) + 1 \/ j = Len(s) + 1
      BY <2>1, <2>3, <1>1, <1>2, <1>3
    <2> QED
      BY <2>2, <2>3, <1>1, <1>3
  <1> QED
    BY <1>4, <1>5 DEF t

\* Taking the head removes just that element from a sequence without repeats.
LEMMA ElementsTail ==
  ASSUME NEW S, NEW s \in Seq(S), s # <<>>
  PROVE  /\ Head(s) \in S /\ Head(s) \in Elements(s)
         /\ Tail(s) \in Seq(S)
         /\ Injective(s) => /\ Injective(Tail(s))
                            /\ Elements(Tail(s)) = Elements(s) \ {Head(s)}
  <1> DEFINE t == Tail(s)
             h == Head(s)
  <1>1. Len(s) \in Nat /\ DOMAIN s = 1..Len(s) /\ Len(s) > 0
    BY LenProperties, EmptySeq
  <1>2. h \in S /\ t \in Seq(S) /\ Len(t) = Len(s) - 1
        /\ \A i \in 1..Len(t) : t[i] = s[i+1]
    BY HeadTailProperties
  <1>3. h = s[1] /\ DOMAIN t = 1..Len(t)
    BY <1>2, LenProperties
  <1> HIDE DEF t, h
  <1>4. h \in Elements(s)
    BY <1>1, <1>3 DEF Elements
  <1>5. ASSUME Injective(s)
        PROVE  Injective(t) /\ Elements(t) = Elements(s) \ {h}
    <2>1. Injective(t)
      <3> SUFFICES ASSUME NEW i \in DOMAIN t, NEW j \in DOMAIN t, t[i] = t[j]
                   PROVE  i = j
        BY DEF Injective
      <3>1. i + 1 \in DOMAIN s /\ j + 1 \in DOMAIN s /\ s[i+1] = s[j+1]
        BY <1>1, <1>2, <1>3
      <3>2. i + 1 = j + 1
        BY <3>1, <1>5 DEF Injective
      <3> QED
        BY <3>2, <1>1, <1>2, <1>3
    <2>2. ASSUME NEW x \in Elements(t)
          PROVE  x \in Elements(s) \ {h}
      <3>1. PICK i \in DOMAIN t : x = t[i]
        BY DEF Elements
      <3>2. i + 1 \in DOMAIN s /\ x = s[i+1] /\ 1 \in DOMAIN s /\ i + 1 # 1
        BY <3>1, <1>1, <1>2, <1>3
      <3> QED
        BY <3>2, <1>3, <1>5 DEF Elements, Injective
    <2>3. ASSUME NEW x \in Elements(s) \ {h}
          PROVE  x \in Elements(t)
      <3>1. PICK i \in DOMAIN s : x = s[i]
        BY DEF Elements
      <3>2. i - 1 \in DOMAIN t /\ x = t[i-1]
        BY <3>1, <1>1, <1>2, <1>3
      <3> QED
        BY <3>2 DEF Elements
    <2> QED
      BY <2>1, <2>2, <2>3
  <1> QED
    BY <1>2, <1>4, <1>5 DEF t, h

\* The elements of a sequence over S are in S.
LEMMA ElementsInSet ==
  ASSUME NEW S, NEW s \in Seq(S)
  PROVE  Elements(s) \subseteq S
  BY ElementOfSeq, LenProperties DEF Elements

\* A prefix holds only elements of the whole sequence.
LEMMA ElementsPrefix ==
  ASSUME NEW S, NEW s \in Seq(S), NEW n \in 0..Len(s)
  PROVE  Elements(SubSeq(s, 1, n)) \subseteq Elements(s)
  <1> DEFINE t == SubSeq(s, 1, n)
  <1>1. Len(s) \in Nat /\ DOMAIN s = 1..Len(s)
    BY LenProperties
  <1>2. \A i \in 1..n : s[i] \in S
    BY <1>1, ElementOfSeq
  <1>3. t \in Seq(S) /\ Len(t) = n /\ \A i \in 1..n : t[i] = s[i]
    BY <1>1, <1>2, SubSeqProperties
  <1>4. DOMAIN t = 1..n
    BY <1>3, LenProperties
  <1> HIDE DEF t
  <1>5. Elements(t) \subseteq Elements(s)
    BY <1>1, <1>3, <1>4 DEF Elements
  <1> QED
    BY <1>5 DEF t
-----------------------------------------------------------------------------
(* What the parts of a step do *)

\* The configured limits as numbers.
LEMMA Limits ==
  /\ ParsedCap \in Nat /\ ParsedCap > 0
  /\ BatchMaxEvents \in Nat /\ BatchMaxEvents > 0
  /\ BatchMaxBytes \in Nat /\ BatchMaxBytes > 0
  /\ MaxAttempts \in Nat /\ MaxAttempts > 0
  BY PipelineAssumption

\* append(batch, entry) and the flush it may start.
LEMMA AddToBatchFacts ==
  ASSUME NEW b \in Seq(Frames), NEW n \in Nat, NEW e \in Frames, AddToBatch(b, n, e)
  PROVE  /\ batch' \in Seq(Frames) /\ Len(batch') = Len(b) + 1
         /\ batchBytes' = n + EntrySize[e] /\ batchBytes' \in Nat
         /\ Elements(batch') = Elements(b) \cup {e}
         /\ Injective(b) /\ e \notin Elements(b) => Injective(batch')
         /\ flusher' \in {"select", "call"} /\ attempt' = 1
         /\ flusher' = "select" => Len(batch') < BatchMaxEvents
  <1>1. batch' = Append(b, e) /\ batchBytes' = n + EntrySize[e]
    BY DEF AddToBatch
  <1>2. EntrySize[e] \in Nat
    BY PipelineAssumption
  <1>3. Len(b) \in Nat /\ batch' \in Seq(Frames) /\ Len(batch') = Len(b) + 1
    BY <1>1, AppendProperties, LenProperties
  <1>4. flusher' \in {"select", "call"} /\ attempt' = 1
    BY DEF AddToBatch, StartFlush
  <1>5. flusher' = "select" => Len(batch') < BatchMaxEvents
    BY <1>3, Limits DEF AddToBatch, StartFlush, BatchIsFull
  <1> QED
    BY <1>1, <1>2, <1>3, <1>4, <1>5, ElementsAppend

\* The state flush leaves: the entry that was held back, or nothing.
LEMMA FlushReturnsFacts ==
  ASSUME held \in Frames \cup {NoFrame}, FlushReturns
  PROVE  /\ batch' \in Seq(Frames) /\ Len(batch') <= 1 /\ batchBytes' \in Nat
         /\ Len(batch') = 0 => batchBytes' = 0
         /\ Elements(batch') = IF held = NoFrame THEN {} ELSE {held}
         /\ Injective(batch')
         /\ held' = NoFrame
         /\ flusher' \in {"select", "call"} /\ attempt' = 1
         /\ flusher' = "select" => Len(batch') < BatchMaxEvents
  <1>1. CASE held = NoFrame
    <2>1. batch' = <<>> /\ batchBytes' = 0 /\ held' = NoFrame /\ flusher' = "select"
          /\ attempt' = 1
      BY <1>1 DEF FlushReturns
    <2> QED
      BY <1>1, <2>1, EmptySeq, ElementsEmpty, Limits
  <1>2. CASE held # NoFrame
    <2>1. held \in Frames /\ AddToBatch(<<>>, 0, held) /\ held' = NoFrame
      BY <1>2 DEF FlushReturns
    <2>2. <<>> \in Seq(Frames) /\ Len(<<>>) = 0 /\ 0 \in Nat
      BY EmptySeq
    <2>3. /\ batch' \in Seq(Frames) /\ Len(batch') = 0 + 1 /\ batchBytes' \in Nat
          /\ Elements(batch') = Elements(<<>>) \cup {held}
          /\ Injective(<<>>) /\ held \notin Elements(<<>>) => Injective(batch')
          /\ flusher' \in {"select", "call"} /\ attempt' = 1
          /\ flusher' = "select" => Len(batch') < BatchMaxEvents
      BY Zenon, <2>1, <2>2, AddToBatchFacts
    <2> QED
      BY <1>2, <2>1, <2>3, ElementsEmpty
  <1> QED
    BY <1>1, <1>2

\* Counting keeps the ledger typed.
LEMMA CountTypes ==
  ASSUME TypeOK, NEW S, NEW o \in Outcomes, Count(S, o)
  PROVE  counted' \in [Frames -> Nat] /\ outcome' \in [Frames -> Outcomes \cup {"none"}]
  BY DEF TypeOK, Count

\* A move of one worker keeps the worker variables typed.
LEMMA WorkTypes ==
  ASSUME TypeOK, NEW w \in Workers, NEW f \in Frames \cup {NoFrame},
         NEW place \in {"dequeue", "asleep", "parse", "send", "exited"}, Work(w, place, f)
  PROVE  /\ worker' \in [Workers -> {"dequeue", "asleep", "parse", "send", "exited"}]
         /\ job' \in [Workers -> Frames \cup {NoFrame}]
         /\ parsedClosed' \in BOOLEAN
  BY DEF TypeOK, Work
-----------------------------------------------------------------------------
(* The queue *)

\* Every step keeps the byte counter of the bounded queue exact.
LEMMA StepQueue ==
  ASSUME Inv, [Next]_vars
  PROVE  QueueInv'
  <1>1. QueueInv
    BY DEF Inv
  <1>2. ASSUME NEW f \in Frames, Queue!Put(f)
        PROVE  QueueInv'
    <2>1. /\ queue' = Append(queue, f) /\ queueBytes' = queueBytes + Size[f]
          /\ closed' = closed /\ queueBytes + Size[f] <= MaxBytes
      BY <1>2 DEF Queue!Put, Queue!Room
    <2>2. queue' \in Seq(Frames)
      BY <1>1, <2>1, AppendProperties DEF QueueInv
    <2>3. Ledger(queueBytes', queue')
      BY <1>1, <2>1, LedgerAppend DEF QueueInv
    <2> QED
      BY <1>1, <2>1, <2>2, <2>3 DEF QueueInv
  <1>3. ASSUME NEW f \in Frames, Queue!Take(f)
        PROVE  QueueInv'
    <2>1. /\ queue # <<>> /\ queue' = Tail(queue)
          /\ queueBytes' = queueBytes - Size[Head(queue)] /\ closed' = closed
      BY <1>3 DEF Queue!Take
    <2>2. queue' \in Seq(Frames)
      BY <1>1, <2>1, HeadTailProperties DEF QueueInv
    <2>3. Ledger(queueBytes', queue')
      BY <1>1, <2>1, LedgerTail DEF QueueInv
    <2> QED
      BY <1>1, <2>1, <2>2, <2>3 DEF QueueInv
  <1>4. CASE Queue!Close
    BY <1>1, <1>4 DEF QueueInv, Queue!Close
  <1>5. CASE UNCHANGED queueVars
    BY <1>1, <1>5 DEF QueueInv, queueVars
  <1> QED
    BY Zenon, <1>2, <1>3, <1>4, <1>5 DEF Next, vars, Submitter, Worker, Flusher, Stopper,
       Submit, SubmitAdmitted, SubmitWaits, SubmitRefused, SubmitAccepted,
       WorkerTakes, WorkerWaits, WorkerQuits, WorkerDrops, WorkerParses, WorkerSends,
       WorkerAbandons, CloseParsed, BatchReceives, BatchTimer, BatchStartsDrain,
       BatchDrains, BatchEnds, AppendCalled, AppendSucceeds, AppendFails,
       BackoffEnds, StopBegins, StopCloses, StopDone, StopDeadline,
       StopForcedDone, Rest
-----------------------------------------------------------------------------
(* Types *)

\* A worker that parses or sends has a frame.
LEMMA JobIsFrame ==
  ASSUME Inv, NEW w \in Workers, worker[w] \in {"parse", "send"}
  PROVE  job[w] \in Frames
  BY DEF Inv, ControlInv

\* Types, for the steps of Submit.
LEMMA StepTypeSubmitter ==
  ASSUME Inv, QueueInv', NEW f \in Frames, Submitter(f)
  PROVE  TypeOK'
  <1>1. TypeOK /\ queueBytes' \in 0..MaxBytes
    BY LedgerIsTotal DEF Inv, QueueInv
  <1>2. "admission" \in Outcomes
    BY DEF Outcomes
  <1>3. CASE Submit(f)
    <2>1. CASE accepting
      BY Zenon, <1>1, <1>3, <2>1 DEF TypeOK, Submit, queueVars, workerVars, batchVars, ledgerVars
    <2>2. CASE ~accepting
      <3>1. Refuse(f)
        BY <1>3, <2>2 DEF Submit
      <3>2. counted' \in [Frames -> Nat] /\ outcome' \in [Frames -> Outcomes \cup {"none"}]
        BY <1>1, <1>2, <3>1, CountTypes DEF Refuse
      <3> QED
        BY Zenon, <1>1, <1>3, <3>1, <3>2 DEF TypeOK, Submit, Refuse, queueVars, workerVars,
           batchVars
    <2> QED
      BY <2>1, <2>2
  <1>4. CASE SubmitAdmitted(f)
    BY <1>1, <1>4 DEF TypeOK, SubmitAdmitted, QueueInv, workerVars, batchVars, ledgerVars
  <1>5. CASE SubmitWaits(f)
    BY <1>1, <1>5 DEF TypeOK, SubmitWaits, queueVars, workerVars, batchVars, ledgerVars
  <1>6. CASE SubmitRefused(f)
    BY <1>1, <1>2, <1>6 DEF TypeOK, SubmitRefused, Refuse, Count, queueVars, workerVars,
       batchVars, ledgerVars
  <1>7. CASE SubmitAccepted(f)
    BY <1>1, <1>7 DEF TypeOK, SubmitAccepted, queueVars, workerVars, batchVars, ledgerVars
  <1> QED
    BY <1>3, <1>4, <1>5, <1>6, <1>7 DEF Submitter

\* Types, for the steps of a parse worker.
LEMMA StepTypeWorker ==
  ASSUME Inv, QueueInv', NEW w \in Workers, Worker(w)
  PROVE  TypeOK'
  <1>1. TypeOK /\ queueBytes' \in 0..MaxBytes
    BY LedgerIsTotal DEF Inv, QueueInv
  <1>2. CASE WorkerTakes(w)
    <2>1. PICK f \in Frames : Work(w, "parse", f)
      BY <1>2 DEF WorkerTakes
    <2>2. /\ worker' \in [Workers -> {"dequeue", "asleep", "parse", "send", "exited"}]
          /\ job' \in [Workers -> Frames \cup {NoFrame}] /\ parsedClosed' \in BOOLEAN
      BY <1>1, <2>1, WorkTypes
    <2> QED
      BY <1>1, <1>2, <2>2 DEF TypeOK, WorkerTakes, QueueInv, batchVars, ledgerVars
  <1>3. CASE WorkerQuits(w) \/ WorkerWaits(w)
    <2>1. \E place \in {"dequeue", "asleep", "exited"} : Work(w, place, NoFrame)
      BY <1>3 DEF WorkerQuits, WorkerWaits
    <2> QED
      BY ZenonT(60), <1>1, <1>3, <2>1, WorkTypes DEF TypeOK, WorkerQuits, WorkerWaits, queueVars,
         batchVars, ledgerVars
  <1>4. CASE WorkerDrops(w)
    <2>1. Work(w, "dequeue", NoFrame)
      BY <1>4 DEF WorkerDrops
    <2>2. PICK o \in Outcomes : Count({job[w]}, o)
      BY <1>4 DEF WorkerDrops, Outcomes
    <2>3. counted' \in [Frames -> Nat] /\ outcome' \in [Frames -> Outcomes \cup {"none"}]
      BY <1>1, <2>2, CountTypes
    <2> QED
      BY ZenonT(60), <1>1, <1>4, <2>1, <2>3, WorkTypes DEF TypeOK, WorkerDrops, queueVars, batchVars
  <1>5. CASE WorkerParses(w)
    <2>1. Work(w, "send", job[w]) /\ job[w] \in Frames
      BY <1>5, JobIsFrame DEF WorkerParses
    <2> QED
      BY <1>1, <1>5, <2>1, WorkTypes DEF TypeOK, WorkerParses, queueVars, batchVars,
         ledgerVars
  <1>6. CASE WorkerSends(w)
    <2>1. Work(w, "dequeue", NoFrame) /\ job[w] \in Frames
      BY <1>6, JobIsFrame DEF WorkerSends
    <2>2. parsed' \in Seq(Frames) /\ Len(parsed') <= ParsedCap
      <3>1. parsed \in Seq(Frames) /\ Len(parsed) \in Nat
        BY <1>1, LenProperties DEF TypeOK
      <3> QED
        BY <1>6, <2>1, <3>1, AppendProperties, Limits DEF WorkerSends
    <2> QED
      BY <1>1, <1>6, <2>1, <2>2, WorkTypes DEF TypeOK, WorkerSends, queueVars,
         batchVars, ledgerVars
  <1>7. CASE WorkerAbandons(w)
    <2>1. Work(w, "exited", NoFrame) /\ Count({job[w]}, "normalization")
      BY <1>7 DEF WorkerAbandons
    <2>2. counted' \in [Frames -> Nat] /\ outcome' \in [Frames -> Outcomes \cup {"none"}]
      BY <1>1, <2>1, CountTypes DEF Outcomes
    <2> QED
      BY Zenon, <1>1, <1>7, <2>1, <2>2, WorkTypes DEF TypeOK, WorkerAbandons, queueVars,
         batchVars
  <1> QED
    BY <1>2, <1>3, <1>4, <1>5, <1>6, <1>7 DEF Worker

\* Types, for the steps of the batch worker.
LEMMA StepTypeFlusher ==
  ASSUME Inv, Flusher
  PROVE  TypeOK'
  <1>1. TypeOK
    BY DEF Inv
  <1>2. 1 \in 1..MaxAttempts
    BY Limits
  <1>3. CASE BatchReceives
    <2>1. /\ Head(parsed) \in Frames /\ parsed' \in Seq(Frames)
          /\ Len(parsed') = Len(parsed) - 1 /\ Len(parsed) \in Nat
      BY <1>1, <1>3, HeadTailProperties, LenProperties DEF TypeOK, BatchReceives
    <2>2. Len(parsed') <= ParsedCap
      BY <1>1, <2>1, Limits DEF TypeOK
    <2>3. CASE MustFlushBefore(Head(parsed))
      BY Zenon, <1>1, <1>2, <1>3, <2>1, <2>2, <2>3 DEF TypeOK, BatchReceives, StartFlush,
         queueVars, workerVars, ledgerVars
    <2>4. CASE ~MustFlushBefore(Head(parsed))
      <3>1. AddToBatch(batch, batchBytes, Head(parsed)) /\ held' = held
        BY <1>3, <2>4 DEF BatchReceives
      <3>2. /\ batch' \in Seq(Frames) /\ batchBytes' \in Nat /\ attempt' = 1
            /\ flusher' \in {"select", "call"}
        BY <1>1, <2>1, <3>1, AddToBatchFacts DEF TypeOK
      <3> QED
        BY SMTT(30), <1>1, <1>2, <1>3, <2>1, <2>2, <3>1, <3>2 DEF TypeOK, BatchReceives,
           queueVars, workerVars, ledgerVars
    <2> QED
      BY <2>3, <2>4
  <1>4. CASE BatchTimer \/ BatchStartsDrain
    BY SMTT(30), <1>1, <1>2, <1>4 DEF TypeOK, BatchTimer, BatchStartsDrain, StartFlush,
       queueVars, workerVars, ledgerVars
  <1>5. CASE BatchDrains
    <2>1. /\ Head(parsed) \in Frames /\ parsed' \in Seq(Frames)
          /\ Len(parsed') = Len(parsed) - 1 /\ Len(parsed) \in Nat
      BY <1>1, <1>5, HeadTailProperties, LenProperties DEF TypeOK, BatchDrains
    <2>2. Len(parsed') <= ParsedCap
      BY <1>1, <2>1, Limits DEF TypeOK
    <2>3. batch' \in Seq(Frames)
      BY <1>1, <1>5, <2>1, AppendProperties DEF TypeOK, BatchDrains
    <2> QED
      BY Zenon, <1>1, <1>5, <2>1, <2>2, <2>3 DEF TypeOK, BatchDrains, queueVars, workerVars,
         ledgerVars
  <1>6. CASE BatchEnds
    BY <1>1, <1>2, <1>6 DEF TypeOK, BatchEnds, StartFlush, queueVars, workerVars,
       ledgerVars
  <1>7. ASSUME FlushReturns, NEW o \in Outcomes, Count(Elements(batch), o),
               UNCHANGED <<queueVars, submit, workerVars, parsed, stop>>,
               copies' \in [Frames -> Nat]
        PROVE  TypeOK'
    <2>1. held \in Frames \cup {NoFrame}
      BY <1>1 DEF TypeOK
    <2>2. /\ batch' \in Seq(Frames) /\ batchBytes' \in Nat /\ held' = NoFrame
          /\ attempt' = 1 /\ flusher' \in {"select", "call"}
      BY <1>7, <2>1, FlushReturnsFacts
    <2>3. counted' \in [Frames -> Nat] /\ outcome' \in [Frames -> Outcomes \cup {"none"}]
      BY <1>1, <1>7, CountTypes
    <2> QED
      BY Zenon, <1>1, <1>2, <1>7, <2>2, <2>3 DEF TypeOK, queueVars, workerVars
  <1>8. ASSUME AfterError, UNCHANGED <<queueVars, submit, workerVars, parsed, stop>>,
               copies' \in [Frames -> Nat]
        PROVE  TypeOK'
    <2>1. CASE MayRetry
      BY <1>1, <1>8, <2>1 DEF TypeOK, AfterError, queueVars, workerVars, ledgerVars
    <2>2. CASE ~MayRetry
      <3>1. Count(Elements(batch), "storage") /\ FlushReturns /\ "storage" \in Outcomes
        BY <1>8, <2>2 DEF AfterError, Outcomes
      <3> QED
        BY <1>7, <1>8, <3>1
    <2> QED
      BY <2>1, <2>2
  <1>9. CASE AppendCalled
    <2>1. copies' \in [Frames -> Nat]
          /\ UNCHANGED <<queueVars, submit, workerVars, parsed, stop>>
      BY <1>1, <1>9 DEF TypeOK, AppendCalled
    <2>2. CASE cancelled
      <3>1. AfterError
        BY <1>9, <2>2 DEF AppendCalled
      <3> QED
        BY <1>8, <2>1, <3>1
    <2>3. CASE ~cancelled
      BY <1>1, <1>9, <2>3 DEF TypeOK, AppendCalled, queueVars, workerVars, ledgerVars
    <2> QED
      BY <2>2, <2>3
  <1>10. CASE AppendSucceeds
    <2>1. copies' \in [Frames -> Nat]
      BY SMTT(30), <1>1, <1>10 DEF TypeOK, AppendSucceeds, Write
    <2>2. FlushReturns /\ Count(Elements(batch), "stored") /\ "stored" \in Outcomes
          /\ UNCHANGED <<queueVars, submit, workerVars, parsed, stop>>
      BY <1>10 DEF AppendSucceeds, Outcomes
    <2> QED
      BY <1>7, <2>1, <2>2
  <1>11. CASE AppendFails
    <2>1. copies' \in [Frames -> Nat]
      BY <1>1, <1>11 DEF TypeOK, AppendFails, Write
    <2>2. AfterError /\ UNCHANGED <<queueVars, submit, workerVars, parsed, stop>>
      BY <1>11 DEF AppendFails
    <2> QED
      BY <1>8, <2>1, <2>2
  <1>12. CASE BackoffEnds
    <2>1. attempt' \in 1..MaxAttempts
      BY <1>1, <1>12, Limits DEF TypeOK, BackoffEnds, Inv, ControlInv
    <2> QED
      BY Zenon, <1>1, <1>12, <2>1 DEF TypeOK, BackoffEnds, queueVars, workerVars, ledgerVars
  <1> QED
    BY <1>3, <1>4, <1>5, <1>6, <1>9, <1>10, <1>11, <1>12 DEF Flusher

\* Every step keeps the types.
LEMMA StepType ==
  ASSUME Inv, [Next]_vars
  PROVE  TypeOK'
  <1>1. TypeOK /\ QueueInv'
    BY StepQueue DEF Inv
  <1>a. queueBytes' \in 0..MaxBytes
    BY <1>1, LedgerIsTotal DEF QueueInv
  <1>2. CASE CloseParsed
    BY <1>1, <1>2 DEF TypeOK, CloseParsed, queueVars, batchVars, ledgerVars
  <1>3. CASE Stopper
    BY <1>1, <1>a, <1>3 DEF TypeOK, Stopper, StopBegins, StopCloses, StopDone, StopDeadline,
       StopForcedDone, StopStep, QueueInv, queueVars, workerVars, batchVars, ledgerVars
  <1>4. CASE UNCHANGED vars
    BY <1>1, <1>4 DEF TypeOK, vars, queueVars, workerVars, batchVars, ledgerVars
  <1> QED
    BY <1>1, <1>2, <1>3, <1>4, StepTypeSubmitter, StepTypeWorker, StepTypeFlusher
       DEF Next, Rest
-----------------------------------------------------------------------------
(* The order of shutdown *)

\* The control states of the stages agree, for the steps of Submit.
LEMMA StepControlSubmitter ==
  ASSUME Inv, NEW f \in Frames, Submitter(f)
  PROVE  ControlInv'
  <1>1. ControlInv
    BY DEF Inv
  <1>2. CASE SubmitAdmitted(f)
    <2>1. ~closed /\ closed' = closed
      BY ZenonT(60), <1>2 DEF SubmitAdmitted, Queue!Put
    <2> QED
      BY Zenon, <1>1, <1>2, <2>1 DEF ControlInv, SubmitAdmitted, cancelled, Flushing,
         workerVars, batchVars
  <1>3. CASE UNCHANGED <<queueVars, workerVars, parsed, batchVars, stop>>
    BY <1>1, <1>3 DEF ControlInv, cancelled, Flushing, queueVars, workerVars, batchVars
  <1> QED
    BY Zenon, <1>2, <1>3 DEF Submitter, Submit, SubmitWaits, SubmitRefused, SubmitAccepted

\* The same for the steps of a parse worker.
LEMMA StepControlWorker ==
  ASSUME Inv, NEW w \in Workers, Worker(w)
  PROVE  ControlInv'
  <1>1. ControlInv /\ TypeOK /\ NoFrame \notin Frames
    BY PipelineAssumption DEF Inv
  <1>2. CASE WorkerTakes(w)
    <2>1. PICK f \in Frames : Queue!Take(f) /\ Work(w, "parse", f)
      BY <1>2 DEF WorkerTakes
    <2>2. closed' = closed /\ queue # <<>>
      BY <2>1 DEF Queue!Take
    <2>3. UNCHANGED <<parsed, batchVars, stop>> /\ worker[w] = "dequeue"
      BY <1>2 DEF WorkerTakes
    <2> QED
      BY Zenon, <1>1, <2>1, <2>2, <2>3 DEF ControlInv, TypeOK, Work, cancelled, Flushing,
         batchVars
  <1>3. CASE WorkerQuits(w)
    <2>1. /\ UNCHANGED <<queueVars, parsed, batchVars, stop>>
          /\ Work(w, "exited", NoFrame) /\ worker[w] \in {"dequeue", "asleep"}
      BY <1>3 DEF WorkerQuits
    <2>2. closed /\ (cancelled \/ queue = <<>>)
      BY <1>1, <1>3 DEF ControlInv, WorkerQuits, cancelled
    <2> QED
      BY <1>1, <2>1, <2>2 DEF ControlInv, TypeOK, Work, cancelled, Flushing, batchVars,
         queueVars
  <1>8. CASE WorkerWaits(w)
    <2>1. /\ UNCHANGED <<queueVars, parsed, batchVars, stop>>
          /\ worker[w] \in {"dequeue", "asleep"}
          /\ Work(w, "dequeue", NoFrame) \/ Work(w, "asleep", NoFrame)
      BY <1>8 DEF WorkerWaits
    <2>2. CASE Work(w, "dequeue", NoFrame)
      BY Zenon, <1>1, <2>1, <2>2 DEF ControlInv, TypeOK, Work, cancelled, Flushing, batchVars,
         queueVars
    <2>3. CASE Work(w, "asleep", NoFrame)
      BY Zenon, <1>1, <2>1, <2>3 DEF ControlInv, TypeOK, Work, cancelled, Flushing, batchVars,
         queueVars
    <2> QED
      BY <2>1, <2>2, <2>3
  <1>4. CASE WorkerDrops(w)
    BY <1>1, <1>4 DEF ControlInv, TypeOK, WorkerDrops, Work, cancelled, Flushing,
       batchVars, queueVars
  <1>5. CASE WorkerParses(w)
    BY Zenon, <1>1, <1>5 DEF ControlInv, TypeOK, WorkerParses, Work, cancelled, Flushing,
       batchVars, queueVars
  <1>6. CASE WorkerSends(w)
    BY Zenon, <1>1, <1>6 DEF ControlInv, TypeOK, WorkerSends, Work, cancelled, Flushing,
       batchVars, queueVars
  <1>7. CASE WorkerAbandons(w)
    BY <1>1, <1>7 DEF ControlInv, TypeOK, WorkerAbandons, Work, cancelled, Flushing,
       batchVars, queueVars
  <1> QED
    BY Zenon, <1>2, <1>3, <1>4, <1>5, <1>6, <1>7, <1>8 DEF Worker

\* The same for the steps of the batch worker.
LEMMA StepControlFlusher ==
  ASSUME Inv, Flusher
  PROVE  ControlInv'
  <1>1. ControlInv /\ TypeOK
    BY DEF Inv
  <1>2. UNCHANGED <<queueVars, submit, workerVars, stop>>
    BY Zenon DEF Flusher, BatchReceives, BatchTimer, BatchStartsDrain, BatchDrains, BatchEnds,
       AppendCalled, AppendSucceeds, AppendFails, BackoffEnds
  <1>3. ASSUME FlushReturns, UNCHANGED parsed, Flushing
        PROVE  ControlInv'
    <2>1. held' = NoFrame /\ flusher' \in {"select", "call"}
      BY <1>1, <1>3, FlushReturnsFacts DEF TypeOK
    <2> QED
      BY <1>1, <1>2, <1>3, <2>1 DEF ControlInv, cancelled, Flushing, queueVars, workerVars
  <1>4. ASSUME AfterError, UNCHANGED parsed, Flushing
        PROVE  ControlInv'
    <2>1. CASE MayRetry
      BY <1>1, <1>2, <1>4, <2>1 DEF ControlInv, AfterError, MayRetry, cancelled, Flushing,
         queueVars, workerVars
    <2>2. CASE ~MayRetry
      BY <1>3, <1>4, <2>2 DEF AfterError
    <2> QED
      BY <2>1, <2>2
  <1>5. CASE BatchReceives
    <2>1. flusher' \in {"select", "call"} /\ (held' # NoFrame => flusher' = "call")
      BY <1>1, <1>5 DEF BatchReceives, StartFlush, AddToBatch, ControlInv, Flushing
    <2> QED
      BY <1>1, <1>2, <1>5, <2>1 DEF ControlInv, BatchReceives, cancelled, Flushing,
         queueVars, workerVars
  <1>6. CASE BatchTimer
    BY <1>1, <1>2, <1>6 DEF ControlInv, BatchTimer, StartFlush, cancelled, Flushing,
       queueVars, workerVars
  <1>7. CASE BatchStartsDrain
    BY <1>1, <1>2, <1>7 DEF ControlInv, BatchStartsDrain, cancelled, Flushing,
       queueVars, workerVars
  <1>8. CASE BatchDrains
    BY <1>1, <1>2, <1>8 DEF ControlInv, BatchDrains, cancelled, Flushing,
       queueVars, workerVars
  <1>9. CASE BatchEnds
    BY <1>1, <1>2, <1>9 DEF ControlInv, BatchEnds, StartFlush, cancelled, Flushing,
       queueVars, workerVars
  <1>10. CASE AppendCalled
    <2>1. CASE cancelled
      BY Zenon, <1>4, <1>10, <2>1 DEF AppendCalled, Flushing
    <2>2. CASE ~cancelled
      BY <1>1, <1>2, <1>10, <2>2 DEF ControlInv, AppendCalled, cancelled, Flushing,
         queueVars, workerVars
    <2> QED
      BY <2>1, <2>2
  <1>11. CASE AppendSucceeds
    BY <1>3, <1>11 DEF AppendSucceeds, Flushing
  <1>12. CASE AppendFails
    BY <1>4, <1>12 DEF AppendFails, Flushing
  <1>13. CASE BackoffEnds
    BY <1>1, <1>2, <1>13 DEF ControlInv, BackoffEnds, cancelled, Flushing,
       queueVars, workerVars
  <1> QED
    BY <1>5, <1>6, <1>7, <1>8, <1>9, <1>10, <1>11, <1>12, <1>13 DEF Flusher

\* Every step keeps the control states of the stages consistent.
LEMMA StepControl ==
  ASSUME Inv, [Next]_vars
  PROVE  ControlInv'
  <1>1. ControlInv
    BY DEF Inv
  <1>2. CASE CloseParsed
    BY <1>1, <1>2 DEF ControlInv, CloseParsed, cancelled, Flushing, queueVars, batchVars
  <1>3. CASE Stopper
    <2>1. UNCHANGED <<submit, workerVars, parsed, batchVars, queue>>
      BY Zenon, <1>3 DEF Stopper, StopBegins, StopCloses, StopDone, StopDeadline,
         StopForcedDone, StopStep, queueVars, Queue!Close
    <2>2. CASE StopBegins \/ StopDone \/ StopDeadline \/ StopForcedDone
      <3>1. closed' = closed /\ (stop \notin {"no", "closing"} <=> stop' \notin {"no", "closing"})
        BY <2>2 DEF StopBegins, StopDone, StopDeadline, StopForcedDone, StopStep, queueVars
      <3>2. (cancelled => cancelled') /\ (stop' = "ok" => flusher' = "done")
        BY <2>1, <2>2, <1>1 DEF ControlInv, StopBegins, StopDone, StopDeadline, StopForcedDone,
           StopStep, cancelled, batchVars
      <3> QED
        BY Zenon, <1>1, <2>1, <3>1, <3>2 DEF ControlInv, Flushing, workerVars, batchVars
    <2>3. CASE StopCloses
      BY SMTT(30), <1>1, <2>1, <2>3 DEF ControlInv, StopCloses, StopStep, Queue!Close, cancelled,
         Flushing, workerVars, batchVars
    <2> QED
      BY <1>3, <2>2, <2>3 DEF Stopper
  <1>4. CASE UNCHANGED vars
    BY Zenon, <1>1, <1>4 DEF ControlInv, cancelled, Flushing, vars, queueVars, workerVars,
       batchVars
  <1> QED
    BY <1>2, <1>3, <1>4, StepControlSubmitter, StepControlWorker, StepControlFlusher
       DEF Next, Rest
-----------------------------------------------------------------------------
(* The place of every frame *)

\* A frame that Submit turns away goes from outside to counted.
LEMMA PlaceRefuse ==
  ASSUME Inv, NEW f \in Frames, submit[f] \in {"new", "checked", "waiting"}, Refuse(f),
         UNCHANGED <<queueVars, workerVars, parsed, batchVars>>
  PROVE  PlaceInv'
  <1>1. PICK loc : Located(loc)
    BY DEF Inv, PlaceInv
  <1>2. PICK x : x = [loc EXCEPT ![f] = "counted"]
    BY Zenon
  <1>3. Located(x)'
    BY <1>1, <1>2 DEF Located, Inv, TypeOK, Refuse, Count, Places, queueVars, workerVars,
       batchVars
  <1>4. NoFrameTwice'
    BY DEF Inv, PlaceInv, NoFrameTwice, queueVars, workerVars, batchVars
  <1> QED
    BY <1>3, <1>4 DEF PlaceInv

\* Each frame keeps exactly one place, for the steps of Submit.
LEMMA StepPlaceSubmitter ==
  ASSUME Inv, NEW f \in Frames, Submitter(f)
  PROVE  PlaceInv'
  <1>1. PICK loc : Located(loc)
    BY DEF Inv, PlaceInv
  <1>2. ASSUME UNCHANGED <<queueVars, workerVars, parsed, batchVars, ledgerVars>>,
               \A g \in Frames :
                 /\ submit'[g] \in {"new", "checked", "waiting"}
                      <=> submit[g] \in {"new", "checked", "waiting"}
                 /\ submit'[g] = "refused" => submit[g] = "refused"
        PROVE  PlaceInv'
    <2>1. Located(loc)'
      BY ZenonT(60), <1>1, <1>2 DEF Located, queueVars, workerVars, batchVars, ledgerVars
    <2>2. NoFrameTwice'
      BY Zenon, <1>2 DEF Inv, PlaceInv, NoFrameTwice, queueVars, workerVars, batchVars
    <2> QED
      BY <2>1, <2>2 DEF PlaceInv
  <1>3. CASE Submit(f)
    <2>1. CASE accepting
      BY <1>2, <1>3, <2>1 DEF Submit, Inv, TypeOK
    <2>2. CASE ~accepting
      BY <1>3, <2>2, PlaceRefuse DEF Submit
    <2> QED
      BY <2>1, <2>2
  <1>4. CASE SubmitAdmitted(f)
    <2>1. queue' = Append(queue, f)
      BY <1>4 DEF SubmitAdmitted, Queue!Put
    <2>2. /\ Elements(queue') = Elements(queue) \cup {f}
          /\ Injective(queue) /\ f \notin Elements(queue) => Injective(queue')
      BY ZenonT(60), <2>1, ElementsAppend DEF Inv, QueueInv
    <2>3. loc[f] = "outside" /\ f \notin Elements(queue)
      BY Zenon, <1>1, <1>4 DEF Located, SubmitAdmitted
    <2>4. PICK x : x = [loc EXCEPT ![f] = "queue"]
      BY Zenon
    <2>5. Located(x)'
      BY <1>1, <1>4, <2>2, <2>3, <2>4 DEF Located, Inv, TypeOK, SubmitAdmitted, Places,
         workerVars, batchVars, ledgerVars
    <2>6. NoFrameTwice'
      BY <1>4, <2>2, <2>3 DEF Inv, PlaceInv, NoFrameTwice, SubmitAdmitted, workerVars,
         batchVars
    <2> QED
      BY <2>5, <2>6 DEF PlaceInv
  <1>5. CASE SubmitWaits(f)
    BY <1>2, <1>5 DEF SubmitWaits, Inv, TypeOK
  <1>6. CASE SubmitRefused(f)
    BY <1>6, PlaceRefuse DEF SubmitRefused
  <1>7. CASE SubmitAccepted(f)
    BY <1>2, <1>7 DEF SubmitAccepted, Inv, TypeOK
  <1> QED
    BY <1>3, <1>4, <1>5, <1>6, <1>7 DEF Submitter

\* The same for the steps of a parse worker.
LEMMA StepPlaceWorker ==
  ASSUME Inv, NEW w \in Workers, Worker(w)
  PROVE  PlaceInv'
  <1>1. PICK loc : Located(loc)
    BY DEF Inv, PlaceInv
  <1>2. /\ job \in [Workers -> Frames \cup {NoFrame}] /\ NoFrame \notin Frames
        /\ counted \in [Frames -> Nat] /\ NoFrameTwice
        /\ \A v \in Workers : job[v] \in Frames <=> worker[v] \in {"parse", "send"}
    BY Zenon, PipelineAssumption DEF Inv, TypeOK, ControlInv, PlaceInv
  <1>3. CASE WorkerTakes(w)
    <2>1. PICK f \in Frames : Queue!Take(f) /\ Work(w, "parse", f)
      BY <1>3 DEF WorkerTakes
    <2>2. queue # <<>> /\ f = Head(queue) /\ queue' = Tail(queue)
      BY <2>1 DEF Queue!Take
    <2>3. Injective(queue)
      BY <1>2 DEF NoFrameTwice
    <2>4. /\ f \in Elements(queue) /\ Injective(queue')
          /\ Elements(queue') = Elements(queue) \ {f}
      BY <2>2, <2>3, ElementsTail DEF Inv, QueueInv
    <2>5. loc[f] = "queue" /\ job[w] \notin Frames
      BY <1>1, <1>2, <1>3, <2>4 DEF Located, WorkerTakes
    <2>6. job' = [job EXCEPT ![w] = f]
      BY <2>1 DEF Work
    <2>7. PICK x : x = [loc EXCEPT ![f] = "worker"]
      BY Zenon
    <2>8. \A g \in Frames : (\E v \in Workers : job'[v] = g)
                              <=> (g = f \/ \E v \in Workers : job[v] = g)
      BY Zenon, <1>2, <2>5, <2>6
    <2>9. UNCHANGED <<submit, parsed, batchVars, ledgerVars>>
      BY ZenonT(60), <1>3 DEF WorkerTakes
    <2>10. Located(x)'
      <3>1. /\ x \in [Frames -> Places \cup {"outside", "counted"}]
            /\ x[f] = "worker" /\ \A g \in Frames : g # f => x[g] = loc[g]
        BY <1>1, <2>7 DEF Located, Places
      <3>2. UNCHANGED <<submit, parsed, batch, held, counted>>
        BY Zenon, <2>9 DEF batchVars, ledgerVars
      <3>3. \A g \in Frames : g \in Elements(queue') <=> x[g] = "queue"
        BY <1>1, <2>4, <3>1 DEF Located
      <3>4. \A g \in Frames : (\E v \in Workers : job'[v] = g) <=> x[g] = "worker"
        BY ZenonT(60), <1>1, <2>8, <3>1 DEF Located
      <3>5. \A g \in Frames : /\ g \in Elements(parsed) <=> x[g] = "parsed"
                              /\ g \in Elements(batch) <=> x[g] = "batch"
        BY ZenonT(60), <1>1, <2>5, <3>1 DEF Located
      <3>6. \A g \in Frames : /\ held = g <=> x[g] = "held"
                              /\ x[g] = "outside" <=> submit[g] \in {"new", "checked", "waiting"}
        BY ZenonT(60), <1>1, <2>5, <3>1 DEF Located
      <3>7. \A g \in Frames : /\ counted[g] = IF x[g] = "counted" THEN 1 ELSE 0
                              /\ submit[g] = "refused" => x[g] = "counted"
        BY ZenonT(60), <1>1, <2>5, <3>1 DEF Located
      <3> QED
        BY Zenon, <3>1, <3>2, <3>3, <3>4, <3>5, <3>6, <3>7 DEF Located
    <2>11. NoFrameTwice'
      <3>1. \A v \in Workers : job[v] # f
        BY <1>1, <2>5 DEF Located
      <3>2. \A u, v \in Workers : job'[u] = job'[v] /\ job'[u] # NoFrame => u = v
        BY <1>2, <2>6, <3>1 DEF NoFrameTwice
      <3> QED
        BY ZenonT(60), <1>2, <2>4, <2>9, <3>2 DEF NoFrameTwice, batchVars
    <2> QED
      BY <2>10, <2>11 DEF PlaceInv
  <1>4. ASSUME worker[w] \in {"parse", "send"}, job' = [job EXCEPT ![w] = NoFrame]
        PROVE  /\ job[w] \in Frames /\ loc[job[w]] = "worker"
               /\ \A g \in Frames : (\E v \in Workers : job'[v] = g)
                     <=> (g # job[w] /\ \E v \in Workers : job[v] = g)
               /\ \A u, v \in Workers : job'[u] = job'[v] /\ job'[u] # NoFrame => u = v
    <2>1. job[w] \in Frames /\ loc[job[w]] = "worker"
      BY ZenonT(60), <1>1, <1>2, <1>4 DEF Located
    <2>2. \A g \in Frames : (\E v \in Workers : job'[v] = g)
                     <=> (g # job[w] /\ \E v \in Workers : job[v] = g)
      BY <1>2, <1>4, <2>1 DEF NoFrameTwice
    <2>3. \A u, v \in Workers : job'[u] = job'[v] /\ job'[u] # NoFrame => u = v
      BY <1>2, <1>4 DEF NoFrameTwice
    <2> QED
      BY Zenon, <2>1, <2>2, <2>3
  <1>5. ASSUME worker[w] \in {"parse", "send"}, job' = [job EXCEPT ![w] = NoFrame],
               NEW o, Count({job[w]}, o),
               UNCHANGED <<queueVars, submit, parsed, batchVars>>
        PROVE  PlaceInv'
    <2>1. PICK j : j = job[w]
      BY Zenon
    <2>2. /\ j \in Frames /\ loc[j] = "worker"
          /\ \A g \in Frames : (\E v \in Workers : job'[v] = g)
                     <=> (g # j /\ \E v \in Workers : job[v] = g)
          /\ \A u, v \in Workers : job'[u] = job'[v] /\ job'[u] # NoFrame => u = v
      BY <1>4, <1>5, <2>1
    <2>3. PICK x : x = [loc EXCEPT ![j] = "counted"]
      BY Zenon
    <2>4. counted' = [g \in Frames |-> counted[g] + (IF g = j THEN 1 ELSE 0)]
      BY Zenon, <1>5, <2>1 DEF Count
    <2>5. Located(x)'
      BY <1>1, <1>2, <1>5, <2>2, <2>3, <2>4 DEF Located, Places, queueVars, batchVars
    <2>6. NoFrameTwice'
      BY ZenonT(60), <1>2, <1>5, <2>2 DEF NoFrameTwice, queueVars, batchVars
    <2> QED
      BY <2>5, <2>6 DEF PlaceInv
  <1>6. CASE WorkerQuits(w) \/ WorkerWaits(w)
    <2>1. job[w] = NoFrame
      BY <1>2, <1>6 DEF WorkerQuits, WorkerWaits
    <2>2. job' = job
      BY <1>2, <1>6, <2>1 DEF WorkerQuits, WorkerWaits, Work
    <2> QED
      BY <1>1, <1>2, <1>6, <2>2 DEF WorkerQuits, WorkerWaits, PlaceInv, Located,
         NoFrameTwice, queueVars, batchVars, ledgerVars
  <1>7. CASE WorkerDrops(w)
    BY Zenon, <1>5, <1>7 DEF WorkerDrops, Work
  <1>8. CASE WorkerParses(w)
    <2>1. job' = job
      BY Zenon, <1>2, <1>8 DEF WorkerParses, Work
    <2> QED
      BY <1>1, <1>2, <1>8, <2>1 DEF WorkerParses, PlaceInv, Located, NoFrameTwice,
         queueVars, batchVars, ledgerVars
  <1>9. CASE WorkerSends(w)
    <2>1. PICK j : j = job[w]
      OBVIOUS
    <2>2. /\ j \in Frames /\ loc[j] = "worker"
          /\ \A g \in Frames : (\E v \in Workers : job'[v] = g)
                     <=> (g # j /\ \E v \in Workers : job[v] = g)
          /\ \A u, v \in Workers : job'[u] = job'[v] /\ job'[u] # NoFrame => u = v
      BY Zenon, <1>4, <1>9, <2>1 DEF WorkerSends, Work
    <2>3. parsed' = Append(parsed, j) /\ parsed \in Seq(Frames)
      BY Zenon, <1>9, <2>1 DEF WorkerSends, Inv, TypeOK
    <2>4. /\ Elements(parsed') = Elements(parsed) \cup {j}
          /\ Injective(parsed) /\ j \notin Elements(parsed) => Injective(parsed')
      BY ZenonT(60), <2>2, <2>3, ElementsAppend
    <2>5. j \notin Elements(parsed)
      BY Zenon, <1>1, <2>2 DEF Located
    <2>6. PICK x : x = [loc EXCEPT ![j] = "parsed"]
      BY Zenon
    <2>7. UNCHANGED <<queueVars, submit, batchVars, ledgerVars>>
      BY <1>9 DEF WorkerSends
    <2>8. Located(x)'
      BY ZenonT(60), <1>1, <2>2, <2>4, <2>6, <2>7 DEF Located, Places, queueVars, batchVars, ledgerVars
    <2>9. NoFrameTwice'
      BY Zenon, <1>2, <2>2, <2>4, <2>5, <2>7 DEF NoFrameTwice, queueVars, batchVars
    <2> QED
      BY <2>8, <2>9 DEF PlaceInv
  <1>10. CASE WorkerAbandons(w)
    BY <1>5, <1>10 DEF WorkerAbandons, Work
  <1> QED
    BY <1>3, <1>6, <1>7, <1>8, <1>9, <1>10 DEF Worker

\* The end of appendWithRetry counts the whole batch, once; the entry that was
\* held back becomes the next batch.
LEMMA PlaceFlush ==
  ASSUME Inv, FlushReturns, NEW o, Count(Elements(batch), o),
         UNCHANGED <<queueVars, submit, workerVars, parsed>>
  PROVE  PlaceInv'
  <1>1. PICK loc : Located(loc)
    BY DEF Inv, PlaceInv
  <1>2. /\ held \in Frames \cup {NoFrame} /\ NoFrame \notin Frames
        /\ counted \in [Frames -> Nat] /\ NoFrameTwice
    BY PipelineAssumption DEF Inv, TypeOK, PlaceInv
  <1>3. /\ Elements(batch') = IF held = NoFrame THEN {} ELSE {held}
        /\ Injective(batch') /\ held' = NoFrame
    BY <1>2, FlushReturnsFacts
  <1>4. PICK x : x = [g \in Frames |-> IF loc[g] = "batch" THEN "counted"
                                      ELSE IF loc[g] = "held" THEN "batch" ELSE loc[g]]
    BY Zenon
  <1>5. \A g \in Frames : counted'[g] = counted[g] + (IF loc[g] = "batch" THEN 1 ELSE 0)
    BY Zenon, <1>1 DEF Count, Located
  <1>6. Located(x)'
    <2>1. x \in [Frames -> Places \cup {"outside", "counted"}]
      BY Zenon, <1>1, <1>4 DEF Located, Places
    <2>2. ASSUME NEW f \in Frames
          PROVE  /\ f \in Elements(queue') <=> x[f] = "queue"
                 /\ (\E w \in Workers : job'[w] = f) <=> x[f] = "worker"
                 /\ f \in Elements(parsed') <=> x[f] = "parsed"
                 /\ x[f] = "outside" <=> submit'[f] \in {"new", "checked", "waiting"}
      BY Zenon, <1>1, <1>4 DEF Located, queueVars, workerVars
    <2>3. ASSUME NEW f \in Frames
          PROVE  /\ held' = f <=> x[f] = "held"
                 /\ f \in Elements(batch') <=> x[f] = "batch"
      BY ZenonT(60), <1>1, <1>2, <1>3, <1>4 DEF Located
    <2>4. ASSUME NEW f \in Frames
          PROVE  /\ counted'[f] = IF x[f] = "counted" THEN 1 ELSE 0
                 /\ submit'[f] = "refused" => x[f] = "counted"
      BY SMTT(30), <1>1, <1>2, <1>4, <1>5 DEF Located
    <2> QED
      BY <2>1, <2>2, <2>3, <2>4 DEF Located
  <1>7. NoFrameTwice'
    BY Zenon, <1>2, <1>3 DEF NoFrameTwice, queueVars, workerVars
  <1> QED
    BY <1>6, <1>7 DEF PlaceInv

\* A step of the batch worker that moves no entry.
LEMMA PlaceStays ==
  ASSUME Inv, UNCHANGED <<queueVars, submit, job, parsed, batch, held, ledgerVars>>
  PROVE  PlaceInv'
  <1>1. NoFrameTwice'
    BY Zenon DEF Inv, PlaceInv, NoFrameTwice, queueVars
  <1>2. PICK loc : Located(loc)
    BY Zenon DEF Inv, PlaceInv
  <1>3. Located(loc)'
    BY Zenon, <1>2 DEF Located, queueVars, ledgerVars
  <1> QED
    BY Zenon, <1>1, <1>3 DEF PlaceInv

\* The same for the steps of the batch worker.
LEMMA StepPlaceFlusher ==
  ASSUME Inv, Flusher
  PROVE  PlaceInv'
  <1>1. PICK loc : Located(loc)
    BY Zenon DEF Inv, PlaceInv
  <1>2. /\ parsed \in Seq(Frames) /\ batch \in Seq(Frames) /\ batchBytes \in Nat
        /\ NoFrame \notin Frames /\ NoFrameTwice
        /\ Injective(parsed) /\ Injective(batch)
    BY Zenon, PipelineAssumption DEF Inv, TypeOK, PlaceInv, NoFrameTwice
  <1>3. ASSUME parsed # <<>>, parsed' = Tail(parsed)
        PROVE  /\ Head(parsed) \in Frames /\ loc[Head(parsed)] = "parsed"
               /\ Head(parsed) \notin Elements(batch)
               /\ Injective(parsed') /\ Elements(parsed') = Elements(parsed) \ {Head(parsed)}
    BY <1>1, <1>2, <1>3, ElementsTail DEF Located
  <1>4. ASSUME parsed # <<>>, parsed' = Tail(parsed), UNCHANGED held,
               Elements(batch') = Elements(batch) \cup {Head(parsed)}, Injective(batch'),
               UNCHANGED <<queueVars, submit, workerVars, ledgerVars>>
        PROVE  PlaceInv'
    <2>1. PICK e : e = Head(parsed)
      OBVIOUS
    <2>2. /\ e \in Frames /\ loc[e] = "parsed"
          /\ Injective(parsed') /\ Elements(parsed') = Elements(parsed) \ {e}
      BY <1>3, <1>4, <2>1
    <2>3. PICK x : x = [loc EXCEPT ![e] = "batch"]
      BY Zenon
    <2>4. Located(x)'
      BY ZenonT(60), <1>1, <1>4, <2>1, <2>2, <2>3 DEF Located, Places, queueVars, workerVars, ledgerVars
    <2>5. NoFrameTwice'
      BY Zenon, <1>2, <1>4, <2>2 DEF NoFrameTwice, queueVars, workerVars
    <2> QED
      BY <2>4, <2>5 DEF PlaceInv
  <1>5. CASE BatchReceives
    <2>1. parsed # <<>> /\ parsed' = Tail(parsed)
          /\ UNCHANGED <<queueVars, submit, workerVars, ledgerVars>>
      BY <1>5 DEF BatchReceives
    <2>2. PICK e : e = Head(parsed)
      OBVIOUS
    <2>3. /\ e \in Frames /\ loc[e] = "parsed" /\ e \notin Elements(batch)
          /\ Injective(parsed') /\ Elements(parsed') = Elements(parsed) \ {e}
      BY <1>3, <2>1, <2>2
    <2>4. CASE MustFlushBefore(Head(parsed))
      <3>1. held' = e /\ batch' = batch
        BY <1>5, <2>2, <2>4 DEF BatchReceives
      <3>2. held = NoFrame
        BY <1>5 DEF BatchReceives, Inv, ControlInv, Flushing
      <3>3. PICK x : x = [loc EXCEPT ![e] = "held"]
        BY Zenon
      <3>4. Located(x)'
        BY ZenonT(60), <1>1, <1>2, <2>1, <2>3, <3>1, <3>2, <3>3 DEF Located, Places, queueVars,
           workerVars, ledgerVars
      <3>5. NoFrameTwice'
        BY Zenon, <1>2, <2>1, <2>3, <3>1 DEF NoFrameTwice, queueVars, workerVars
      <3> QED
        BY <3>4, <3>5 DEF PlaceInv
    <2>5. CASE ~MustFlushBefore(Head(parsed))
      <3>1. AddToBatch(batch, batchBytes, e) /\ held' = held
        BY Zenon, <1>5, <2>2, <2>5 DEF BatchReceives
      <3>2. Elements(batch') = Elements(batch) \cup {e} /\ Injective(batch')
        BY <1>2, <2>3, <3>1, AddToBatchFacts
      <3> QED
        BY <1>4, <2>1, <2>2, <3>1, <3>2
    <2> QED
      BY <2>4, <2>5
  <1>6. CASE BatchDrains
    <2>1. parsed # <<>> /\ parsed' = Tail(parsed) /\ batch' = Append(batch, Head(parsed))
          /\ held' = held /\ UNCHANGED <<queueVars, submit, workerVars, ledgerVars>>
      BY <1>6 DEF BatchDrains
    <2>2. Head(parsed) \in Frames /\ Head(parsed) \notin Elements(batch)
      BY <1>3, <2>1
    <2>3. Elements(batch') = Elements(batch) \cup {Head(parsed)} /\ Injective(batch')
      BY <1>2, <2>1, <2>2, ElementsAppend
    <2> QED
      BY <1>4, <2>1, <2>3
  <1>7. CASE BatchTimer \/ BatchStartsDrain \/ BatchEnds \/ BackoffEnds
    BY <1>7, PlaceStays DEF BatchTimer, BatchStartsDrain, BatchEnds, BackoffEnds,
       workerVars
  <1>8. ASSUME AfterError, UNCHANGED <<queueVars, submit, workerVars, parsed>>
        PROVE  PlaceInv'
    <2>1. CASE MayRetry
      BY <1>8, <2>1, PlaceStays DEF AfterError, workerVars
    <2>2. CASE ~MayRetry
      BY <1>8, <2>2, PlaceFlush DEF AfterError
    <2> QED
      BY <2>1, <2>2
  <1>9. CASE AppendCalled
    <2>1. CASE cancelled
      BY <1>8, <1>9, <2>1 DEF AppendCalled
    <2>2. CASE ~cancelled
      BY <1>9, <2>2, PlaceStays DEF AppendCalled, workerVars
    <2> QED
      BY <2>1, <2>2
  <1>10. CASE AppendSucceeds
    BY <1>10, PlaceFlush DEF AppendSucceeds
  <1>11. CASE AppendFails
    BY <1>8, <1>11 DEF AppendFails
  <1> QED
    BY <1>5, <1>6, <1>7, <1>9, <1>10, <1>11 DEF Flusher

\* Every step leaves each frame in exactly one place.
LEMMA StepPlace ==
  ASSUME Inv, [Next]_vars
  PROVE  PlaceInv'
  <1>1. CASE UNCHANGED <<queue, submit, job, parsed, batch, held, ledgerVars>>
    BY SMTT(30), <1>1 DEF Inv, PlaceInv, Located, NoFrameTwice, ledgerVars
  <1>2. CASE CloseParsed \/ Stopper \/ Rest \/ UNCHANGED vars
    BY Zenon, <1>1, <1>2 DEF CloseParsed, Stopper, StopBegins, StopCloses, StopDone,
       StopDeadline, StopForcedDone, StopStep, Queue!Close, Rest, vars, queueVars,
       workerVars, batchVars
  <1> QED
    BY ZenonT(60), <1>2, StepPlaceSubmitter, StepPlaceWorker, StepPlaceFlusher DEF Next
-----------------------------------------------------------------------------
(* Rows in the backend *)

\* A frame in a batch, or held back, has not been counted.
LEMMA BatchIsUncounted ==
  ASSUME Inv
  PROVE  /\ \A f \in Elements(batch) : f \in Frames /\ counted[f] = 0 /\ f # held
         /\ held # NoFrame => held \in Frames /\ counted[held] = 0
  <1>1. PICK loc : Located(loc)
    BY DEF Inv, PlaceInv
  <1>2. Elements(batch) \subseteq Frames /\ held \in Frames \cup {NoFrame}
    BY ElementsInSet DEF Inv, TypeOK
  <1> QED
    BY <1>1, <1>2 DEF Located

\* Steps of other goroutines: the batch stays, and counters only grow.
LEMMA CopiesStay ==
  ASSUME Inv, UNCHANGED <<batch, flusher, attempt, copies>>,
         \A f \in Frames : counted'[f] \in Nat /\ counted'[f] >= counted[f]
  PROVE  CopiesInv'
  <1>1. CopiesInv /\ attempt \in 1..MaxAttempts
        /\ copies \in [Frames -> Nat] /\ counted \in [Frames -> Nat]
    BY DEF Inv, TypeOK
  <1> QED
    BY <1>1, Limits DEF CopiesInv, Budget, Flushing

\* Counting never lowers a count.
LEMMA CountGrows ==
  ASSUME Inv, NEW S, NEW o, Count(S, o)
  PROVE  \A f \in Frames : counted'[f] \in Nat /\ counted'[f] >= counted[f]
  BY DEF Inv, TypeOK, Count

\* The end of appendWithRetry, with at most one more row per entry.
LEMMA CopiesFlush ==
  ASSUME Inv, Flushing, flusher # "backoff", FlushReturns,
         NEW o, Count(Elements(batch), o),
         \A f \in Frames : copies'[f] <= copies[f] + (IF f \in Elements(batch) THEN 1 ELSE 0)
                          /\ copies'[f] \in Nat
  PROVE  CopiesInv'
  <1>1. /\ CopiesInv /\ attempt \in 1..MaxAttempts /\ held \in Frames \cup {NoFrame}
        /\ copies \in [Frames -> Nat] /\ counted \in [Frames -> Nat]
    BY DEF Inv, TypeOK
  <1>2. /\ Elements(batch') = (IF held = NoFrame THEN {} ELSE {held})
        /\ flusher' \in {"select", "call"} /\ attempt' = 1
    BY Zenon, <1>1, FlushReturnsFacts
  <1>3. \A f \in Frames : counted'[f] = counted[f] + (IF f \in Elements(batch) THEN 1 ELSE 0)
    BY DEF Count
  <1> SUFFICES ASSUME NEW f \in Frames
               PROVE  copies'[f] <= Budget(f)'
    BY DEF CopiesInv
  <1>4. CASE f \in Elements(batch)
    <2>1. counted[f] = 0 /\ f \notin Elements(batch')
      BY Zenon, <1>2, <1>4, BatchIsUncounted
    <2>2. Budget(f)' = MaxAttempts
      BY <1>3, <1>4, <2>1 DEF Budget
    <2>3. copies[f] <= attempt - 1
      BY <1>1, <1>4 DEF CopiesInv, Budget
    <2> QED
      BY <1>1, <1>4, <2>2, <2>3, Limits
  <1>5. CASE f \in Elements(batch')
    <2>1. f = held /\ held # NoFrame
      BY Zenon, <1>2, <1>5
    <2>2. counted[f] = 0 /\ f \notin Elements(batch)
      BY <2>1, BatchIsUncounted
    <2>3. copies[f] <= 0
      BY Zenon, <1>1, <2>2 DEF CopiesInv, Budget
    <2>4. counted'[f] = 0
      BY <1>1, <1>3, <2>2
    <2>5. Budget(f)' = 0
      BY <1>2, <1>5, <2>4 DEF Budget, Flushing
    <2>6. copies'[f] <= copies[f]
      BY <1>1, <2>2
    <2> QED
      BY <1>1, <2>3, <2>5, <2>6
  <1>6. CASE f \notin Elements(batch) /\ f \notin Elements(batch')
    <2>1. Budget(f) = Budget(f)' /\ copies'[f] <= copies[f]
      BY SMTT(30), <1>1, <1>3, <1>6 DEF Budget
    <2> QED
      BY SMTT(30), <1>1, <2>1, Limits DEF CopiesInv, Budget
  <1> QED
    BY Zenon, <1>4, <1>5, <1>6

\* Rows stay within the attempts made, for the steps of the batch worker.
LEMMA StepCopiesFlusher ==
  ASSUME Inv, Flusher
  PROVE  CopiesInv'
  <1>1. /\ CopiesInv /\ attempt \in 1..MaxAttempts
        /\ copies \in [Frames -> Nat] /\ counted \in [Frames -> Nat]
        /\ batch \in Seq(Frames) /\ parsed \in Seq(Frames) /\ batchBytes \in Nat
    BY Zenon DEF Inv, TypeOK
  <1>2. \A f \in Frames : f \in Elements(batch') => counted'[f] = 0
    <2>1. PICK loc : Located(loc)'
      BY StepPlaceFlusher DEF PlaceInv
    <2> QED
      BY <2>1 DEF Located
  \* While a batch is filled nothing of it is in the backend.
  <1>3. ASSUME ~Flushing, UNCHANGED <<copies, counted>>, attempt' = 1
        PROVE  CopiesInv'
    <2> SUFFICES ASSUME NEW f \in Frames
                 PROVE  copies'[f] <= Budget(f)'
      BY DEF CopiesInv
    <2>1. copies[f] <= IF counted[f] = 0 THEN 0 ELSE MaxAttempts
      BY <1>1, <1>3 DEF CopiesInv, Budget
    <2>2. CASE f \notin Elements(batch')
      BY <1>3, <2>1, <2>2 DEF Budget
    <2>3. CASE f \in Elements(batch')
      <3>1. copies'[f] <= 0 /\ copies'[f] \in Nat /\ counted'[f] = 0
        BY <1>1, <1>2, <1>3, <2>1, <2>3
      <3>2. Budget(f)' \in {0, 1}
        BY <1>3, <3>1 DEF Budget
      <3> QED
        BY <3>1, <3>2
    <2> QED
      BY <2>2, <2>3
  <1>4. CASE BatchReceives
    <2>1. ~Flushing /\ UNCHANGED <<copies, counted>>
      BY <1>4 DEF BatchReceives, Flushing, ledgerVars
    <2>2. attempt' = 1
      BY <1>4 DEF BatchReceives, StartFlush, AddToBatch
    <2> QED
      BY <1>3, <2>1, <2>2
  <1>5. CASE BatchTimer
    BY <1>3, <1>5 DEF BatchTimer, StartFlush, Flushing, ledgerVars
  <1>6. ASSUME ~Flushing, ~Flushing', UNCHANGED <<copies, counted>>
        PROVE  CopiesInv'
    BY <1>1, <1>6 DEF CopiesInv, Budget
  <1>7. CASE BatchStartsDrain
    BY <1>6, <1>7 DEF BatchStartsDrain, Flushing, ledgerVars
  <1>8. CASE BatchDrains
    BY <1>6, <1>8 DEF BatchDrains, Flushing, ledgerVars
  <1>9. CASE BatchEnds
    <2>1. CASE batch = <<>>
      BY <1>6, <1>9, <2>1 DEF BatchEnds, Flushing, ledgerVars
    <2>2. CASE batch # <<>>
      BY <1>3, <1>9, <2>2 DEF BatchEnds, StartFlush, Flushing, ledgerVars
    <2> QED
      BY <2>1, <2>2
  <1>10. CASE AppendCalled
    <2>1. CASE cancelled
      <3>1. Count(Elements(batch), "storage") /\ FlushReturns
        BY <1>10, <2>1 DEF AppendCalled, AfterError, MayRetry
      <3>2. Flushing /\ flusher # "backoff" /\ copies' = copies
        BY <1>10 DEF AppendCalled, Flushing
      <3>3. \A f \in Frames :
              /\ copies'[f] <= copies[f] + (IF f \in Elements(batch) THEN 1 ELSE 0)
              /\ copies'[f] \in Nat
        BY <1>1, <3>2
      <3> QED
        BY <3>1, <3>2, <3>3, CopiesFlush
    <2>2. CASE ~cancelled
      BY Zenon, <1>1, <1>10, <2>2 DEF AppendCalled, CopiesInv, Budget, Flushing, ledgerVars
    <2> QED
      BY <2>1, <2>2
  <1>11. CASE AppendSucceeds
    <2>1. \A f \in Frames :
            /\ copies'[f] <= copies[f] + (IF f \in Elements(batch) THEN 1 ELSE 0)
            /\ copies'[f] \in Nat
      BY <1>1, <1>11 DEF AppendSucceeds, Write
    <2> QED
      BY <1>11, <2>1, CopiesFlush DEF AppendSucceeds, Flushing
  <1>12. CASE AppendFails
    <2>1. PICK n \in 0..Len(batch) : Write(Elements(SubSeq(batch, 1, n)))
      BY <1>12 DEF AppendFails
    <2>2. Elements(SubSeq(batch, 1, n)) \subseteq Elements(batch)
      BY <1>1, ElementsPrefix
    <2>3. \A f \in Frames :
            /\ copies'[f] <= copies[f] + (IF f \in Elements(batch) THEN 1 ELSE 0)
            /\ copies'[f] \in Nat
      BY <1>1, <2>1, <2>2 DEF Write
    <2>4. CASE MayRetry
      <3>1. flusher = "inflight" /\ flusher' = "backoff"
            /\ UNCHANGED <<batch, attempt, counted>>
        BY <1>12, <2>4 DEF AppendFails, AfterError, ledgerVars
      <3> SUFFICES ASSUME NEW f \in Frames
                   PROVE  copies'[f] <= Budget(f)'
        BY DEF CopiesInv
      <3>2. copies[f] <= Budget(f)
        BY <1>1 DEF CopiesInv
      <3>3. CASE f \in Elements(batch)
        <4>1. Budget(f) = attempt - 1 /\ Budget(f)' = attempt
          BY <3>1, <3>3 DEF Budget, Flushing
        <4> QED
          BY <1>1, <2>3, <3>2, <3>3, <4>1
      <3>4. CASE f \notin Elements(batch)
        <4>1. Budget(f)' = Budget(f) /\ Budget(f) \in Nat
          BY Zenon, <3>1, <3>4, Limits DEF Budget, Flushing
        <4> QED
          BY <1>1, <2>3, <3>2, <3>4, <4>1
      <3> QED
        BY <3>3, <3>4
    <2>5. CASE ~MayRetry
      BY Zenon, <1>12, <2>3, <2>5, CopiesFlush DEF AppendFails, AfterError, Flushing
    <2> QED
      BY <2>4, <2>5
  <1>13. CASE BackoffEnds
    BY <1>1, <1>13 DEF BackoffEnds, CopiesInv, Budget, Flushing, ledgerVars
  <1> QED
    BY <1>4, <1>5, <1>7, <1>8, <1>9, <1>10, <1>11, <1>12, <1>13 DEF Flusher

\* Every step keeps the rows of a frame within the attempts made for it.
LEMMA StepCopies ==
  ASSUME Inv, [Next]_vars
  PROVE  CopiesInv'
  <1>1. counted \in [Frames -> Nat]
    BY DEF Inv, TypeOK
  <1>2. ASSUME UNCHANGED <<batch, flusher, attempt, copies, counted>>
        PROVE  CopiesInv'
    BY <1>1, <1>2, CopiesStay
  <1>3. ASSUME UNCHANGED <<batch, flusher, attempt, copies>>, NEW S, NEW o, Count(S, o)
        PROVE  CopiesInv'
    BY ZenonT(60), <1>3, CopiesStay, CountGrows
  <1>4. ASSUME NEW f \in Frames, Submitter(f)
        PROVE  CopiesInv'
    BY <1>2, <1>3, <1>4 DEF Submitter, Submit, SubmitAdmitted, SubmitWaits, SubmitRefused,
       SubmitAccepted, Refuse, batchVars, ledgerVars
  <1>5. ASSUME NEW w \in Workers, Worker(w)
        PROVE  CopiesInv'
    BY ZenonT(60), <1>2, <1>3, <1>5 DEF Worker, WorkerTakes, WorkerWaits, WorkerQuits, WorkerDrops, WorkerParses,
       WorkerSends, WorkerAbandons, batchVars, ledgerVars
  <1>6. CASE CloseParsed \/ Stopper \/ Rest \/ UNCHANGED vars
    BY <1>2, <1>6 DEF CloseParsed, Stopper, StopBegins, StopCloses, StopDone,
       StopDeadline, StopForcedDone, StopStep, Rest, vars, batchVars, ledgerVars
  <1> QED
    BY Zenon, <1>4, <1>5, <1>6, StepCopiesFlusher DEF Next

\* Only a successful Append counts as stored, and it writes what it counts.
LEMMA StepStored ==
  ASSUME Inv, [Next]_vars
  PROVE  StoredIsInBackend'
  <1>1. /\ StoredIsInBackend /\ copies \in [Frames -> Nat]
    BY DEF Inv, TypeOK
  <1>2. ASSUME UNCHANGED <<copies, ledgerVars>>
        PROVE  StoredIsInBackend'
    BY <1>1, <1>2 DEF StoredIsInBackend, ledgerVars
  <1>3. ASSUME NEW S, NEW o, Count(S, o), o # "stored",
               \A f \in Frames : copies'[f] \in Nat /\ copies'[f] >= copies[f]
        PROVE  StoredIsInBackend'
    BY <1>1, <1>3 DEF StoredIsInBackend, Count
  <1>4. ASSUME copies' = copies, NEW S, NEW o, Count(S, o), o # "stored"
        PROVE  StoredIsInBackend'
    BY <1>1, <1>3, <1>4
  <1>5. ASSUME NEW f \in Frames, Submitter(f)
        PROVE  StoredIsInBackend'
    <2>1. copies' = copies /\ (UNCHANGED ledgerVars \/ Count({f}, "admission"))
      BY Zenon, <1>5 DEF Submitter, Submit, SubmitAdmitted, SubmitWaits, SubmitRefused,
         SubmitAccepted, Refuse
    <2>2. "admission" # "stored"
      OBVIOUS
    <2> QED
      BY Zenon, <1>2, <1>4, <2>1, <2>2
  <1>6. ASSUME NEW w \in Workers, Worker(w)
        PROVE  StoredIsInBackend'
    <2>1. CASE WorkerDrops(w)
      <3>1. PICK o \in {"parser", "normalization"} : Count({job[w]}, o)
        BY Zenon, <2>1 DEF WorkerDrops
      <3> QED
        BY Zenon, <1>4, <2>1, <3>1 DEF WorkerDrops
    <2>2. CASE WorkerAbandons(w)
      BY Zenon, <1>4, <2>2 DEF WorkerAbandons
    <2> QED
      BY Zenon, <1>2, <1>6, <2>1, <2>2 DEF Worker, WorkerTakes, WorkerWaits, WorkerQuits, WorkerParses,
         WorkerSends
  <1>7. CASE Flusher
    <2>1. CASE AppendSucceeds
      <3>1. Write(Elements(batch)) /\ Count(Elements(batch), "stored")
        BY Zenon, <2>1 DEF AppendSucceeds
      <3>2. \A f \in Frames :
              /\ copies'[f] = copies[f] + (IF f \in Elements(batch) THEN 1 ELSE 0)
              /\ outcome'[f] = IF f \in Elements(batch) THEN "stored" ELSE outcome[f]
        BY Zenon, <3>1 DEF Write, Count
      <3> QED
        BY <1>1, <3>2 DEF StoredIsInBackend
    <2>2. CASE AppendFails
      <3>1. \A f \in Frames : copies'[f] \in Nat /\ copies'[f] >= copies[f]
        BY <1>1, <2>2 DEF AppendFails, Write
      <3>2. CASE MayRetry
        <4>1. outcome' = outcome
          BY Zenon, <2>2, <3>2 DEF AppendFails, AfterError, ledgerVars
        <4> QED
          BY <1>1, <3>1, <4>1 DEF StoredIsInBackend
      <3>3. CASE ~MayRetry
        BY Zenon, <1>3, <2>2, <3>1, <3>3 DEF AppendFails, AfterError
      <3> QED
        BY Zenon, <3>2, <3>3
    <2>3. CASE AppendCalled
      BY Zenon, <1>2, <1>4, <2>3 DEF AppendCalled, AfterError
    <2> QED
      BY <1>2, <1>7, <2>1, <2>2, <2>3 DEF Flusher, BatchReceives, BatchTimer,
         BatchStartsDrain, BatchDrains, BatchEnds, BackoffEnds
  <1>8. CASE CloseParsed \/ Stopper \/ Rest \/ UNCHANGED vars
    BY <1>2, <1>8 DEF CloseParsed, Stopper, StopBegins, StopCloses, StopDone,
       StopDeadline, StopForcedDone, StopStep, Rest, vars
  <1> QED
    BY <1>5, <1>6, <1>7, <1>8 DEF Next
-----------------------------------------------------------------------------
(* Batch limits *)

\* Every step keeps the batch within its limits until the deadline.
LEMMA StepBatch ==
  ASSUME Inv, [Next]_vars
  PROVE  BatchInv'
  <1>1. /\ BatchInv /\ batch \in Seq(Frames) /\ batchBytes \in Nat /\ Len(batch) \in Nat
        /\ held \in Frames \cup {NoFrame}
    BY LenProperties DEF Inv, TypeOK
  <1>2. ASSUME UNCHANGED <<batch, batchBytes, flusher>>, cancelled => cancelled'
        PROVE  BatchInv'
    BY <1>1, <1>2 DEF BatchInv, BatchWithinLimits
  <1>3. ASSUME NEW f \in Frames, Submitter(f)
        PROVE  BatchInv'
    BY Zenon, <1>2, <1>3 DEF Submitter, Submit, SubmitAdmitted, SubmitWaits, SubmitRefused,
       SubmitAccepted, batchVars, cancelled
  <1>4. ASSUME NEW w \in Workers, Worker(w)
        PROVE  BatchInv'
    BY ZenonT(60), <1>2, <1>4 DEF Worker, WorkerTakes, WorkerWaits, WorkerQuits, WorkerDrops, WorkerParses,
       WorkerSends, WorkerAbandons, batchVars, cancelled
  <1>5. CASE CloseParsed \/ Stopper \/ Rest \/ UNCHANGED vars
    BY <1>2, <1>5 DEF CloseParsed, Stopper, StopBegins, StopCloses, StopDone,
       StopDeadline, StopForcedDone, StopStep, Rest, vars, batchVars, cancelled
  <1>6. CASE Flusher
    <2>1. cancelled' <=> cancelled
      BY <1>6 DEF Flusher, BatchReceives, BatchTimer, BatchStartsDrain, BatchDrains,
         BatchEnds, AppendCalled, AppendSucceeds, AppendFails, BackoffEnds, cancelled
    <2>2. ASSUME FlushReturns
          PROVE  BatchInv'
      <3>1. /\ batch' \in Seq(Frames) /\ Len(batch') <= 1
            /\ Len(batch') = 0 => batchBytes' = 0
            /\ flusher' = "select" => Len(batch') < BatchMaxEvents
        BY <1>1, <2>2, FlushReturnsFacts
      <3>2. Len(batch') \in Nat
        BY <3>1, LenProperties
      <3>3. /\ Len(batch') <= BatchMaxEvents
            /\ batchBytes' <= BatchMaxBytes \/ Len(batch') = 1
        <4>1. CASE Len(batch') = 0
          <5>1. batchBytes' = 0
            BY <3>1, <4>1
          <5> QED
            BY <4>1, <5>1, Limits
        <4>2. CASE Len(batch') = 1
          BY <4>2, Limits
        <4>3. Len(batch') \in {0, 1}
          <5>1. \A n \in Nat : n <= 1 => n \in {0, 1}
            OBVIOUS
          <5> QED
            BY <3>1, <3>2, <5>1
        <4> QED
          BY <4>1, <4>2, <4>3
      <3> QED
        BY <3>1, <3>3 DEF BatchInv, BatchWithinLimits
    <2>3. ASSUME UNCHANGED <<batch, batchBytes>>, flusher' # "select"
          PROVE  BatchInv'
      BY <1>1, <2>1, <2>3 DEF BatchInv, BatchWithinLimits
    <2>4. CASE BatchReceives
      <3>1. CASE MustFlushBefore(Head(parsed))
        BY <2>3, <2>4, <3>1 DEF BatchReceives, StartFlush
      <3>2. CASE ~MustFlushBefore(Head(parsed))
        <4>1. Head(parsed) \in Frames
          BY <2>4, HeadTailProperties DEF BatchReceives, Inv, TypeOK
        <4>2. AddToBatch(batch, batchBytes, Head(parsed))
          BY Zenon, <2>4, <3>2 DEF BatchReceives
        <4>3. /\ Len(batch') = Len(batch) + 1
              /\ batchBytes' = batchBytes + EntrySize[Head(parsed)]
              /\ flusher' = "select" => Len(batch') < BatchMaxEvents
          BY <1>1, <4>1, <4>2, AddToBatchFacts
        <4>4. Len(batch) = 0 \/ batchBytes + EntrySize[Head(parsed)] <= BatchMaxBytes
          <5>1. batch = <<>> => Len(batch) = 0
            BY EmptySeq
          <5>2. EntrySize[Head(parsed)] \in Nat
            BY <4>1, PipelineAssumption
          <5> QED
            BY <1>1, <3>2, <5>1, <5>2, Limits DEF MustFlushBefore
        <4>5. ~cancelled => Len(batch) < BatchMaxEvents
          BY Zenon, <1>1, <2>4 DEF BatchInv, BatchReceives
        <4> QED
          BY <1>1, <2>1, <4>3, <4>4, <4>5, Limits DEF BatchInv, BatchWithinLimits
      <3> QED
        BY <3>1, <3>2
    <2>5. CASE BatchDrains
      BY Zenon, <2>1, <2>5 DEF BatchDrains, BatchInv, BatchWithinLimits, Inv, ControlInv
    <2>6. CASE BatchTimer \/ BatchStartsDrain \/ BatchEnds \/ BackoffEnds
      BY <2>3, <2>6 DEF BatchTimer, BatchStartsDrain, BatchEnds, BackoffEnds, StartFlush
    <2>7. ASSUME AfterError
          PROVE  BatchInv'
      BY Zenon, <2>2, <2>3, <2>7 DEF AfterError
    <2>8. CASE AppendCalled \/ AppendSucceeds \/ AppendFails
      BY <2>2, <2>3, <2>7, <2>8 DEF AppendCalled, AppendSucceeds, AppendFails
    <2> QED
      BY ZenonT(60), <1>6, <2>4, <2>5, <2>6, <2>8 DEF Flusher
  <1> QED
    BY Zenon, <1>3, <1>4, <1>5, <1>6 DEF Next
-----------------------------------------------------------------------------
(* The theorems *)

\* The pipeline starts empty, with nothing counted.
LEMMA InitInv == Init => Inv
  <1> SUFFICES ASSUME Init PROVE Inv
    OBVIOUS
  <1>1. queue = <<>> /\ queueBytes = 0 /\ closed = FALSE
    BY DEF Init, Queue!Init
  <1>2. parsed = <<>> /\ batch = <<>> /\ batchBytes = 0 /\ <<>> \in Seq(Frames)
        /\ Len(<<>>) = 0 /\ 0 \in 0..MaxBytes /\ 1 \in 1..MaxAttempts
    BY EmptySeq, QueueAssumption, Limits DEF Init
  <1>3. TypeOK
    <2>1. /\ queue \in Seq(Frames) /\ queueBytes \in 0..MaxBytes /\ closed \in BOOLEAN
          /\ parsed \in Seq(Frames) /\ batch \in Seq(Frames) /\ batchBytes \in Nat
      BY Zenon, <1>1, <1>2
    <2>3. Len(parsed) <= ParsedCap /\ attempt \in 1..MaxAttempts
      <3>1. Len(parsed) = 0 /\ attempt = 1
        BY <1>2 DEF Init
      <3> QED
        BY <3>1, Limits
    <2>2. /\ submit \in [Frames -> {"new", "checked", "waiting", "admitted",
                                    "accepted", "refused"}]
          /\ worker \in [Workers -> {"dequeue", "asleep", "parse", "send", "exited"}]
          /\ job \in [Workers -> Frames \cup {NoFrame}]
          /\ copies \in [Frames -> Nat] /\ counted \in [Frames -> Nat]
          /\ outcome \in [Frames -> Outcomes \cup {"none"}]
      BY DEF Init
    <2> QED
      BY Zenon, <2>1, <2>2, <2>3 DEF Init, TypeOK
  <1>4. QueueInv
    BY Zenon, <1>1, <1>2, LedgerEmpty DEF QueueInv
  <1>5. ControlInv
    BY Zenon, <1>1, PipelineAssumption DEF Init, ControlInv, Flushing
  <1>6. PlaceInv
    <2>1. PICK x : x = [f \in Frames |-> "outside"]
      BY Zenon
    <2>2. Located(x)
      BY <1>1, <1>2, <2>1, ElementsEmpty, PipelineAssumption DEF Init, Located
    <2>3. NoFrameTwice
      BY <1>1, <1>2, ElementsEmpty DEF Init, NoFrameTwice
    <2> QED
      BY <2>2, <2>3 DEF PlaceInv
  <1>7. CopiesInv
    <2> SUFFICES ASSUME NEW f \in Frames
                 PROVE  copies[f] <= Budget(f)
      BY Zenon DEF CopiesInv
    <2>1. copies[f] = 0 /\ counted[f] = 0 /\ ~Flushing
      BY Zenon DEF Init, Flushing
    <2>2. Budget(f) = 0
      BY Zenon, <2>1 DEF Budget
    <2>3. 0 <= 0
      OBVIOUS
    <2> QED
      BY <2>1, <2>2, <2>3, Zenon
  <1>8. BatchInv
    BY <1>2, Limits DEF Init, BatchInv, BatchWithinLimits
  <1>9. StoredIsInBackend
    BY DEF Init, StoredIsInBackend
  <1> QED
    BY <1>3, <1>4, <1>5, <1>6, <1>7, <1>8, <1>9 DEF Inv

\* The inductive invariant holds in every reachable state.
THEOREM PipelineInvariant == Spec => []Inv
  <1>1. Init => Inv
    BY InitInv
  <1>2. Inv /\ [Next]_vars => Inv'
    BY StepType, StepQueue, StepControl, StepPlace, StepCopies, StepBatch, StepStored
       DEF Inv
  <1> QED
    BY <1>1, <1>2, PTL DEF Spec

\* Type correctness of the pipeline, the queue's byte counter included.
THEOREM PipelineTypeOK == Spec => []TypeOK
  <1>1. Inv => TypeOK
    BY DEF Inv
  <1> QED
    BY <1>1, PipelineInvariant, PTL

\* Every frame is in one place, or counted once, or not yet decided.
THEOREM PipelineAccounting == Spec => []EveryFrameAccountedOnce
  <1>1. Inv => EveryFrameAccountedOnce
    <2> SUFFICES ASSUME Inv, NEW f \in Frames
                 PROVE  IF Admitted(f) /\ counted[f] = 0
                        THEN \E place \in Places : {p \in Places : At(p, f)} = {place}
                        ELSE /\ ~InFlight(f)
                             /\ counted[f] = IF Admitted(f) \/ submit[f] = "refused"
                                             THEN 1 ELSE 0
      BY Zenon DEF EveryFrameAccountedOnce
    <2>1. PICK loc : Located(loc)
      BY DEF Inv, PlaceInv
    <2>2. \A p \in Places : At(p, f) <=> loc[f] = p
      BY Zenon, <2>1 DEF Located, At, Places
    <2>3. loc[f] \in Places \cup {"outside", "counted"}
          /\ "outside" \notin Places /\ "counted" \notin Places
      BY Zenon, <2>1 DEF Located, Places
    <2>4. loc[f] = "outside" <=> submit[f] \in {"new", "checked", "waiting"}
      BY Zenon, <2>1 DEF Located
    <2>5. counted[f] = (IF loc[f] = "counted" THEN 1 ELSE 0)
          /\ (submit[f] = "refused" => loc[f] = "counted")
      BY <2>1 DEF Located
    <2>6. submit[f] \in {"new", "checked", "waiting", "admitted", "accepted", "refused"}
      BY Zenon DEF Inv, TypeOK
    <2>7. CASE loc[f] \in Places
      <3>1. {p \in Places : At(p, f)} = {loc[f]}
        BY <2>2, <2>7
      <3>2. Admitted(f) /\ counted[f] = 0
        BY Zenon, <2>3, <2>4, <2>5, <2>6, <2>7 DEF Admitted
      <3> QED
        BY <2>7, <3>1, <3>2
    <2>8. CASE loc[f] = "outside"
      BY Zenon, <2>2, <2>3, <2>4, <2>5, <2>8 DEF Admitted, InFlight
    <2>9. CASE loc[f] = "counted"
      BY SMTT(30), <2>2, <2>3, <2>4, <2>5, <2>6, <2>9 DEF Admitted, InFlight
    <2> QED
      BY <2>3, <2>7, <2>8, <2>9
  <1> QED
    BY <1>1, PipelineInvariant, PTL

\* No frame is held twice.
THEOREM PipelineNoDuplicates == Spec => []NoFrameTwice
  <1>1. Inv => NoFrameTwice
    BY ZenonT(60) DEF Inv, PlaceInv
  <1> QED
    BY <1>1, PipelineInvariant, PTL

\* A Stop that returns nil leaves no admitted frame uncounted.
THEOREM PipelineGracefulStop == Spec => []GracefulStopSettlesAll
  <1>1. Inv => GracefulStopSettlesAll
    <2> SUFFICES ASSUME Inv, stop = "ok", NEW f \in Frames, Admitted(f)
                 PROVE  counted[f] = 1
      BY DEF GracefulStopSettlesAll
    <2>1. PICK loc : Located(loc)
      BY DEF Inv, PlaceInv
    <2>2. flusher = "done" /\ ~cancelled
      BY DEF Inv, ControlInv, cancelled
    <2>3. /\ parsed = <<>> /\ batch = <<>> /\ held = NoFrame
          /\ \A w \in Workers : worker[w] = "exited"
      BY Zenon, <2>2 DEF Inv, ControlInv, Flushing
    <2>4. queue = <<>> /\ \A w \in Workers : job[w] \notin Frames
      BY ZenonT(60), <2>2, <2>3, PipelineAssumption DEF Inv, ControlInv
    <2>5. loc[f] \notin Places
      BY SMTT(30), <2>1, <2>3, <2>4, ElementsEmpty, PipelineAssumption DEF Located, Places
    <2>6. loc[f] # "outside"
      BY ZenonT(60), <2>1 DEF Located, Admitted
    <2> QED
      BY <2>1, <2>5, <2>6 DEF Located
  <1> QED
    BY <1>1, PipelineInvariant, PTL

\* A worker never sends on the closed channel.
THEOREM PipelineNoSendOnClosed == Spec => []NoSendOnClosedChannel
  <1>1. Inv => NoSendOnClosedChannel
    BY DEF Inv, ControlInv, NoSendOnClosedChannel
  <1> QED
    BY <1>1, PipelineInvariant, PTL

\* What is counted as stored is in the backend.
THEOREM PipelineStored == Spec => []StoredIsInBackend
  <1>1. Inv => StoredIsInBackend
    BY DEF Inv
  <1> QED
    BY <1>1, PipelineInvariant, PTL

\* At most max_attempts rows per frame.
THEOREM PipelineRetryBudget == Spec => []CopiesWithinRetryBudget
  <1>1. Inv => CopiesWithinRetryBudget
    <2> SUFFICES ASSUME Inv, NEW f \in Frames
                 PROVE  copies[f] <= MaxAttempts
      BY Zenon DEF CopiesWithinRetryBudget
    <2>1. copies[f] \in Nat /\ attempt \in 1..MaxAttempts /\ copies[f] <= Budget(f)
      BY DEF Inv, TypeOK, CopiesInv
    <2>2. Budget(f) \in {attempt, attempt - 1, 0, MaxAttempts}
      BY DEF Budget
    <2> QED
      BY <2>1, <2>2, Limits
  <1> QED
    BY <1>1, PipelineInvariant, PTL

\* Both batch limits hold until the deadline.
THEOREM PipelineBatchLimits == Spec => []BatchWithinLimits
  <1>1. Inv => BatchWithinLimits
    BY DEF Inv, BatchInv
  <1> QED
    BY <1>1, PipelineInvariant, PTL

\* The batch worker that closed done is the last to touch backend and counters.
THEOREM PipelineNothingAfterDone == Spec => NothingAfterDone
  <1> DEFINE Quiet == flusher = "done" =>
                        /\ flusher' = "done"
                        /\ UNCHANGED copies
                        /\ \A f \in Frames : counted'[f] # counted[f]
                                               => submit'[f] = "refused"
  <1>1. Inv /\ [Next]_vars => [Quiet]_vars
    <2> SUFFICES ASSUME Inv, Next, flusher = "done"
                 PROVE  /\ flusher' = "done"
                        /\ UNCHANGED copies
                        /\ \A f \in Frames : counted'[f] # counted[f]
                                               => submit'[f] = "refused"
      OBVIOUS
    <2>1. \A w \in Workers : worker[w] = "exited"
      BY Zenon DEF Inv, ControlInv
    <2>2. parsedClosed /\ counted \in [Frames -> Nat]
          /\ submit \in [Frames -> {"new", "checked", "waiting", "admitted", "accepted",
                                     "refused"}]
      BY ZenonT(60) DEF Inv, ControlInv, TypeOK
    <2>3. ASSUME NEW f \in Frames, Submitter(f)
          PROVE  /\ flusher' = "done" /\ UNCHANGED copies
                 /\ \A g \in Frames : counted'[g] # counted[g] => submit'[g] = "refused"
      BY SMTT(30), <2>2, <2>3 DEF Submitter, Submit, SubmitAdmitted, SubmitWaits, SubmitRefused,
         SubmitAccepted, Refuse, Count, batchVars, ledgerVars
    <2>4. ~ \E w \in Workers : Worker(w)
      BY Zenon, <2>1 DEF Worker, WorkerTakes, WorkerWaits, WorkerQuits, WorkerDrops, WorkerParses,
         WorkerSends, WorkerAbandons
    <2>5. ~Flusher
      BY ZenonT(60) DEF Flusher, BatchReceives, BatchTimer, BatchStartsDrain, BatchDrains, BatchEnds,
         AppendCalled, AppendSucceeds, AppendFails, BackoffEnds
    <2>6. CASE CloseParsed \/ Stopper \/ Rest
      BY <2>2, <2>6 DEF CloseParsed, Stopper, StopBegins, StopCloses, StopDone,
         StopDeadline, StopForcedDone, StopStep, Rest, vars, batchVars, ledgerVars
    <2> QED
      BY Zenon, <2>3, <2>4, <2>5, <2>6 DEF Next
  <1> QED
    BY <1>1, PipelineInvariant, PTL DEF Spec, NothingAfterDone
=============================================================================
