-------------------------- MODULE FrameQueueProofs --------------------------
(***************************************************************************)
(* The frame queue, for every number of callers and every limit: its type  *)
(* invariant, the exactness of its byte counter, the bound on its slice,   *)
(* the absence of lost wake-ups, and that it implements BoundedFifo.       *)
(***************************************************************************)
EXTENDS FrameQueue, Integers, SequenceTheorems, TLAPS
-----------------------------------------------------------------------------
(* Slices of the backing array *)

\* What a slice reads: the code's q.items[head:], element by element.
LEMMA SliceFacts ==
  ASSUME NEW S, NEW s \in Seq(S), NEW h \in 0..Len(s)
  PROVE  /\ SubSeq(s, h + 1, Len(s)) \in Seq(S)
         /\ Len(SubSeq(s, h + 1, Len(s))) = Len(s) - h
         /\ \A i \in 1..Len(s) - h : SubSeq(s, h + 1, Len(s))[i] = s[h + i]
  <1>1. Len(s) \in Nat /\ h \in Int
    BY LenProperties
  <1>2. \A i \in h+1..Len(s) : s[i] \in S
    BY <1>1, ElementOfSeq
  <1> QED
    BY <1>1, <1>2, SubSeqProperties

\* append(q.items, item) appends to the pending slice.
LEMMA SliceAppend ==
  ASSUME NEW S, NEW s \in Seq(S), NEW h \in 0..Len(s), NEW e \in S
  PROVE  SubSeq(Append(s, e), h + 1, Len(Append(s, e)))
           = Append(SubSeq(s, h + 1, Len(s)), e)
  <1> DEFINE p == SubSeq(s, h + 1, Len(s))
             t == Append(s, e)
             q == SubSeq(t, h + 1, Len(t))
  <1>1. /\ p \in Seq(S) /\ Len(p) = Len(s) - h
        /\ \A i \in 1..Len(s) - h : p[i] = s[h + i]
    BY SliceFacts
  <1>2. /\ t \in Seq(S) /\ Len(t) = Len(s) + 1 /\ t[Len(s) + 1] = e
        /\ \A i \in 1..Len(s) : t[i] = s[i]
    BY AppendProperties
  <1>3. Len(s) \in Nat
    BY LenProperties
  <1>4. h \in 0..Len(t)
    BY <1>2, <1>3
  <1>5. /\ q \in Seq(S) /\ Len(q) = Len(t) - h
        /\ \A i \in 1..Len(t) - h : q[i] = t[h + i]
    BY <1>2, <1>4, SliceFacts
  <1> HIDE DEF p, t, q
  <1>6. /\ Append(p, e) \in Seq(S) /\ Len(Append(p, e)) = Len(p) + 1
        /\ \A i \in 1..Len(p) : Append(p, e)[i] = p[i]
        /\ Append(p, e)[Len(p) + 1] = e
    BY <1>1, AppendProperties
  <1>7. Len(q) = Len(s) - h + 1 /\ Len(Append(p, e)) = Len(s) - h + 1
    BY <1>1, <1>2, <1>3, <1>5, <1>6
  <1>8. ASSUME NEW i \in 1..Len(q)
        PROVE  q[i] = Append(p, e)[i]
    <2>1. q[i] = t[h + i]
      BY <1>2, <1>5
    <2>2. CASE i <= Len(s) - h
      <3>1. i \in 1..Len(s) - h /\ h + i \in 1..Len(s)
        BY <2>2, <1>3, <1>7
      <3>2. Append(p, e)[i] = p[i]
        BY <3>1, <1>1, <1>6
      <3> QED
        BY <2>1, <3>1, <3>2, <1>1, <1>2
    <2>3. CASE i = Len(s) - h + 1
      <3>1. h + i = Len(s) + 1 /\ i = Len(p) + 1
        BY <2>3, <1>1, <1>3
      <3> QED
        BY <2>1, <3>1, <1>2, <1>6
    <2> QED
      BY <2>2, <2>3, <1>3, <1>7
  <1>9. q = Append(p, e)
    BY <1>5, <1>6, <1>7, <1>8, SeqEqual
  <1> QED
    BY <1>9 DEF p, t, q

\* Moving head forward takes the first pending element.
LEMMA SliceTail ==
  ASSUME NEW S, NEW s \in Seq(S), NEW h \in 0..Len(s), h < Len(s)
  PROVE  /\ SubSeq(s, h + 1, Len(s)) # <<>>
         /\ Head(SubSeq(s, h + 1, Len(s))) = s[h + 1]
         /\ Tail(SubSeq(s, h + 1, Len(s))) = SubSeq(s, h + 2, Len(s))
  <1> DEFINE p == SubSeq(s, h + 1, Len(s))
             q == SubSeq(s, h + 2, Len(s))
  <1>1. Len(s) \in Nat /\ h + 1 \in 0..Len(s)
    BY LenProperties
  <1>2. /\ p \in Seq(S) /\ Len(p) = Len(s) - h
        /\ \A i \in 1..Len(s) - h : p[i] = s[h + i]
    BY SliceFacts
  <1>3. /\ q \in Seq(S) /\ Len(q) = Len(s) - (h + 1)
        /\ \A i \in 1..Len(s) - (h + 1) : q[i] = s[h + 1 + i]
    <2>1. h + 1 + 1 = h + 2
      BY <1>1
    <2> QED
      BY <1>1, <2>1, SliceFacts
  <1> HIDE DEF p, q
  <1>4. p # <<>>
    BY <1>1, <1>2, EmptySeq
  <1>5. Head(p) = s[h + 1]
    BY <1>1, <1>2, <1>4
  <1>6. /\ Tail(p) \in Seq(S) /\ Len(Tail(p)) = Len(p) - 1
        /\ \A i \in 1..Len(Tail(p)) : Tail(p)[i] = p[i + 1]
    BY <1>2, <1>4, HeadTailProperties
  <1>7. Len(Tail(p)) = Len(q)
    BY <1>1, <1>2, <1>3, <1>6
  <1>8. \A i \in 1..Len(Tail(p)) : Tail(p)[i] = q[i]
    BY <1>1, <1>2, <1>3, <1>6
  <1>9. Tail(p) = q
    BY <1>3, <1>6, <1>7, <1>8, SeqEqual
  <1> QED
    BY <1>4, <1>5, <1>9 DEF p, q

\* Zeroing the slot that is taken leaves the frames behind it alone.
LEMMA SliceCleared ==
  ASSUME NEW S, NEW s \in Seq(S), NEW h \in 0..Len(s), h < Len(s),
         NEW t \in Seq(S), Len(t) = Len(s),
         \A i \in 1..Len(s) : i # h + 1 => t[i] = s[i]
  PROVE  SubSeq(t, h + 2, Len(t)) = SubSeq(s, h + 2, Len(s))
  <1> DEFINE p == SubSeq(s, h + 2, Len(s))
             q == SubSeq(t, h + 2, Len(t))
  <1>1. Len(s) \in Nat /\ h + 1 \in 1..Len(s) /\ h + 1 + 1 = h + 2
    BY LenProperties
  <1>3. /\ p \in Seq(S) /\ Len(p) = Len(s) - (h + 1)
        /\ \A i \in 1..Len(s) - (h + 1) : p[i] = s[h + 1 + i]
    BY <1>1, SliceFacts
  <1>4. /\ q \in Seq(S) /\ Len(q) = Len(t) - (h + 1)
        /\ \A i \in 1..Len(t) - (h + 1) : q[i] = t[h + 1 + i]
    <2>1. h + 1 \in 0..Len(t)
      BY <1>1
    <2>2. /\ SubSeq(t, h + 1 + 1, Len(t)) \in Seq(S)
          /\ Len(SubSeq(t, h + 1 + 1, Len(t))) = Len(t) - (h + 1)
          /\ \A i \in 1..Len(t) - (h + 1) :
                SubSeq(t, h + 1 + 1, Len(t))[i] = t[h + 1 + i]
      BY <2>1, SliceFacts
    <2> QED
      BY <1>1, <2>2
  <1> HIDE DEF p, q
  <1>5. \A i \in 1..Len(q) : q[i] = p[i]
    BY <1>1, <1>3, <1>4
  <1>6. q = p
    BY <1>3, <1>4, <1>5, SeqEqual
  <1> QED
    BY <1>6 DEF p, q

\* A slice that starts at the first element is the sequence itself.
LEMMA SliceWhole ==
  ASSUME NEW S, NEW s \in Seq(S)
  PROVE  SubSeq(s, 1, Len(s)) = s
  <1>1. Len(s) \in Nat /\ 0 \in 0..Len(s) /\ 0 + 1 = 1
    BY LenProperties
  <1>2. /\ SubSeq(s, 1, Len(s)) \in Seq(S)
        /\ Len(SubSeq(s, 1, Len(s))) = Len(s) - 0
        /\ \A i \in 1..Len(s) - 0 : SubSeq(s, 1, Len(s))[i] = s[0 + i]
    BY <1>1, SliceFacts
  <1> QED
    BY <1>1, <1>2, SeqEqual
-----------------------------------------------------------------------------
(* A running total that never decreases.  IsTotal alone is not preserved by  *)
(* arguments without induction when the first frame leaves; with the order   *)
(* stated, every later total is seen to be at least the first frame's size.  *)
Ledger(b, q) ==
    \E total \in [0..Len(q) -> 0..MaxBytes] :
        /\ total[0] = 0
        /\ total[Len(q)] = b
        /\ \A i \in 1..Len(q) : total[i] = total[i-1] + Size[q[i]]
        /\ \A i, j \in 0..Len(q) : i <= j => total[i] <= total[j]

\* A ledger is a total.
LEMMA LedgerIsTotal ==
  ASSUME NEW q \in Seq(Frames), NEW b, Ledger(b, q)
  PROVE  IsTotal(b, q) /\ b \in 0..MaxBytes
  <1>1. Len(q) \in Nat
    BY LenProperties
  <1> QED
    BY <1>1 DEF Ledger, IsTotal

\* The ledger of the empty queue is zero.
LEMMA LedgerEmpty == Ledger(0, <<>>)
  <1> DEFINE total == [i \in 0..0 |-> 0]
  <1>1. total \in [0..0 -> 0..MaxBytes]
    BY QueueAssumption
  <1>2. Len(<<>>) = 0
    BY EmptySeq
  <1>3. /\ total[0] = 0
        /\ \A i \in 1..0 : total[i] = total[i-1] + Size[<<>>[i]]
        /\ \A i, j \in 0..0 : i <= j => total[i] <= total[j]
    OBVIOUS
  <1> HIDE DEF total
  <1> QED
    BY <1>1, <1>2, <1>3 DEF Ledger

\* q.bytes += size on enqueue.
LEMMA LedgerAppend ==
  ASSUME NEW q \in Seq(Frames), NEW b, NEW f \in Frames,
         Ledger(b, q), b + Size[f] <= MaxBytes
  PROVE  Ledger(b + Size[f], Append(q, f))
  <1> DEFINE n == Len(q)
             r == Append(q, f)
  <1>1. n \in Nat
    BY LenProperties
  <1>2. r \in Seq(Frames) /\ Len(r) = n + 1 /\ r[n + 1] = f
        /\ \A i \in 1..n : r[i] = q[i]
    BY AppendProperties
  <1>3. Size[f] \in Nat /\ MaxBytes \in Nat
    BY QueueAssumption
  <1>4. PICK total \in [0..n -> 0..MaxBytes] :
          /\ total[0] = 0
          /\ total[n] = b
          /\ \A i \in 1..n : total[i] = total[i-1] + Size[q[i]]
          /\ \A i, j \in 0..n : i <= j => total[i] <= total[j]
    BY DEF Ledger
  <1> DEFINE more == [i \in 0..n+1 |-> IF i <= n THEN total[i] ELSE b + Size[f]]
  <1> HIDE DEF n, r
  <1>5. b \in 0..MaxBytes
    BY <1>1, <1>4
  <1>6. more \in [0..n+1 -> 0..MaxBytes]
    BY <1>1, <1>3, <1>4, <1>5
  <1>7. more[0] = 0 /\ more[n+1] = b + Size[f]
    BY <1>1, <1>4
  <1>8. \A i \in 1..n+1 : more[i] = more[i-1] + Size[r[i]]
    <2> TAKE i \in 1..n+1
    <2>1. CASE i <= n
      <3>1. i \in 1..n /\ i - 1 \in 0..n /\ i \in 0..n+1 /\ i - 1 \in 0..n+1
        BY <2>1, <1>1
      <3>2. more[i] = total[i] /\ more[i-1] = total[i-1]
        BY <3>1, <1>1
      <3> QED
        BY <3>1, <3>2, <1>2, <1>4
    <2>2. CASE i = n + 1
      BY <2>2, <1>1, <1>2, <1>4
    <2> QED
      BY <2>1, <2>2, <1>1
  <1>9. \A i, j \in 0..n+1 : i <= j => more[i] <= more[j]
    <2> TAKE i, j \in 0..n+1
    <2> HAVE i <= j
    <2>1. CASE j <= n
      BY <2>1, <1>1, <1>4
    <2>2. CASE i <= n /\ j = n + 1
      <3>1. total[i] <= total[n] /\ total[i] \in 0..MaxBytes
        BY <2>2, <1>1, <1>4
      <3>2. more[i] = total[i] /\ more[j] = b + Size[f]
        BY <2>2, <1>1
      <3> QED
        BY <3>1, <3>2, <1>3, <1>4, <1>5
    <2>3. CASE i = n + 1 /\ j = n + 1
      BY <2>3, <1>1, <1>3, <1>5
    <2> QED
      BY <2>1, <2>2, <2>3, <1>1
  <1> HIDE DEF more
  <1>10. Ledger(b + Size[f], r)
    BY <1>2, <1>6, <1>7, <1>8, <1>9 DEF Ledger
  <1> QED
    BY <1>10 DEF r

\* q.bytes -= size on dequeue: what remains is the total of the remaining frames.
LEMMA LedgerTail ==
  ASSUME NEW q \in Seq(Frames), NEW b, q # <<>>, Ledger(b, q)
  PROVE  Ledger(b - Size[Head(q)], Tail(q))
  <1> DEFINE n == Len(q)
             r == Tail(q)
             s == Size[Head(q)]
  <1>1. n \in Nat /\ n > 0
    BY LenProperties, EmptySeq
  <1>2. r \in Seq(Frames) /\ Len(r) = n - 1 /\ (\A i \in 1..n-1 : r[i] = q[i+1])
        /\ Head(q) = q[1]
    BY HeadTailProperties
  <1>3. s \in Nat /\ MaxBytes \in Nat
    BY QueueAssumption, HeadTailProperties
  <1>4. PICK total \in [0..n -> 0..MaxBytes] :
          /\ total[0] = 0
          /\ total[n] = b
          /\ \A i \in 1..n : total[i] = total[i-1] + Size[q[i]]
          /\ \A i, j \in 0..n : i <= j => total[i] <= total[j]
    BY DEF Ledger
  <1> DEFINE less == [i \in 0..n-1 |-> total[i+1] - s]
  <1>5. total[1] = s
    <2>1. total[1] = total[0] + Size[q[1]]
      BY <1>1, <1>4
    <2> QED
      BY <2>1, <1>2, <1>3, <1>4
  <1> HIDE DEF n, r, s
  <1>6. less \in [0..n-1 -> 0..MaxBytes]
    <2> SUFFICES ASSUME NEW i \in 0..n-1 PROVE total[i+1] - s \in 0..MaxBytes
      OBVIOUS
    <2>1. total[1] <= total[i+1] /\ total[i+1] \in 0..MaxBytes
      BY <1>1, <1>4
    <2> QED
      BY <2>1, <1>3, <1>5
  <1>7. less[0] = 0 /\ less[n-1] = b - s
    BY <1>1, <1>3, <1>4, <1>5
  <1>8. \A i \in 1..n-1 : less[i] = less[i-1] + Size[r[i]]
    <2> TAKE i \in 1..n-1
    <2>1. total[i+1] = total[i] + Size[q[i+1]] /\ r[i] = q[i+1]
      <3>1. i + 1 \in 1..n /\ (i + 1) - 1 = i
        BY <1>1
      <3> QED
        BY <3>1, <1>2, <1>4
    <2>2. less[i] = total[i+1] - s /\ less[i-1] = total[i] - s
      BY <1>1
    <2>3. total[i] \in Nat /\ total[i+1] \in Nat /\ Size[q[i+1]] \in Nat
      <3>1. i + 1 \in 1..n /\ i \in 0..n /\ i + 1 \in 0..n
        BY <1>1
      <3>2. q[i+1] \in Frames
        BY <3>1, ElementOfSeq DEF n
      <3> QED
        BY <3>1, <3>2, <1>3, <1>4, QueueAssumption
    <2> QED
      BY <2>1, <2>2, <2>3, <1>3
  <1>9. \A i, j \in 0..n-1 : i <= j => less[i] <= less[j]
    <2> TAKE i, j \in 0..n-1
    <2> HAVE i <= j
    <2>1. total[i+1] <= total[j+1] /\ total[i+1] \in Nat /\ total[j+1] \in Nat
      BY <1>1, <1>3, <1>4
    <2> QED
      BY <2>1, <1>1, <1>3
  <1> HIDE DEF less
  <1>10. Ledger(b - s, r)
    BY <1>2, <1>6, <1>7, <1>8, <1>9 DEF Ledger
  <1> QED
    BY <1>10 DEF r, s
-----------------------------------------------------------------------------

Slots == Frames \cup {NoFrame}

\* The slice: what is pending are frames, the byte counter is their total, and
\* the taken prefix is short or shorter than half of the slice.
SliceInv ==
    /\ items \in Seq(Slots)
    /\ head \in 0..Len(items)
    /\ Pending \in Seq(Frames)
    /\ Ledger(bytes, Pending)
    /\ head <= CompactAt \/ 2 * head < Len(items)
    /\ Len(items) - head <= MaxEvents

\* The callers: a producer inside enqueue has a frame in its hands.
CallerInv ==
    /\ closed \in BOOLEAN
    /\ pc \in [Callers -> {"idle", "check", "select"}]
    /\ arg \in [Producers -> Slots]
    /\ \A p \in Producers : pc[p] # "idle" => arg[p] \in Frames
    /\ parked \in SUBSET Callers
    /\ cancelled \in SUBSET Callers

Inv == SliceInv /\ CallerInv /\ NoLostWakeup

\* What EnqueueAdmit does to the slice.
LEMMA AdmitAppends ==
  ASSUME Inv, NEW p \in Producers, EnqueueAdmit(p)
  PROVE  /\ arg[p] \in Frames
         /\ Pending' = Append(Pending, arg[p])
         /\ items' \in Seq(Slots)
         /\ Len(items') = Len(items) + 1
  <1>1. arg[p] \in Frames /\ arg[p] \in Slots
    BY DEF Inv, CallerInv, EnqueueAdmit, Slots
  <1>2. items \in Seq(Slots) /\ head \in 0..Len(items)
    BY DEF Inv, SliceInv
  <1>3. items' = Append(items, arg[p]) /\ head' = head
    BY DEF EnqueueAdmit
  <1>4. Pending' = SubSeq(Append(items, arg[p]), head + 1, Len(Append(items, arg[p])))
    BY <1>3 DEF Pending
  <1>5. Pending' = Append(Pending, arg[p])
    BY <1>1, <1>2, <1>4, SliceAppend DEF Pending
  <1> QED
    BY <1>1, <1>2, <1>3, <1>5, AppendProperties

\* What DequeueTake does to the slice, compaction included.
LEMMA TakeRemovesHead ==
  ASSUME Inv, NEW c \in Consumers, DequeueTake(c)
  PROVE  /\ Pending # <<>>
         /\ Head(Pending) = items[head + 1]
         /\ Pending' = Tail(Pending)
         /\ items' \in Seq(Slots)
         /\ head' \in 0..Len(items')
         /\ head' <= CompactAt \/ 2 * head' < Len(items')
         /\ Len(items') - head' = Len(items) - head - 1
  <1> DEFINE slots == [items EXCEPT ![head + 1] = NoFrame]
             h == head + 1
  <1>1. items \in Seq(Slots) /\ head \in 0..Len(items) /\ head < Len(items)
        /\ Len(items) \in Nat /\ CompactAt \in Nat
    BY LenProperties, CallerAssumption DEF Inv, SliceInv, DequeueTake
  <1>2. Compact(slots, h)
    BY DEF DequeueTake
  <1>3. /\ Pending # <<>> /\ Head(Pending) = items[head + 1]
        /\ Tail(Pending) = SubSeq(items, head + 2, Len(items))
    BY <1>1, SliceTail DEF Pending
  <1>4. /\ slots \in Seq(Slots) /\ Len(slots) = Len(items)
        /\ \A i \in 1..Len(items) : i # head + 1 => slots[i] = items[i]
    <2>1. head + 1 \in 1..Len(items) /\ NoFrame \in Slots
      BY <1>1 DEF Slots
    <2> QED
      BY <1>1, <2>1, ExceptSeq
  <1> HIDE DEF slots
  <1>5. SubSeq(slots, head + 2, Len(slots)) = Tail(Pending)
    BY <1>1, <1>3, <1>4, SliceCleared
  <1>6. h \in 0..Len(slots) /\ h + 1 = head + 2
    BY <1>1, <1>4
  <1>7. CASE h > CompactAt /\ h * 2 >= Len(slots)
    <2>1. items' = SubSeq(slots, h + 1, Len(slots)) /\ head' = 0
      BY <1>2, <1>7 DEF Compact
    <2>2. items' \in Seq(Slots) /\ Len(items') = Len(slots) - h
      BY <1>4, <1>6, <2>1, SliceFacts
    <2>3. Pending' = items'
      BY SMTT(30), <2>1, <2>2, SliceWhole DEF Pending
    <2>4. items' = Tail(Pending)
      BY <1>5, <1>6, <2>1
    <2>5. Len(items') - head' = Len(items) - head - 1
      BY <1>1, <1>4, <2>1, <2>2
    <2>6. Len(items') \in Nat
      BY <2>2, LenProperties
    <2>7. head' \in 0..Len(items') /\ head' <= CompactAt
      BY <1>1, <2>1, <2>6
    <2> QED
      BY <1>3, <2>2, <2>3, <2>4, <2>5, <2>7
  <1>8. CASE ~(h > CompactAt /\ h * 2 >= Len(slots))
    <2>1. items' = slots /\ head' = h
      BY <1>2, <1>8 DEF Compact
    <2>2. Pending' = Tail(Pending)
      BY <1>5, <1>6, <2>1 DEF Pending
    <2> QED
      BY <1>1, <1>3, <1>4, <1>6, <1>8, <2>1, <2>2
  <1> QED
    BY <1>7, <1>8

\* The empty queue satisfies the invariant.
LEMMA InitInv == Init => Inv
  <1> SUFFICES ASSUME Init PROVE Inv
    OBVIOUS
  <1>1. items = <<>> /\ head = 0 /\ bytes = 0 /\ Len(items) = 0
    BY EmptySeq DEF Init
  <1>2. Pending = <<>>
    BY <1>1, SubSeqEmpty DEF Pending
  <1>3. SliceInv
    BY <1>1, <1>2, LedgerEmpty, EmptySeq, QueueAssumption, CallerAssumption
       DEF SliceInv
  <1>4. CallerInv
    BY DEF Init, CallerInv, Slots, Callers
  <1>5. NoLostWakeup
    BY DEF Init, NoLostWakeup
  <1> QED
    BY <1>3, <1>4, <1>5 DEF Inv

\* Every step keeps the slice, its byte counter and its taken prefix in order.
LEMMA StepSlice ==
  ASSUME Inv, [Next]_vars
  PROVE  SliceInv'
  <1>1. ASSUME NEW p \in Producers, EnqueueAdmit(p)
        PROVE  SliceInv'
    <2>1. /\ arg[p] \in Frames /\ Pending' = Append(Pending, arg[p])
          /\ items' \in Seq(Slots) /\ Len(items') = Len(items) + 1
      BY <1>1, AdmitAppends
    <2>2. /\ head' = head /\ bytes' = bytes + Size[arg[p]]
          /\ Len(items) - head < MaxEvents /\ bytes + Size[arg[p]] <= MaxBytes
      BY <1>1 DEF EnqueueAdmit, Room
    <2>3. Pending \in Seq(Frames) /\ Ledger(bytes, Pending) /\ Len(items) \in Nat
          /\ head \in 0..Len(items) /\ (head <= CompactAt \/ 2 * head < Len(items))
      BY LenProperties DEF Inv, SliceInv
    <2>4. Ledger(bytes', Pending')
      BY <2>1, <2>2, <2>3, LedgerAppend
    <2>5. Pending' \in Seq(Frames)
      BY <2>1, <2>3, AppendProperties
    <2>6. head' \in 0..Len(items') /\ (head' <= CompactAt \/ 2 * head' < Len(items'))
          /\ Len(items') - head' <= MaxEvents
      BY <2>1, <2>2, <2>3, QueueAssumption, CallerAssumption
    <2> QED
      BY <2>1, <2>4, <2>5, <2>6 DEF SliceInv
  <1>2. ASSUME NEW c \in Consumers, DequeueTake(c)
        PROVE  SliceInv'
    <2>1. /\ Pending # <<>> /\ Head(Pending) = items[head + 1]
          /\ Pending' = Tail(Pending) /\ items' \in Seq(Slots)
          /\ head' \in 0..Len(items')
          /\ head' <= CompactAt \/ 2 * head' < Len(items')
          /\ Len(items') - head' = Len(items) - head - 1
      BY <1>2, TakeRemovesHead
    <2>2. bytes' = bytes - Size[Head(Pending)]
      BY <1>2, <2>1 DEF DequeueTake
    <2>3. Pending \in Seq(Frames) /\ Ledger(bytes, Pending) /\ Len(items) \in Nat
          /\ head \in 0..Len(items) /\ Len(items) - head <= MaxEvents
      BY LenProperties DEF Inv, SliceInv
    <2>4. Ledger(bytes', Pending')
      BY <2>1, <2>2, <2>3, LedgerTail
    <2>5. Pending' \in Seq(Frames)
      BY <2>1, <2>3, HeadTailProperties
    <2>6. Len(items') - head' <= MaxEvents
      BY <2>1, <2>3, QueueAssumption
    <2> QED
      BY <2>1, <2>4, <2>5, <2>6 DEF SliceInv
  <1>3. CASE UNCHANGED <<items, head, bytes>>
    BY <1>3 DEF Inv, SliceInv, Pending
  <1> QED
    BY <1>1, <1>2, <1>3 DEF Next, Produce, Consume, EnqueueCall, EnqueueClosed,
       EnqueuePark, EnqueueTimeout, EnqueueCancelled, Wake, DequeueCall,
       DequeueClosed, DequeuePark, DequeueCancelled, Close, Cancel, vars

\* Every step keeps the callers typed, and a producer in enqueue has a frame.
LEMMA StepCallers ==
  ASSUME Inv, [Next]_vars
  PROVE  CallerInv'
  <1> USE DEF Callers, Slots, Goto, Return
  <1>1. CallerInv /\ Producers \cap Consumers = {} /\ NoFrame \notin Frames
    BY CallerAssumption DEF Inv
  <1>2. ASSUME NEW p \in Producers, Produce(p)
        PROVE  CallerInv'
    <2>1. ASSUME NEW f \in Frames, EnqueueCall(p, f)
          PROVE  CallerInv'
      BY <1>1, <2>1 DEF CallerInv, EnqueueCall
    <2>2. CASE EnqueueClosed(p)
      BY <1>1, <2>2 DEF CallerInv, EnqueueClosed
    <2>3. CASE EnqueueAdmit(p)
      BY <1>1, <2>3 DEF CallerInv, EnqueueAdmit, notifyLocked
    <2>4. CASE EnqueuePark(p)
      BY <1>1, <2>4 DEF CallerInv, EnqueuePark
    <2>5. CASE EnqueueTimeout(p)
      BY <1>1, <2>5 DEF CallerInv, EnqueueTimeout
    <2>6. CASE EnqueueCancelled(p)
      BY <1>1, <2>6 DEF CallerInv, EnqueueCancelled
    <2>7. CASE Wake(p)
      BY <1>1, <2>7 DEF CallerInv, Wake
    <2> QED
      BY <1>2, <2>1, <2>2, <2>3, <2>4, <2>5, <2>6, <2>7 DEF Produce
  <1>3. ASSUME NEW c \in Consumers, Consume(c)
        PROVE  CallerInv'
    <2>1. CASE DequeueCall(c)
      BY <1>1, <2>1 DEF CallerInv, DequeueCall
    <2>2. CASE DequeueTake(c)
      BY <1>1, <2>2 DEF CallerInv, DequeueTake, notifyLocked
    <2>3. CASE DequeueClosed(c)
      BY <1>1, <2>3 DEF CallerInv, DequeueClosed
    <2>4. CASE DequeuePark(c)
      BY <1>1, <2>4 DEF CallerInv, DequeuePark
    <2>5. CASE DequeueCancelled(c)
      BY <1>1, <2>5 DEF CallerInv, DequeueCancelled
    <2>6. CASE Wake(c)
      BY <1>1, <2>6 DEF CallerInv, Wake
    <2> QED
      BY <1>3, <2>1, <2>2, <2>3, <2>4, <2>5, <2>6 DEF Consume
  <1>4. CASE Close
    BY <1>1, <1>4 DEF CallerInv, Close, notifyLocked
  <1>5. CASE Cancel(Consumers) \/ Cancel(Callers)
    BY <1>1, <1>5 DEF CallerInv, Cancel
  <1>6. CASE UNCHANGED vars
    BY <1>1, <1>6 DEF CallerInv, vars
  <1> QED
    BY <1>2, <1>3, <1>4, <1>5, <1>6 DEF Next

\* Whatever could give a sleeper its chance (an append, a take, close) empties
\* parked; whatever adds to parked has just seen that there is no chance.
LEMMA StepWakeup ==
  ASSUME Inv, [Next]_vars
  PROVE  NoLostWakeup'
  <1> USE DEF Callers, Goto, Return
  <1>1. CallerInv /\ NoLostWakeup /\ Producers \cap Consumers = {}
    BY CallerAssumption DEF Inv
  <1>2. ASSUME NEW p \in Producers, Produce(p)
        PROVE  NoLostWakeup'
    <2>1. ASSUME NEW f \in Frames, EnqueueCall(p, f)
          PROVE  NoLostWakeup'
      BY <1>1, <2>1 DEF CallerInv, NoLostWakeup, EnqueueCall, Room
    <2>2. CASE EnqueueClosed(p)
      BY <1>1, <2>2 DEF CallerInv, NoLostWakeup, EnqueueClosed, Room
    <2>3. CASE EnqueueAdmit(p)
      BY <2>3 DEF NoLostWakeup, EnqueueAdmit, notifyLocked
    <2>4. CASE EnqueuePark(p)
      BY <1>1, <2>4 DEF CallerInv, NoLostWakeup, EnqueuePark, Room
    <2>5. CASE EnqueueTimeout(p)
      BY <1>1, <2>5 DEF CallerInv, NoLostWakeup, EnqueueTimeout, Room
    <2>6. CASE EnqueueCancelled(p)
      BY <1>1, <2>6 DEF CallerInv, NoLostWakeup, EnqueueCancelled, Room
    <2>7. CASE Wake(p)
      BY <1>1, <2>7 DEF CallerInv, NoLostWakeup, Wake, Room
    <2> QED
      BY <1>2, <2>1, <2>2, <2>3, <2>4, <2>5, <2>6, <2>7 DEF Produce
  <1>3. ASSUME NEW c \in Consumers, Consume(c)
        PROVE  NoLostWakeup'
    <2>1. CASE DequeueCall(c)
      BY <1>1, <2>1 DEF CallerInv, NoLostWakeup, DequeueCall, Room
    <2>2. CASE DequeueTake(c)
      BY <2>2 DEF NoLostWakeup, DequeueTake, notifyLocked
    <2>3. CASE DequeueClosed(c)
      BY <1>1, <2>3 DEF CallerInv, NoLostWakeup, DequeueClosed, Room
    <2>4. CASE DequeuePark(c)
      BY <1>1, <2>4 DEF CallerInv, NoLostWakeup, DequeuePark, Room
    <2>5. CASE DequeueCancelled(c)
      BY <1>1, <2>5 DEF CallerInv, NoLostWakeup, DequeueCancelled, Room
    <2>6. CASE Wake(c)
      BY <1>1, <2>6 DEF CallerInv, NoLostWakeup, Wake, Room
    <2> QED
      BY <1>3, <2>1, <2>2, <2>3, <2>4, <2>5, <2>6 DEF Consume
  <1>4. CASE Close
    BY <1>4 DEF NoLostWakeup, Close, notifyLocked
  <1>5. CASE Cancel(Consumers) \/ Cancel(Callers)
    BY <1>1, <1>5 DEF NoLostWakeup, Cancel, Room
  <1>6. CASE UNCHANGED vars
    BY <1>1, <1>6 DEF NoLostWakeup, vars, Room
  <1> QED
    BY <1>2, <1>3, <1>4, <1>5, <1>6 DEF Next

\* The inductive invariant holds in every reachable state.
THEOREM QueueInvariant == Spec => []Inv
  <1>1. Init => Inv
    BY InitInv
  <1>2. Inv /\ [Next]_vars => Inv'
    BY StepSlice, StepCallers, StepWakeup DEF Inv
  <1> QED
    BY <1>1, <1>2, PTL DEF Spec

\* Type correctness of the queue, bytes within 0..MaxBytes included.
THEOREM QueueTypeOK == Spec => []TypeOK
  <1>1. Inv => TypeOK
    BY LedgerIsTotal DEF Inv, SliceInv, CallerInv, TypeOK, Slots
  <1> QED
    BY <1>1, QueueInvariant, PTL

\* q.bytes is the exact total of the pending payloads.
THEOREM QueueBytesExact == Spec => []BytesAreExact
  <1>1. Inv => BytesAreExact
    BY LedgerIsTotal DEF Inv, SliceInv, BytesAreExact
  <1> QED
    BY <1>1, QueueInvariant, PTL

\* No caller sleeps through its chance.
THEOREM QueueNoLostWakeup == Spec => []NoLostWakeup
  <1>1. Inv => NoLostWakeup
    BY DEF Inv
  <1> QED
    BY <1>1, QueueInvariant, PTL

\* The backing slice is bounded, for every compaction threshold.
THEOREM QueueSliceBounded == Spec => []SliceIsBounded
  <1>1. Inv => SliceIsBounded
    <2> SUFFICES ASSUME Inv PROVE SliceIsBounded
      OBVIOUS
    <2>1. Len(items) \in Nat
      BY LenProperties DEF Inv, SliceInv
    <2> QED
      BY <2>1, QueueAssumption, CallerAssumption DEF Inv, SliceInv, SliceIsBounded
  <1> QED
    BY <1>1, QueueInvariant, PTL

\* The slice, the locks and the sleeping callers implement the bounded FIFO.
THEOREM QueueImplementsFifo == Spec => ImplementsFifo
  <1>1. Init => Fifo!Init
    <2> SUFFICES ASSUME Init PROVE Fifo!Init
      OBVIOUS
    <2>1. items = <<>> /\ head = 0 /\ bytes = 0 /\ closed = FALSE /\ Len(items) = 0
      BY EmptySeq DEF Init
    <2>2. Pending = <<>>
      BY <2>1, SubSeqEmpty DEF Pending
    <2> QED
      BY <2>1, <2>2 DEF Fifo!Init
  <1>2. Inv /\ [Next]_vars => [Fifo!Next]_(Fifo!vars)
    <2> SUFFICES ASSUME Inv, [Next]_vars PROVE [Fifo!Next]_(Fifo!vars)
      OBVIOUS
    <2>1. ASSUME NEW p \in Producers, EnqueueAdmit(p)
          PROVE  Fifo!Next
      <3>1. arg[p] \in Frames /\ Pending' = Append(Pending, arg[p])
        BY <2>1, AdmitAppends
      <3>2. Len(Pending) = Len(items) - head
        BY SliceFacts DEF Inv, SliceInv, Pending
      <3>3. Fifo!Put(arg[p])
        BY <2>1, <3>1, <3>2 DEF EnqueueAdmit, Room, Fifo!Put, Fifo!Room
      <3> QED
        BY <3>1, <3>3 DEF Fifo!Next
    <2>2. ASSUME NEW c \in Consumers, DequeueTake(c)
          PROVE  Fifo!Next
      <3>1. /\ Pending # <<>> /\ Head(Pending) = items[head + 1]
            /\ Pending' = Tail(Pending)
        BY <2>2, TakeRemovesHead
      <3>2. Head(Pending) \in Frames
        BY <3>1, HeadTailProperties DEF Inv, SliceInv
      <3>3. Fifo!Take(Head(Pending))
        BY <2>2, <3>1 DEF DequeueTake, Fifo!Take
      <3> QED
        BY <3>2, <3>3 DEF Fifo!Next
    <2>3. ASSUME Close
          PROVE  Fifo!Next
      BY <2>3 DEF Close, Fifo!Next, Fifo!Close, Pending
    <2>4. CASE UNCHANGED <<items, head, bytes, closed>>
      BY <2>4 DEF Fifo!vars, Pending
    <2> QED
      BY <2>1, <2>2, <2>3, <2>4 DEF Next, Produce, Consume, EnqueueCall,
         EnqueueClosed, EnqueuePark, EnqueueTimeout, EnqueueCancelled, Wake,
         DequeueCall, DequeueClosed, DequeuePark, DequeueCancelled, Cancel, vars
  <1> QED
    BY <1>1, <1>2, QueueInvariant, PTL DEF Spec, ImplementsFifo, Fifo!Spec
=============================================================================
