--------------------------- MODULE LiveTailProofs ---------------------------
(***************************************************************************)
(* The live tail, for any rows, window, limit and capacity: its memory is  *)
(* the end of what was sent, so that a row is repeated only after it was   *)
(* forgotten, no row of a poll is skipped in silence, and a row that comes *)
(* in time does not fall between the windows of two polls.                 *)
(***************************************************************************)
EXTENDS LiveTail, FiniteSetTheorems, TLAPS

\* What the steps need of the types.
Typed ==
    /\ stream \in {"waiting", "querying", "sending", "ended"}
    /\ batch \in Seq(Rows) /\ order \in Seq(Rows) /\ sent \in Seq(Rows)
    /\ seen \subseteq Rows /\ polled \subseteq Rows /\ told \subseteq Rows

\* During a poll a row of its window that was neither sent nor announced is still in
\* the batch; between polls there is none.
PollInv ==
    /\ stream = "sending" => polled \subseteq InSeq(sent) \cup told \cup InSeq(batch)
    /\ stream \in {"waiting", "querying"} => polled \subseteq InSeq(sent) \cup told

Inv == Typed /\ MemoryIsRecent /\ RepeatedOnlyWhenForgotten /\ PollInv

\* Elements of a sequence after Append and after Tail.
LEMMA InAppend ==
  ASSUME NEW s \in Seq(Rows), NEW h \in Rows
  PROVE  InSeq(Append(s, h)) = InSeq(s) \cup {h}
  <1> DEFINE a == Append(s, h)
  <1>1. a \in Seq(Rows) /\ Len(a) = Len(s) + 1 /\ a[Len(s) + 1] = h /\ Len(s) \in Nat
    OBVIOUS
  <1>2. \A i \in 1..Len(s) : a[i] = s[i]
    OBVIOUS
  <1>3. DOMAIN a = 1..Len(s) + 1 /\ DOMAIN s = 1..Len(s)
    BY <1>1
  <1>4. ASSUME NEW x \in InSeq(s) PROVE x \in InSeq(a)
    <2>1. PICK i \in 1..Len(s) : x = s[i]
      BY <1>3, <1>4 DEF InSeq
    <2>2. i \in DOMAIN a /\ a[i] = x
      BY <2>1, <1>1, <1>2, <1>3
    <2> QED
      BY <2>2 DEF InSeq
  <1>5. h \in InSeq(a)
    <2>1. Len(s) + 1 \in DOMAIN a
      BY <1>1, <1>3
    <2> QED
      BY <2>1, <1>1 DEF InSeq
  <1>6. ASSUME NEW x \in InSeq(a) PROVE x \in InSeq(s) \cup {h}
    <2>1. PICK i \in 1..Len(s) + 1 : x = a[i]
      BY <1>3, <1>6 DEF InSeq
    <2>2. CASE i = Len(s) + 1
      BY <2>1, <2>2, <1>1
    <2>3. CASE i \in 1..Len(s)
      BY <2>1, <2>3, <1>2, <1>3 DEF InSeq
    <2> QED
      BY <2>2, <2>3, <1>1
  <1> QED
    BY <1>4, <1>5, <1>6

\* A sequence has its head and the elements of its tail.
LEMMA InTail ==
  ASSUME NEW s \in Seq(Rows), s # <<>>
  PROVE  /\ Head(s) \in Rows /\ Tail(s) \in Seq(Rows) /\ Head(s) = s[1]
         /\ Len(Tail(s)) = Len(s) - 1 /\ Len(s) \in Nat \ {0}
         /\ \A i \in 1..Len(s) - 1 : Tail(s)[i] = s[i + 1]
         /\ InSeq(s) = {Head(s)} \cup InSeq(Tail(s))
  <1> DEFINE t == Tail(s)
  <1>1. Len(s) \in Nat \ {0} /\ Head(s) = s[1] /\ Head(s) \in Rows
    OBVIOUS
  <1>2. t \in Seq(Rows) /\ Len(t) = Len(s) - 1 /\ \A i \in 1..Len(s) - 1 : t[i] = s[i + 1]
    OBVIOUS
  <1>3. DOMAIN s = 1..Len(s) /\ DOMAIN t = 1..Len(s) - 1
    BY <1>2
  <1>4. ASSUME NEW x \in InSeq(s) PROVE x = Head(s) \/ x \in InSeq(t)
    <2>1. PICK i \in 1..Len(s) : x = s[i]
      BY <1>3, <1>4 DEF InSeq
    <2>2. CASE i = 1
      BY <2>1, <2>2, <1>1
    <2>3. CASE i # 1
      <3>1. i - 1 \in 1..Len(s) - 1 /\ t[i - 1] = s[i]
        BY <2>3, <1>1, <1>2
      <3> QED
        BY <3>1, <2>1, <1>3 DEF InSeq
    <2> QED
      BY <2>2, <2>3
  <1>5. ASSUME NEW x \in InSeq(t) PROVE x \in InSeq(s)
    <2>1. PICK i \in 1..Len(s) - 1 : x = t[i]
      BY <1>3, <1>5 DEF InSeq
    <2>2. i + 1 \in 1..Len(s) /\ s[i + 1] = x
      BY <2>1, <1>1, <1>2
    <2> QED
      BY <2>2, <1>3 DEF InSeq
  <1>6. Head(s) \in InSeq(s)
    <2>1. 1 \in DOMAIN s
      BY <1>1, <1>3
    <2> QED
      BY <2>1, <1>1 DEF InSeq
  <1> QED
    BY <1>1, <1>2, <1>4, <1>5, <1>6

\* A result of the query is a sequence of rows of the window.
LEMMA ResultsAreRows ==
  ASSUME NEW s \in Results
  PROVE  s \in Seq(Rows) /\ InSeq(s) \subseteq WindowRows
  <1>1. IsFiniteSet(WindowRows)
    BY TailAssumption, FS_Subset DEF WindowRows
  <1>2. Cardinality(WindowRows) \in Nat
    BY <1>1, FS_CardinalityType
  <1>3. \E n \in Nat : s \in [1..n -> WindowRows]
    BY <1>2, TailAssumption DEF Results
  <1>4. PICK n \in Nat : s \in [1..n -> WindowRows]
    BY <1>3
  <1>5. WindowRows \subseteq Rows
    BY DEF WindowRows
  <1>6. s \in [1..n -> Rows]
    BY <1>4, <1>5
  <1> QED
    BY <1>4, <1>6 DEF InSeq

\* Nothing is sent at first.
LEMMA InitInv == Init => Inv
  BY TailAssumption DEF Init, Inv, Typed, MemoryIsRecent, RepeatedOnlyWhenForgotten, PollInv, InSeq

\* The memory by its indices alone: o is the end of s, of length n, without h and
\* without a repetition nearer than Capacity; l and s2 are o and s with h appended.
EndHyp(n, m, o, s, l, s2, h) ==
    /\ n <= m /\ n <= Capacity /\ (n < Capacity => n = m)
    /\ \A i \in 1..n : o[i] = s[m - n + i]
    /\ \A i \in 1..n : o[i] # h
    /\ (\A i \in 1..n : l[i] = o[i]) /\ l[n + 1] = h
    /\ (\A i \in 1..m : s2[i] = s[i]) /\ s2[m + 1] = h
    /\ \A i, j \in 1..m : i < j /\ s[i] = s[j] => j - i > Capacity

\* Then l is the end of s2, which repeats nothing nearer than Capacity either.
EndGoal(n, m, l, s2) ==
    /\ \A i, j \in 1..m + 1 : i < j /\ s2[i] = s2[j] => j - i > Capacity
    /\ \A i \in 1..n + 1 : l[i] = s2[m - n + i]
    /\ n = Capacity => \A i \in 1..n : l[i + 1] # l[1]

\* The step from the one to the other.
LEMMA EndOfSent ==
  ASSUME NEW n \in Nat, NEW m \in Nat, NEW o, NEW s, NEW l, NEW s2, NEW h,
         EndHyp(n, m, o, s, l, s2, h)
  PROVE  EndGoal(n, m, l, s2)
  <1> DEFINE C == Capacity
  <1>0. C \in Nat \ {0}
    BY TailAssumption
  <1> HIDE DEF C
  <1>h. /\ n <= m /\ n <= C /\ (n < C => n = m)
        /\ \A i \in 1..n : o[i] = s[m - n + i]
        /\ \A i \in 1..n : o[i] # h
        /\ (\A i \in 1..n : l[i] = o[i]) /\ l[n + 1] = h
        /\ (\A i \in 1..m : s2[i] = s[i]) /\ s2[m + 1] = h
        /\ \A i, j \in 1..m : i < j /\ s[i] = s[j] => j - i > C
    BY Zenon DEF EndHyp, C
  <1> USE <1>0, <1>h
  <1>1. ASSUME NEW i \in 1..m + 1, NEW j \in 1..m + 1, i < j, s2[i] = s2[j]
        PROVE  j - i > C
    <2>1. CASE j <= m
      <3>1. i \in 1..m /\ j \in 1..m
        BY <2>1, <1>1
      <3> QED
        BY <3>1, <1>1
    <2>2. CASE j = m + 1
      <3>1. i \in 1..m /\ s[i] = h
        BY <2>2, <1>1
      <3>2. ~(i > m - n)
        <4> SUFFICES ASSUME i > m - n PROVE FALSE
          OBVIOUS
        <4>1. i - (m - n) \in 1..n /\ m - n + (i - (m - n)) = i
          BY <3>1
        <4>2. o[i - (m - n)] = s[i]
          BY <4>1
        <4> QED
          BY <4>1, <4>2, <3>1
      <3> QED
        BY <3>1, <3>2, <2>2
    <2> QED
      BY <2>1, <2>2
  <1>2. ASSUME NEW i \in 1..n + 1 PROVE l[i] = s2[m - n + i]
    <2>1. CASE i = n + 1
      BY <2>1
    <2>2. CASE i \in 1..n
      <3>1. m - n + i \in 1..m
        BY <2>2
      <3> QED
        BY <3>1, <2>2
    <2> QED
      BY <2>1, <2>2
  <1>3. ASSUME n = C, NEW i \in 1..n, l[i + 1] = l[1] PROVE FALSE
    <2>1. 1 \in 1..n /\ l[1] = o[1] /\ l[1] # h
      BY <1>3
    <2>2. i + 1 \in 1..n
      BY <2>1, <1>3
    <2>3. o[i + 1] = o[1]
      BY <2>1, <2>2, <1>3
    <2>4. s[m - n + (i + 1)] = s[m - n + 1]
      BY <2>1, <2>2, <2>3
    <2>5. m - n + 1 \in 1..m /\ m - n + (i + 1) \in 1..m /\ m - n + 1 < m - n + (i + 1)
      BY <2>2
    <2>6. (m - n + (i + 1)) - (m - n + 1) > C
      BY <2>4, <2>5
    <2> QED
      BY <2>2, <2>6, <1>3
  <1> QED
    BY <1>1, <1>2, <1>3, Zenon DEF EndGoal, C

\* MemoryIsRecent and RepeatedOnlyWhenForgotten, of any memory.
Recent(o, mem, s) ==
    /\ Len(o) <= Len(s) /\ Len(o) <= Capacity /\ (Len(o) < Capacity => Len(o) = Len(s))
    /\ \A i \in 1..Len(o) : o[i] = s[Len(s) - Len(o) + i]
    /\ mem = InSeq(o)
    /\ \A i, j \in 1..Len(s) : i < j /\ s[i] = s[j] => j - i > Capacity

\* What Remember makes of a memory.
Extended(o, mem, h, o2, mem2) ==
    \/ /\ Len(o) < Capacity
       /\ o2 = Append(o, h) /\ mem2 = mem \cup {h}
    \/ /\ Len(o) = Capacity
       /\ o2 = Tail(Append(o, h)) /\ mem2 = (mem \cup {h}) \ {Append(o, h)[1]}

\* A row that the memory does not hold is sent and remembered.
LEMMA Remembered ==
  ASSUME NEW o \in Seq(Rows), NEW s \in Seq(Rows), NEW h \in Rows, NEW mem,
         h \notin mem, Recent(o, mem, s),
         NEW o2, NEW mem2, Extended(o, mem, h, o2, mem2)
  PROVE  o2 \in Seq(Rows) /\ Recent(o2, mem2, Append(s, h))
  <1>a. /\ Len(o) <= Len(s) /\ Len(o) <= Capacity /\ (Len(o) < Capacity => Len(o) = Len(s))
        /\ \A i \in 1..Len(o) : o[i] = s[Len(s) - Len(o) + i]
        /\ \A i, j \in 1..Len(s) : i < j /\ s[i] = s[j] => j - i > Capacity
    BY Zenon DEF Recent
  <1>b. mem = InSeq(o) /\ h \notin InSeq(o)
    BY Zenon DEF Recent
  <1> DEFINE l == Append(o, h)
             s2 == Append(s, h)
  <1>1. PICK n \in Nat : n = Len(o) /\ DOMAIN o = 1..n
    OBVIOUS
  <1>2. PICK m \in Nat : m = Len(s)
    OBVIOUS
  <1>3. l \in Seq(Rows) /\ Len(l) = n + 1 /\ l[n + 1] = h /\ \A i \in 1..n : l[i] = o[i]
    BY <1>1
  <1>4. s2 \in Seq(Rows) /\ Len(s2) = m + 1 /\ s2[m + 1] = h /\ \A i \in 1..m : s2[i] = s[i]
    BY <1>2
  <1>5. \A i \in 1..n : o[i] # h
    BY <1>1, <1>b DEF InSeq
  <1>6. InSeq(l) = InSeq(o) \cup {h}
    BY InAppend
  <1>7. /\ \A i, j \in 1..m + 1 : i < j /\ s2[i] = s2[j] => j - i > Capacity
        /\ \A i \in 1..n + 1 : l[i] = s2[m - n + i]
        /\ n = Capacity => \A i \in 1..n : l[i + 1] # l[1]
    <2> HIDE DEF l, s2
    <2>1. n <= m /\ n <= Capacity /\ (n < Capacity => n = m)
      BY <1>1, <1>2, <1>a
    <2>2. \A i \in 1..n : o[i] = s[m - n + i]
      BY <1>1, <1>2, <1>a
    <2>3. \A i, j \in 1..m : i < j /\ s[i] = s[j] => j - i > Capacity
      BY <1>2, <1>a
    <2>4. EndHyp(n, m, o, s, l, s2, h)
      BY <2>1, <2>2, <2>3, <1>3, <1>4, <1>5, Zenon DEF EndHyp
    <2>5. EndGoal(n, m, l, s2)
      BY <2>4, EndOfSent, Zenon
    <2> QED
      BY <2>5, Zenon DEF EndGoal
  <1> HIDE DEF l, s2
  <1>8. CASE Len(o) < Capacity /\ o2 = l /\ mem2 = mem \cup {h}
    <2>1. Len(o2) = n + 1 /\ n = m /\ n < Capacity
      BY <1>8, <1>a, <1>1, <1>2, <1>3
    <2>2. ASSUME NEW i \in 1..n + 1 PROVE o2[i] = s2[(m + 1) - (n + 1) + i]
      <3>1. (m + 1) - (n + 1) + i = m - n + i
        OBVIOUS
      <3> QED
        BY <3>1, <1>7, <1>8
    <2>3. Len(o2) <= Len(s2) /\ Len(o2) <= Capacity /\ Len(o2) = Len(s2)
      BY <2>1, <1>4, TailAssumption
    <2>4. mem2 = InSeq(o2) /\ o2 \in Seq(Rows)
      BY <1>3, <1>6, <1>8, <1>b
    <2>5. \A i \in 1..Len(o2) : o2[i] = s2[Len(s2) - Len(o2) + i]
      BY <2>1, <2>2, <1>4
    <2>6. \A i, j \in 1..Len(s2) : i < j /\ s2[i] = s2[j] => j - i > Capacity
      BY <1>4, <1>7
    <2> QED
      BY <2>3, <2>4, <2>5, <2>6, Zenon DEF s2, Recent
  <1>9. CASE Len(o) = Capacity /\ o2 = Tail(l) /\ mem2 = (mem \cup {h}) \ {l[1]}
    <2>1. l # <<>> /\ n = Capacity
      BY <1>9, <1>1, <1>3
    <2>2. /\ o2 \in Seq(Rows) /\ Len(o2) = n /\ \A i \in 1..n : o2[i] = l[i + 1]
          /\ InSeq(l) = {l[1]} \cup InSeq(o2)
      BY <2>1, <1>3, <1>9, InTail
    <2>3. DOMAIN o2 = 1..n
      BY <2>2
    <2>4. l[1] \notin InSeq(o2)
      <3>1. \A i \in 1..n : o2[i] # l[1]
        <4> TAKE i \in 1..n
        <4>1. o2[i] = l[i + 1]
          BY <2>2
        <4>2. l[i + 1] # l[1]
          BY <2>1, <1>7
        <4> QED
          BY <4>1, <4>2
      <3> QED
        BY <3>1, <2>3, Zenon DEF InSeq
    <2>5. mem2 = InSeq(o2)
      BY <2>2, <2>4, <1>6, <1>9, <1>b
    <2>6. ASSUME NEW i \in 1..n PROVE o2[i] = s2[(m + 1) - n + i]
      <3>1. i + 1 \in 1..n + 1 /\ (m + 1) - n + i = m - n + (i + 1)
        OBVIOUS
      <3> QED
        BY <3>1, <2>2, <1>7
    <2>7. n <= m + 1
      BY <1>1, <1>2, <1>a
    <2>8. Len(o2) <= Len(s2) /\ Len(o2) <= Capacity /\ ~(Len(o2) < Capacity)
      BY <2>1, <2>2, <2>7, <1>4
    <2>9. \A i \in 1..Len(o2) : o2[i] = s2[Len(s2) - Len(o2) + i]
      BY <2>2, <2>6, <1>4
    <2>10. \A i, j \in 1..Len(s2) : i < j /\ s2[i] = s2[j] => j - i > Capacity
      BY <1>4, <1>7
    <2> QED
      BY <2>2, <2>5, <2>8, <2>9, <2>10, Zenon DEF s2, Recent
  <1> QED
    BY <1>8, <1>9, Zenon DEF l, Extended

\* A step of SendRow: the head of the batch is skipped or sent.
LEMMA SendRowInv ==
  ASSUME Inv, SendRow
  PROVE  Inv'
  <1> DEFINE h == Head(batch)
  <1>1. Typed /\ MemoryIsRecent /\ RepeatedOnlyWhenForgotten /\ PollInv
    BY DEF Inv
  <1>2. batch \in Seq(Rows) /\ order \in Seq(Rows) /\ sent \in Seq(Rows) /\ batch # <<>>
    BY <1>1 DEF Typed, SendRow
  <1>3. h \in Rows /\ batch' \in Seq(Rows) /\ InSeq(batch) = {h} \cup InSeq(batch')
    BY <1>2, InTail DEF SendRow
  <1>4. stream = "sending" /\ UNCHANGED <<stream, polled, told>>
    BY DEF SendRow
  <1>5. InSeq(order) \subseteq InSeq(sent)
    <2>1. Len(order) \in Nat /\ Len(sent) \in Nat /\ Len(order) <= Len(sent)
      BY <1>1, <1>2, TailAssumption DEF MemoryIsRecent
    <2>2. DOMAIN order = 1..Len(order) /\ DOMAIN sent = 1..Len(sent)
      BY <1>2
    <2>3. ASSUME NEW i \in 1..Len(order) PROVE order[i] \in InSeq(sent)
      <3>1. Len(sent) - Len(order) + i \in 1..Len(sent)
        BY <2>1
      <3>2. order[i] = sent[Len(sent) - Len(order) + i]
        BY <1>1 DEF MemoryIsRecent
      <3> QED
        BY <3>1, <3>2, <2>2 DEF InSeq
    <2> QED
      BY <2>2, <2>3 DEF InSeq
  <1>6. CASE h \in seen
    <2>1. UNCHANGED <<seen, order, sent>>
      BY <1>6 DEF SendRow, memory
    <2>2. h \in InSeq(sent)
      BY <1>1, <1>5, <1>6 DEF MemoryIsRecent
    <2>3. Typed'
      BY <1>1, <1>3, <1>4, <2>1 DEF Typed
    <2>4. MemoryIsRecent' /\ RepeatedOnlyWhenForgotten'
      BY <1>1, <2>1 DEF MemoryIsRecent, RepeatedOnlyWhenForgotten, InSeq
    <2>5. InSeq(sent') = InSeq(sent)
      BY <2>1
    <2>6. PollInv'
      BY <1>1, <1>3, <1>4, <2>2, <2>5 DEF PollInv
    <2> QED
      BY <2>3, <2>4, <2>6 DEF Inv
  <1>7. CASE h \notin seen
    <2>1. Remember(h) /\ sent' = Append(sent, h)
      BY <1>7 DEF SendRow
    <2>2. Recent(order, seen, sent)
      <3>1. /\ Len(order) <= Len(sent) /\ Len(order) <= Capacity
            /\ Len(order) < Capacity => Len(order) = Len(sent)
        BY <1>1, <1>2, TailAssumption DEF MemoryIsRecent
      <3>2. DOMAIN sent = 1..Len(sent)
        BY <1>2
      <3> QED
        BY <1>1, <3>1, <3>2, Zenon DEF Recent, MemoryIsRecent, RepeatedOnlyWhenForgotten
    <2>3. Extended(order, seen, h, order', seen')
      <3>1. Len(Append(order, h)) = Len(order) + 1 /\ Len(order) \in Nat
        BY <1>2
      <3>2. Len(order) <= Capacity /\ Capacity \in Nat
        BY <2>2, TailAssumption DEF Recent
      <3>3. CASE Len(order) < Capacity
        <4>1. ~(Len(Append(order, h)) > Capacity)
          BY <3>1, <3>2, <3>3
        <4> QED
          BY <4>1, <3>3, <2>1, Zenon DEF Remember, Extended
      <3>4. CASE Len(order) = Capacity
        <4>1. Len(Append(order, h)) > Capacity
          BY <3>1, <3>2, <3>4
        <4> QED
          BY <4>1, <3>4, <2>1, Zenon DEF Remember, Extended
      <3> QED
        BY <3>1, <3>2, <3>3, <3>4
    <2>4. order' \in Seq(Rows) /\ Recent(order', seen', sent')
      BY <1>2, <1>3, <1>7, <2>1, <2>2, <2>3, Remembered, Zenon
    <2>5. sent' \in Seq(Rows) /\ InSeq(sent') = InSeq(sent) \cup {h}
      BY <1>2, <1>3, <2>1, InAppend
    <2>6. seen' \subseteq Rows
      BY <1>1, <1>3, <2>1 DEF Remember, Typed
    <2>7. Typed'
      BY <1>1, <1>3, <1>4, <2>4, <2>5, <2>6 DEF Typed
    <2>8. RepeatedOnlyWhenForgotten'
      <3>1. DOMAIN sent' = 1..Len(sent')
        BY <2>5
      <3> QED
        BY <2>4, <3>1, Zenon DEF Recent, RepeatedOnlyWhenForgotten
    <2>9. MemoryIsRecent'
      <3>1. Len(order') = IF Len(sent') < Capacity THEN Len(sent') ELSE Capacity
        BY <2>4, <2>5, TailAssumption DEF Recent
      <3> QED
        BY <2>4, <3>1, Zenon DEF Recent, MemoryIsRecent
    <2>10. PollInv'
      BY <1>1, <1>3, <1>4, <2>5 DEF PollInv
    <2> QED
      BY <2>7, <2>8, <2>9, <2>10 DEF Inv
  <1> QED
    BY <1>6, <1>7

\* The other steps send nothing.
LEMMA QuietInv ==
  ASSUME Inv, [Next]_vars, ~SendRow
  PROVE  Inv'
  <1>1. UNCHANGED <<seen, order, sent>>
    BY DEF Next, vars, memory, Ingest, Advance, ReceiveTick, QuerySucceeds, QueryFails,
           PollEnds, StreamEnds, Rest
  <1>2. Typed /\ MemoryIsRecent /\ RepeatedOnlyWhenForgotten /\ PollInv
    BY DEF Inv
  <1>3. MemoryIsRecent' /\ RepeatedOnlyWhenForgotten' /\ InSeq(sent') = InSeq(sent)
    BY <1>1, <1>2 DEF MemoryIsRecent, RepeatedOnlyWhenForgotten, InSeq
  <1>4. CASE QuerySucceeds
    <2>1. batch' \in Seq(Rows) /\ WindowRows \subseteq Rows
      BY <1>4, ResultsAreRows DEF QuerySucceeds, WindowRows
    <2>2. polled' = WindowRows /\ told' = told \cup (WindowRows \ InSeq(batch'))
      BY <1>4 DEF QuerySucceeds
    <2>3. stream' = "sending"
      BY <1>4 DEF QuerySucceeds
    <2>4. Typed'
      BY <1>1, <1>2, <2>1, <2>2, <2>3 DEF Typed
    <2>5. PollInv'
      BY <2>2, <2>3 DEF PollInv
    <2> QED
      BY <1>3, <2>4, <2>5 DEF Inv
  <1>5. CASE QueryFails
    <2>1. Typed' /\ PollInv'
      BY <1>1, <1>2, <1>5 DEF QueryFails, WindowRows, Typed, PollInv
    <2> QED
      BY <1>3, <2>1 DEF Inv
  <1>6. CASE PollEnds
    <2>1. batch = <<>> /\ InSeq(batch) = {}
      BY <1>6 DEF PollEnds, InSeq
    <2>2. stream = "sending" /\ stream' = "waiting" /\ UNCHANGED <<batch, polled, told>>
      BY <1>6 DEF PollEnds
    <2>3. Typed' /\ PollInv'
      BY <1>1, <1>2, <1>3, <2>1, <2>2 DEF Typed, PollInv
    <2> QED
      BY <1>3, <2>3 DEF Inv
  <1>7. CASE ReceiveTick \/ StreamEnds
    <2>1. UNCHANGED <<batch, polled, told>>
      BY <1>7 DEF ReceiveTick, StreamEnds
    <2>2. \/ stream = "waiting" /\ stream' = "querying"
          \/ stream' = "ended"
      BY <1>7 DEF ReceiveTick, StreamEnds
    <2>3. Typed' /\ PollInv'
      BY <1>1, <1>2, <1>3, <2>1, <2>2 DEF Typed, PollInv
    <2> QED
      BY <1>3, <2>3 DEF Inv
  <1>8. CASE (\E r \in Rows : Ingest(r)) \/ Advance \/ Rest \/ UNCHANGED vars
    <2>1. UNCHANGED <<stream, batch, polled, told>>
      BY <1>8 DEF Ingest, Advance, Rest, vars
    <2>2. Typed' /\ PollInv'
      BY <1>1, <1>2, <1>3, <2>1 DEF Typed, PollInv
    <2> QED
      BY <1>3, <2>2 DEF Inv
  <1> QED
    BY <1>4, <1>5, <1>6, <1>7, <1>8 DEF Next

\* Every behaviour of the stream keeps the inductive invariant.
LEMMA InvHolds == Spec => []Inv
  <1>1. Inv /\ [Next]_vars => Inv'
    BY SendRowInv, QuietInv
  <1> QED
    BY <1>1, InitInv, PTL DEF Spec

\* tailLogs' seen and seenOrder agree and hold exactly the youngest keys sent.
THEOREM MemoryAgrees == Spec => []MemoryIsRecent
  BY InvHolds, PTL DEF Inv

\* A row is sent again only after tailLogs forgot it.
THEOREM NoEarlyRepetition == Spec => []RepeatedOnlyWhenForgotten
  BY InvHolds, PTL DEF Inv

\* A poll that is over skipped no row of its window without a gap or a warning.
THEOREM PollsAreComplete == Spec => []NothingSkipped
  <1>1. Inv => NothingSkipped
    BY DEF Inv, PollInv, NothingSkipped
  <1> QED
    BY <1>1, InvHolds, PTL

\* tailLogs remembers the last rows it sent, repeats none of them and skips none
\* silently.
THEOREM TailIsExact == Spec => []TailIsFaithful
  <1>1. MemoryIsRecent /\ RepeatedOnlyWhenForgotten /\ NothingSkipped => TailIsFaithful
    BY DEF TailIsFaithful
  <1> QED
    BY <1>1, MemoryAgrees, NoEarlyRepetition, PollsAreComplete, PTL
-----------------------------------------------------------------------------
(* The time that a row waits *)

\* No tick is from the future, and neither a tick nor a poll is late.
Clocks ==
    /\ clock \in Nat /\ tick \in Nat /\ pending \in Nat \cup {None}
    /\ stamp \in [Rows -> Nat] /\ arrival \in [Rows -> Nat \cup {None}]
    /\ pending <= clock /\ \A r \in Rows : arrival[r] <= clock
    /\ pending # None => clock <= pending + MaxDelay
    /\ stream \in {"querying", "sending"} => clock <= tick + MaxDelay

Prompt(r) == arrival[r] # None /\ arrival[r] - stamp[r] \in 0..Window - MaxDelay

\* A row that was neither sent nor announced waits for the next tick, for a pending
\* one, or for the end of a poll that has it in its window.
Waits(r) ==
    \/ pending = None /\ clock < arrival[r] + MaxDelay
    \/ pending # None /\ pending <= arrival[r] + MaxDelay
    \/ /\ stream = "querying" \/ (stream = "sending" /\ r \in polled)
       /\ tick \in arrival[r]..arrival[r] + MaxDelay

Handled(r) == r \in InSeq(sent) \cup told

PromptInv ==
    Clocks /\ \A r \in Rows : Prompt(r) /\ stream # "ended" => Handled(r) \/ Waits(r)

\* No row is visible at first.
LEMMA PromptStarts == Init => PromptInv
  <1> SUFFICES ASSUME Init PROVE PromptInv
    OBVIOUS
  <1>1. Clocks
    BY TailAssumption DEF Init, Clocks, None
  <1>2. \A r \in Rows : ~Prompt(r)
    BY DEF Init, Prompt
  <1> QED
    BY <1>1, <1>2 DEF PromptInv

\* Advance waits for what is due, and the other steps take no time.
LEMMA ClocksKeep == Clocks /\ [Next]_vars => Clocks'
  <1> SUFFICES ASSUME Clocks, [Next]_vars PROVE Clocks'
    OBVIOUS
  <1> USE TailAssumption DEF Clocks, None
  <1>1. ASSUME NEW r \in Rows, Ingest(r) PROVE Clocks'
    <2>1. /\ UNCHANGED <<clock, stamp, pending, stream, tick>>
          /\ arrival' = [arrival EXCEPT ![r] = clock]
      BY <1>1 DEF Ingest
    <2>2. arrival' \in [Rows -> Nat \cup {None}] /\ \A q \in Rows : arrival'[q] <= clock
      BY <2>1
    <2> QED
      BY <2>1, <2>2
  <1>2. CASE Advance
    <2>1. /\ clock' = clock + 1 /\ UNCHANGED <<stamp, arrival, stream, tick>> /\ ~Overdue
          /\ pending' = IF pending = None /\ stream # "ended" THEN clock + 1 ELSE pending
      BY <1>2 DEF Advance, backend
    <2>2. /\ stream \in {"querying", "sending"} => clock' <= tick + MaxDelay
          /\ pending # None => clock' <= pending + MaxDelay
      BY <2>1 DEF Overdue
    <2>3. \A r \in Rows : arrival[r] <= clock'
      BY <2>1
    <2>4. pending' \in Nat \cup {None} /\ pending' <= clock' /\ (pending' # None => clock' <= pending' + MaxDelay)
      BY <2>1, <2>2
    <2> QED
      BY <2>1, <2>2, <2>3, <2>4
  <1>3. CASE ReceiveTick
    BY <1>3 DEF ReceiveTick, backend
  <1>4. CASE QuerySucceeds \/ QueryFails \/ SendRow \/ PollEnds
    BY <1>4 DEF QuerySucceeds, QueryFails, SendRow, PollEnds, backend
  <1>5. CASE StreamEnds
    BY <1>5 DEF StreamEnds, backend
  <1>6. CASE Rest \/ UNCHANGED vars
    BY <1>6 DEF Rest, vars, backend
  <1> QED
    BY <1>1, <1>2, <1>3, <1>4, <1>5, <1>6 DEF Next

\* A poll whose tick is at most MaxDelay behind the arrival has the row in its window.
LEMMA TickSeesRow ==
    ASSUME Clocks, NEW r \in Rows, Prompt(r), tick \in arrival[r]..arrival[r] + MaxDelay
    PROVE  r \in WindowRows
  <1>1. arrival[r] \in Nat /\ stamp[r] \in Nat /\ tick \in Nat
    BY DEF Clocks, Prompt
  <1>2. stamp[r] \in tick - Window..tick
    BY <1>1, TailAssumption DEF Prompt
  <1> QED
    BY <1>2 DEF WindowRows, Prompt

\* Rows keep waiting, step by step, until they are sent or announced.
LEMMA PromptKeeps == Inv /\ Inv' /\ PromptInv /\ [Next]_vars => PromptInv'
  <1> SUFFICES ASSUME Inv, Inv', PromptInv, [Next]_vars,
                      NEW r \in Rows, Prompt(r)', stream' # "ended"
               PROVE  Handled(r)' \/ Waits(r)'
    BY ClocksKeep DEF PromptInv
  <1>1. Clocks /\ Clocks'
    BY ClocksKeep DEF PromptInv
  <1>2. MaxDelay \in Nat /\ MaxDelay >= 1
    BY TailAssumption
  <1>3. ASSUME NEW q \in Rows, Ingest(q) PROVE Handled(r)' \/ Waits(r)'
    <2>1. /\ UNCHANGED <<clock, stamp, pending, stream, tick, sent, polled, told>>
          /\ arrival' = [arrival EXCEPT ![q] = clock] /\ arrival[q] = None
      BY <1>3 DEF Ingest, memory
    <2>2. CASE r = q
      <3>1. arrival'[r] = clock
        BY <1>1, <2>1, <2>2 DEF Clocks
      <3>2. \/ pending' = None /\ clock' < arrival'[r] + MaxDelay
            \/ pending' # None /\ pending' <= arrival'[r] + MaxDelay
        BY <1>1, <1>2, <2>1, <3>1 DEF Clocks, None
      <3> QED
        BY <3>2 DEF Waits
    <2>3. CASE r # q
      <3>1. arrival'[r] = arrival[r]
        BY <1>1, <2>1, <2>3 DEF Clocks
      <3>2. Prompt(r) /\ stream # "ended"
        BY <2>1, <3>1 DEF Prompt
      <3>3. Handled(r) \/ Waits(r)
        BY <3>2 DEF PromptInv
      <3> QED
        BY <2>1, <3>1, <3>3 DEF Handled, Waits, InSeq
    <2> QED
      BY <2>2, <2>3
  <1>4. ASSUME UNCHANGED <<stamp, arrival>>, stream # "ended" PROVE Prompt(r) /\ (Handled(r) \/ Waits(r))
    BY <1>4 DEF Prompt, PromptInv
  <1>5. CASE Advance
    <2>1. /\ clock' = clock + 1 /\ UNCHANGED <<stamp, arrival, stream, tick, sent, polled, told>>
          /\ pending' = IF pending = None /\ stream # "ended" THEN clock + 1 ELSE pending
      BY <1>5 DEF Advance, backend, memory
    <2>2. Handled(r) \/ Waits(r)
      BY <1>4, <2>1
    <2>3. arrival[r] \in Nat /\ arrival'[r] = arrival[r] /\ clock \in Nat
      BY <1>1, <2>1 DEF Clocks, Prompt
    <2>4. CASE pending = None /\ clock < arrival[r] + MaxDelay
      <3>1. pending' # None /\ pending' <= arrival'[r] + MaxDelay
        BY <1>2, <2>1, <2>3, <2>4 DEF None
      <3> QED
        BY <3>1 DEF Waits
    <2>5. CASE pending # None /\ pending <= arrival[r] + MaxDelay
      BY <2>1, <2>5 DEF Waits
    <2> QED
      BY <2>1, <2>2, <2>4, <2>5 DEF Handled, Waits, InSeq
  <1>6. CASE ReceiveTick
    <2>1. /\ UNCHANGED <<clock, stamp, arrival, sent, polled, told>> /\ stream = "waiting"
          /\ tick' = pending /\ pending # None /\ pending' = None /\ stream' = "querying"
      BY <1>6 DEF ReceiveTick, backend, memory
    <2>2. Handled(r) \/ Waits(r)
      BY <1>4, <2>1
    <2>3. arrival[r] \in Nat /\ clock \in Nat /\ pending \in Nat /\ clock <= pending + MaxDelay
      BY <1>1, <2>1 DEF Clocks, Prompt
    <2>4. CASE pending <= arrival[r] + MaxDelay
      <3>1. \/ pending \in arrival[r]..arrival[r] + MaxDelay
            \/ clock < arrival[r] + MaxDelay
        BY <1>2, <2>3, <2>4
      <3> QED
        BY <2>1, <3>1 DEF Waits
    <2> QED
      BY <2>1, <2>2, <2>4 DEF Handled, Waits, InSeq
  <1>7. CASE QuerySucceeds
    <2>1. /\ UNCHANGED <<clock, stamp, arrival, pending, tick, sent>> /\ stream = "querying"
          /\ told \subseteq told' /\ polled' = WindowRows /\ stream' = "sending"
      BY <1>7 DEF QuerySucceeds, backend, memory
    <2>2. Prompt(r) /\ (Handled(r) \/ Waits(r))
      BY <1>4, <2>1
    <2>3. tick \in arrival[r]..arrival[r] + MaxDelay => r \in polled'
      BY <1>1, <2>1, <2>2, TickSeesRow
    <2> QED
      BY <2>1, <2>2, <2>3 DEF Handled, Waits, InSeq
  <1>8. CASE QueryFails
    <2>1. /\ UNCHANGED <<clock, stamp, arrival, pending, tick, sent>> /\ stream = "querying"
          /\ told' = told \cup WindowRows
      BY <1>8 DEF QueryFails, backend, memory
    <2>2. Prompt(r) /\ (Handled(r) \/ Waits(r))
      BY <1>4, <2>1
    <2>3. tick \in arrival[r]..arrival[r] + MaxDelay => r \in told'
      BY <1>1, <2>1, <2>2, TickSeesRow
    <2> QED
      BY <2>1, <2>2, <2>3 DEF Handled, Waits, InSeq
  <1>9. CASE SendRow
    <2>1. UNCHANGED <<clock, stamp, arrival, pending, stream, tick, polled, told>> /\ stream = "sending"
      BY <1>9 DEF SendRow, backend
    <2>2. InSeq(sent) \subseteq InSeq(sent')
      <3>1. sent \in Seq(Rows) /\ batch \in Seq(Rows) /\ batch # <<>>
        BY <1>9 DEF Inv, Typed, SendRow
      <3>2. Head(batch) \in Rows
        BY <3>1, InTail
      <3>3. sent' = sent \/ sent' = Append(sent, Head(batch))
        BY <1>9 DEF SendRow, memory
      <3>4. InSeq(Append(sent, Head(batch))) = InSeq(sent) \cup {Head(batch)}
        BY <3>1, <3>2, InAppend
      <3> QED
        BY <3>3, <3>4
    <2>3. Handled(r) \/ Waits(r)
      BY <1>4, <2>1
    <2> QED
      BY <2>1, <2>2, <2>3 DEF Handled, Waits
  <1>10. CASE PollEnds
    <2>1. /\ UNCHANGED <<clock, stamp, arrival, pending, tick, sent, polled, told>>
          /\ stream = "sending" /\ stream' = "waiting"
      BY <1>10 DEF PollEnds, backend, memory
    <2>2. Handled(r) \/ Waits(r)
      BY <1>4, <2>1
    <2>3. polled' \subseteq InSeq(sent') \cup told'
      BY <2>1 DEF Inv, PollInv
    <2>4. CASE r \in polled
      BY <2>1, <2>3, <2>4 DEF Handled
    <2> QED
      BY <2>1, <2>2, <2>4 DEF Handled, Waits, InSeq
  <1>11. CASE StreamEnds
    BY <1>11 DEF StreamEnds
  <1>12. CASE Rest \/ UNCHANGED vars
    <2>1. UNCHANGED <<clock, stamp, arrival, pending, stream, tick, sent, polled, told>>
      BY <1>12 DEF Rest, vars, backend, memory
    <2>2. Handled(r) \/ Waits(r)
      BY <1>4, <2>1
    <2> QED
      BY <2>1, <2>2 DEF Handled, Waits, InSeq
  <1> QED
    BY <1>3, <1>5, <1>6, <1>7, <1>8, <1>9, <1>10, <1>11, <1>12 DEF Next

\* A row that becomes visible soon after its timestamp is sent by tailLogs, or its
\* client is told of a gap or a warning, within 2 MaxDelay + 1: the next tick comes
\* within MaxDelay, its window still holds the row, and its poll ends within MaxDelay.
THEOREM PromptRowsArrive == Spec => []PromptRowsAreSent
  <1>1. PromptInv => PromptRowsAreSent
    <2> SUFFICES ASSUME PromptInv, NEW r \in Rows, arrival[r] # None, stream # "ended",
                        arrival[r] - stamp[r] \in 0..Window - MaxDelay,
                        clock > arrival[r] + 2 * MaxDelay, ~Handled(r)
                 PROVE  FALSE
      BY DEF PromptRowsAreSent, Handled
    <2>1. Waits(r) /\ Clocks
      BY DEF PromptInv, Prompt
    <2>2. clock \in Nat /\ arrival[r] \in Nat /\ tick \in Nat /\ MaxDelay \in Nat
      BY <2>1, TailAssumption DEF Clocks
    <2>3. clock <= arrival[r] + 2 * MaxDelay
      <3>1. CASE pending = None /\ clock < arrival[r] + MaxDelay
        BY <2>2, <3>1
      <3>2. CASE pending # None /\ pending <= arrival[r] + MaxDelay
        BY <2>1, <2>2, <3>2 DEF Clocks
      <3>3. CASE stream \in {"querying", "sending"} /\ tick \in arrival[r]..arrival[r] + MaxDelay
        BY <2>1, <2>2, <3>3 DEF Clocks
      <3> QED
        BY <2>1, <3>1, <3>2, <3>3 DEF Waits
    <2> QED
      BY <2>2, <2>3
  <1>2. Inv /\ [Next]_vars => Inv'
    BY SendRowInv, QuietInv
  <1>3. Inv /\ PromptInv /\ [Next]_vars => (Inv /\ PromptInv)'
    BY <1>2, PromptKeeps
  <1> QED
    BY <1>1, <1>3, InitInv, PromptStarts, PTL DEF Spec
=============================================================================
