-------------------------- MODULE TcpFramingProofs --------------------------
(***************************************************************************)
(* The bytes of one connection, for any messages, counts and framing, any  *)
(* limit on a message and any number of messages: handleTCP gives the      *)
(* pipeline what the peer wrote.                                           *)
(***************************************************************************)
EXTENDS TcpFraming, SequenceTheorems, WellFoundedInduction, TLAPS

Bytes == 0..255

\* A set of numbers that is not empty has a least one.
LEMMA LeastOf ==
    ASSUME NEW T \in SUBSET Nat, T # {}
    PROVE  \E b \in T : \A c \in T : b <= c
  <1>1. PICK b \in T : \A c \in T : ~(<<c, b>> \in OpToRel(<, Nat))
    BY Zenon, NatLessThanWellFounded, WFMin
  <1>2. \A c \in T : ~(c < b)
    BY Zenon, <1>1 DEF OpToRel
  <1> QED
    BY <1>2

\* What holds of 0 and passes on from each number to the next holds up to N.
LEMMA Upwards ==
    ASSUME NEW N \in Nat, NEW D, 0 \in D, \A k \in 0..N : k \in D /\ k < N => k + 1 \in D
    PROVE  \A k \in 0..N : k \in D
  <1> SUFFICES ASSUME {k \in 0..N : k \notin D} # {} PROVE FALSE
    OBVIOUS
  <1>0. {k \in 0..N : k \notin D} \in SUBSET Nat
    OBVIOUS
  <1>1. PICK b \in {k \in 0..N : k \notin D} : \A c \in {k \in 0..N : k \notin D} : b <= c
    BY <1>0, LeastOf, Zenon
  <1>2. b # 0 /\ b - 1 \in 0..N /\ ~(b <= b - 1)
    BY <1>1
  <1>3. b - 1 \in D
    BY <1>1, <1>2
  <1> QED
    BY <1>1, <1>2, <1>3

\* Leading finds the digits that looksOctetCounted would pass, however many.
LEMMA LeadingCounts ==
    ASSUME NEW w \in Seq(Bytes)
    PROVE  /\ Leading(w) \in 0..Len(w)
           /\ \A k \in 1..Leading(w) : IsDigit(w[k])
           /\ Leading(w) < Len(w) => ~IsDigit(w[Leading(w) + 1])
  <1> DEFINE T == {n \in 0..Len(w) : n = Len(w) \/ ~IsDigit(w[n + 1])}
  <1>1. Len(w) \in T /\ T \in SUBSET Nat
    OBVIOUS
  <1>2. PICK n \in T : \A c \in T : n <= c
    BY <1>1, LeastOf, Zenon
  <1>3. ASSUME NEW k \in 1..n PROVE IsDigit(w[k])
    <2>1. k - 1 \in 0..Len(w) /\ k - 1 \notin T /\ (k - 1) + 1 = k
      BY <1>2
    <2> QED
      BY <2>1
  <1>4. \E m \in 0..Len(w) : /\ \A k \in 1..m : IsDigit(w[k])
                             /\ m < Len(w) => ~IsDigit(w[m + 1])
    BY <1>2, <1>3
  <1> QED
    BY <1>4, Zenon DEF Leading

\* No other number of digits is leading.
LEMMA LeadingIs ==
    ASSUME NEW w \in Seq(Bytes), NEW n \in 0..Len(w),
           \A k \in 1..n : IsDigit(w[k]),
           n < Len(w) => ~IsDigit(w[n + 1])
    PROVE  Leading(w) = n
  <1> DEFINE m == Leading(w)
  <1>1. /\ m \in 0..Len(w) /\ \A k \in 1..m : IsDigit(w[k])
        /\ m < Len(w) => ~IsDigit(w[m + 1])
    BY LeadingCounts
  <1> HIDE DEF m
  <1>2. ~(m < n)
    <2> SUFFICES ASSUME m < n PROVE FALSE
      OBVIOUS
    <2>1. m + 1 \in 1..n /\ m < Len(w)
      BY <1>1
    <2> QED
      BY <1>1, <2>1
  <1>3. ~(n < m)
    <2> SUFFICES ASSUME n < m PROVE FALSE
      OBVIOUS
    <2>1. n + 1 \in 1..m /\ n < Len(w)
      BY <1>1
    <2> QED
      BY <1>1, <2>1
  <1>4. m = n
    BY <1>1, <1>2, <1>3
  <1> QED
    BY <1>4 DEF m

\* Where ReadSlice would stop.
LEMMA LineEndFinds ==
    ASSUME NEW w \in Seq(Bytes)
    PROVE  /\ LineEnd(w) \in 0..Len(w)
           /\ LineEnd(w) = 0 => \A k \in 1..Len(w) : w[k] # LF
           /\ LineEnd(w) # 0 =>
                /\ w[LineEnd(w)] = LF
                /\ \A k \in 1..LineEnd(w) - 1 : w[k] # LF
  <1> DEFINE T == {n \in 1..Len(w) : w[n] = LF}
             Q(n) == IF n = 0 THEN \A k \in 1..Len(w) : w[k] # LF
                     ELSE w[n] = LF /\ \A k \in 1..n - 1 : w[k] # LF
  <1>1. \E n \in 0..Len(w) : Q(n)
    <2>1. CASE T = {}
      <3>1. Q(0) /\ 0 \in 0..Len(w)
        BY <2>1
      <3> QED
        BY <3>1
    <2>2. CASE T # {}
      <3>0. T \in SUBSET Nat
        OBVIOUS
      <3>1. PICK n \in T : \A c \in T : n <= c
        BY <2>2, <3>0, LeastOf, Zenon
      <3>2. \A k \in 1..n - 1 : w[k] # LF
        BY <3>1
      <3>3. Q(n) /\ n \in 0..Len(w)
        BY <3>1, <3>2
      <3> QED
        BY <3>3
    <2> QED
      BY <2>1, <2>2
  <1>2. LineEnd(w) \in 0..Len(w) /\ Q(LineEnd(w))
    BY <1>1, Zenon DEF LineEnd
  <1> QED
    BY <1>2

\* No other place is the end of the first line.
LEMMA LineEndIs ==
    ASSUME NEW w \in Seq(Bytes), NEW n \in 1..Len(w), w[n] = LF,
           \A k \in 1..n - 1 : w[k] # LF
    PROVE  LineEnd(w) = n
  <1> DEFINE m == LineEnd(w)
  <1>1. /\ m \in 0..Len(w)
        /\ m = 0 => \A k \in 1..Len(w) : w[k] # LF
        /\ m # 0 => w[m] = LF /\ \A k \in 1..m - 1 : w[k] # LF
    BY LineEndFinds
  <1> HIDE DEF m
  <1>2. m # 0
    BY <1>1
  <1>3. ~(m < n) /\ ~(n < m)
    BY <1>1, <1>2
  <1>4. m = n
    BY <1>1, <1>3
  <1> QED
    BY <1>4 DEF m

\* A stream without a line end has no first line to return.
LEMMA LineEndIsNone ==
    ASSUME NEW w \in Seq(Bytes), \A k \in 1..Len(w) : w[k] # LF
    PROVE  LineEnd(w) = 0
  BY LineEndFinds

\* The numbers that Atoi goes through, digit by digit.
Value(d, f, N) == f[0] = 0 /\ \A i \in 1..N : f[i] = 10 * f[i - 1] + d[i] - 48

\* Atoi of digits is a number.
LEMMA AtoiIsNumber ==
    ASSUME NEW d \in Seq(48..57)
    PROVE  Atoi(d) \in Nat
  <1> DEFINE N == Len(d)
             D == {k \in 0..N : \E f \in [0..k -> Nat] : Value(d, f, k)}
             R(f) == [k \in 0..N |-> IF k = 0 THEN 0 ELSE 10 * f[k - 1] + d[k] - 48]
             a == CHOOSE f : f = R(f)
  <1>1. N \in Nat
    OBVIOUS
  <1>2. 0 \in D
    <2>1. [i \in 0..0 |-> 0] \in [0..0 -> Nat] /\ Value(d, [i \in 0..0 |-> 0], 0)
      BY DEF Value
    <2> QED
      BY <2>1, <1>1
  <1>3. \A k \in 0..N : k \in D /\ k < N => k + 1 \in D
    <2> SUFFICES ASSUME NEW k \in 0..N, k \in D, k < N PROVE k + 1 \in D
      BY Zenon
    <2>1. PICK f \in [0..k -> Nat] : Value(d, f, k)
      OBVIOUS
    <2> DEFINE g == [i \in 0..k + 1 |-> IF i <= k THEN f[i] ELSE 10 * f[k] + d[k + 1] - 48]
    <2>2. d[k + 1] \in 48..57 /\ k + 1 \in 0..N /\ k \in Nat
      BY SMTT(30), <1>1
    <2>3. f[k] \in Nat /\ 10 * f[k] + d[k + 1] - 48 \in Nat
      <3>1. f[k] \in Nat
        BY <2>1, <2>2
      <3>2. \A x \in Nat, y \in 48..57 : 10 * x + y - 48 \in Nat
        OBVIOUS
      <3> QED
        BY <2>2, <3>1, <3>2, Zenon
    <2>4. g \in [0..k + 1 -> Nat]
      BY <2>2, <2>3
    <2>5. Value(d, g, k + 1)
      <3>1. g[0] = 0
        BY <2>1, <2>2 DEF Value
      <3>2. ASSUME NEW i \in 1..k + 1 PROVE g[i] = 10 * g[i - 1] + d[i] - 48
        <4>1. CASE i <= k
          <5>1. i \in 1..k /\ g[i] = f[i] /\ g[i - 1] = f[i - 1]
            BY <2>2, <4>1
          <5> QED
            BY <2>1, <5>1 DEF Value
        <4>2. CASE i = k + 1
          BY <2>2, <4>2
        <4> QED
          BY <2>2, <4>1, <4>2
      <3> QED
        BY Zenon, <3>1, <3>2 DEF Value
    <2> HIDE DEF g
    <2> QED
      BY Zenon, <2>2, <2>4, <2>5
  <1>4. N \in D
    <2>1. N \in 0..N
      BY <1>1
    <2> HIDE DEF D, N
    <2> QED
      BY <1>1, <1>2, <1>3, <2>1, Upwards, Zenon
  <1>5. PICK f \in [0..N -> Nat] : Value(d, f, N)
    BY <1>4
  <1>6. f = R(f)
    BY <1>1, <1>5 DEF Value
  <1>7. a = R(a)
    BY <1>6, Zenon
  <1> HIDE DEF a
  <1>8. N \in {k \in 0..N : a[k] = f[k]}
    <2> DEFINE S == {k \in 0..N : a[k] = f[k]}
    <2>1. 0 \in S
      BY <1>1, <1>5, <1>7 DEF Value
    <2>2. \A k \in 0..N : k \in S /\ k < N => k + 1 \in S
      <3> SUFFICES ASSUME NEW k \in 0..N, k \in S, k < N PROVE k + 1 \in S
        OBVIOUS
      <3>1. k + 1 \in 1..N /\ (k + 1) - 1 = k
        BY <1>1
      <3>2. a[k + 1] = 10 * a[k] + d[k + 1] - 48
        BY <1>7, <3>1
      <3>3. f[k + 1] = 10 * f[k] + d[k + 1] - 48
        BY <1>5, <3>1 DEF Value
      <3> QED
        BY <3>1, <3>2, <3>3
    <2>0. N \in 0..N
      BY <1>1
    <2> HIDE DEF S, N
    <2>3. N \in S
      BY <1>1, <2>0, <2>1, <2>2, Upwards, Zenon
    <2> QED
      BY <2>3 DEF S
  <1>9. Atoi(d) = a[N]
    BY Zenon DEF Atoi, a
  <1> QED
    BY <1>1, <1>5, <1>8, <1>9

\* A result of readFrame that its caller can use.
Usable(r, w) ==
    r.kind = "frame" => r.payload \in Seq(Bytes) /\ Len(r.payload) <= MaxBytes /\ r.used \in 0..Len(w)

\* The fields of readFrame's results.
LEMMA FrameFields ==
    /\ \A b, u : /\ Frame(b, u).kind = "frame"
                 /\ Frame(b, u).payload = b /\ Frame(b, u).used = u
    /\ \A k : Failure(k).kind = k
  BY DEF Frame, Failure

\* A slice of a stream is a slice of bytes.
LEMMA SliceOfBytes ==
    ASSUME NEW w \in Seq(Bytes), NEW m \in 1..Len(w) + 1, NEW n \in 0..Len(w)
    PROVE  /\ SubSeq(w, m, n) \in Seq(Bytes)
           /\ Len(SubSeq(w, m, n)) = IF m <= n THEN n - m + 1 ELSE 0
           /\ \A i \in 1..n - m + 1 : SubSeq(w, m, n)[i] = w[m + i - 1]
  <1>1. m \in Int /\ n \in Int /\ \A i \in m..n : w[i] \in Bytes
    OBVIOUS
  <1> QED
    BY <1>1, SubSeqProperties

\* The beginning of a stream is a sequence of bytes.
LEMMA PrefixOfBytes ==
    ASSUME NEW w \in Seq(Bytes), NEW n \in 0..Len(w)
    PROVE  /\ SubSeq(w, 1, n) \in Seq(Bytes) /\ Len(SubSeq(w, 1, n)) = n
           /\ \A i \in 1..n : SubSeq(w, 1, n)[i] = w[i]
  <1>1. 1 \in 1..Len(w) + 1 /\ n \in Nat
    OBVIOUS
  <1>2. /\ SubSeq(w, 1, n) \in Seq(Bytes) /\ Len(SubSeq(w, 1, n)) = IF 1 <= n THEN n - 1 + 1 ELSE 0
        /\ \A i \in 1..n - 1 + 1 : SubSeq(w, 1, n)[i] = w[1 + i - 1]
    BY <1>1, SliceOfBytes, Zenon
  <1>3. n - 1 + 1 = n /\ \A i \in 1..n : 1 + i - 1 = i
    BY <1>1
  <1>4. \A i \in 1..n : SubSeq(w, 1, n)[i] = w[i]
    BY <1>2, <1>3, Zenon
  <1> QED
    BY <1>1, <1>2, <1>4

\* bytesTrimLine only takes bytes off the end.
LEMMA TrimShortens ==
    ASSUME NEW b \in Seq(Bytes)
    PROVE  /\ \A c : /\ TrimSuffix(b, c) \in Seq(Bytes)
                     /\ Len(TrimSuffix(b, c)) <= Len(b)
           /\ bytesTrimLine(b) \in Seq(Bytes)
           /\ Len(bytesTrimLine(b)) <= Len(b)
  <1>1. \A s \in Seq(Bytes) : \A c : /\ TrimSuffix(s, c) \in Seq(Bytes)
                                     /\ Len(TrimSuffix(s, c)) <= Len(s)
    <2> TAKE s \in Seq(Bytes)
    <2> TAKE c
    <2>1. CASE s # <<>> /\ s[Len(s)] = c
      <3>1. Len(s) - 1 \in 0..Len(s) /\ 1 \in 1..Len(s) + 1
        BY <2>1
      <3> QED
        BY <2>1, <3>1, SliceOfBytes DEF TrimSuffix
    <2>2. CASE ~(s # <<>> /\ s[Len(s)] = c)
      BY <2>2 DEF TrimSuffix
    <2> QED
      BY <2>1, <2>2
  <1> DEFINE s == TrimSuffix(b, LF)
             t == TrimSuffix(s, CR)
  <1>2. s \in Seq(Bytes) /\ Len(s) <= Len(b) /\ t \in Seq(Bytes) /\ Len(t) <= Len(s)
    BY <1>1, Zenon
  <1>3. bytesTrimLine(b) = t
    BY DEF bytesTrimLine
  <1> HIDE DEF s, t
  <1>4. Len(s) \in Nat /\ Len(t) \in Nat /\ Len(b) \in Nat
    BY <1>2
  <1> QED
    BY <1>1, <1>2, <1>3, <1>4

\* A count that readOctetCounted accepts is within the limit.
LEMMA OctetCountedIsUsable ==
    ASSUME NEW w \in Seq(Bytes)
    PROVE  Usable(readOctetCounted(w), w)
  <1> DEFINE n == Leading(w)
             spaced == n <= MaxDigits
             head == IF spaced THEN n + 1 ELSE MaxDigits + 1
             dig == SubSeq(w, 1, IF spaced THEN n ELSE head)
             count == Atoi(dig)
             r == readOctetCounted(w)
  <1>0. MaxBytes \in Nat /\ MaxDigits \in Nat
    BY FramingAssumption
  <1>1. n \in 0..Len(w) /\ \A k \in 1..n : w[k] \in 48..57
    BY LeadingCounts DEF IsDigit
  <1>2. head \in 1..Len(w) + 1 /\ (IF spaced THEN n ELSE head) \in 0..n
    BY <1>0, <1>1
  <1>3. dig \in Seq(48..57)
    BY <1>1, <1>2, SubSeqProperties
  <1>4. count \in Nat
    BY Zenon, <1>3, AtoiIsNumber
  <1>5. \/ r = Failure("short") \/ r = Failure("invalid") \/ r = Failure("too_large")
        \/ /\ r = Frame(SubSeq(w, head + 1, head + count), head + count)
           /\ ~(count > MaxBytes) /\ ~(Len(w) < head + count)
    BY DEF readOctetCounted
  <1> SUFFICES Usable(r, w)
    OBVIOUS
  <1> HIDE DEF n, head, dig, count, r
  <1>6. CASE /\ r = Frame(SubSeq(w, head + 1, head + count), head + count)
             /\ ~(count > MaxBytes) /\ ~(Len(w) < head + count)
    <2>1. Len(w) \in Nat /\ head + 1 \in 1..Len(w) + 1 /\ head + count \in 0..Len(w) /\ count <= MaxBytes
      BY <1>0, <1>2, <1>4, <1>6
    <2>2. /\ SubSeq(w, head + 1, head + count) \in Seq(Bytes)
          /\ Len(SubSeq(w, head + 1, head + count)) <= MaxBytes
      BY <1>0, <1>2, <1>4, <2>1, SliceOfBytes
    <2> QED
      BY <1>6, <2>1, <2>2, FrameFields, Zenon DEF Usable
  <1>7. CASE r = Failure("short") \/ r = Failure("invalid") \/ r = Failure("too_large")
    BY <1>7, FrameFields DEF Usable
  <1> QED
    BY <1>5, <1>6, <1>7

\* A line that readNewline accepts is within the limit.
LEMMA NewlineIsUsable ==
    ASSUME NEW w \in Seq(Bytes)
    PROVE  Usable(readNewline(w), w)
  <1> DEFINE k == LineEnd(w)
             n == IF k = 0 THEN Len(w) ELSE k
             r == readNewline(w)
  <1>1. n \in 0..Len(w) /\ 1 \in 1..Len(w) + 1
    BY LineEndFinds
  <1>2. \/ r = Failure("short") \/ r = Failure("too_large")
        \/ r = Frame(bytesTrimLine(SubSeq(w, 1, n)), n) /\ n <= MaxBytes
    BY DEF readNewline
  <1> SUFFICES Usable(r, w)
    OBVIOUS
  <1> HIDE DEF k, n, r
  <1>3. SubSeq(w, 1, n) \in Seq(Bytes) /\ Len(SubSeq(w, 1, n)) = n
    BY <1>1, SliceOfBytes
  <1>4. /\ bytesTrimLine(SubSeq(w, 1, n)) \in Seq(Bytes)
        /\ Len(bytesTrimLine(SubSeq(w, 1, n))) <= n
    BY Zenon, <1>3, TrimShortens
  <1>5. n <= MaxBytes => Len(bytesTrimLine(SubSeq(w, 1, n))) <= MaxBytes
    BY <1>1, <1>4, FramingAssumption
  <1>6. CASE r = Frame(bytesTrimLine(SubSeq(w, 1, n)), n) /\ n <= MaxBytes
    BY <1>1, <1>4, <1>5, <1>6, FrameFields, Zenon DEF Usable
  <1>7. CASE r = Failure("short") \/ r = Failure("too_large")
    BY <1>7, FrameFields DEF Usable
  <1> QED
    BY <1>2, <1>6, <1>7

\* Whatever the stream, a frame is no longer than max_message_bytes.
LEMMA FrameIsUsable ==
    ASSUME NEW w \in Seq(Bytes), framing \in {"auto", "newline", "octet_counting"}
    PROVE  Usable(readFrame(w), w)
  <1>1. \/ readFrame(w) = readOctetCounted(w)
        \/ readFrame(w) = readNewline(w)
        \/ \E mode : mode # "frame" /\ readFrame(w) = Failure(mode)
    <2>1. CASE framing = "auto"
      <3>1. looksOctetCounted(w) \in {"too_large", "short", "octet_counting", "newline"}
        BY DEF looksOctetCounted
      <3> QED
        BY <2>1, <3>1 DEF readFrame
    <2>2. CASE framing # "auto"
      BY <2>2 DEF readFrame
    <2> QED
      BY <2>1, <2>2
  <1>2. \A mode : mode # "frame" => Usable(Failure(mode), w)
    BY FrameFields DEF Usable
  <1> QED
    BY <1>1, <1>2, OctetCountedIsUsable, NewlineIsUsable

\* b is the line of the message m, with one or two bytes to end it.
LineOf(b, m) ==
    /\ b \in Seq(Bytes) /\ m \in Seq(Bytes)
    /\ \/ Len(b) = Len(m) + 1
       \/ Len(b) = Len(m) + 2 /\ b[Len(m) + 1] = CR
    /\ \A i \in 1..Len(m) : b[i] = m[i]
    /\ b[Len(b)] = LF

\* b is the message m after the digits d of its length and a space.
CountedOf(b, d, m) ==
    /\ b \in Seq(Bytes) /\ m \in Seq(Bytes) /\ d \in Seq(48..57)
    /\ Len(b) = Len(d) + 1 + Len(m)
    /\ \A i \in 1..Len(d) : b[i] = d[i]
    /\ b[Len(d) + 1] = SP
    /\ \A i \in 1..Len(m) : b[Len(d) + 1 + i] = m[i]

\* As far as both go, w is b.
Starts(w, b) == w \in Seq(Bytes) /\ \A i \in 1..Len(w) : i <= Len(b) => w[i] = b[i]

NoEnds(m) == \A i \in 1..Len(m) : m[i] \notin {LF, CR}

\* looksOctetCounted takes no line for a count.
LEMMA LineIsNoCount ==
    ASSUME NEW w, NEW b, NEW m, LineOf(b, m), Starts(w, b), ~BeginsLikeCount(m)
    PROVE  \/ looksOctetCounted(w) = "newline"
           \/ looksOctetCounted(w) = "short" /\ Len(w) < Len(b)
  <1> DEFINE n == Leading(w)
             p == Leading(m)
  <1>0. /\ MaxDigits \in Nat /\ Len(w) \in Nat /\ Len(m) \in Nat /\ Len(b) \in Nat
        /\ w \in Seq(Bytes) /\ m \in Seq(Bytes)
    BY FramingAssumption DEF LineOf, Starts
  <1>1. /\ n \in 0..Len(w) /\ \A k \in 1..n : IsDigit(w[k])
        /\ n < Len(w) => ~IsDigit(w[n + 1])
    BY <1>0, LeadingCounts
  <1>2. /\ p \in 0..Len(m) /\ \A k \in 1..p : IsDigit(m[k])
        /\ p < Len(m) => ~IsDigit(m[p + 1])
    BY <1>0, LeadingCounts
  <1>3. ~(p >= MaxDigits) /\ ~(p \in 1..Len(m) - 1 /\ m[p + 1] = SP)
    BY DEF BeginsLikeCount
  <1>4. /\ n >= MaxDigits => looksOctetCounted(w) = "too_large"
        /\ n < MaxDigits /\ n = Len(w) => looksOctetCounted(w) = "short"
        /\ ~(n >= MaxDigits) /\ ~(n = Len(w)) =>
             looksOctetCounted(w) =
                IF n > 0 /\ w[n + 1] = SP THEN "octet_counting" ELSE "newline"
    BY <1>0, <1>1 DEF looksOctetCounted
  <1> HIDE DEF n, p
  <1>5. /\ Len(m) < Len(b) /\ \A i \in 1..Len(m) : i <= Len(w) => w[i] = m[i]
        /\ Len(m) < Len(w) => w[Len(m) + 1] \in {10, 13}
    BY SMTT(30), <1>0 DEF LineOf, Starts, LF, CR
  <1>6. n <= Len(m)
    <2> SUFFICES ASSUME Len(m) < n PROVE FALSE
      BY <1>0, <1>1
    <2>1. Len(m) + 1 \in 1..n /\ Len(m) < Len(w)
      BY <1>0, <1>1
    <2> QED
      BY SMTT(30), <1>1, <1>5, <2>1 DEF IsDigit
  <1>7. n <= p
    <2> SUFFICES ASSUME p < n PROVE FALSE
      BY <1>1, <1>2
    <2>1. p + 1 \in 1..n /\ p < Len(m) /\ p + 1 \in 1..Len(m) /\ p + 1 <= Len(w)
      BY <1>0, <1>1, <1>2, <1>6
    <2>2. w[p + 1] = m[p + 1]
      BY <1>5, <2>1
    <2> QED
      BY <1>1, <1>2, <2>1, <2>2
  <1>8. ~(n >= MaxDigits)
    BY <1>0, <1>1, <1>2, <1>3, <1>7
  <1>9. n < Len(w) => ~(n > 0 /\ w[n + 1] = SP)
    <2> SUFFICES ASSUME n < Len(w), n > 0, w[n + 1] = 32 PROVE FALSE
      BY DEF SP
    <2>1. n + 1 \in 1..Len(m) /\ n + 1 <= Len(w)
      BY <1>0, <1>1, <1>5, <1>6
    <2>2. w[n + 1] = m[n + 1]
      BY <1>5, <2>1
    <2>3. ~(n < p)
      BY <1>1, <1>2, <2>2
    <2>4. p = n
      BY <1>1, <1>2, <1>7, <2>3
    <2> QED
      BY <1>1, <1>3, <2>1, <2>2, <2>4 DEF SP
  <1>10. CASE n = Len(w)
    BY <1>0, <1>1, <1>4, <1>5, <1>6, <1>8, <1>10
  <1>11. CASE n # Len(w)
    BY <1>0, <1>1, <1>4, <1>8, <1>9, <1>11
  <1> QED
    BY <1>10, <1>11

\* bytesTrimLine gives the message of a line back.
LEMMA TrimOfLine ==
    ASSUME NEW b, NEW m, LineOf(b, m), NoEnds(m)
    PROVE  bytesTrimLine(b) = m
  <1>0. /\ b \in Seq(Bytes) /\ m \in Seq(Bytes) /\ Len(b) \in Nat /\ Len(m) \in Nat
        /\ Len(b) = Len(m) + 1 \/ Len(b) = Len(m) + 2
        /\ b # <<>> /\ b[Len(b)] = LF
    BY DEF LineOf
  <1> DEFINE s == SubSeq(b, 1, Len(b) - 1)
  <1>1. TrimSuffix(b, LF) = s
    BY <1>0, Zenon DEF TrimSuffix
  <1>2. /\ s \in Seq(Bytes) /\ Len(s) = Len(b) - 1 /\ Len(s) \in Nat
        /\ \A i \in 1..Len(b) - 1 : s[i] = b[i]
    <2>1. Len(b) - 1 \in 0..Len(b)
      BY <1>0
    <2>2. /\ s \in Seq(Bytes) /\ Len(s) = Len(b) - 1
          /\ \A i \in 1..Len(b) - 1 : s[i] = b[i]
      BY <1>0, <2>1, PrefixOfBytes, Zenon
    <2> QED
      BY <1>0, <2>1, <2>2
  <1> HIDE DEF s
  <1>3. CASE Len(b) = Len(m) + 1
    <2>1. s = m
      <3>1. Len(s) = Len(m) /\ \A i \in 1..Len(s) : s[i] = m[i]
        BY <1>0, <1>2, <1>3 DEF LineOf
      <3> QED
        BY <1>0, <1>2, <3>1, SeqEqual
    <2>2. m # <<>> => m[Len(m)] # CR
      BY <1>0 DEF NoEnds
    <2>3. TrimSuffix(m, CR) = m
      BY <2>2, Zenon DEF TrimSuffix
    <2> QED
      BY <1>1, <2>1, <2>3, Zenon DEF bytesTrimLine
  <1>4. CASE Len(b) = Len(m) + 2
    <2> DEFINE t == SubSeq(s, 1, Len(s) - 1)
    <2>1. s # <<>> /\ s[Len(s)] = CR
      BY <1>0, <1>2, <1>4 DEF LineOf
    <2>2. TrimSuffix(s, CR) = t
      BY <2>1, Zenon DEF TrimSuffix
    <2>3. /\ t \in Seq(Bytes) /\ Len(t) = Len(m)
          /\ \A i \in 1..Len(m) : t[i] = s[i]
      <3>1. Len(s) - 1 \in 0..Len(s) /\ Len(s) - 1 = Len(m)
        BY <1>0, <1>2, <1>4
      <3>2. /\ t \in Seq(Bytes) /\ Len(t) = Len(s) - 1
            /\ \A i \in 1..Len(s) - 1 : t[i] = s[i]
        BY <1>2, <3>1, PrefixOfBytes, Zenon
      <3> QED
        BY <3>1, <3>2, Zenon
    <2>4. t = m
      <3> HIDE DEF t
      <3>1. \A i \in 1..Len(t) : t[i] = m[i]
        BY <1>0, <1>2, <1>4, <2>3 DEF LineOf
      <3> QED
        BY <1>0, <2>3, <3>1, SeqEqual
    <2> HIDE DEF t
    <2> QED
      BY <1>1, <2>2, <2>4, Zenon DEF bytesTrimLine
  <1> QED
    BY <1>0, <1>3, <1>4

\* readNewline on a stream that begins with a line returns its message.
LEMMA WholeLine ==
    ASSUME NEW w, NEW b, NEW m, LineOf(b, m), Starts(w, b), NoEnds(m),
           Len(b) <= Len(w), Len(b) <= MaxBytes
    PROVE  readNewline(w) = Frame(m, Len(b))
  <1>0. /\ w \in Seq(Bytes) /\ b \in Seq(Bytes) /\ m \in Seq(Bytes)
        /\ Len(w) \in Nat /\ Len(b) \in Nat /\ Len(m) \in Nat /\ MaxBytes \in Nat
        /\ Len(b) \in 1..Len(w)
    BY FramingAssumption DEF LineOf, Starts
  <1>1. w[Len(b)] = LF
    BY <1>0 DEF LineOf, Starts
  <1>2. ASSUME NEW k \in 1..Len(b) - 1 PROVE w[k] # LF
    <2>1. w[k] = b[k]
      BY <1>0 DEF Starts
    <2>2. CASE k <= Len(m)
      BY <1>0, <2>1, <2>2 DEF LineOf, NoEnds
    <2>3. CASE k = Len(m) + 1
      BY <1>0, <2>1, <2>3 DEF LineOf, LF, CR
    <2> QED
      BY <1>0, <2>2, <2>3 DEF LineOf
  <1>3. LineEnd(w) = Len(b)
    BY <1>0, <1>1, <1>2, LineEndIs
  <1>4. SubSeq(w, 1, Len(b)) = b
    <2>1. Len(b) \in 0..Len(w)
      BY <1>0
    <2> DEFINE s == SubSeq(w, 1, Len(b))
    <2>2. s \in Seq(Bytes) /\ Len(s) = Len(b) /\ \A i \in 1..Len(b) : s[i] = w[i]
      BY <1>0, <2>1, PrefixOfBytes, Zenon
    <2> HIDE DEF s
    <2>3. \A i \in 1..Len(s) : s[i] = b[i]
      BY <1>0, <2>2 DEF Starts
    <2>4. s = b
      BY <1>0, <2>2, <2>3, SeqEqual
    <2> QED
      BY <2>4 DEF s
  <1>5. bytesTrimLine(b) = m
    BY TrimOfLine
  <1>6. Len(b) # 0 /\ Len(b) > 0 /\ ~(Len(b) > MaxBytes)
    BY <1>0
  <1>7. readNewline(w) = Frame(bytesTrimLine(SubSeq(w, 1, Len(b))), Len(b))
    BY <1>3, <1>6 DEF readNewline
  <1> QED
    BY <1>4, <1>5, <1>7, Zenon

\* readNewline on a part of a line waits, and returns it when the stream has ended.
LEMMA PartOfLine ==
    ASSUME NEW w, NEW b, NEW m, LineOf(b, m), Starts(w, b), NoEnds(m),
           Len(w) < Len(b), Len(b) <= MaxBytes
    PROVE  \/ readNewline(w) = Failure("short") /\ ~(peer = "eof" /\ w # <<>>)
           \/ /\ peer = "eof" /\ w # <<>>
              /\ readNewline(w) = Frame(bytesTrimLine(w), Len(w))
  <1>0. /\ w \in Seq(Bytes) /\ b \in Seq(Bytes) /\ m \in Seq(Bytes)
        /\ Len(w) \in Nat /\ Len(b) \in Nat /\ Len(m) \in Nat /\ MaxBytes \in Nat
    BY FramingAssumption DEF LineOf, Starts
  <1>1. ASSUME NEW k \in 1..Len(w) PROVE w[k] # LF
    <2>0. Len(w) \in Nat /\ Len(b) \in Nat
      BY Zenon, <1>0
    <2>4. k <= Len(b) /\ k <= Len(b) - 1
      BY <2>0
    <2>1. w[k] = b[k] /\ k <= Len(b) - 1
      BY Zenon, <2>4 DEF Starts
    <2>2. CASE k <= Len(m)
      BY <1>0, <2>1, <2>2 DEF LineOf, NoEnds
    <2>3. CASE k = Len(m) + 1
      BY <1>0, <2>1, <2>3 DEF LineOf, LF, CR
    <2> QED
      BY <1>0, <2>1, <2>2, <2>3 DEF LineOf
  <1>2. LineEnd(w) = 0
    BY <1>0, <1>1, LineEndIsNone
  <1>3. SubSeq(w, 1, Len(w)) = w
    BY <1>0, SubSeqFull
  <1>4. ~(Len(w) > MaxBytes) /\ (Len(w) > 0 <=> w # <<>>) /\ Len(w) <= MaxBytes
    BY <1>0
  <1>5. readNewline(w) = IF peer = "eof" /\ Len(w) > 0
                                 THEN Frame(bytesTrimLine(SubSeq(w, 1, Len(w))), Len(w))
                                 ELSE Failure("short")
    BY <1>2, <1>4 DEF readNewline
  <1> QED
    BY <1>3, <1>4, <1>5, Zenon

\* readFrame on a stream that begins with a line, or with a part of one.
LEMMA LineIsRead ==
    ASSUME NEW w, NEW b, NEW m, LineOf(b, m), Starts(w, b), NoEnds(m), Len(b) <= MaxBytes,
           framing = "newline" \/ (framing = "auto" /\ ~BeginsLikeCount(m))
    PROVE  /\ Len(b) <= Len(w) => readFrame(w) = Frame(m, Len(b))
           /\ Len(w) < Len(b) =>
                \/ readFrame(w) = Failure("short")
                \/ /\ peer = "eof" /\ w # <<>>
                   /\ readFrame(w) = Frame(bytesTrimLine(w), Len(w))
  <1>1. \/ readFrame(w) = readNewline(w)
        \/ readFrame(w) = Failure("short") /\ Len(w) < Len(b)
    <2>1. CASE framing = "newline"
      BY <2>1 DEF readFrame
    <2>2. CASE framing = "auto" /\ ~BeginsLikeCount(m)
      BY <2>2, LineIsNoCount DEF readFrame
    <2> QED
      BY <2>1, <2>2
  <1>2. Len(w) \in Nat /\ Len(b) \in Nat
    BY DEF LineOf, Starts
  <1>3. ~(Len(b) <= Len(w) /\ Len(w) < Len(b))
    BY <1>2
  <1>4. Len(b) <= Len(w) => readNewline(w) = Frame(m, Len(b))
    BY WholeLine
  <1>5. Len(w) < Len(b) =>
            \/ readNewline(w) = Failure("short")
            \/ /\ peer = "eof" /\ w # <<>>
               /\ readNewline(w) = Frame(bytesTrimLine(w), Len(w))
    BY PartOfLine
  <1> QED
    BY <1>1, <1>3, <1>4, <1>5, Zenon

\* readFrame on a stream that begins with a counted message, or with a part of one.
LEMMA CountedIsRead ==
    ASSUME NEW w, NEW b, NEW d, NEW m, CountedOf(b, d, m), Starts(w, b),
           Len(d) \in 1..MaxDigits - 1, Atoi(d) = Len(m), Len(m) <= MaxBytes,
           framing \in {"auto", "octet_counting"}
    PROVE  /\ Len(b) <= Len(w) => readFrame(w) = Frame(m, Len(b))
           /\ Len(w) < Len(b) => readFrame(w) = Failure("short")
  <1> DEFINE n == Leading(w)
  <1>0. /\ w \in Seq(Bytes) /\ b \in Seq(Bytes) /\ m \in Seq(Bytes) /\ d \in Seq(48..57)
        /\ Len(w) \in Nat /\ Len(b) \in Nat /\ Len(m) \in Nat /\ Len(d) \in Nat
        /\ Len(b) = Len(d) + 1 + Len(m) /\ MaxBytes \in Nat /\ MaxDigits \in Nat
    BY FramingAssumption DEF CountedOf, Starts
  <1>d. ASSUME NEW k \in 1..Len(d), k <= Len(w)
        PROVE  w[k] = d[k] /\ IsDigit(w[k])
    <2>1. k \in 1..Len(w) /\ k <= Len(b)
      BY <1>0, <1>d
    <2>2. w[k] = b[k] /\ b[k] = d[k]
      BY <2>1 DEF Starts, CountedOf
    <2>3. d[k] \in 48..57
      BY SMTT(30), <1>0
    <2> QED
      BY <2>2, <2>3 DEF IsDigit
  <1>1. CASE Len(w) <= Len(d)
    <2>1. n = Len(w)
      <3>1. \A k \in 1..Len(w) : IsDigit(w[k])
        BY <1>0, <1>1, <1>d
      <3>2. Len(w) \in 0..Len(w) /\ ~(Len(w) < Len(w))
        BY <1>0
      <3> QED
        BY Zenon, <1>0, <3>1, <3>2, LeadingIs
    <2>2. n < MaxDigits /\ ~(n >= MaxDigits) /\ n <= MaxDigits /\ ~(Len(b) <= Len(w))
      BY <1>0, <1>1, <2>1
    <2>3. looksOctetCounted(w) = "short"
      BY <2>1, <2>2 DEF looksOctetCounted
    <2>4. readOctetCounted(w) = Failure("short")
      BY <2>1, <2>2 DEF readOctetCounted
    <2>5. readFrame(w) = Failure("short")
      BY <2>3, <2>4 DEF readFrame
    <2> QED
      BY <2>2, <2>5
  <1>2. CASE Len(d) < Len(w)
    <2>1. n = Len(d) /\ w[n + 1] = SP
      <3>1. \A k \in 1..Len(d) : IsDigit(w[k])
        BY <1>0, <1>2, <1>d
      <3>2. Len(d) \in 0..Len(w) /\ w[Len(d) + 1] = SP
        BY <1>0, <1>2 DEF CountedOf, Starts
      <3>3. ~IsDigit(w[Len(d) + 1])
        BY <3>2 DEF IsDigit, SP
      <3>4. n = Len(d)
        BY Zenon, <1>0, <3>1, <3>2, <3>3, LeadingIs
      <3> QED
        BY <3>2, <3>4
    <2>2. /\ n \in Nat /\ n < MaxDigits /\ ~(n >= MaxDigits) /\ n <= MaxDigits /\ n # 0 /\ n > 0
          /\ n # Len(w) /\ n < Len(w)
      BY <1>0, <1>2, <2>1
    <2>3. looksOctetCounted(w) = "octet_counting"
      BY <2>1, <2>2 DEF looksOctetCounted
    <2>4. SubSeq(w, 1, n) = d
      <3> DEFINE s == SubSeq(w, 1, n)
      <3>1. s \in Seq(Bytes) /\ Len(s) = n /\ \A i \in 1..n : s[i] = w[i]
        BY <1>0, <2>2, PrefixOfBytes
      <3>2. d \in Seq(Bytes)
        BY <1>0, SeqMonotonic DEF Bytes
      <3> HIDE DEF s, n
      <3>3. \A i \in 1..Len(s) : s[i] = d[i]
        BY <1>0, <1>2, <1>d, <2>1, <3>1
      <3>4. s = d
        BY <2>1, <3>1, <3>2, <3>3, SeqEqual
      <3> QED
        BY <3>4 DEF s
    <2>5. readOctetCounted(w) =
              IF Len(m) > MaxBytes THEN Failure("too_large")
              ELSE IF Len(w) < n + 1 + Len(m) THEN Failure("short")
              ELSE Frame(SubSeq(w, n + 1 + 1, n + 1 + Len(m)), n + 1 + Len(m))
      BY Zenon, <2>1, <2>2, <2>4 DEF readOctetCounted
    <2>6. readFrame(w) = readOctetCounted(w)
      BY <2>3 DEF readFrame
    <2>7. ~(Len(m) > MaxBytes) /\ n + 1 + Len(m) = Len(b)
      BY <1>0, <2>1
    <2>8. CASE Len(w) < Len(b)
      BY <1>0, <2>5, <2>6, <2>7, <2>8
    <2>9. CASE Len(b) <= Len(w)
      <3> DEFINE s == SubSeq(w, n + 1 + 1, n + 1 + Len(m))
      <3>1. n + 1 + 1 \in 1..Len(w) + 1 /\ n + 1 + Len(m) \in 0..Len(w)
        BY <1>0, <2>2, <2>7, <2>9
      <3>2. /\ s \in Seq(Bytes)
            /\ Len(s) = IF n + 1 + 1 <= n + 1 + Len(m) THEN (n + 1 + Len(m)) - (n + 1 + 1) + 1 ELSE 0
            /\ \A i \in 1..(n + 1 + Len(m)) - (n + 1 + 1) + 1 : s[i] = w[(n + 1 + 1) + i - 1]
        BY <1>0, <3>1, SliceOfBytes, ZenonT(60)
      <3> HIDE DEF s, n
      <3>3. Len(s) = Len(m)
        BY <1>0, <2>2, <3>2
      <3>4. ASSUME NEW i \in 1..Len(s) PROVE s[i] = m[i]
        <4>1. i \in 1..(n + 1 + Len(m)) - (n + 1 + 1) + 1 /\ (n + 1 + 1) + i - 1 = n + 1 + i
          BY <1>0, <2>2, <3>3
        <4>2. s[i] = w[n + 1 + i]
          BY <3>2, <4>1, Zenon
        <4>3. n + 1 + i \in 1..Len(w) /\ n + 1 + i <= Len(b) /\ i \in 1..Len(m)
          BY <1>0, <2>2, <2>7, <2>9, <3>3
        <4>4. w[n + 1 + i] = b[n + 1 + i]
          BY <4>3 DEF Starts
        <4> QED
          BY <2>1, <4>2, <4>3, <4>4 DEF CountedOf
      <3>5. s = m
        BY <1>0, <3>2, <3>3, <3>4, SeqEqual
      <3>6. ~(Len(w) < n + 1 + Len(m)) /\ ~(Len(w) < Len(b))
        BY <1>0, <2>7, <2>9
      <3>7. readOctetCounted(w) = Frame(s, n + 1 + Len(m))
        BY <2>5, <2>7, <3>6, Zenon DEF s
      <3> QED
        BY <2>6, <2>7, <3>5, <3>6, <3>7, Zenon
    <2> QED
      BY <1>0, <2>8, <2>9
  <1> QED
    BY <1>0, <1>1, <1>2

Modes == {"auto", "newline", "octet_counting"}

\* What an envelope of either kind looks like in bytes.
LEMMA LineIsEncoded ==
    ASSUME NEW e \in Lines
    PROVE  /\ IsLine(e) /\ LineOf(Encode(e), e.msg)
           /\ e.head \in Seq(Bytes) /\ e.msg \in Seq(Bytes) /\ e.tail \in Seq(Bytes)
  <1>1. /\ e.head = <<>> /\ e.msg \in Messages
        /\ e.tail = <<LF>> \/ e.tail = <<CR, LF>>
    BY DEF Lines
  <1>2. e.msg \in Seq(Bytes) /\ Len(e.msg) \in Nat
    BY <1>1, FramingAssumption DEF Bytes
  <1>3. /\ <<>> \in Seq(Bytes) /\ <<LF>> \in Seq(Bytes) /\ <<CR, LF>> \in Seq(Bytes)
        /\ Len(<<LF>>) = 1 /\ <<LF>>[1] = LF
        /\ Len(<<CR, LF>>) = 2 /\ <<CR, LF>>[1] = CR
        /\ <<CR, LF>>[2] = LF
    BY DEF Bytes, LF, CR
  <1> DEFINE m == e.msg
             t == e.tail
             b == m \o t
  <1>4. Encode(e) = b
    <2>1. <<>> \o m = m
      BY <1>2, ConcatEmptySeq
    <2> QED
      BY <1>1, <2>1, Zenon DEF Encode
  <1>5. t \in Seq(Bytes) /\ Len(t) \in {1, 2} /\ t[Len(t)] = LF /\ (Len(t) = 2 => t[1] = CR)
    BY Zenon, <1>1, <1>3
  <1>6. /\ b \in Seq(Bytes) /\ Len(b) = Len(m) + Len(t)
        /\ \A i \in 1..Len(m) + Len(t) : b[i] = IF i <= Len(m) THEN m[i] ELSE t[i - Len(m)]
    BY Zenon, <1>2, <1>5, ConcatProperties
  <1> HIDE DEF m, t, b
  <1>7. m \in Seq(Bytes) /\ Len(m) \in Nat
    BY <1>2 DEF m
  <1>8. \A i \in 1..Len(m) : b[i] = m[i]
    BY <1>5, <1>6, <1>7
  <1>9. b[Len(b)] = LF
    BY <1>5, <1>6, <1>7
  <1>10. Len(t) = 2 => b[Len(m) + 1] = CR
    <2>1. Len(t) = 2 => Len(m) + 1 \in 1..Len(m) + Len(t) /\ ~(Len(m) + 1 <= Len(m)) /\ Len(m) + 1 - Len(m) = 1
      BY <1>7
    <2> QED
      BY <1>5, <1>6, <2>1
  <1>11. LineOf(b, m)
    BY Zenon, <1>5, <1>6, <1>7, <1>8, <1>9, <1>10 DEF LineOf
  <1>12. IsLine(e) /\ e.head \in Seq(Bytes)
    BY <1>1, <1>3 DEF IsLine
  <1> QED
    BY <1>4, <1>5, <1>7, <1>11, <1>12 DEF m, t

\* An octet-counted envelope is its count, a space and the message.
LEMMA CountedIsEncoded ==
    ASSUME NEW e \in Counted
    PROVE  /\ ~IsLine(e)
           /\ \E d \in Counts : /\ CountedOf(Encode(e), d, e.msg)
                                /\ Atoi(d) = Len(e.msg)
           /\ e.head \in Seq(Bytes) /\ e.msg \in Seq(Bytes) /\ e.tail \in Seq(Bytes)
  <1>1. PICK d \in Counts : e.head = Append(d, SP)
    BY DEF Counted
  <1>2. e.msg \in Messages /\ e.tail = <<>> /\ Atoi(SubSeq(e.head, 1, Len(e.head) - 1)) = Len(e.msg)
    BY DEF Counted
  <1>3. /\ e.msg \in Seq(Bytes) /\ Len(e.msg) \in Nat /\ d \in Seq(48..57) /\ d \in Seq(Bytes)
        /\ Len(d) \in Nat /\ SP \in Bytes
    BY <1>1, <1>2, FramingAssumption, SeqMonotonic DEF Bytes, SP
  <1> DEFINE h == Append(d, SP)
             m == e.msg
             b == h \o m
  <1>4. /\ h \in Seq(Bytes) /\ h # <<>> /\ Len(h) = Len(d) + 1 /\ h[Len(d) + 1] = SP
        /\ \A i \in 1..Len(d) : h[i] = d[i]
    BY <1>3, AppendProperties
  <1>5. Encode(e) = b
    <2>1. h \o m \in Seq(Bytes)
      BY <1>3, <1>4, ConcatProperties
    <2>2. (h \o m) \o <<>> = h \o m
      BY <2>1, ConcatEmptySeq
    <2> QED
      BY <1>1, <1>2, <2>2, Zenon DEF Encode
  <1>6. /\ b \in Seq(Bytes) /\ Len(b) = Len(h) + Len(m)
        /\ \A i \in 1..Len(h) + Len(m) : b[i] = IF i <= Len(h) THEN h[i] ELSE m[i - Len(h)]
    BY Zenon, <1>3, <1>4, ConcatProperties
  <1>7. SubSeq(h, 1, Len(h) - 1) = d
    <2> DEFINE s == SubSeq(h, 1, Len(h) - 1)
    <2>1. Len(h) - 1 \in 0..Len(h) /\ Len(h) - 1 = Len(d)
      BY <1>3, <1>4
    <2>2. s \in Seq(Bytes) /\ Len(s) = Len(h) - 1 /\ \A i \in 1..Len(h) - 1 : s[i] = h[i]
      BY <1>4, <2>1, PrefixOfBytes, Zenon
    <2> HIDE DEF s, h
    <2>3. Len(s) = Len(d) /\ \A i \in 1..Len(s) : s[i] = d[i]
      BY <1>4, <2>1, <2>2
    <2>4. s = d
      BY <1>3, <2>2, <2>3, SeqEqual
    <2> QED
      BY <2>4 DEF s
  <1>8. Atoi(d) = Len(m)
    BY <1>1, <1>2, <1>7, Zenon
  <1>9. e.head = h /\ m = e.msg /\ m \in Seq(Bytes) /\ Len(m) \in Nat
    BY <1>1, <1>3
  <1> HIDE DEF h, m, b
  <1>l. Len(d) \in Nat /\ Len(m) \in Nat /\ Len(h) = Len(d) + 1
    BY <1>3, <1>4, <1>9, Zenon
  <1>h. ASSUME NEW i \in 1..Len(d) + 1 PROVE b[i] = h[i]
    <2>1. i \in 1..Len(h) + Len(m) /\ i <= Len(h)
      BY <1>l
    <2> QED
      BY <1>6, <2>1
  <1>10. \A i \in 1..Len(d) : b[i] = d[i]
    BY <1>3, <1>4, <1>h
  <1>11. b[Len(d) + 1] = SP
    BY <1>3, <1>4, <1>h
  <1>12. ASSUME NEW i \in 1..Len(m) PROVE b[Len(d) + 1 + i] = m[i]
    <2>1. /\ Len(d) + 1 + i \in 1..Len(h) + Len(m) /\ ~(Len(d) + 1 + i <= Len(h))
          /\ Len(d) + 1 + i - Len(h) = i
      BY <1>l
    <2> QED
      BY <1>6, <2>1
  <1>13. CountedOf(b, d, m)
    BY Zenon, <1>3, <1>4, <1>6, <1>9, <1>10, <1>11, <1>12 DEF CountedOf
  <1>14. <<>> \in Seq(Bytes) /\ ~IsLine(e)
    BY <1>4, <1>9 DEF IsLine
  <1> QED
    BY <1>2, <1>3, <1>4, <1>5, <1>8, <1>9, <1>13, <1>14, Zenon

\* Both kinds together.
LEMMA MailIsEncoded ==
    ASSUME NEW e \in Mail
    PROVE  /\ Encode(e) \in Seq(Bytes) /\ Len(Encode(e)) \in Nat \ {0}
           /\ e.head \in Seq(Bytes) /\ e.msg \in Seq(Bytes) /\ e.tail \in Seq(Bytes)
  <1>1. CASE e \in Lines
    BY <1>1, LineIsEncoded DEF LineOf
  <1>2. CASE e \in Counted
    <2>1. PICK d \in Counts : CountedOf(Encode(e), d, e.msg)
      BY <1>2, CountedIsEncoded
    <2>2. /\ Encode(e) \in Seq(Bytes) /\ e.msg \in Seq(Bytes) /\ d \in Seq(48..57)
          /\ Len(Encode(e)) = Len(d) + 1 + Len(e.msg)
      BY <2>1, Zenon DEF CountedOf
    <2>3. Len(d) \in Nat /\ Len(e.msg) \in Nat
      BY <2>2
    <2>4. Len(Encode(e)) \in Nat \ {0}
      <3>1. \A x, y \in Nat : x + 1 + y \in Nat \ {0}
        OBVIOUS
      <3> QED
        BY <2>2, <2>3, <3>1, Zenon
    <2> QED
      BY Zenon, <1>2, <2>2, <2>4, CountedIsEncoded
  <1> QED
    BY <1>1, <1>2 DEF Mail

\* readFrame on a stream that begins with a message, or with a part of one.
LEMMA MailIsRead ==
    ASSUME NEW e \in Mail, Clear(e), NEW w, Starts(w, Encode(e)),
           framing \in Modes
    PROVE  /\ Len(Encode(e)) <= Len(w) =>
                readFrame(w) = Frame(e.msg, Len(Encode(e)))
           /\ Len(w) < Len(Encode(e)) =>
                \/ readFrame(w) = Failure("short")
                \/ /\ IsLine(e) /\ peer = "eof" /\ w # <<>>
                   /\ readFrame(w) = Frame(bytesTrimLine(w), Len(w))
  <1>1. CASE e \in Lines /\ framing # "octet_counting"
    <2>1. IsLine(e) /\ LineOf(Encode(e), e.msg)
      BY <1>1, LineIsEncoded
    <2>2. /\ Len(Encode(e)) <= MaxBytes
          /\ \A i \in DOMAIN e.msg : e.msg[i] \notin {LF, CR}
          /\ framing = "auto" => ~BeginsLikeCount(e.msg)
      BY <2>1 DEF Clear
    <2>3. NoEnds(e.msg)
      BY <2>1, <2>2 DEF NoEnds, LineOf
    <2>4. framing = "newline" \/ (framing = "auto" /\ ~BeginsLikeCount(e.msg))
      BY <1>1, <2>2 DEF Modes
    <2> QED
      BY <2>1, <2>2, <2>3, <2>4, LineIsRead
  <1>2. CASE e \in Counted /\ framing # "newline"
    <2>1. PICK d \in Counts : CountedOf(Encode(e), d, e.msg) /\ Atoi(d) = Len(e.msg)
      BY <1>2, CountedIsEncoded
    <2>2. Len(e.msg) <= MaxBytes
      BY <1>2, CountedIsEncoded DEF Clear
    <2>3. Len(d) \in 1..MaxDigits - 1 /\ framing \in {"auto", "octet_counting"}
      BY <1>2, FramingAssumption DEF Modes
    <2> QED
      BY <2>1, <2>2, <2>3, CountedIsRead
  <1> QED
    BY <1>1, <1>2 DEF Mail

\* Nothing is to be read from an empty stream.
LEMMA EmptyIsShort ==
    ASSUME framing \in Modes
    PROVE  readFrame(<<>>) = Failure("short")
  <1>1. <<>> \in Seq(Bytes) /\ Len(<<>>) = 0
    OBVIOUS
  <1>2. Leading(<<>>) = 0 /\ LineEnd(<<>>) = 0
    <2>1. Leading(<<>>) \in 0..Len(<<>>) /\ LineEnd(<<>>) \in 0..Len(<<>>)
      BY <1>1, LeadingCounts, LineEndFinds, Zenon
    <2> QED
      BY <1>1, <2>1
  <1>3. /\ MaxDigits \in Nat /\ ~(0 >= MaxDigits) /\ 0 < MaxDigits /\ 0 <= MaxDigits
        /\ ~(0 > MaxBytes) /\ 0 <= MaxBytes
    BY FramingAssumption
  <1>4. looksOctetCounted(<<>>) = "short"
    BY <1>1, <1>2, <1>3 DEF looksOctetCounted
  <1>5. readOctetCounted(<<>>) = Failure("short")
    BY <1>1, <1>2, <1>3 DEF readOctetCounted
  <1>6. readNewline(<<>>) = Failure("short")
    BY <1>1, <1>2, <1>3 DEF readNewline
  <1> QED
    BY <1>4, <1>5, <1>6 DEF readFrame, Modes

\* AreSent for any sequence ms of messages, with the numbers g of those delivered.
Numbers(fs, k, ms, g) ==
    /\ g \in [1..Len(fs) -> 1..k]
    /\ \A i, j \in 1..Len(fs) : i < j => g[i] < g[j]
    /\ \A i \in 1..Len(fs) : fs[i] = ms[g[i]].msg
    /\ \A n \in 1..k : ms[n].msg # <<>> => \E i \in 1..Len(fs) : g[i] = n

SentAs(fs, k, ms) == \E g : Numbers(fs, k, ms, g)

\* Nothing was delivered of no messages.
LEMMA SentNone ==
    ASSUME NEW ms
    PROVE  SentAs(<<>>, 0, ms)
  <1> DEFINE g == [i \in 1..0 |-> 0]
  <1>1. Len(<<>>) = 0 /\ 1..0 = {}
    OBVIOUS
  <1>2. g \in [1..0 -> 1..0]
    OBVIOUS
  <1>3. Numbers(<<>>, 0, ms, g)
    BY <1>1, <1>2 DEF Numbers
  <1> QED
    BY <1>3 DEF SentAs

\* More messages do not change what was delivered.
LEMMA SentGrows ==
    ASSUME NEW fs, NEW k \in Nat, NEW ms, NEW ns, SentAs(fs, k, ms), \A i \in 1..k : ns[i] = ms[i]
    PROVE  SentAs(fs, k, ns)
  <1>1. PICK g : Numbers(fs, k, ms, g)
    BY DEF SentAs
  <1>2. Numbers(fs, k, ns, g)
    BY Zenon, <1>1 DEF Numbers
  <1> QED
    BY <1>2 DEF SentAs

\* An empty message is delivered by doing nothing.
LEMMA SentSkips ==
    ASSUME NEW fs \in Seq(Seq(Bytes)), NEW k \in Nat, NEW ms, SentAs(fs, k, ms), ms[k + 1].msg = <<>>
    PROVE  SentAs(fs, k + 1, ms)
  <1>1. PICK g : Numbers(fs, k, ms, g)
    BY DEF SentAs
  <1>2. g \in [1..Len(fs) -> 1..k + 1]
    BY <1>1 DEF Numbers
  <1>3. \A n \in 1..k + 1 : n \in 1..k \/ n = k + 1
    OBVIOUS
  <1>4. Numbers(fs, k + 1, ms, g)
    BY <1>1, <1>2, <1>3, Zenon DEF Numbers
  <1> QED
    BY <1>4 DEF SentAs

\* The next message is delivered after the others.
LEMMA SentAdds ==
    ASSUME NEW fs \in Seq(Seq(Bytes)), NEW k \in Nat, NEW ms, SentAs(fs, k, ms),
           ms[k + 1].msg \in Seq(Bytes)
    PROVE  SentAs(Append(fs, ms[k + 1].msg), k + 1, ms)
  <1>1. PICK g : Numbers(fs, k, ms, g)
    BY DEF SentAs
  <1> DEFINE l == Len(fs)
             p == ms[k + 1].msg
             t == Append(fs, p)
             h == [i \in 1..l + 1 |-> IF i <= l THEN g[i] ELSE k + 1]
  <1>2. l \in Nat /\ Len(t) = l + 1 /\ t[l + 1] = p /\ \A i \in 1..l : t[i] = fs[i]
    BY AppendProperties
  <1>3. /\ g \in [1..l -> 1..k] /\ \A i, j \in 1..l : i < j => g[i] < g[j]
        /\ \A i \in 1..l : fs[i] = ms[g[i]].msg
        /\ \A n \in 1..k : ms[n].msg # <<>> => \E i \in 1..l : g[i] = n
    BY <1>1, Zenon DEF Numbers
  <1> HIDE DEF l, p, t
  <1>4. h \in [1..l + 1 -> 1..k + 1] /\ h[l + 1] = k + 1 /\ \A i \in 1..l : h[i] = g[i]
    BY <1>2, <1>3
  <1> HIDE DEF h
  <1>5. \A i \in 1..l + 1 : i \in 1..l \/ i = l + 1
    BY <1>2
  <1>6. ASSUME NEW i \in 1..l + 1, NEW j \in 1..l + 1, i < j PROVE h[i] < h[j]
    <2>1. i \in 1..l
      BY <1>2, <1>6
    <2>2. CASE j \in 1..l
      BY <1>3, <1>4, <1>6, <2>1, <2>2, Zenon
    <2>3. CASE j = l + 1
      <3>1. g[i] \in 1..k
        BY Zenon, <1>3, <2>1
      <3>2. g[i] < k + 1
        BY <3>1
      <3> QED
        BY <1>4, <2>1, <2>3, <3>2, Zenon
    <2> QED
      BY <1>5, <2>2, <2>3
  <1>7. \A i \in 1..l + 1 : t[i] = ms[h[i]].msg
    <2>1. \A i \in 1..l : t[i] = ms[h[i]].msg
      BY <1>2, <1>3, <1>4, Zenon
    <2>2. t[l + 1] = ms[h[l + 1]].msg
      BY <1>2, <1>4, Zenon DEF p
    <2> QED
      BY <1>5, <2>1, <2>2, Zenon
  <1>8. ASSUME NEW n \in 1..k + 1, ms[n].msg # <<>> PROVE \E i \in 1..l + 1 : h[i] = n
    <2>1. l + 1 \in 1..l + 1 /\ \A i \in 1..l : i \in 1..l + 1
      BY <1>2
    <2>2. n \in 1..k \/ n = k + 1
      OBVIOUS
    <2> QED
      BY <1>3, <1>4, <1>8, <2>1, <2>2, Zenon
  <1>9. Numbers(t, k + 1, ms, h)
    BY <1>2, <1>4, <1>6, <1>7, <1>8, Zenon DEF Numbers
  <1>10. SentAs(t, k + 1, ms)
    BY <1>9 DEF SentAs
  <1> QED
    BY <1>10 DEF t, p

\* Without the last frame it is still the messages up to some number.
LEMMA SentDrops ==
    ASSUME NEW fs \in Seq(Seq(Bytes)), NEW p \in Seq(Bytes), NEW k \in Nat, NEW ms,
           SentAs(Append(fs, p), k, ms)
    PROVE  \E j \in 0..k : SentAs(fs, j, ms)
  <1> DEFINE l == Len(fs)
             t == Append(fs, p)
  <1>1. PICK g : Numbers(t, k, ms, g)
    BY DEF SentAs
  <1>2. l \in Nat /\ Len(t) = l + 1 /\ \A i \in 1..l : t[i] = fs[i]
    BY AppendProperties
  <1>3. /\ g \in [1..l + 1 -> 1..k] /\ \A i, j \in 1..l + 1 : i < j => g[i] < g[j]
        /\ \A i \in 1..l + 1 : t[i] = ms[g[i]].msg
        /\ \A n \in 1..k : ms[n].msg # <<>> => \E i \in 1..l + 1 : g[i] = n
    BY <1>1, <1>2, Zenon DEF Numbers
  <1> HIDE DEF l, t
  <1> DEFINE j == g[l + 1] - 1
             h == [i \in 1..l |-> g[i]]
  <1>4. l + 1 \in 1..l + 1 /\ \A i \in 1..l : i \in 1..l + 1 /\ i < l + 1
    BY <1>2
  <1>5. g[l + 1] \in 1..k /\ \A i \in 1..l : g[i] \in 1..k /\ g[i] < g[l + 1]
    BY SMTT(30), <1>3, <1>4
  <1>6. j \in 0..k /\ h \in [1..l -> 1..j]
    BY <1>5
  <1>7. \A i, m \in 1..l : i < m => h[i] < h[m]
    BY <1>3, <1>4
  <1>8. \A i \in 1..l : fs[i] = ms[h[i]].msg
    BY <1>2, <1>3, <1>4
  <1>9. ASSUME NEW n \in 1..j, ms[n].msg # <<>> PROVE \E i \in 1..l : h[i] = n
    <2>1. n \in 1..k /\ n # g[l + 1]
      BY <1>5
    <2>2. PICK i \in 1..l + 1 : g[i] = n
      BY <1>3, <1>9, <2>1, Zenon
    <2>3. i \in 1..l
      <3>1. i # l + 1
        BY <2>1, <2>2, Zenon
      <3>2. l \in Nat
        BY <1>2
      <3> QED
        BY <3>1, <3>2
    <2> QED
      BY <2>2, <2>3
  <1> HIDE DEF j, h
  <1>10. Numbers(fs, j, ms, h)
    BY <1>6, <1>7, <1>8, <1>9, Zenon DEF Numbers, l
  <1> QED
    BY <1>6, <1>10 DEF SentAs

\* The frames that were read, the one that is being submitted included.
Got == IF reader = "submit" THEN Append(frames, payload) ELSE frames

\* What is left of the stream of messages ms with c at its end, after each number
\* of messages.
Laid(rest, ms, c) ==
    /\ rest \in [0..Len(ms) -> Seq(Bytes)]
    /\ rest[Len(ms)] = c
    /\ \A i \in 1..Len(ms) : rest[i - 1] = Encode(ms[i]) \o rest[i]

\* The handler has read k messages; the stream goes on with the next one.  Only a
\* broken connection has lost bytes at its end.
At(rest, k, lost) ==
    /\ Laid(rest, sent, cut.bytes) /\ SentAs(Got, k, sent)
    /\ lost \in Seq(Bytes) /\ wire \o lost = rest[k]
    /\ peer # "broken" => lost = <<>>

Following == \E rest, lost : \E k \in 0..Len(sent) : At(rest, k, lost)

\* All of the messages, and the line that the peer did not finish.
WithCut(fs) ==
    /\ cut.bytes # <<>> /\ IsLine(cut)
    /\ \E gs \in Seq(Seq(Bytes)) : /\ fs = Append(gs, bytesTrimLine(cut.bytes))
                                   /\ SentAs(gs, Len(sent), sent)

\* The handler has read everything.
Finished ==
    /\ peer = "eof" /\ wire = <<>>
    /\ SentAs(Got, Len(sent), sent) \/ WithCut(Got)

StreamInv ==
    /\ reader \in {"read", "submit"} => Following \/ Finished
    /\ reader \in {"returned", "refused"} => (\E k \in 0..Len(sent) : SentAs(frames, k, sent)) \/ WithCut(frames)
    /\ reader = "returned" =>
         /\ peer # "open"
         /\ peer = "eof" => SentAs(frames, Len(sent), sent) \/ WithCut(frames)

\* The part e of whose bytes is left when the peer stops inside it.
CutOf(e, n) == [head |-> e.head, msg |-> e.msg, tail |-> e.tail,
                bytes |-> SubSeq(Encode(e), 1, n)]

CutInv ==
    \/ cut = Nothing
    \/ /\ peer = "eof"
       /\ \E e \in Mail : \E n \in 1..Len(Encode(e)) - 1 : cut = CutOf(e, n)

FramingTypes ==
    /\ framing \in Modes /\ peer \in {"open", "eof", "broken"}
    /\ reader \in {"read", "submit", "returned", "refused"}
    /\ wire \in Seq(Bytes) /\ payload \in Seq(Bytes) /\ frames \in Seq(Seq(Bytes))
    /\ sent \in Seq(Mail)

FramesFit ==
    /\ reader = "submit" => Len(payload) \in 1..MaxBytes
    /\ \A i \in 1..Len(frames) : Len(frames[i]) \in 1..MaxBytes

FramingInv == FramingTypes /\ CutInv /\ FramesFit /\ (AllClear => StreamInv)

\* AreSent and its form for any sequence are the same.
LEMMA AreSentIs ==
    \A fs, k : AreSent(fs, k) <=> SentAs(fs, k, sent)
  <1> TAKE fs, k
  <1>1. AreSent(fs, k) => SentAs(fs, k, sent)
    BY Zenon DEF AreSent, SentAs, Numbers
  <1>2. SentAs(fs, k, sent) => AreSent(fs, k)
    BY Zenon DEF AreSent, SentAs, Numbers
  <1> QED
    BY <1>1, <1>2

\* WithCut says what AreSentWithCut says.
LEMMA WithCutIs ==
    \A fs \in Seq(Seq(Bytes)) : WithCut(fs) => AreSentWithCut(fs)
  <1> TAKE fs \in Seq(Seq(Bytes))
  <1> SUFFICES ASSUME WithCut(fs) PROVE AreSentWithCut(fs)
    OBVIOUS
  <1> DEFINE p == bytesTrimLine(cut.bytes)
  <1>1. PICK gs \in Seq(Seq(Bytes)) : fs = Append(gs, p) /\ SentAs(gs, Len(sent), sent)
    BY Zenon DEF WithCut
  <1>2. cut.bytes # <<>> /\ IsLine(cut)
    BY DEF WithCut
  <1> HIDE DEF p
  <1>3. Len(gs) \in Nat /\ Len(fs) = Len(gs) + 1 /\ fs[Len(fs)] = p /\ fs # <<>>
    BY <1>1
  <1>4. SubSeq(fs, 1, Len(fs) - 1) = gs
    BY <1>1, <1>3
  <1>5. AreSent(gs, Len(sent))
    BY <1>1, AreSentIs
  <1> QED
    BY <1>2, <1>3, <1>4, <1>5, Zenon DEF AreSentWithCut, p

\* At every moment the pipeline has the messages up to some number.
LEMMA StreamInvDelivers ==
    ASSUME FramingTypes, StreamInv
    PROVE  (\E k \in 0..Len(sent) : SentAs(frames, k, sent)) \/ WithCut(frames)
  <1>1. /\ frames \in Seq(Seq(Bytes)) /\ payload \in Seq(Bytes) /\ Len(sent) \in Nat
        /\ reader \in {"read", "submit", "returned", "refused"}
    BY DEF FramingTypes
  <1>2. CASE reader \in {"returned", "refused"}
    BY <1>2 DEF StreamInv
  <1>3. CASE reader = "read"
    BY <1>1, <1>3 DEF StreamInv, Following, Finished, At, Got
  <1>4. CASE reader = "submit"
    <2>1. Got = Append(frames, payload)
      BY <1>4 DEF Got
    <2>2. CASE \E k \in 0..Len(sent) : SentAs(Got, k, sent)
      <3>1. PICK k \in 0..Len(sent) : SentAs(Append(frames, payload), k, sent)
        BY <2>1, <2>2
      <3>2. PICK j \in 0..k : SentAs(frames, j, sent)
        BY <1>1, <3>1, SentDrops
      <3>3. j \in 0..Len(sent)
        BY <1>1
      <3> QED
        BY <3>2, <3>3
    <2>3. CASE WithCut(Got)
      <3>1. PICK gs \in Seq(Seq(Bytes)) :
                /\ Append(frames, payload) = Append(gs, bytesTrimLine(cut.bytes))
                /\ SentAs(gs, Len(sent), sent)
        BY <2>1, <2>3 DEF WithCut
      <3>2. frames = gs
        <4>1. \A s \in Seq(Seq(Bytes)) : \A x : SubSeq(Append(s, x), 1, Len(Append(s, x)) - 1) = s
          OBVIOUS
        <4> QED
          BY <1>1, <3>1, <4>1, Zenon
      <3>3. Len(sent) \in 0..Len(sent)
        BY <1>1
      <3> QED
        BY <3>1, <3>2, <3>3
    <2>4. Following \/ Finished
      BY <1>4 DEF StreamInv
    <2>5. Following => \E k \in 0..Len(sent) : SentAs(Got, k, sent)
      BY Zenon DEF Following, At
    <2>6. Len(sent) \in 0..Len(sent)
      BY <1>1
    <2> QED
      BY <2>2, <2>3, <2>4, <2>5, <2>6 DEF Finished
  <1> QED
    BY <1>1, <1>2, <1>3, <1>4

\* The invariant says what the pipeline received.
LEMMA FramingInvDelivers == FramingInv => StreamIsDelivered
  <1> SUFFICES ASSUME FramingInv PROVE StreamIsDelivered
    OBVIOUS
  <1>0. FramingTypes /\ FramesFit /\ (AllClear => StreamInv)
    BY DEF FramingInv
  <1>1. /\ frames \in Seq(Seq(Bytes)) /\ payload \in Seq(Bytes) /\ Len(sent) \in Nat
        /\ reader \in {"read", "submit", "returned", "refused"}
    BY <1>0 DEF FramingTypes
  <1>2. AllClear =>
            (\E k \in 0..Len(sent) : SentAs(frames, k, sent)) \/ WithCut(frames)
    BY <1>0, StreamInvDelivers
  <1>3. DeliveredAsSent
    BY <1>1, <1>2, AreSentIs, WithCutIs, Zenon DEF DeliveredAsSent
  <1>4. EndDeliversAll
    <2> SUFFICES ASSUME AllClear, peer = "eof", reader = "returned"
                 PROVE  AreSent(frames, Len(sent)) \/ AreSentWithCut(frames)
      BY DEF EndDeliversAll
    <2>1. SentAs(frames, Len(sent), sent) \/ WithCut(frames)
      BY <1>0 DEF StreamInv
    <2> QED
      BY <1>1, <2>1, AreSentIs, WithCutIs, Zenon
  <1>5. \A i \in DOMAIN frames : Len(frames[i]) \in 1..MaxBytes
    <2>1. DOMAIN frames = 1..Len(frames)
      BY <1>1
    <2> QED
      BY <1>0, <2>1 DEF FramesFit
  <1> QED
    BY <1>3, <1>4, <1>5 DEF StreamIsDelivered

\* What is written is one stream, however it is divided.
LEMMA BytesAssociate ==
    ASSUME NEW s \in Seq(Bytes), NEW t \in Seq(Bytes), NEW u \in Seq(Bytes)
    PROVE  (s \o t) \o u = s \o (t \o u)
  OBVIOUS

\* Bytes that follow the stream follow each of its parts.
LEMMA LaidEnds ==
    ASSUME NEW M, NEW ms \in Seq(M), \A e \in M : Encode(e) \in Seq(Bytes),
           NEW rest, Laid(rest, ms, <<>>), NEW c \in Seq(Bytes)
    PROVE  Laid([i \in 0..Len(ms) |-> rest[i] \o c], ms, c)
  <1> DEFINE r == [i \in 0..Len(ms) |-> rest[i] \o c]
  <1>1. /\ Len(ms) \in Nat /\ rest \in [0..Len(ms) -> Seq(Bytes)] /\ rest[Len(ms)] = <<>>
        /\ \A i \in 1..Len(ms) : rest[i - 1] = Encode(ms[i]) \o rest[i]
    <2>1. Len(ms) \in Nat
      OBVIOUS
    <2> QED
      BY <2>1, Zenon DEF Laid
  <1>2. \A s \in Seq(Bytes) : s \o c \in Seq(Bytes)
    BY ConcatProperties
  <1>3. r \in [0..Len(ms) -> Seq(Bytes)]
    <2>1. \A i \in 0..Len(ms) : rest[i] \o c \in Seq(Bytes)
      BY Zenon, <1>1, <1>2
    <2> QED
      BY <2>1, Zenon
  <1>4. r[Len(ms)] = c
    <2>1. Len(ms) \in 0..Len(ms) /\ <<>> \o c = c
      BY <1>1, ConcatEmptySeq
    <2> QED
      BY <1>1, <2>1, Zenon
  <1>5. ASSUME NEW i \in 1..Len(ms) PROVE r[i - 1] = Encode(ms[i]) \o r[i]
    <2>1. i - 1 \in 0..Len(ms) /\ i \in 0..Len(ms) /\ ms[i] \in M
      BY <1>1
    <2>2. Encode(ms[i]) \in Seq(Bytes) /\ rest[i] \in Seq(Bytes)
      BY <1>1, <2>1, Zenon
    <2>3. (Encode(ms[i]) \o rest[i]) \o c = Encode(ms[i]) \o (rest[i] \o c)
      BY <2>2, BytesAssociate, Zenon
    <2> QED
      BY <1>1, <2>1, <2>3, Zenon
  <1> HIDE DEF r
  <1>6. Laid(r, ms, c)
    BY <1>3, <1>4, <1>5, Zenon DEF Laid
  <1> QED
    BY <1>6 DEF r

\* They are the last message if they are one.
LEMMA LaidNext ==
    ASSUME NEW M, NEW ms \in Seq(M), NEW e \in M, Encode(e) \in Seq(Bytes),
           NEW rest, Laid(rest, ms, Encode(e))
    PROVE  Laid([i \in 0..Len(ms) + 1 |-> IF i <= Len(ms) THEN rest[i] ELSE <<>>], Append(ms, e), <<>>)
  <1> DEFINE l == Len(ms)
             ns == Append(ms, e)
             r == [i \in 0..l + 1 |-> IF i <= l THEN rest[i] ELSE <<>>]
  <1>1. /\ l \in Nat /\ rest \in [0..l -> Seq(Bytes)] /\ rest[l] = Encode(e)
        /\ \A i \in 1..l : rest[i - 1] = Encode(ms[i]) \o rest[i]
    <2>1. l \in Nat
      OBVIOUS
    <2> QED
      BY <2>1, Zenon DEF Laid
  <1>2. Len(ns) = l + 1 /\ ns[l + 1] = e /\ \A i \in 1..l : ns[i] = ms[i]
    BY AppendProperties
  <1> HIDE DEF l, ns
  <1>3. /\ r \in [0..l + 1 -> Seq(Bytes)] /\ r[l + 1] = <<>>
        /\ \A i \in 0..l : r[i] = rest[i]
    <2>1. <<>> \in Seq(Bytes) /\ ~(l + 1 <= l) /\ l + 1 \in 0..l + 1
      BY <1>1
    <2>2. \A i \in 0..l : i \in 0..l + 1 /\ i <= l
      BY <1>1
    <2>3. \A i \in 0..l + 1 : i <= l => i \in 0..l
      BY <1>1
    <2>4. \A i \in 0..l + 1 : (IF i <= l THEN rest[i] ELSE <<>>) \in Seq(Bytes)
      BY <1>1, <2>1, <2>3, Zenon
    <2> QED
      BY <2>1, <2>2, <2>4, Zenon
  <1> HIDE DEF r
  <1>4. ASSUME NEW i \in 1..l + 1 PROVE r[i - 1] = Encode(ns[i]) \o r[i]
    <2>1. CASE i \in 1..l
      <3>1. i - 1 \in 0..l /\ i \in 0..l
        BY <1>1, <2>1
      <3> QED
        BY <1>1, <1>2, <1>3, <2>1, <3>1, Zenon
    <2>2. CASE i = l + 1
      <3>1. (l + 1) - 1 = l /\ l \in 0..l
        BY <1>1
      <3>2. Encode(e) \o <<>> = Encode(e)
        BY ConcatEmptySeq
      <3> QED
        BY <1>1, <1>2, <1>3, <2>2, <3>1, <3>2, Zenon
    <2>3. i \in 1..l \/ i = l + 1
      BY <1>1
    <2> QED
      BY Zenon, <2>1, <2>2, <2>3
  <1>5. Laid(r, ns, <<>>)
    BY <1>2, <1>3, <1>4, Zenon DEF Laid
  <1> QED
    BY <1>5 DEF r, l, ns

\* A stream divided in two ways.
Same(w, x, b, s) == w \o x = b \o s

\* Two ways to divide a stream, compared.
LEMMA SameStream ==
    ASSUME NEW w \in Seq(Bytes), NEW x \in Seq(Bytes), NEW b \in Seq(Bytes), NEW s \in Seq(Bytes),
           Same(w, x, b, s)
    PROVE  /\ Starts(w, b)
           /\ x = <<>> => Len(b) <= Len(w)
           /\ Len(b) <= Len(w) => SubSeq(w, Len(b) + 1, Len(w)) \o x = s
  <1> DEFINE a == w \o x
  <1>1. Len(w) \in Nat /\ Len(x) \in Nat /\ Len(b) \in Nat /\ Len(s) \in Nat
    OBVIOUS
  <1>2. /\ Len(a) = Len(w) + Len(x)
        /\ \A i \in 1..Len(w) + Len(x) : a[i] = IF i <= Len(w) THEN w[i] ELSE x[i - Len(w)]
    BY ConcatProperties
  <1>3. /\ Len(a) = Len(b) + Len(s)
        /\ \A i \in 1..Len(b) + Len(s) : a[i] = IF i <= Len(b) THEN b[i] ELSE s[i - Len(b)]
    <2>1. a = b \o s
      BY DEF Same
    <2> HIDE DEF a
    <2> QED
      BY <2>1, ConcatProperties
  <1> HIDE DEF a
  <1>4. Starts(w, b)
    BY <1>1, <1>2, <1>3 DEF Starts
  <1>5. x = <<>> => Len(b) <= Len(w)
    <2>1. x = <<>> => Len(x) = 0
      OBVIOUS
    <2> QED
      BY <1>1, <1>2, <1>3, <2>1
  <1>6. ASSUME Len(b) <= Len(w) PROVE SubSeq(w, Len(b) + 1, Len(w)) \o x = s
    <2> DEFINE t == SubSeq(w, Len(b) + 1, Len(w))
               z == t \o x
    <2>1. Len(b) + 1 \in 1..Len(w) + 1 /\ Len(w) \in 0..Len(w)
      BY <1>1, <1>6
    <2>2. /\ t \in Seq(Bytes) /\ Len(t) = IF Len(b) + 1 <= Len(w) THEN Len(w) - (Len(b) + 1) + 1 ELSE 0
          /\ \A i \in 1..Len(w) - (Len(b) + 1) + 1 : t[i] = w[(Len(b) + 1) + i - 1]
      BY <2>1, SliceOfBytes, Zenon
    <2>3. /\ z \in Seq(Bytes) /\ Len(z) = Len(t) + Len(x)
          /\ \A i \in 1..Len(t) + Len(x) : z[i] = IF i <= Len(t) THEN t[i] ELSE x[i - Len(t)]
      BY <2>2, ConcatProperties
    <2> HIDE DEF t, z
    <2>4. Len(t) = Len(w) - Len(b) /\ Len(z) = Len(s)
      BY <1>1, <1>2, <1>3, <1>6, <2>2, <2>3
    <2>5. ASSUME NEW i \in 1..Len(z) PROVE z[i] = s[i]
      <3>1. /\ Len(b) + i \in 1..Len(b) + Len(s) /\ ~(Len(b) + i <= Len(b)) /\ Len(b) + i - Len(b) = i
            /\ Len(b) + i \in 1..Len(w) + Len(x)
        BY <1>1, <1>2, <1>3, <2>4
      <3>2. s[i] = a[Len(b) + i]
        <4> DEFINE n == Len(b) + i
        <4>1. n \in 1..Len(b) + Len(s) /\ ~(n <= Len(b)) /\ n - Len(b) = i
          BY <3>1
        <4> HIDE DEF n
        <4>2. a[n] = IF n <= Len(b) THEN b[n] ELSE s[n - Len(b)]
          BY <1>3, <4>1, Zenon
        <4>3. a[n] = s[i]
          BY <4>1, <4>2, Zenon
        <4> QED
          BY <4>3 DEF n
      <3>3. a[Len(b) + i] = IF Len(b) + i <= Len(w) THEN w[Len(b) + i] ELSE x[Len(b) + i - Len(w)]
        <4> DEFINE n == Len(b) + i
        <4>1. n \in 1..Len(w) + Len(x)
          BY <3>1
        <4> HIDE DEF n
        <4>2. a[n] = IF n <= Len(w) THEN w[n] ELSE x[n - Len(w)]
          BY <1>2, <4>1, Zenon
        <4> QED
          BY <4>2 DEF n
      <3>4. CASE Len(b) + i <= Len(w)
        <4>1. i \in 1..Len(w) - (Len(b) + 1) + 1 /\ (Len(b) + 1) + i - 1 = Len(b) + i /\ i <= Len(t)
          BY <1>1, <2>4, <3>4
        <4>2. i \in 1..Len(t) + Len(x)
          BY <1>1, <2>3, <2>4
        <4> QED
          BY <2>2, <2>3, <3>2, <3>3, <3>4, <4>1, <4>2, Zenon
      <3>5. CASE ~(Len(b) + i <= Len(w))
        <4>1. ~(i <= Len(t)) /\ i - Len(t) = Len(b) + i - Len(w) /\ i \in 1..Len(t) + Len(x)
          BY <1>1, <2>3, <2>4, <3>5
        <4> QED
          BY <2>3, <3>2, <3>3, <3>5, <4>1, Zenon
      <3> QED
        BY <3>4, <3>5
    <2>6. z = s
      BY SMTT(30), <2>3, <2>4, <2>5, SeqEqual
    <2> QED
      BY <2>6 DEF z, t
  <1> QED
    BY <1>4, <1>5, <1>6

\* What a sender may write, and what is clear, depends on the framing alone.
LEMMA ClearStays ==
    ASSUME framing' = framing
    PROVE  Mail' = Mail /\ \A e : Clear(e)' <=> Clear(e)
  BY DEF Mail, Clear

\* A peer that stopped inside no message wrote nothing that is not clear.
LEMMA NothingIsClear == Clear(Nothing)
  <1> DEFINE e == Nothing
  <1>1. e.head = <<>> /\ e.msg = <<>> /\ e.tail = <<>>
    BY DEF Nothing
  <1> HIDE DEF e
  <1>2. <<>> \o <<>> \o <<>> = <<>> /\ Len(<<>>) = 0 /\ DOMAIN <<>> = {} /\ <<>> \in Seq(Bytes)
    OBVIOUS
  <1>3. Encode(e) = <<>> /\ IsLine(e)
    BY <1>1, <1>2 DEF Encode, IsLine
  <1>4. MaxBytes \in Nat /\ MaxDigits \in Nat \ {0}
    BY FramingAssumption
  <1>5. Leading(<<>>) = 0
    <2>1. Leading(<<>>) \in 0..Len(<<>>)
      BY <1>2, LeadingCounts, Zenon
    <2> QED
      BY <1>2, <2>1
  <1>6. ~(0 >= MaxDigits) /\ ~(0 \in 1..0 - 1) /\ 0 <= MaxBytes
    BY <1>4
  <1>7. ~BeginsLikeCount(<<>>)
    BY <1>2, <1>5, <1>6, Zenon DEF BeginsLikeCount
  <1>8. Len(Encode(e)) <= MaxBytes
    BY <1>2, <1>3, <1>6, Zenon
  <1>9. \A i \in DOMAIN e.msg : e.msg[i] \notin {LF, CR}
    BY <1>1, <1>2
  <1> QED
    BY <1>1, <1>3, <1>7, <1>8, <1>9, Zenon DEF Clear, e

\* A message e that was cut is clear if what it was cut from is.
LEMMA CutIsClear ==
    ASSUME NEW e, NEW n
    PROVE  /\ Clear(CutOf(e, n)) <=> Clear(e)
           /\ IsLine(CutOf(e, n)) <=> IsLine(e)
           /\ CutOf(e, n).bytes = SubSeq(Encode(e), 1, n)
  <1> DEFINE c == CutOf(e, n)
  <1>1. /\ c.head = e.head /\ c.msg = e.msg /\ c.tail = e.tail
        /\ c.bytes = SubSeq(Encode(e), 1, n)
    BY Zenon DEF CutOf
  <1> HIDE DEF c
  <1>2. Encode(c) = Encode(e) /\ (IsLine(c) <=> IsLine(e))
    BY <1>1, Zenon DEF Encode, IsLine
  <1>3. Clear(c) <=> Clear(e)
    BY <1>1, <1>2 DEF Clear
  <1> QED
    BY <1>1, <1>2, <1>3 DEF c

\* Every message that was sent is encoded in bytes.
LEMMA MailIsBytes ==
    ASSUME FramingTypes
    PROVE  /\ sent \in Seq(Mail) /\ Len(sent) \in Nat /\ DOMAIN sent = 1..Len(sent)
           /\ \A i \in 1..Len(sent) : sent[i] \in Mail
           /\ \A e \in Mail : Encode(e) \in Seq(Bytes)
  <1>1. sent \in Seq(Mail)
    BY DEF FramingTypes
  <1>2. \A e \in Mail : Encode(e) \in Seq(Bytes)
    BY MailIsEncoded
  <1> QED
    BY <1>1, <1>2, LenProperties, ElementOfSeq

\* Before the stream ends or breaks it holds exactly the messages not yet read.
LEMMA OpenStream ==
    ASSUME FramingTypes, CutInv, StreamInv, peer = "open"
    PROVE  /\ cut = Nothing /\ cut.bytes = <<>> /\ reader # "returned"
           /\ reader = "refused" => \E k \in 0..Len(sent) : SentAs(frames, k, sent)
           /\ reader \in {"read", "submit"} =>
                \E rest : \E k \in 0..Len(sent) :
                    Laid(rest, sent, <<>>) /\ SentAs(Got, k, sent) /\ wire = rest[k]
  <1>1. cut = Nothing /\ cut.bytes = <<>>
    BY DEF CutInv, Nothing
  <1>2. reader # "returned"
    BY DEF StreamInv
  <1>3. reader = "refused" => \E k \in 0..Len(sent) : SentAs(frames, k, sent)
    BY <1>1 DEF StreamInv, WithCut
  <1>4. ASSUME reader \in {"read", "submit"}
        PROVE  \E rest : \E k \in 0..Len(sent) :
                    Laid(rest, sent, <<>>) /\ SentAs(Got, k, sent) /\ wire = rest[k]
    <2>1. Following
      BY <1>4 DEF StreamInv, Finished
    <2>2. PICK rest, lost : \E k \in 0..Len(sent) : At(rest, k, lost)
      BY <2>1 DEF Following
    <2>3. PICK k \in 0..Len(sent) : At(rest, k, lost)
      BY <2>2
    <2>4. wire \o <<>> = wire
      BY ConcatEmptySeq DEF FramingTypes
    <2>5. lost = <<>>
      BY <2>3 DEF At
    <2>6. Laid(rest, sent, <<>>) /\ SentAs(Got, k, sent) /\ wire = rest[k]
      BY <1>1, <2>3, <2>4, <2>5, Zenon DEF At
    <2> QED
      BY <2>6
  <1> QED
    BY <1>1, <1>2, <1>3, <1>4

\* The peer writes a message.
LEMMA SendsKeeps ==
    ASSUME FramingInv, NEW e \in Mail, Sends(e)
    PROVE  FramingInv'
  <1> DEFINE E == Encode(e)
  <1>1. FramingTypes /\ CutInv /\ FramesFit /\ (AllClear => StreamInv)
    BY DEF FramingInv
  <1>2. /\ peer = "open" /\ wire' = wire \o E /\ sent' = Append(sent, e)
        /\ UNCHANGED <<framing, peer, reader, payload, frames, cut>>
    BY DEF Sends
  <1>3. Mail' = Mail /\ \A x : Clear(x)' <=> Clear(x)
    BY <1>2, ClearStays
  <1>4. /\ sent \in Seq(Mail) /\ Len(sent) \in Nat /\ DOMAIN sent = 1..Len(sent)
        /\ E \in Seq(Bytes) /\ wire \in Seq(Bytes)
    BY <1>1, MailIsBytes DEF FramingTypes
  <1>5. /\ sent' \in Seq(Mail) /\ Len(sent') = Len(sent) + 1 /\ DOMAIN sent' = 1..Len(sent) + 1
        /\ sent'[Len(sent) + 1] = e /\ \A i \in 1..Len(sent) : sent'[i] = sent[i]
    BY <1>2, <1>4
  <1> HIDE DEF E
  <1>6. FramingTypes'
    <2>1. wire' \in Seq(Bytes)
      BY <1>2, <1>4, ConcatProperties
    <2> QED
      BY <1>1, <1>2, <1>3, <1>5, <2>1 DEF FramingTypes
  <1>7. CutInv'
    BY <1>1, <1>2 DEF CutInv, Nothing
  <1>8. FramesFit'
    BY <1>1, <1>2 DEF FramesFit
  <1>9. ASSUME AllClear' PROVE StreamInv'
    <2>1. AllClear
      <3>1. Clear(cut)
        BY <1>2, <1>3, <1>9 DEF AllClear
      <3>2. \A i \in DOMAIN sent' : Clear(sent'[i])
        BY <1>3, <1>9 DEF AllClear
      <3>3. \A i \in DOMAIN sent : i \in DOMAIN sent' /\ sent'[i] = sent[i]
        BY <1>4, <1>5
      <3> QED
        BY <3>1, <3>2, <3>3 DEF AllClear
    <2>2. /\ cut.bytes = <<>> /\ reader # "returned"
          /\ reader = "refused" => \E k \in 0..Len(sent) : SentAs(frames, k, sent)
      BY <1>1, <1>2, <2>1, OpenStream
    <2>3. \A k \in 0..Len(sent) : k \in 0..Len(sent') /\ k \in Nat /\ \A i \in 1..k : sent'[i] = sent[i]
      BY <1>4, <1>5
    <2>4. \A fs : \A k \in 0..Len(sent) : SentAs(fs, k, sent) => SentAs(fs, k, sent')
      BY <2>3, SentGrows
    <2>5. Got' = Got
      BY <1>2 DEF Got
    <2>6. CASE reader \in {"read", "submit"}
      <3>1. PICK rest : \E k \in 0..Len(sent) :
                Laid(rest, sent, <<>>) /\ SentAs(Got, k, sent) /\ wire = rest[k]
        BY <1>1, <1>2, <2>1, <2>6, OpenStream
      <3>2. PICK k \in 0..Len(sent) : Laid(rest, sent, <<>>) /\ SentAs(Got, k, sent) /\ wire = rest[k]
        BY <3>1
      <3> DEFINE r1 == [i \in 0..Len(sent) |-> rest[i] \o E]
                 r2 == [i \in 0..Len(sent) + 1 |-> IF i <= Len(sent) THEN r1[i] ELSE <<>>]
      <3>3. Laid(r1, sent, E)
        BY Zenon, <1>1, <1>4, <3>2, MailIsBytes, LaidEnds
      <3>4. r1[k] = wire \o E
        BY <3>2
      <3> HIDE DEF r1
      <3>5. Laid(r2, sent', <<>>)
        BY Zenon, <1>2, <1>4, <3>3, LaidNext DEF E
      <3>6. r2[k] = wire \o E
        BY <1>4, <3>4
      <3> HIDE DEF r2
      <3>r. PICK r : Laid(r, sent', <<>>) /\ r[k] = wire \o E
        BY <3>5, <3>6
      <3>7. wire' \o <<>> = r[k] /\ <<>> \in Seq(Bytes)
        BY <1>2, <1>6, <3>r, ConcatEmptySeq DEF FramingTypes
      <3>8. At(r, k, <<>>)'
        <4>1. Laid(r, sent', cut'.bytes)
          BY <1>2, <2>2, <3>r
        <4>2. SentAs(Got', k, sent')
          BY <2>4, <2>5, <3>2
        <4> QED
          BY <3>7, <4>1, <4>2 DEF At
      <3>9. k \in 0..Len(sent')
        BY <2>3
      <3>10. Following'
        BY <3>8, <3>9, Zenon DEF Following
      <3> QED
        BY <1>2, <2>6, <3>10 DEF StreamInv
    <2>7. CASE reader = "refused"
      <3>1. \E k \in 0..Len(sent') : SentAs(frames', k, sent')
        BY <1>2, <2>2, <2>3, <2>4, <2>7
      <3> QED
        BY <1>2, <2>7, <3>1 DEF StreamInv
    <2> QED
      BY <1>1, <2>2, <2>6, <2>7 DEF FramingTypes
  <1> QED
    BY <1>6, <1>7, <1>8, <1>9 DEF FramingInv

\* The peer ends the stream in the middle of a message.
LEMMA StopsKeeps ==
    ASSUME FramingInv, NEW e \in Mail, StopsInside(e)
    PROVE  FramingInv'
  <1>1. FramingTypes /\ CutInv /\ FramesFit /\ (AllClear => StreamInv)
    BY DEF FramingInv
  <1>2. PICK n \in 1..Len(Encode(e)) - 1 :
            wire' = wire \o SubSeq(Encode(e), 1, n) /\ cut' = CutOf(e, n)
    BY Zenon DEF StopsInside, CutOf
  <1>3. peer = "open" /\ peer' = "eof" /\ UNCHANGED <<framing, reader, payload, frames, sent>>
    BY DEF StopsInside
  <1>4. PICK c : c = SubSeq(Encode(e), 1, n)
    BY Zenon
  <1>5. Mail' = Mail /\ \A x : Clear(x)' <=> Clear(x)
    BY <1>3, ClearStays
  <1>6. c \in Seq(Bytes) /\ wire \in Seq(Bytes) /\ sent \in Seq(Mail) /\ Len(sent) \in Nat
    <2>1. Encode(e) \in Seq(Bytes) /\ Len(Encode(e)) \in Nat
      BY MailIsEncoded
    <2>2. n \in 0..Len(Encode(e))
      BY <2>1
    <2>3. c \in Seq(Bytes)
      BY <1>4, <2>1, <2>2, PrefixOfBytes
    <2> QED
      BY <1>1, <2>3, MailIsBytes DEF FramingTypes
  <1>7. wire' = wire \o c /\ cut'.bytes = c
    BY Zenon, <1>2, <1>4, CutIsClear
  <1>8. FramingTypes'
    <2>1. wire' \in Seq(Bytes)
      BY <1>6, <1>7, ConcatProperties
    <2> QED
      BY <1>1, <1>3, <1>5, <2>1 DEF FramingTypes
  <1>9. CutInv'
    BY <1>2, <1>3, <1>5, Zenon DEF CutInv
  <1>10. FramesFit'
    BY <1>1, <1>3 DEF FramesFit
  <1>11. ASSUME AllClear' PROVE StreamInv'
    <2>1. AllClear
      <3>1. Clear(cut)
        BY <1>1, <1>3, NothingIsClear DEF CutInv
      <3>2. \A i \in DOMAIN sent : Clear(sent[i])
        BY <1>3, <1>5, <1>11 DEF AllClear
      <3> QED
        BY <3>1, <3>2 DEF AllClear
    <2>2. /\ cut.bytes = <<>> /\ reader # "returned"
          /\ reader = "refused" => \E k \in 0..Len(sent) : SentAs(frames, k, sent)
      BY <1>1, <1>3, <2>1, OpenStream
    <2>3. CASE reader \in {"read", "submit"}
      <3>1. PICK rest : \E k \in 0..Len(sent) :
                Laid(rest, sent, <<>>) /\ SentAs(Got, k, sent) /\ wire = rest[k]
        BY <1>1, <1>3, <2>1, <2>3, OpenStream
      <3>2. PICK k \in 0..Len(sent) : Laid(rest, sent, <<>>) /\ SentAs(Got, k, sent) /\ wire = rest[k]
        BY <3>1
      <3>3. PICK r : r = [i \in 0..Len(sent) |-> rest[i] \o c]
        BY Zenon
      <3>4. Laid(r, sent, c)
        BY Zenon, <1>1, <1>6, <3>2, <3>3, MailIsBytes, LaidEnds
      <3>5. r[k] = wire \o c
        BY <3>2, <3>3
      <3>6. wire' \o <<>> = r[k] /\ <<>> \in Seq(Bytes)
        BY <1>7, <1>8, <3>5, ConcatEmptySeq DEF FramingTypes
      <3>7. Got' = Got
        BY <1>3 DEF Got
      <3>8. At(r, k, <<>>)'
        <4>1. Laid(r, sent', cut'.bytes) /\ SentAs(Got', k, sent')
          BY <1>3, <1>7, <3>2, <3>4, <3>7
        <4> QED
          BY <3>6, <4>1, Zenon DEF At
      <3>9. k \in 0..Len(sent')
        BY <1>3
      <3>10. Following'
        BY <3>8, <3>9, Zenon DEF Following
      <3> QED
        BY <1>3, <2>3, <3>10 DEF StreamInv
    <2>4. CASE reader = "refused"
      <3>1. \E k \in 0..Len(sent') : SentAs(frames', k, sent')
        BY <1>3, <2>2, <2>4
      <3> QED
        BY <1>3, <2>4, <3>1 DEF StreamInv
    <2> QED
      BY <1>1, <2>2, <2>3, <2>4 DEF FramingTypes
  <1> QED
    BY <1>8, <1>9, <1>10, <1>11 DEF FramingInv

\* The stream ends between two messages, or the connection breaks anywhere.
LEMMA EndKeepsStream ==
    ASSUME FramingInv, HangsUp \/ Breaks
    PROVE  FramingInv'
  <1>1. FramingTypes /\ CutInv /\ FramesFit /\ (AllClear => StreamInv)
    BY DEF FramingInv
  <1>2. peer = "open" /\ peer' # "open" /\ UNCHANGED <<framing, reader, payload, frames, sent, cut>>
    BY DEF HangsUp, Breaks
  <1>3. wire \in Seq(Bytes) /\ Len(wire) \in Nat
    BY <1>1 DEF FramingTypes
  <1>4. PICK lost \in Seq(Bytes) :
            /\ wire' \in Seq(Bytes) /\ wire' \o lost = wire
            /\ peer' \in {"eof", "broken"} /\ (peer' # "broken" => lost = <<>>)
    <2>1. CASE HangsUp
      <3>1. wire \o <<>> = wire /\ <<>> \in Seq(Bytes)
        BY <1>3, ConcatEmptySeq
      <3> QED
        BY Zenon, <1>3, <2>1, <3>1 DEF HangsUp
    <2>2. CASE Breaks
      <3>1. PICK n \in 0..Len(wire) : wire' = SubSeq(wire, 1, n)
        BY <2>2 DEF Breaks
      <3>2. n + 1 \in 1..Len(wire) + 1 /\ Len(wire) \in 0..Len(wire) /\ 1 \in 1..Len(wire) + 1
        BY <1>3
      <3>3. SubSeq(wire, 1, n) \in Seq(Bytes) /\ SubSeq(wire, n + 1, Len(wire)) \in Seq(Bytes)
        BY <1>3, <3>2, SliceOfBytes
      <3>4. SubSeq(wire, 1, n) \o SubSeq(wire, n + 1, Len(wire)) = wire
        <4>1. n \in 1 - 1..Len(wire) /\ Len(wire) \in n..Len(wire)
          BY <1>3
        <4>2. SubSeq(wire, 1, n) \o SubSeq(wire, n + 1, Len(wire)) = SubSeq(wire, 1, Len(wire))
          BY Zenon, <1>3, <3>2, <4>1, ConcatAdjacentSubSeq
        <4> QED
          BY Zenon, <1>3, <4>2, SubSeqFull
      <3> QED
        BY Zenon, <2>2, <3>1, <3>3, <3>4 DEF Breaks
    <2> QED
      BY Zenon, <2>1, <2>2
  <1>5. Mail' = Mail /\ \A x : Clear(x)' <=> Clear(x)
    BY <1>2, ClearStays
  <1>6. FramingTypes'
    BY <1>1, <1>2, <1>4, <1>5 DEF FramingTypes
  <1>7. CutInv'
    BY <1>1, <1>2 DEF CutInv, Nothing
  <1>8. FramesFit'
    BY <1>1, <1>2 DEF FramesFit
  <1>9. ASSUME AllClear' PROVE StreamInv'
    <2>1. AllClear
      BY <1>2, <1>5, <1>9 DEF AllClear
    <2>2. /\ cut.bytes = <<>> /\ reader # "returned"
          /\ reader = "refused" => \E k \in 0..Len(sent) : SentAs(frames, k, sent)
      BY <1>1, <1>2, <2>1, OpenStream
    <2>3. CASE reader \in {"read", "submit"}
      <3>1. PICK rest : \E k \in 0..Len(sent) :
                Laid(rest, sent, <<>>) /\ SentAs(Got, k, sent) /\ wire = rest[k]
        BY <1>1, <1>2, <2>1, <2>3, OpenStream
      <3>2. PICK k \in 0..Len(sent) : Laid(rest, sent, <<>>) /\ SentAs(Got, k, sent) /\ wire = rest[k]
        BY <3>1
      <3>3. Got' = Got
        BY <1>2 DEF Got
      <3>4. At(rest, k, lost)'
        <4>1. Laid(rest, sent', cut'.bytes) /\ SentAs(Got', k, sent') /\ wire' \o lost = rest[k]
          BY <1>2, <1>4, <2>2, <3>2, <3>3
        <4> QED
          BY <1>4, <4>1, Zenon DEF At
      <3>5. k \in 0..Len(sent')
        BY <1>2
      <3>6. Following'
        BY <3>4, <3>5, Zenon DEF Following
      <3> QED
        BY <1>2, <2>3, <3>6 DEF StreamInv
    <2>4. CASE reader = "refused"
      <3>1. \E k \in 0..Len(sent') : SentAs(frames', k, sent')
        BY Zenon, <1>2, <2>2, <2>4
      <3> QED
        BY <1>2, <2>4, <3>1 DEF StreamInv
    <2> QED
      BY <1>1, <2>2, <2>3, <2>4 DEF FramingTypes
  <1> QED
    BY <1>6, <1>7, <1>8, <1>9 DEF FramingInv

\* After k messages readFrame finds the next one, waits for the rest of it, or takes
\* the beginning of a line at the end of the stream.
LEMMA NextRead ==
    ASSUME FramingTypes, CutInv, AllClear, NEW rest, NEW lost,
           NEW k \in 0..Len(sent), At(rest, k, lost)
    PROVE  \/ /\ k < Len(sent) /\ k + 1 \in 1..Len(sent)
              /\ \E l \in 0..Len(wire) :
                    /\ readFrame(wire) = Frame(sent[k + 1].msg, l)
                    /\ SubSeq(wire, l + 1, Len(wire)) \o lost = rest[k + 1]
           \/ /\ readFrame(wire) = Failure("short")
              /\ k = Len(sent) \/ peer = "broken"
           \/ /\ k = Len(sent) /\ peer = "eof" /\ wire = cut.bytes /\ wire # <<>> /\ IsLine(cut)
              /\ readFrame(wire) = Frame(bytesTrimLine(wire), Len(wire))
  <1>1. /\ wire \in Seq(Bytes) /\ Len(wire) \in Nat /\ framing \in Modes
        /\ sent \in Seq(Mail) /\ Len(sent) \in Nat /\ DOMAIN sent = 1..Len(sent)
        /\ \A i \in 1..Len(sent) : sent[i] \in Mail
    BY MailIsBytes DEF FramingTypes
  <1>2. /\ rest \in [0..Len(sent) -> Seq(Bytes)] /\ rest[Len(sent)] = cut.bytes
        /\ \A i \in 1..Len(sent) : rest[i - 1] = Encode(sent[i]) \o rest[i]
        /\ lost \in Seq(Bytes) /\ wire \o lost = rest[k]
        /\ peer # "broken" => lost = <<>>
    BY Zenon DEF At, Laid
  <1>3. CASE k # Len(sent)
    <2>1. k < Len(sent) /\ k + 1 \in 1..Len(sent) /\ (k + 1) - 1 = k
      <3>1. PICK z : z = Len(sent)
        OBVIOUS
      <3>2. z \in Nat /\ k \in 0..z /\ k # z
        BY Zenon, <1>1, <1>3, <3>1
      <3>3. k < z /\ k + 1 \in 1..z /\ (k + 1) - 1 = k
        BY <3>2
      <3> QED
        BY <3>1, <3>3
    <2>2. PICK e : e = sent[k + 1]
      OBVIOUS
    <2>3. e \in Mail /\ Clear(e)
      BY <1>1, <2>1, <2>2 DEF AllClear
    <2>4. Encode(e) \in Seq(Bytes) /\ Len(Encode(e)) \in Nat \ {0}
      BY <2>3, MailIsEncoded
    <2>5. wire \o lost = Encode(e) \o rest[k + 1] /\ rest[k + 1] \in Seq(Bytes)
      <3>1. rest[(k + 1) - 1] = Encode(e) \o rest[k + 1]
        BY Zenon, <1>2, <2>1, <2>2
      <3>2. k + 1 \in 0..Len(sent)
        BY <1>1, <2>1
      <3> QED
        BY Zenon, <1>2, <2>1, <3>1, <3>2
    <2>6. PICK l : l = Len(Encode(e))
      OBVIOUS
    <2>7. /\ Starts(wire, Encode(e))
          /\ lost = <<>> => l <= Len(wire)
          /\ l <= Len(wire) => SubSeq(wire, l + 1, Len(wire)) \o lost = rest[k + 1]
      <3>1. /\ Starts(wire, Encode(e))
            /\ lost = <<>> => Len(Encode(e)) <= Len(wire)
            /\ Len(Encode(e)) <= Len(wire) =>
                 SubSeq(wire, Len(Encode(e)) + 1, Len(wire)) \o lost = rest[k + 1]
        <4>1. wire \in Seq(Bytes) /\ lost \in Seq(Bytes) /\ Encode(e) \in Seq(Bytes)
          BY <1>1, <1>2, <2>4
        <4>2. PICK b, s : b = Encode(e) /\ s = rest[k + 1]
          OBVIOUS
        <4>3. b \in Seq(Bytes) /\ s \in Seq(Bytes) /\ Same(wire, lost, b, s)
          BY <2>5, <4>1, <4>2 DEF Same
        <4>4. /\ Starts(wire, b) /\ (lost = <<>> => Len(b) <= Len(wire))
              /\ Len(b) <= Len(wire) => SubSeq(wire, Len(b) + 1, Len(wire)) \o lost = s
          BY <4>1, <4>3, SameStream, Zenon
        <4> QED
          BY SMTT(30), <4>2, <4>4
      <3> QED
        BY <2>6, <3>1, Zenon
    <2>8. CASE l <= Len(wire)
      <3>1. readFrame(wire) = Frame(e.msg, l)
        BY <1>1, <2>3, <2>6, <2>7, <2>8, MailIsRead, Zenon
      <3>2. l \in 0..Len(wire)
        BY <1>1, <2>4, <2>6, <2>8
      <3> QED
        BY <2>1, <2>2, <2>7, <2>8, <3>1, <3>2, Zenon
    <2>9. CASE ~(l <= Len(wire))
      <3>1. Len(wire) < l
        BY <1>1, <2>4, <2>6, <2>9
      <3>2. peer = "broken"
        BY <1>2, <2>7, <2>9
      <3>3. peer # "eof"
        BY <3>2
      <3>4. readFrame(wire) = Failure("short")
        BY <1>1, <2>3, <2>6, <2>7, <3>1, <3>3, MailIsRead, Zenon
      <3> QED
        BY <3>2, <3>4
    <2> QED
      BY Zenon, <2>8, <2>9
  <1>4. CASE k = Len(sent)
    <2>1. wire \o lost = cut.bytes
      BY <1>2, <1>4
    <2>2. CASE cut = Nothing
      <3>1. wire \o lost = <<>>
        BY <2>1, <2>2 DEF Nothing
      <3>2. wire = <<>>
        BY <1>1, <1>2, <3>1, ConcatEmptySeq, ConcatProperties, EmptySeq
      <3> QED
        BY <1>1, <1>4, <3>2, EmptyIsShort
    <2>3. CASE cut # Nothing
      <3>1. peer = "eof"
        BY <2>3 DEF CutInv
      <3>2. PICK e \in Mail : \E n \in 1..Len(Encode(e)) - 1 : cut = CutOf(e, n)
        BY <2>3 DEF CutInv
      <3>3. PICK n \in 1..Len(Encode(e)) - 1 : cut = CutOf(e, n)
        BY <3>2
      <3>4. Encode(e) \in Seq(Bytes) /\ Len(Encode(e)) \in Nat \ {0}
        BY MailIsEncoded
      <3>5. n \in 0..Len(Encode(e)) /\ n \in Nat /\ n < Len(Encode(e))
        BY <3>4
      <3>6. wire = cut.bytes
        <4>1. lost = <<>>
          BY <1>2, <3>1
        <4> QED
          BY <1>1, <2>1, <4>1, ConcatEmptySeq
      <3>7. /\ Clear(e) /\ (IsLine(cut) <=> IsLine(e))
            /\ wire = SubSeq(Encode(e), 1, n)
        BY <3>3, <3>6, CutIsClear DEF AllClear
      <3>8. /\ Len(wire) = n /\ \A i \in 1..n : wire[i] = Encode(e)[i]
        BY <3>4, <3>5, <3>7, PrefixOfBytes
      <3>9. Starts(wire, Encode(e)) /\ Len(wire) < Len(Encode(e))
        BY <1>1, <3>5, <3>8 DEF Starts
      <3> QED
        BY <1>1, <1>4, <3>1, <3>6, <3>7, <3>9, MailIsRead, Zenon
    <2> QED
      BY Zenon, <2>2, <2>3
  <1> QED
    BY Zenon, <1>3, <1>4

\* readFrame returns a frame, which is skipped if it is empty.
LEMMA ReadsKeeps ==
    ASSUME FramingInv, Reads
    PROVE  FramingInv'
  <1>1. FramingTypes /\ CutInv /\ FramesFit /\ (AllClear => StreamInv)
    BY DEF FramingInv
  <1>2. PICK r : r = readFrame(wire)
    OBVIOUS
  <1>3. /\ reader = "read" /\ r.kind = "frame" /\ payload' = r.payload
        /\ wire' = SubSeq(wire, r.used + 1, Len(wire))
        /\ reader' = IF r.payload = <<>> THEN "read" ELSE "submit"
        /\ UNCHANGED <<framing, peer, frames, sent, cut>>
    BY <1>2 DEF Reads
  <1>4. /\ wire \in Seq(Bytes) /\ Len(wire) \in Nat /\ framing \in Modes /\ frames \in Seq(Seq(Bytes))
        /\ Len(sent) \in Nat
    BY <1>1, MailIsBytes DEF FramingTypes
  <1>5. r.payload \in Seq(Bytes) /\ Len(r.payload) <= MaxBytes /\ r.used \in 0..Len(wire)
    BY <1>2, <1>3, <1>4, FrameIsUsable DEF Usable, Modes
  <1>6. Mail' = Mail /\ \A x : Clear(x)' <=> Clear(x)
    BY <1>3, ClearStays
  <1>7. FramingTypes'
    <2>1. r.used + 1 \in 1..Len(wire) + 1 /\ Len(wire) \in 0..Len(wire)
      BY <1>4, <1>5
    <2>2. wire' \in Seq(Bytes)
      BY <1>3, <1>4, <2>1, SliceOfBytes
    <2>3. reader' \in {"read", "submit", "returned", "refused"}
      BY <1>3
    <2> QED
      BY <1>1, <1>3, <1>5, <1>6, <2>2, <2>3 DEF FramingTypes
  <1>8. CutInv'
    BY <1>1, <1>3, <1>6, Zenon DEF CutInv, CutOf, Encode, Nothing
  <1>9. FramesFit'
    <2>1. r.payload # <<>> => Len(r.payload) \in 1..MaxBytes
      <3>1. r.payload # <<>> => Len(r.payload) # 0
        BY <1>5, EmptySeq
      <3>2. Len(r.payload) \in Nat /\ MaxBytes \in Nat
        BY <1>5, LenProperties, FramingAssumption
      <3> QED
        BY <1>5, <3>1, <3>2
    <2> QED
      BY <1>1, <1>3, <2>1 DEF FramesFit
  <1>10. Got = frames /\ Got' = IF r.payload = <<>> THEN frames ELSE Append(frames, r.payload)
    BY <1>3 DEF Got
  <1>11. ASSUME AllClear' PROVE StreamInv'
    <2>1. AllClear
      BY <1>3, <1>6, <1>11 DEF AllClear
    <2>2. reader' \in {"read", "submit"}
      BY <1>3
    <2>3. r.kind # "short"
      BY <1>3
    <2>4. Following
      <3>1. ~Finished
        BY <1>2, <1>3, <1>4, EmptyIsShort, FrameFields DEF Finished
      <3> QED
        BY Zenon, <1>1, <1>3, <2>1, <3>1 DEF StreamInv
    <2>5. PICK rest, lost : \E k \in 0..Len(sent) : At(rest, k, lost)
      BY <2>4 DEF Following
    <2>6. PICK k \in 0..Len(sent) : At(rest, k, lost)
      BY <2>5
    <2>7. /\ Laid(rest, sent, cut.bytes) /\ SentAs(frames, k, sent)
          /\ lost \in Seq(Bytes) /\ (peer # "broken" => lost = <<>>)
      BY <1>10, <2>6, Zenon DEF At
    <2>8. r # Failure("short")
      BY <2>3, FrameFields
    <2>9. CASE /\ k < Len(sent) /\ k + 1 \in 1..Len(sent)
               /\ \E l \in 0..Len(wire) :
                    /\ r = Frame(sent[k + 1].msg, l)
                    /\ SubSeq(wire, l + 1, Len(wire)) \o lost = rest[k + 1]
      <3>1. PICK l \in 0..Len(wire) : /\ r = Frame(sent[k + 1].msg, l)
                                      /\ SubSeq(wire, l + 1, Len(wire)) \o lost = rest[k + 1]
        BY Zenon, <2>9
      <3>2. r.payload = sent[k + 1].msg /\ wire' \o lost = rest[k + 1]
        BY ZenonT(60), <1>3, <3>1, FrameFields
      <3>3. k \in Nat
        BY <1>4
      <3>4. SentAs(Got', k + 1, sent)
        <4>1. CASE r.payload = <<>>
          BY Zenon, <1>4, <1>10, <2>7, <3>2, <3>3, <4>1, SentSkips
        <4>2. CASE r.payload # <<>>
          BY Zenon, <1>4, <1>5, <1>10, <2>7, <3>2, <3>3, <4>2, SentAdds
        <4> QED
          BY <4>1, <4>2
      <3>5. k + 1 \in 0..Len(sent')
        <4>1. \A z \in Nat : k + 1 \in 1..z => k + 1 \in 0..z
          BY <3>3
        <4>2. k + 1 \in 0..Len(sent)
          BY <1>4, <2>9, <4>1, Zenon
        <4> QED
          BY <1>3, <4>2
      <3>6. PICK j : j = k + 1
        OBVIOUS
      <3>7. At(rest, j, lost)'
        <4>1. /\ Laid(rest, sent', cut'.bytes) /\ SentAs(Got', j, sent') /\ wire' \o lost = rest[j]
              /\ peer' # "broken" => lost = <<>>
          BY Zenon, <1>3, <2>7, <3>2, <3>4, <3>6
        <4> QED
          BY <2>7, <4>1, Zenon DEF At
      <3>8. Following'
        BY <3>5, <3>6, <3>7, Zenon DEF Following
      <3> QED
        BY <2>2, <3>8 DEF StreamInv
    <2>10. CASE /\ k = Len(sent) /\ peer = "eof" /\ wire = cut.bytes /\ wire # <<>> /\ IsLine(cut)
                /\ r = Frame(bytesTrimLine(wire), Len(wire))
      <3>1. r.payload = bytesTrimLine(cut.bytes) /\ r.used = Len(wire)
        BY <2>10, FrameFields
      <3>2. wire' = <<>>
        BY <1>3, <1>4, <3>1, SubSeqEmpty
      <3>3. SentAs(frames, Len(sent), sent)
        BY <2>7, <2>10
      <3>4. SentAs(Got, Len(sent), sent)' \/ WithCut(Got)'
        <4>1. CASE r.payload = <<>>
          BY <1>3, <1>10, <3>3, <4>1
        <4>2. CASE r.payload # <<>>
          <5>1. Got' = Append(frames, bytesTrimLine(cut.bytes))
            BY Zenon, <1>10, <3>1, <4>2
          <5>2. /\ cut'.bytes # <<>> /\ IsLine(cut)'
                /\ Got' = Append(frames, bytesTrimLine(cut'.bytes))
                /\ SentAs(frames, Len(sent'), sent')
            BY Zenon, <1>3, <2>10, <3>3, <5>1 DEF IsLine
          <5> QED
            BY <1>4, <5>2, Zenon DEF WithCut
        <4> QED
          BY <4>1, <4>2
      <3>5. Finished'
        BY <1>3, <2>10, <3>2, <3>4 DEF Finished
      <3> QED
        BY <2>2, <3>5 DEF StreamInv
    <2> QED
      BY <1>1, <1>2, <2>1, <2>6, <2>8, <2>9, <2>10, NextRead, Zenon
  <1> QED
    BY <1>7, <1>8, <1>9, <1>11 DEF FramingInv

\* An error of readFrame ends the connection.
LEMMA ReturnsKeeps ==
    ASSUME FramingInv, Returns
    PROVE  FramingInv'
  <1>1. FramingTypes /\ CutInv /\ FramesFit /\ (AllClear => StreamInv)
    BY DEF FramingInv
  <1>2. /\ reader = "read" /\ reader' = "returned"
        /\ readFrame(wire).kind # "frame"
        /\ readFrame(wire).kind = "short" => peer # "open"
        /\ UNCHANGED <<framing, peer, wire, payload, frames, sent, cut>>
    BY DEF Returns
  <1>3. Mail' = Mail /\ \A x : Clear(x)' <=> Clear(x)
    BY <1>2, ClearStays
  <1>4. FramingTypes'
    BY <1>1, <1>2, <1>3 DEF FramingTypes
  <1>5. CutInv'
    BY <1>1, <1>2, <1>3, Zenon DEF CutInv, CutOf, Encode, Nothing
  <1>6. FramesFit'
    BY <1>1, <1>2 DEF FramesFit
  <1>7. ASSUME AllClear' PROVE StreamInv'
    <2>1. AllClear
      BY <1>2, <1>3, <1>7 DEF AllClear
    <2>2. Got = frames /\ Len(sent) \in Nat
      BY <1>1, <1>2, MailIsBytes DEF Got
    <2>3. Len(sent) \in 0..Len(sent)
      BY <2>2
    <2>4. /\ (\E k \in 0..Len(sent) : SentAs(frames, k, sent)) \/ WithCut(frames)
          /\ peer # "open"
          /\ peer = "eof" => SentAs(frames, Len(sent), sent) \/ WithCut(frames)
      <3>1. CASE Finished
        BY <2>2, <2>3, <3>1 DEF Finished
      <3>2. CASE Following
        <4>1. PICK rest, lost : \E k \in 0..Len(sent) : At(rest, k, lost)
          BY <3>2 DEF Following
        <4>2. PICK k \in 0..Len(sent) : At(rest, k, lost)
          BY <4>1
        <4>3. SentAs(frames, k, sent)
          BY <2>2, <4>2 DEF At
        <4>4. \A b, l : readFrame(wire) # Frame(b, l)
          BY <1>2, FrameFields
        <4>5. /\ readFrame(wire) = Failure("short")
              /\ k = Len(sent) \/ peer = "broken"
          BY <1>1, <2>1, <4>2, <4>4, NextRead, Zenon
        <4>6. peer # "open"
          BY <1>2, <4>5, FrameFields
        <4> QED
          BY <4>3, <4>5, <4>6
      <3> QED
        BY <1>1, <1>2, <2>1, <3>1, <3>2 DEF StreamInv
    <2>5. WithCut(frames)' <=> WithCut(frames)
      BY <1>2, Zenon DEF WithCut, IsLine, bytesTrimLine
    <2> QED
      BY <1>2, <2>4, <2>5 DEF StreamInv
  <1> QED
    BY <1>4, <1>5, <1>6, <1>7 DEF FramingInv

\* Submit takes the frame, or its error ends the connection.
LEMMA SubmitsKeeps ==
    ASSUME FramingInv, Submits
    PROVE  FramingInv'
  <1>1. FramingTypes /\ CutInv /\ FramesFit /\ (AllClear => StreamInv)
    BY DEF FramingInv
  <1>2. /\ reader = "submit"
        /\ \/ reader' = "read" /\ frames' = Append(frames, payload)
           \/ reader' = "refused" /\ frames' = frames
        /\ UNCHANGED <<framing, peer, wire, payload, sent, cut>>
    BY DEF Submits
  <1>3. Mail' = Mail /\ \A x : Clear(x)' <=> Clear(x)
    BY <1>2, ClearStays
  <1>4. payload \in Seq(Bytes) /\ frames \in Seq(Seq(Bytes)) /\ Len(frames) \in Nat
    BY <1>1, LenProperties DEF FramingTypes
  <1>5. FramingTypes'
    <2>1. frames' \in Seq(Seq(Bytes))
      <3>1. Append(frames, payload) \in Seq(Seq(Bytes))
        BY <1>4, AppendProperties, Zenon
      <3> QED
        BY SMTT(30), <1>2, <1>4, <3>1
    <2>2. reader' \in {"read", "submit", "returned", "refused"}
      BY <1>2
    <2> QED
      BY <1>1, <1>2, <1>3, <2>1, <2>2 DEF FramingTypes
  <1>6. CutInv'
    BY <1>1, <1>2, <1>3, Zenon DEF CutInv, CutOf, Encode, Nothing
  <1>7. FramesFit'
    <2>1. Len(payload) \in 1..MaxBytes /\ \A i \in 1..Len(frames) : Len(frames[i]) \in 1..MaxBytes
      BY <1>1, <1>2 DEF FramesFit
    <2>2. \A i \in 1..Len(frames') : Len(frames'[i]) \in 1..MaxBytes
      <3>1. CASE frames' = frames
        BY <2>1, <3>1
      <3>2. CASE frames' = Append(frames, payload)
        <4>1. /\ Len(frames') = Len(frames) + 1 /\ frames'[Len(frames) + 1] = payload
              /\ \A i \in 1..Len(frames) : frames'[i] = frames[i]
          BY <1>4, <3>2, AppendProperties
        <4>2. \A i \in 1..Len(frames) + 1 : i \in 1..Len(frames) \/ i = Len(frames) + 1
          BY <1>4
        <4> QED
          BY <2>1, <4>1, <4>2, Zenon
      <3> QED
        BY <1>2, <3>1, <3>2
    <2> QED
      BY <1>2, <2>2 DEF FramesFit
  <1>8. ASSUME AllClear' PROVE StreamInv'
    <2>1. AllClear
      BY <1>2, <1>3, <1>8 DEF AllClear
    <2>2. \A fs : WithCut(fs)' <=> WithCut(fs)
      BY <1>2, Zenon DEF WithCut, IsLine, bytesTrimLine
    <2>3. CASE reader' = "read"
      <3>1. Got' = Got
        BY <1>2, <2>3 DEF Got
      <3>2. Following => Following'
        <4> SUFFICES ASSUME Following PROVE Following'
          OBVIOUS
        <4>1. PICK rest, lost : \E k \in 0..Len(sent) : At(rest, k, lost)
          BY DEF Following
        <4>2. PICK k \in 0..Len(sent) : At(rest, k, lost)
          BY <4>1
        <4>3. /\ Laid(rest, sent', cut'.bytes) /\ SentAs(Got', k, sent') /\ wire' \o lost = rest[k]
              /\ lost \in Seq(Bytes) /\ (peer' # "broken" => lost = <<>>)
          BY <1>2, <3>1, <4>2 DEF At
        <4>4. At(rest, k, lost)'
          BY <4>3, Zenon DEF At
        <4>5. k \in 0..Len(sent')
          BY <1>2
        <4> QED
          BY <4>4, <4>5, Zenon DEF Following
      <3>3. Finished => Finished'
        BY <1>2, <2>2, <3>1 DEF Finished, WithCut, IsLine
      <3>4. Following \/ Finished
        BY <1>1, <1>2, <2>1 DEF StreamInv
      <3> QED
        BY <2>3, <3>2, <3>3, <3>4 DEF StreamInv
    <2>4. CASE reader' = "refused"
      <3>1. frames' = frames
        BY <1>2, <2>4
      <3>2. (\E k \in 0..Len(sent) : SentAs(frames, k, sent)) \/ WithCut(frames)
        BY <1>1, <2>1, StreamInvDelivers
      <3>3. WithCut(frames) => WithCut(frames)'
        BY <1>2, <3>1, Zenon DEF WithCut, IsLine, bytesTrimLine
      <3> QED
        BY <1>2, <2>4, <3>1, <3>2, <3>3 DEF StreamInv
    <2> QED
      BY <1>2, <2>3, <2>4
  <1> QED
    BY <1>5, <1>6, <1>7, <1>8 DEF FramingInv

\* A step that changes nothing changes nothing.
LEMMA FramingRests ==
    ASSUME FramingInv, UNCHANGED framingVars
    PROVE  FramingInv'
  <1>1. UNCHANGED <<framing, peer, wire, reader, payload, frames, sent, cut>>
    BY DEF framingVars
  <1> QED
    BY ZenonT(60), <1>1 DEF FramingInv, FramingTypes, CutInv, FramesFit, StreamInv, Following, Finished, At, Got,
                WithCut, CutOf, AllClear, Clear, IsLine, Mail,
                Encode, Nothing, bytesTrimLine

\* A connection begins with an empty stream.
LEMMA FramingStarts == FramingInit => FramingInv
  <1> SUFFICES ASSUME FramingInit PROVE FramingInv
    OBVIOUS
  <1>1. /\ framing \in Framings /\ peer = "open" /\ wire = <<>> /\ sent = <<>>
        /\ cut = Nothing /\ reader = "read" /\ payload = <<>> /\ frames = <<>>
    BY DEF FramingInit
  <1>2. <<>> \in Seq(Bytes) /\ <<>> \in Seq(Seq(Bytes)) /\ <<>> \in Seq(Mail) /\ Len(<<>>) = 0
    OBVIOUS
  <1>3. FramingTypes
    BY <1>1, <1>2, FramingAssumption DEF FramingTypes, Modes
  <1>4. CutInv
    BY <1>1 DEF CutInv
  <1>5. FramesFit
    BY <1>1, <1>2 DEF FramesFit
  <1>6. StreamInv
    <2>1. PICK rest : rest = [i \in 0..0 |-> <<>>]
      BY Zenon
    <2>2. rest \in [0..0 -> Seq(Bytes)] /\ rest[0] = <<>>
      BY <1>2, <2>1
    <2>3. Laid(rest, <<>>, <<>>)
      <3>1. \A i \in 1..0 : FALSE
        OBVIOUS
      <3> QED
        BY <1>2, <2>2, <3>1 DEF Laid
    <2>4. Got = <<>> /\ cut.bytes = <<>> /\ <<>> \o <<>> = <<>> /\ 0 \in 0..Len(sent)
      BY <1>1, <1>2 DEF Got, Nothing
    <2>5. SentAs(<<>>, 0, <<>>)
      BY SentNone
    <2>6. At(rest, 0, <<>>)
      BY <1>1, <1>2, <2>2, <2>3, <2>4, <2>5 DEF At
    <2>7. Following
      BY <2>4, <2>6, Zenon DEF Following
    <2> QED
      BY <1>1, <2>7 DEF StreamInv
  <1> QED
    BY <1>3, <1>4, <1>5, <1>6 DEF FramingInv

\* Every step of a connection keeps the invariant.
LEMMA FramingKeeps == FramingInv /\ [FramingNext]_framingVars => FramingInv'
  <1> SUFFICES ASSUME FramingInv, [FramingNext]_framingVars PROVE FramingInv'
    OBVIOUS
  <1>1. CASE \E e \in Mail : Sends(e) \/ StopsInside(e)
    BY <1>1, SendsKeeps, StopsKeeps
  <1>2. CASE HangsUp \/ Breaks
    BY <1>2, EndKeepsStream
  <1>3. CASE Reads
    BY <1>3, ReadsKeeps
  <1>4. CASE Returns
    BY <1>4, ReturnsKeeps
  <1>5. CASE Submits
    BY <1>5, SubmitsKeeps
  <1>6. CASE UNCHANGED framingVars
    BY <1>6, FramingRests
  <1> QED
    BY <1>1, <1>2, <1>3, <1>4, <1>5, <1>6
    DEF FramingNext, Peer, Reader, FramingRest

\* Whatever the messages, the framing and the limits, handleTCP gives the pipeline
\* what the peer wrote on a connection: whole, in order, everything after an orderly
\* end, and no frame that is empty or larger than max_message_bytes.
THEOREM StreamArrives == FramingSpec => []StreamIsDelivered
  <1>1. FramingInit => FramingInv
    BY FramingStarts
  <1>2. FramingInv /\ [FramingNext]_framingVars => FramingInv'
    BY FramingKeeps
  <1>3. FramingInv => StreamIsDelivered
    BY FramingInvDelivers
  <1> QED
    BY <1>1, <1>2, <1>3, PTL DEF FramingSpec
=============================================================================
