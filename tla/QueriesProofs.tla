--------------------------- MODULE QueriesProofs ---------------------------
(***************************************************************************)
(* The queries of logs, for any rows, intervals and limits.  A walk        *)
(* through the pages of a search, while rows are ingested: its pages are   *)
(* disjoint and descend, and what it misses has the time at which a page   *)
(* ended.  The statistics: the parts that are counted later account for    *)
(* the total.  The export: what is sent is the right document as far as it *)
(* goes, and a closed array or a success means all of it.                  *)
(***************************************************************************)
EXTENDS Queries, FiniteSetTheorems, WellFoundedInduction, TLAPS

\* Rows 1..n of s are distinct and newest first.
Descends(s, n) == \A i, j \in 1..n : i < j => s[i] # s[j] /\ time[s[i]] >= time[s[j]]

\* What is left of the walk is older than the cursor.
Ahead(r) == walk = "asking" /\ (cursor = None \/ time[r] < cursor)

\* No row of the beginning is behind the cursor without having been received, ties
\* with a cursor excepted.
Covered ==
    walk # "refused" /\ limit # 0 =>
        \A r \in initial :
            InInterval(r) => r \in InSeq(got) \/ time[r] \in cursors \/ Ahead(r)

\* The first request has no cursor and nothing was received before it.
Beginning == walk = "asking" /\ cursor = None => got = <<>>

Inv == TypeOK /\ CursorIsBoundary /\ PagesDescend /\ Covered /\ Beginning

\* A result of the query: its length, its rows and its order.
LEMMA NewestRows ==
  ASSUME TypeOK, NEW k \in Nat, NEW result \in Newest(k)
  PROVE  /\ result \in Seq(Rows) /\ Len(result) \in Nat /\ DOMAIN result = 1..Len(result)
         /\ Len(result) <= k
         /\ \A i \in 1..Len(result) : result[i] \in Matching
         /\ Descends(result, Len(result))
         /\ \A r \in Matching \ InSeq(result), i \in 1..Len(result) : time[r] <= time[result[i]]
         /\ Len(result) < k => InSeq(result) = Matching
  <1>1. Matching \subseteq Rows
    BY DEF Matching, TypeOK
  <1>2. IsFiniteSet(Matching)
    BY <1>1, PagingAssumption, FS_Subset
  <1>3. Cardinality(Matching) \in Nat
    BY <1>2, FS_CardinalityType
  <1> DEFINE n == IF Cardinality(Matching) < k THEN Cardinality(Matching) ELSE k
  <1>4. n \in Nat /\ n <= k /\ (n < k => n = Cardinality(Matching))
    BY <1>3
  <1>5. /\ result \in [1..n -> Matching]
        /\ \A i, j \in 1..n : i < j => result[i] # result[j] /\ time[result[i]] >= time[result[j]]
        /\ \A r \in Matching \ InSeq(result), i \in 1..n : time[r] <= time[result[i]]
    BY DEF Newest
  <1> HIDE DEF n
  <1>6. result \in [1..n -> Rows]
    BY <1>1, <1>5
  <1>7. result \in Seq(Rows) /\ Len(result) = n /\ DOMAIN result = 1..n
    BY <1>4, <1>6
  <1>8. ASSUME n < k PROVE InSeq(result) = Matching
    <2>1. \A i, j \in DOMAIN result : result[i] = result[j] => i = j
      BY <1>4, <1>5, <1>7
    <2>2. result \in Injection(1..n, Matching)
      BY <2>1, <1>5, Zenon DEF Injection, IsInjective
    <2>3. Cardinality(1..n) = n
      BY <1>4, FS_Interval
    <2>4. Cardinality(1..n) = Cardinality(Matching)
      BY <2>3, <1>4, <1>8
    <2>5. result \in Surjection(1..n, Matching)
      BY <2>2, <2>4, <1>2, FS_Injection
    <2>6. \A r \in Matching : \E i \in 1..n : result[i] = r
      BY <2>5, Zenon DEF Surjection
    <2>7. \A i \in 1..n : result[i] \in Matching
      BY <1>5
    <2>8. InSeq(result) = {result[i] : i \in 1..n}
      BY <1>7, Zenon DEF InSeq
    <2> QED
      BY <2>6, <2>7, <2>8
  <1> QED
    BY <1>4, <1>5, <1>7, <1>8 DEF Descends

\* The rows that a page adds: the first limit of the result.
LEMMA PageData ==
  ASSUME NEW result \in Seq(Rows), NEW l \in Nat, NEW d,
         d = IF Len(result) > l THEN SubSeq(result, 1, l) ELSE result
  PROVE  /\ d \in Seq(Rows) /\ Len(d) \in Nat
         /\ Len(d) = IF Len(result) > l THEN l ELSE Len(result)
         /\ \A i \in 1..Len(d) : d[i] = result[i]
  <1>1. CASE Len(result) > l
    <2>1. d = SubSeq(result, 1, l) /\ l \in 0..Len(result)
      BY <1>1
    <2>2. d \in Seq(Rows) /\ Len(d) = l /\ \A i \in 1..l : d[i] = result[i]
      BY <2>1
    <2> QED
      BY <2>2, <1>1
  <1>2. CASE ~(Len(result) > l)
    BY <1>2
  <1> QED
    BY <1>1, <1>2

\* A sequence of rows behind another one.
LEMMA Concatenated ==
  ASSUME NEW s \in Seq(Rows), NEW d \in Seq(Rows)
  PROVE  /\ s \o d \in Seq(Rows) /\ Len(s) \in Nat /\ Len(d) \in Nat
         /\ Len(s \o d) = Len(s) + Len(d)
         /\ \A i \in 1..Len(s) : (s \o d)[i] = s[i]
         /\ \A i \in 1..Len(d) : (s \o d)[Len(s) + i] = d[i]
         /\ InSeq(s \o d) = InSeq(s) \cup InSeq(d)
  <1> DEFINE c == s \o d
  <1>1. c \in Seq(Rows) /\ Len(s) \in Nat /\ Len(d) \in Nat /\ Len(c) = Len(s) + Len(d)
    OBVIOUS
  <1>2. \A i \in 1..Len(s) : c[i] = s[i]
    OBVIOUS
  <1>3. \A i \in 1..Len(d) : c[Len(s) + i] = d[i]
    OBVIOUS
  <1>4. DOMAIN c = 1..Len(s) + Len(d) /\ DOMAIN s = 1..Len(s) /\ DOMAIN d = 1..Len(d)
    BY <1>1
  <1>5. PICK n \in Nat, m \in Nat : n = Len(s) /\ m = Len(d)
    BY <1>1
  <1> HIDE DEF c
  <1>6. ASSUME NEW x \in InSeq(c) PROVE x \in InSeq(s) \cup InSeq(d)
    <2>1. PICK i \in 1..n + m : x = c[i]
      BY <1>4, <1>5, <1>6 DEF InSeq
    <2>2. CASE i <= n
      <3>1. i \in 1..n
        BY <2>2
      <3> QED
        BY <2>1, <3>1, <1>2, <1>4, <1>5 DEF InSeq
    <2>3. CASE ~(i <= n)
      <3>1. i - n \in 1..m /\ n + (i - n) = i
        BY <2>3
      <3>2. c[i] = d[i - n]
        BY Zenon, <3>1, <1>3, <1>5
      <3> QED
        BY <2>1, <3>1, <3>2, <1>4, <1>5 DEF InSeq
    <2> QED
      BY <2>2, <2>3
  <1>7. ASSUME NEW x \in InSeq(s) PROVE x \in InSeq(c)
    <2>1. PICK i \in 1..n : x = s[i]
      BY <1>4, <1>5, <1>7 DEF InSeq
    <2>2. i \in 1..n + m /\ c[i] = x
      BY <2>1, <1>2, <1>5
    <2> QED
      BY <2>2, <1>4, <1>5 DEF InSeq
  <1>8. ASSUME NEW x \in InSeq(d) PROVE x \in InSeq(c)
    <2>1. PICK i \in 1..m : x = d[i]
      BY <1>4, <1>5, <1>8 DEF InSeq
    <2>2. n + i \in 1..n + m
      OBVIOUS
    <2>3. c[n + i] = x
      BY <2>1, <1>3, <1>5
    <2> QED
      BY <2>2, <2>3, <1>4, <1>5 DEF InSeq
  <1> QED
    BY <1>1, <1>2, <1>3, <1>6, <1>7, <1>8 DEF c

\* A page d behind the rows s, where every row of d is older than every row of s.
LEMMA DescendsFurther ==
  ASSUME NEW n \in Nat, NEW m \in Nat, NEW s, NEW d, NEW c,
         \A i \in 1..n : c[i] = s[i],
         \A i \in 1..m : c[n + i] = d[i],
         Descends(s, n), Descends(d, m),
         \A i \in 1..n, j \in 1..m : s[i] # d[j] /\ time[s[i]] >= time[d[j]]
  PROVE  Descends(c, n + m)
  <1> SUFFICES ASSUME NEW i \in 1..n + m, NEW j \in 1..n + m, i < j
               PROVE  c[i] # c[j] /\ time[c[i]] >= time[c[j]]
    BY DEF Descends
  <1>1. CASE j <= n
    <2>1. i \in 1..n /\ j \in 1..n
      BY <1>1
    <2> QED
      BY <2>1 DEF Descends
  <1>2. CASE i <= n /\ j > n
    <2>1. i \in 1..n /\ j - n \in 1..m /\ n + (j - n) = j
      BY <1>2
    <2>2. c[i] = s[i] /\ c[j] = d[j - n]
      BY <2>1
    <2> QED
      BY <2>1, <2>2
  <1>3. CASE i > n
    <2>1. i - n \in 1..m /\ j - n \in 1..m /\ n + (i - n) = i /\ n + (j - n) = j /\ i - n < j - n
      BY <1>3
    <2>2. c[i] = d[i - n] /\ c[j] = d[j - n]
      BY <2>1
    <2> QED
      BY <2>1, <2>2 DEF Descends
  <1> QED
    BY <1>1, <1>2, <1>3

\* A step of Query.
LEMMA QueryInv ==
  ASSUME Inv, Query
  PROVE  Inv'
  <1> USE DEF Inv
  <1>1. PICK result \in Newest(limit + 1) : Page(result)
    BY DEF Query
  <1>2. /\ walk = "asking" /\ limit \in Nat
        /\ UNCHANGED <<time, limit, initial, visible>>
    BY PagingAssumption DEF Query, Validate, query, TypeOK
  <1>3. /\ time \in [Rows -> 0..MaxTime] /\ MaxTime \in Nat /\ got \in Seq(Rows)
        /\ cursor \in Int /\ initial \subseteq visible /\ visible \subseteq Rows
    BY PagingAssumption DEF TypeOK
  <1>4. /\ result \in Seq(Rows) /\ Len(result) \in Nat /\ DOMAIN result = 1..Len(result)
        /\ Len(result) <= limit + 1
        /\ \A i \in 1..Len(result) : result[i] \in Matching
        /\ Descends(result, Len(result))
        /\ \A r \in Matching \ InSeq(result), i \in 1..Len(result) : time[r] <= time[result[i]]
        /\ Len(result) < limit + 1 => InSeq(result) = Matching
    <2>1. limit + 1 \in Nat
      BY <1>2
    <2> QED
      BY <2>1, <1>1, NewestRows
  <1>5. \A r \in Matching : /\ r \in Rows /\ time[r] \in 0..MaxTime
                            /\ cursor = None \/ time[r] < cursor
    BY <1>3 DEF Matching, Matches, BeforeCursor
  <1>6. PICK d : d = IF Len(result) > limit THEN SubSeq(result, 1, limit) ELSE result
    BY Zenon
  <1>7. /\ got' = got \o d
        /\ IF Len(result) > limit /\ d # <<>>
           THEN cursor' = time[d[Len(d)]] /\ cursors' = cursors \cup {cursor'} /\ walk' = walk
           ELSE walk' = "done" /\ cursor' = cursor /\ cursors' = cursors
    BY <1>1, <1>6, Zenon DEF Page
  <1>8. PICK m \in Nat : /\ m = Len(d) /\ d \in Seq(Rows) /\ DOMAIN d = 1..m
                         /\ m = IF Len(result) > limit THEN limit ELSE Len(result)
                         /\ \A i \in 1..m : d[i] = result[i]
    <2>1. /\ d \in Seq(Rows) /\ Len(d) \in Nat
          /\ Len(d) = IF Len(result) > limit THEN limit ELSE Len(result)
          /\ \A i \in 1..Len(d) : d[i] = result[i]
      <3>1. limit \in Nat /\ result \in Seq(Rows)
        BY <1>2, <1>4
      <3> QED
        BY <3>1, <1>6, PageData, Zenon
    <2>2. DOMAIN d = 1..Len(d)
      BY <2>1
    <2> QED
      BY <2>1, <2>2, Zenon
  <1>9. PICK n \in Nat : n = Len(got) /\ DOMAIN got = 1..n
    BY <1>3
  <1>10. /\ got' \in Seq(Rows) /\ Len(got') = n + m
         /\ \A i \in 1..n : got'[i] = got[i]
         /\ \A i \in 1..m : got'[n + i] = d[i]
         /\ InSeq(got') = InSeq(got) \cup InSeq(d)
    <2>1. got \in Seq(Rows) /\ d \in Seq(Rows) /\ got' = got \o d
      BY <1>3, <1>7, <1>8
    <2>2. /\ got \o d \in Seq(Rows)
          /\ Len(got \o d) = Len(got) + Len(d)
          /\ \A i \in 1..Len(got) : (got \o d)[i] = got[i]
          /\ \A i \in 1..Len(d) : (got \o d)[Len(got) + i] = d[i]
          /\ InSeq(got \o d) = InSeq(got) \cup InSeq(d)
      BY <2>1, Concatenated, Zenon
    <2>3. n = Len(got) /\ m = Len(d)
      BY <1>8, <1>9
    <2> QED
      BY <2>1, <2>2, <2>3, Zenon
  <1>11. DOMAIN got' = 1..n + m
    BY <1>10, <1>8, <1>9
  <1>12. \A i \in 1..m : i \in 1..Len(result) /\ d[i] \in Matching
    <2>1. m <= Len(result) /\ Len(result) \in Nat
      <3>1. limit \in Nat /\ Len(result) \in Nat
        BY <1>2, <1>4
      <3>2. m = IF Len(result) > limit THEN limit ELSE Len(result)
        BY <1>8
      <3> QED
        BY <3>1, <3>2
    <2>2. \A i \in 1..m : i \in 1..Len(result)
      BY <2>1
    <2>3. \A i \in 1..m : d[i] = result[i]
      BY <1>8
    <2>4. \A i \in 1..Len(result) : result[i] \in Matching
      BY <1>4
    <2> QED
      BY <2>2, <2>3, <2>4, Zenon
  <1>13. Descends(d, m)
    BY Zenon, <1>4, <1>8, <1>12 DEF Descends
  <1>14. ASSUME NEW i \in 1..n, NEW j \in 1..m
         PROVE  got[i] # d[j] /\ time[got[i]] >= time[d[j]]
    <2>1. got # <<>>
      BY <1>9
    <2>2. cursor # None
      BY <2>1, <1>2 DEF Beginning
    <2>3. time[got[i]] >= cursor
      BY <2>2, <1>2, <1>9 DEF CursorIsBoundary
    <2>4. time[d[j]] < cursor /\ time[d[j]] \in 0..MaxTime
      BY <2>2, <1>5, <1>12
    <2>5. got[i] \in Rows /\ time[got[i]] \in 0..MaxTime
      BY <1>3, <1>9
    <2> QED
      BY <2>3, <2>4, <2>5, <1>3
  <1>15. Descends(got, n)
    BY <1>9 DEF PagesDescend, Descends
  <1>16. Descends(got', n + m)
    BY Zenon, <1>10, <1>13, <1>14, <1>15, DescendsFurther
  <1>17. PagesDescend'
    BY Zenon, <1>2, <1>11, <1>16 DEF PagesDescend, Descends
  <1>18. CASE Len(result) > limit /\ d # <<>>
    <2>1. cursor' = time[d[m]] /\ cursors' = cursors \cup {cursor'} /\ walk' = "asking"
      BY <1>2, <1>7, <1>8, <1>18
    <2>2. m = limit /\ m \in 1..m /\ Len(result) = m + 1
      <3>1. m = limit /\ Len(result) > limit /\ Len(result) \in Nat /\ Len(result) <= limit + 1
        BY <1>4, <1>8, <1>18
      <3>2. m # 0
        BY <1>8, <1>18
      <3> QED
        BY <3>1, <3>2, <1>2
    <2>3. d[m] \in Matching /\ d[m] = result[m] /\ cursor' \in 0..MaxTime /\ got'[n + m] = d[m]
      BY <2>1, <2>2, <1>5, <1>8, <1>10, <1>12
    <2>4. TypeOK'
      <3>1. cursor' \in Int /\ cursors' \subseteq Int
        <4>1. cursor' \in Int
          BY <2>3, <1>3
        <4>2. cursors \subseteq Int /\ cursors' = cursors \cup {cursor'}
          BY <2>1 DEF TypeOK
        <4> QED
          BY <4>1, <4>2, Zenon
      <3>2. walk' \in {"asking", "done", "refused"} /\ got' \in Seq(Rows)
        BY <2>1, <1>10
      <3> QED
        BY <3>1, <3>2, <1>2 DEF TypeOK
    <2>5. cursor' # None
      BY <2>3, <1>3 DEF None
    <2>6. CursorIsBoundary'
      <3>1. got' # <<>> /\ Len(got') = n + m
        BY <1>10, <2>2
      <3>2. ASSUME NEW i \in 1..n + m PROVE time[got'[i]] >= cursor'
        <4>1. CASE i = n + m
          BY <4>1, <2>1, <2>3, <1>3
        <4>2. CASE i # n + m
          <5>1. n + m \in 1..n + m /\ i < n + m
            BY <4>2, <2>2
          <5> QED
            BY <5>1, <1>16, <2>1, <2>3 DEF Descends
        <4> QED
          BY <4>1, <4>2
      <3> QED
        BY <3>1, <3>2, <2>1, <2>3, <1>2, <1>11 DEF CursorIsBoundary
    <2>7. ASSUME NEW r \in Matching, r \notin InSeq(d) PROVE time[r] <= cursor'
      <3>1. CASE r \notin InSeq(result)
        <4>1. m \in 1..Len(result)
          BY <2>2
        <4> QED
          BY <3>1, <4>1, <2>1, <2>3, <1>4
      <3>2. CASE r \in InSeq(result)
        <4>1. PICK i \in 1..m + 1 : r = result[i]
          BY <3>2, <2>2, <1>4 DEF InSeq
        <4>2. i \notin 1..m
          BY <4>1, <2>7, <1>8 DEF InSeq
        <4>3. m \in 1..Len(result) /\ i \in 1..Len(result) /\ m < i
          BY <4>1, <4>2, <2>2
        <4> QED
          BY Zenon, <4>1, <4>3, <2>1, <2>3, <1>4, <1>5 DEF Descends
      <3> QED
        BY <3>1, <3>2
    <2>8. Covered'
      <3> SUFFICES ASSUME limit # 0, NEW r \in initial, InInterval(r)
                   PROVE  r \in InSeq(got') \/ time[r] \in cursors' \/ time[r] < cursor'
        BY <1>2, <2>1 DEF Covered, InInterval, Ahead
      <3>1. r \in InSeq(got) \/ time[r] \in cursors \/ cursor = None \/ time[r] < cursor
        BY <1>2 DEF Covered, Ahead
      <3>2. CASE r \in InSeq(got) \/ time[r] \in cursors
        BY <3>2, <2>1, <1>10
      <3>3. CASE cursor = None \/ time[r] < cursor
        <4>1. r \in Matching
          BY <3>3, <1>3 DEF Matching, Matches, BeforeCursor
        <4>2. CASE r \in InSeq(d)
          BY <4>2, <1>10
        <4>3. CASE r \notin InSeq(d)
          BY <4>1, <4>3, <2>1, <2>3, <2>7, <1>5
        <4> QED
          BY <4>2, <4>3
      <3> QED
        BY <3>1, <3>2, <3>3
    <2> QED
      BY <1>17, <2>4, <2>5, <2>6, <2>8 DEF Beginning
  <1>19. CASE ~(Len(result) > limit /\ d # <<>>)
    <2>1. walk' = "done" /\ cursor' = cursor /\ cursors' = cursors
      BY <1>7, <1>19
    <2>2. TypeOK'
      BY <2>1, <1>2, <1>10 DEF TypeOK
    <2>3. Covered'
      <3> SUFFICES ASSUME limit # 0, NEW r \in initial, InInterval(r)
                   PROVE  r \in InSeq(got') \/ time[r] \in cursors'
        BY <1>2, <2>1 DEF Covered, InInterval
      <3>1. r \in InSeq(got) \/ time[r] \in cursors \/ cursor = None \/ time[r] < cursor
        BY <1>2 DEF Covered, Ahead
      <3>2. CASE r \in InSeq(got) \/ time[r] \in cursors
        BY <3>2, <2>1, <1>10
      <3>3. CASE cursor = None \/ time[r] < cursor
        <4>1. r \in Matching
          BY <3>3, <1>3 DEF Matching, Matches, BeforeCursor
        <4>2. ~(Len(result) > limit)
          <5> SUFFICES ASSUME Len(result) > limit PROVE FALSE
            OBVIOUS
          <5>1. m = limit /\ m > 0
            BY <1>2, <1>8
          <5> QED
            BY <5>1, <1>8, <1>19
        <4>3. d = result /\ InSeq(result) = Matching
          BY <4>2, <1>2, <1>4, <1>6
        <4> QED
          BY <4>1, <4>3, <1>10
      <3> QED
        BY <3>1, <3>2, <3>3
    <2> QED
      BY <1>17, <2>1, <2>2, <2>3 DEF CursorIsBoundary, Beginning
  <1> QED
    BY <1>18, <1>19

\* The first state, and the steps that add no page.
LEMMA InitInv == Init => Inv
  BY PagingAssumption DEF Init, Inv, TypeOK, CursorIsBoundary, PagesDescend, Covered,
     Ahead, Beginning, None

\* Ingestion changes only what is visible; a failure ends the walk.
LEMMA OtherInv ==
  ASSUME Inv, [Next]_vars, ~Query
  PROVE  Inv'
  <1>1. UNCHANGED <<time, limit, initial, cursor, got, cursors>>
    BY DEF Next, vars, query, Ingest, QueryFails, Rest
  <1>2. walk' = walk \/ walk' = "refused"
    BY DEF Next, vars, Ingest, QueryFails, Rest
  <1>3. visible' = visible \/ \E r \in Rows : visible' = visible \cup {r}
    BY DEF Next, vars, Ingest, QueryFails, Rest
  <1>4. TypeOK'
    BY <1>1, <1>2, <1>3 DEF Inv, TypeOK
  <1>5. CursorIsBoundary' /\ Beginning'
    BY <1>1, <1>2 DEF Inv, CursorIsBoundary, Beginning
  <1>6. PagesDescend'
    BY <1>1 DEF Inv, PagesDescend
  <1>7. Covered'
    BY <1>1, <1>2 DEF Inv, Covered, Ahead, InInterval, InSeq
  <1> QED
    BY <1>4, <1>5, <1>6, <1>7 DEF Inv

\* Every behaviour keeps the inductive invariant.
LEMMA InvHolds == Spec => []Inv
  <1>1. Inv /\ [Next]_vars => Inv'
    <2> SUFFICES ASSUME Inv, [Next]_vars PROVE Inv'
      OBVIOUS
    <2> QED
      BY QueryInv, OtherInv
  <1> QED
    BY <1>1, InitInv, PTL DEF Spec

\* The pages of a walk with the cursors of Client.Query are disjoint and newest first.
THEOREM PagesAreDisjoint == Spec => []PagesDescend
  <1>1. Inv => PagesDescend
    BY DEF Inv
  <1> QED
    BY <1>1, InvHolds, PTL

\* next_cursor is the time of the last row of the page, and older than no row received.
THEOREM CursorBounds == Spec => []CursorIsBoundary
  <1>1. Inv => CursorIsBoundary
    BY DEF Inv
  <1> QED
    BY <1>1, InvHolds, PTL

\* A walk to the end misses only rows with the time of a cursor: `_time:<cursor' and
\* the row beyond the limit, which Query asks for and drops, lose nothing else.
THEOREM WalkMissesOnlyTies == Spec => []OnlyTiesAreSkipped
  <1>1. Inv => OnlyTiesAreSkipped
    BY DEF Inv, Covered, Ahead, OnlyTiesAreSkipped
  <1> QED
    BY <1>1, InvHolds, PTL

\* The pages that the cursors of Client.Query lead to are disjoint, descend and miss
\* only ties.
THEOREM WalkIsExact == Spec => []PagesAreExact
  <1>1. PagesDescend /\ OnlyTiesAreSkipped => PagesAreExact
    BY DEF PagesAreExact
  <1> QED
    BY <1>1, PagesAreDisjoint, WalkMissesOnlyTies, PTL
-----------------------------------------------------------------------------
(* Statistics *)

\* The statistics count with the same operator as the pages.
LEMMA SameCardinality == \A S : Stats!Cardinality(S) = Cardinality(S)
  BY DEF Stats!Cardinality, Cardinality

\* A set of numbers that is not empty has a least one.
LEMMA LeastNumber ==
    ASSUME NEW T \in SUBSET Nat, T # {}
    PROVE  \E b \in T : \A c \in T : b <= c
  <1>1. IsWellFoundedOn(OpToRel(<, Nat), Nat)
    BY Zenon, NatLessThanWellFounded
  <1>2. PICK b \in T : \A c \in T : ~(<<c, b>> \in OpToRel(<, Nat))
    BY Zenon, <1>1, WFMin
  <1>3. \A c \in T : ~(c < b)
    BY Zenon, <1>2 DEF OpToRel
  <1> QED
    BY <1>3

\* The image of a finite set under a function is finite.
LEMMA ImageIsFinite ==
    ASSUME NEW S, IsFiniteSet(S), NEW f, DOMAIN f = S
    PROVE  IsFiniteSet({f[x] : x \in S})
  <1> DEFINE g == [x \in S |-> f[x]]
             T == {f[x] : x \in S}
  <1>1. g \in Surjection(S, T)
    BY DEF Surjection
  <1> QED
    BY <1>1, FS_Surjection

\* `limit 500' behind `sort by (_time) asc' drops a bucket only if the answer is full.
LEMMA SmallestOfFew ==
    ASSUME NEW S \in SUBSET Nat, IsFiniteSet(S), NEW k \in Nat,
           Cardinality(Stats!Smallest(S, k)) < k
    PROVE  Stats!Smallest(S, k) = S
  <1> DEFINE W == Stats!Smallest(S, k)
             T == S \ W
  <1>1. W \in SUBSET S /\ W = {b \in S : Cardinality({c \in S : c < b}) < k}
    BY SameCardinality DEF Stats!Smallest
  <1> SUFFICES ASSUME T # {} PROVE FALSE
    BY <1>1
  <1>2. Cardinality(W) < k
    OBVIOUS
  <1> HIDE DEF W
  <1>3. PICK b \in T : \A c \in T : b <= c
    BY Zenon, LeastNumber
  <1> DEFINE B == {c \in S : c < b}
  <1>4. B \in SUBSET W
    <2> SUFFICES ASSUME NEW c \in S, c < b PROVE c \in W
      BY Zenon
    <2>1. b \in Nat /\ c \in Nat /\ ~(b <= c)
      OBVIOUS
    <2> QED
      BY <1>3, <2>1
  <1>5. IsFiniteSet(W) /\ Cardinality(W) \in Nat
    BY Zenon, <1>1, FS_Subset, FS_CardinalityType
  <1>6. Cardinality(B) <= Cardinality(W) /\ Cardinality(B) \in Nat
    BY <1>4, <1>5, FS_Subset, FS_CardinalityType
  <1>7. Cardinality(B) < k
    BY <1>5, <1>6, <1>2
  <1> QED
    BY <1>1, <1>3, <1>7

\* A sum of counts over finitely many keys is a number.
LEMMA MarksAreFinite ==
    ASSUME NEW f, IsFiniteSet(DOMAIN f), \A k \in DOMAIN f : f[k] \in Nat
    PROVE  IsFiniteSet(UNION {{k} \X (1..f[k]) : k \in DOMAIN f}) /\ Stats!Sum(f) \in Nat
  <1> DEFINE m == [k \in DOMAIN f |-> {k} \X (1..f[k])]
             M == {m[k] : k \in DOMAIN f}
  <1>1. IsFiniteSet(M)
    <2>1. DOMAIN m = DOMAIN f
      OBVIOUS
    <2> HIDE DEF m
    <2> QED
      BY <2>1, ImageIsFinite
  <1>2. \A k \in DOMAIN f : IsFiniteSet({k} \X (1..f[k]))
    <2> TAKE k \in DOMAIN f
    <2>1. IsFiniteSet({k})
      BY Zenon, FS_Singleton
    <2>2. IsFiniteSet(1..f[k])
      BY FS_Interval
    <2> QED
      BY Zenon, <2>1, <2>2, FS_Product
  <1>3. IsFiniteSet(UNION M)
    BY Zenon, <1>1, <1>2, FS_UNION
  <1>4. M = {{k} \X (1..f[k]) : k \in DOMAIN f}
    OBVIOUS
  <1> QED
    BY Zenon, <1>3, <1>4, SameCardinality, FS_CardinalityType DEF Stats!Sum

\* Rows that are counted by key, each under a key of the answer, are no more than
\* the sum of the counts.
LEMMA CountsCover ==
    ASSUME NEW R, IsFiniteSet(R), NEW f, IsFiniteSet(DOMAIN f),
           NEW key \in [R -> DOMAIN f],
           \A k \in DOMAIN f : f[k] = Cardinality({r \in R : key[r] = k})
    PROVE  Cardinality(R) <= Stats!Sum(f)
  <1> DEFINE At(k) == {r \in R : key[r] = k}
             Marks == UNION {{k} \X (1..f[k]) : k \in DOMAIN f}
  <1>1. \A k \in DOMAIN f : IsFiniteSet(At(k)) /\ f[k] = Cardinality(At(k)) /\ f[k] \in Nat
    BY FS_Subset, FS_CardinalityType
  <1>2. \A k \in DOMAIN f : \E h : h \in Injection(At(k), 1..f[k])
    <2> TAKE k \in DOMAIN f
    <2>1. IsFiniteSet(1..f[k]) /\ Cardinality(1..f[k]) = f[k]
      <3>0. f[k] \in Nat
        BY Zenon, <1>1
      <3>1. f[k] \in Nat /\ f[k] \in Int /\ 1 \in Int
        BY <3>0
      <3>2. IsFiniteSet(1..f[k]) /\ Cardinality(1..f[k]) = IF 1 > f[k] THEN 0 ELSE f[k] - 1 + 1
        BY Zenon, <3>1, FS_Interval
      <3> QED
        BY <3>1, <3>2
    <2>2. ExistsBijection(At(k), 1..f[k])
      BY <1>1, <2>1, FS_SameCardinalityBij
    <2> QED
      BY <2>2 DEF ExistsBijection, Bijection
  <1> DEFINE number == [k \in DOMAIN f |-> CHOOSE h : h \in Injection(At(k), 1..f[k])]
             mark == [r \in R |-> <<key[r], number[key[r]][r]>>]
  <1>3. \A k \in DOMAIN f : number[k] \in Injection(At(k), 1..f[k])
    BY <1>2
  <1>4. \A r \in R : key[r] \in DOMAIN f /\ r \in At(key[r])
    OBVIOUS
  <1> HIDE DEF At, number
  <1>5. \A r \in R : number[key[r]][r] \in 1..f[key[r]]
    BY <1>3, <1>4 DEF Injection
  <1>6. mark \in [R -> Marks]
    BY SMTT(30), <1>4, <1>5
  <1>7. ASSUME NEW r \in R, NEW s \in R, mark[r] = mark[s] PROVE r = s
    <2>1. key[r] = key[s] /\ number[key[r]][r] = number[key[s]][s]
      BY <1>7
    <2>2. r \in At(key[r]) /\ s \in At(key[r]) /\ number[key[r]] \in Injection(At(key[r]), 1..f[key[r]])
      BY <1>3, <1>4, <2>1
    <2> QED
      BY <2>1, <2>2 DEF Injection, IsInjective
  <1>8. mark \in Injection(R, Marks)
    BY <1>6, <1>7, Zenon DEF Injection, IsInjective
  <1>9. IsFiniteSet(Marks)
    BY <1>1, MarksAreFinite
  <1> QED
    BY <1>8, <1>9, SameCardinality, FS_Injection DEF Stats!Sum

\* The rows of the backend, finitely many.
StatsTypes ==
    /\ span \in Nat
    /\ IsFiniteSet(rows) /\ \A r \in rows : r[1] \in Nat
    /\ total \in Nat

\* The total is not above what a later part will count, and FieldValues has none.
StatsInv ==
    /\ StatsTypes
    /\ stats \in {"volume", "groups", "values"} =>
         total <= Stats!CountIn(Stats!Interval, Values)
    /\ stats = "values" => total = 0 /\ volume = <<>>
    /\ stats = "done" => Stats!Sum(groups) \in Nat
    /\ Stats!StatsAgree

\* Rows that match are finitely many, and a count is a number.
LEMMA MatchesAreFinite ==
    ASSUME StatsTypes, NEW minutes, NEW values
    PROVE  /\ IsFiniteSet({r \in rows : r[1] \in minutes /\ r[2] \in values})
           /\ Stats!CountIn(minutes, values) =
                Cardinality({r \in rows : r[1] \in minutes /\ r[2] \in values})
           /\ Stats!CountIn(minutes, values) \in Nat
  <1> DEFINE M == {r \in rows : r[1] \in minutes /\ r[2] \in values}
  <1>1. IsFiniteSet(M) /\ Cardinality(M) \in Nat
    BY FS_Subset, FS_CardinalityType DEF StatsTypes
  <1> QED
    BY <1>1, SameCardinality DEF Stats!CountIn

\* statsStep is at least a minute, and a bucket is a number.
LEMMA BucketsAreNumbers ==
    ASSUME StatsTypes, NEW m \in Nat
    PROVE  Stats!Bucket(m) \in Nat
  <1>1. Stats!Step \in {360, 60, 5, 1}
    BY DEF StatsTypes, Stats!Step, Stats!Hour, Stats!Day
  <1> QED
    BY <1>1 DEF Stats!Bucket

\* The chart accounts for the rows of the interval unless the limit is reached.
LEMMA VolumeCovers ==
    ASSUME StatsTypes, NEW f,
           f = [b \in Stats!Smallest(Stats!FullBuckets, VolumeLimit) |->
                   Stats!CountIn(Stats!BucketMinutes(b), Values)],
           Stats!Cardinality(DOMAIN f) < VolumeLimit
    PROVE  Stats!CountIn(Stats!Interval, Values) <= Stats!Sum(f) /\ Stats!Sum(f) \in Nat
  <1> DEFINE Rs == {r \in rows : r[1] \in Stats!Interval}
             R == {r \in rows : r[1] \in Stats!Interval /\ r[2] \in Values}
             bucket == [r \in Rs |-> Stats!Bucket(r[1])]
             F == {bucket[r] : r \in Rs}
  <1>1. IsFiniteSet(Rs) /\ IsFiniteSet(R) /\ R \subseteq Rs
    BY FS_Subset DEF StatsTypes
  <1>2. Stats!FullBuckets = F
    BY Zenon DEF Stats!FullBuckets
  <1>3. IsFiniteSet(F)
    <2>1. DOMAIN bucket = Rs
      OBVIOUS
    <2> HIDE DEF bucket, Rs
    <2> QED
      BY <1>1, <2>1, ImageIsFinite
  <1>4. F \in SUBSET Nat
    BY Zenon, BucketsAreNumbers DEF StatsTypes
  <1>5. DOMAIN f = F
    <2>1. DOMAIN f = Stats!Smallest(F, VolumeLimit)
      BY <1>2
    <2>2. Cardinality(Stats!Smallest(F, VolumeLimit)) < VolumeLimit
      BY <2>1, SameCardinality
    <2> HIDE DEF F
    <2> QED
      BY <1>3, <1>4, <2>1, <2>2, SmallestOfFew, StatsAssumption
  <1> DEFINE key == [r \in R |-> bucket[r]]
  <1>6. key \in [R -> DOMAIN f]
    BY <1>1, <1>5
  <1>7. ASSUME NEW b \in DOMAIN f PROVE f[b] = Cardinality({r \in R : key[r] = b})
    <2>1. {r \in rows : r[1] \in Stats!BucketMinutes(b) /\ r[2] \in Values} = {r \in R : key[r] = b}
      BY DEF Stats!BucketMinutes
    <2>2. f[b] = Stats!CountIn(Stats!BucketMinutes(b), Values)
      OBVIOUS
    <2>3. f[b] = Cardinality({r \in rows : r[1] \in Stats!BucketMinutes(b) /\ r[2] \in Values})
      BY <2>2, MatchesAreFinite
    <2> QED
      BY <2>1, <2>3, Zenon
  <1>8. Stats!CountIn(Stats!Interval, Values) = Cardinality(R)
    BY MatchesAreFinite
  <1>9. IsFiniteSet(DOMAIN f)
    BY Zenon, <1>3, <1>5
  <1>10. Stats!Sum(f) \in Nat
    BY Zenon, <1>9, MatchesAreFinite, MarksAreFinite
  <1> HIDE DEF R, key
  <1> QED
    BY ZenonT(60), <1>1, <1>6, <1>7, <1>8, <1>9, <1>10, CountsCover

\* With room for every value and the empty one, the groups and the rows without a
\* value account for the rows of the interval.
LEMMA GroupsCover ==
    ASSUME StatsTypes, NEW S \in Stats!TopValues, NEW f,
           f = [v \in S \ {Stats!NoValue} |-> Stats!CountIn(Stats!Interval, {v})]
    PROVE  /\ Stats!Sum(f) \in Nat
           /\ Stats!Cardinality(DOMAIN f) + 1 < GroupLimit =>
                Stats!CountIn(Stats!Interval, Values) <=
                    Stats!Sum(f) + Stats!CountIn(Stats!Interval, {Stats!NoValue})
  <1> DEFINE P == {v \in Values : Stats!Present(v)}
             R == {r \in rows : r[1] \in Stats!Interval /\ r[2] \in Values}
             E == {r \in rows : r[1] \in Stats!Interval /\ r[2] \in {Stats!NoValue}}
             G == {r \in R : r[2] # Stats!NoValue}
             value == [r \in rows |-> r[2]]
             V == {value[r] : r \in rows}
  <1>1. S \subseteq P /\ Cardinality(S) = Stats!Lesser(GroupLimit, Cardinality(P))
    BY Zenon, SameCardinality DEF Stats!TopValues
  <1>2. IsFiniteSet(V)
    <2>1. DOMAIN value = rows
      OBVIOUS
    <2> HIDE DEF value
    <2> QED
      BY <2>1, ImageIsFinite DEF StatsTypes
  <1>3. \A v \in Values : Stats!Present(v) =>
            \E r \in rows : r[1] \in Stats!Interval /\ r[2] = v
    <2> SUFFICES ASSUME NEW v \in Values, Stats!Present(v),
                        ~\E r \in rows : r[1] \in Stats!Interval /\ r[2] = v
                 PROVE  FALSE
      OBVIOUS
    <2>1. {r \in rows : r[1] \in Stats!Interval /\ r[2] \in {v}} = {}
      BY Zenon
    <2>2. Stats!CountIn(Stats!Interval, {v}) = Cardinality({})
      BY SMTT(30), <2>1, MatchesAreFinite
    <2>3. Stats!CountIn(Stats!Interval, {v}) = 0
      BY <2>2, FS_EmptySet
    <2> QED
      BY <2>3 DEF Stats!Present
  <1>4. IsFiniteSet(P) /\ Cardinality(P) \in Nat /\ IsFiniteSet(S) /\ Cardinality(S) \in Nat
    <2>1. P \subseteq V
      BY <1>3
    <2> HIDE DEF P, V
    <2> QED
      BY Zenon, <1>1, <1>2, <2>1, FS_Subset, FS_CardinalityType
  <1>5. DOMAIN f = S \ {Stats!NoValue} /\ IsFiniteSet(DOMAIN f)
    BY <1>4, FS_Subset
  <1>6. \A v \in DOMAIN f : f[v] \in Nat
    BY Zenon, MatchesAreFinite
  <1>7. Stats!Sum(f) \in Nat
    BY Zenon, <1>5, <1>6, MarksAreFinite
  <1>8. ASSUME Stats!Cardinality(DOMAIN f) + 1 < GroupLimit
        PROVE  Stats!CountIn(Stats!Interval, Values) <=
                   Stats!Sum(f) + Stats!CountIn(Stats!Interval, {Stats!NoValue})
    <2>1. Cardinality(S) <= Cardinality(S \ {Stats!NoValue}) + 1 /\ Cardinality(S \ {Stats!NoValue}) \in Nat
      BY <1>4, FS_RemoveElement, FS_Subset, FS_CardinalityType
    <2>2. Cardinality(S) < GroupLimit
      BY <1>4, <1>5, <1>8, <2>1, SameCardinality, StatsAssumption
    <2>3. Cardinality(S) = Cardinality(P)
      <3> HIDE DEF P
      <3>1. Stats!Lesser(GroupLimit, Cardinality(P)) =
                IF GroupLimit <= Cardinality(P) THEN GroupLimit ELSE Cardinality(P)
        BY <1>4, StatsAssumption DEF Stats!Lesser
      <3> QED
        BY <1>1, <1>4, <2>2, <3>1, StatsAssumption
    <2>4. S = P
      <3> HIDE DEF P
      <3> QED
        BY Zenon, <1>1, <1>4, <2>3, FS_Subset
    <2>5. IsFiniteSet(R) /\ IsFiniteSet(E) /\ IsFiniteSet(G)
      BY FS_Subset DEF StatsTypes
    <2> DEFINE key == [r \in G |-> r[2]]
    <2>6. key \in [G -> DOMAIN f]
      <3> SUFFICES ASSUME NEW r \in G PROVE r[2] \in P
        BY Zenon, <1>5, <2>4
      <3> DEFINE M == {q \in rows : q[1] \in Stats!Interval /\ q[2] \in {r[2]}}
      <3>1. IsFiniteSet(M) /\ Stats!CountIn(Stats!Interval, {r[2]}) = Cardinality(M)
        BY SMTT(30), MatchesAreFinite
      <3>2. r \in M
        OBVIOUS
      <3>3. Cardinality(M) # 0 /\ Cardinality(M) \in Nat
        <4> HIDE DEF M
        <4> QED
          BY ZenonT(60), <3>1, <3>2, FS_EmptySet, FS_CardinalityType
      <3>4. Stats!Present(r[2])
        BY <3>1, <3>3 DEF Stats!Present
      <3> QED
        BY Zenon, <3>4
    <2>7. ASSUME NEW v \in DOMAIN f PROVE f[v] = Cardinality({r \in G : key[r] = v})
      <3>1. {r \in rows : r[1] \in Stats!Interval /\ r[2] \in {v}} = {r \in G : key[r] = v}
        BY <1>1, <1>5
      <3>2. f[v] = Stats!CountIn(Stats!Interval, {v})
        OBVIOUS
      <3>3. f[v] = Cardinality({r \in rows : r[1] \in Stats!Interval /\ r[2] \in {v}})
        BY Zenon, <3>2, MatchesAreFinite
      <3> QED
        BY <3>1, <3>3, ZenonT(60)
    <2>8. Cardinality(G) <= Stats!Sum(f) /\ Cardinality(G) \in Nat
      <3> HIDE DEF G, key
      <3> QED
        BY Zenon, <1>5, <2>5, <2>6, <2>7, CountsCover, FS_CardinalityType
    <2>9. R \subseteq E \cup G
      BY Zenon
    <2>10. Cardinality(R) <= Cardinality(E) + Cardinality(G) /\ Cardinality(R) \in Nat /\ Cardinality(E) \in Nat
      <3> HIDE DEF R, E, G
      <3>1. IsFiniteSet(E \cup G) /\ Cardinality(R) <= Cardinality(E \cup G)
        BY Zenon, <2>5, <2>9, FS_Union, FS_Subset
      <3>2. Cardinality(E \cup G) = Cardinality(E) + Cardinality(G) - Cardinality(E \cap G)
        BY <2>5, FS_Union
      <3>3. IsFiniteSet(E \cap G)
        BY Zenon, <2>5, FS_Intersection
      <3>4. /\ Cardinality(R) \in Nat /\ Cardinality(E) \in Nat /\ Cardinality(G) \in Nat
            /\ Cardinality(E \cup G) \in Nat /\ Cardinality(E \cap G) \in Nat
        BY <2>5, <3>1, <3>3, FS_CardinalityType
      <3> QED
        BY <3>1, <3>2, <3>4
    <2>11. /\ Stats!CountIn(Stats!Interval, Values) = Cardinality(R)
           /\ Stats!CountIn(Stats!Interval, {Stats!NoValue}) = Cardinality(E)
      BY ZenonT(60), MatchesAreFinite
    <2> HIDE DEF R, E, G
    <2> QED
      BY <1>7, <2>8, <2>10, <2>11
  <1> QED
    BY <1>7, <1>8

\* The request begins with nothing counted.
LEMMA StatsStarts == Stats!Init => StatsInv
  <1> SUFFICES ASSUME Stats!Init PROVE StatsInv
    OBVIOUS
  <1>1. StatsTypes /\ total = 0 /\ volume = <<>> /\ stats \in {"total", "values"}
    BY StatsAssumption DEF Stats!Init, StatsTypes
  <1>2. total <= Stats!CountIn(Stats!Interval, Values)
    <2>1. Stats!CountIn(Stats!Interval, Values) \in Nat
      BY Zenon, <1>1, MatchesAreFinite
    <2> QED
      BY <1>1, <2>1
  <1> QED
    BY <1>1, <1>2 DEF StatsInv, Stats!StatsAgree, Stats!ChartCoversTotal, Stats!GroupsCoverTotal

\* Rows that arrive only raise the counts.
LEMMA IngestRaises ==
    ASSUME StatsTypes, NEW m \in Times, NEW v \in Values, Stats!Ingest(m, v), NEW values
    PROVE  /\ StatsTypes'
           /\ Stats!CountIn(Stats!Interval, values) <= Stats!CountIn(Stats!Interval, values)'
           /\ Stats!CountIn(Stats!Interval, values)' \in Nat
  <1> DEFINE n == Stats!Cardinality({r \in rows : r[1] = m /\ r[2] = v})
             A == {r \in rows : r[1] \in Stats!Interval /\ r[2] \in values}
             B == {r \in rows' : r[1] \in Stats!Interval /\ r[2] \in values}
  <1>1. rows' = rows \cup {<<m, v, n>>} /\ span' = span /\ total' = total
    BY DEF Stats!Ingest
  <1> HIDE DEF n
  <1>2. IsFiniteSet(rows')
    BY Zenon, <1>1, FS_AddElement DEF StatsTypes
  <1>3. StatsTypes'
    BY <1>1, <1>2, StatsAssumption DEF StatsTypes
  <1>4. A \subseteq B /\ IsFiniteSet(B)
    BY <1>1, <1>2, FS_Subset
  <1>5. Cardinality(A) <= Cardinality(B) /\ Cardinality(B) \in Nat
    <2> HIDE DEF A, B
    <2> QED
      BY <1>4, FS_Subset, FS_CardinalityType
  <1>6. Stats!CountIn(Stats!Interval, values) = Cardinality(A)
    BY SameCardinality DEF Stats!CountIn
  <1>7. Stats!CountIn(Stats!Interval, values)' = Cardinality(B)
    BY <1>1, SameCardinality DEF Stats!CountIn, Stats!Interval
  <1> QED
    BY <1>3, <1>5, <1>6, <1>7

\* A part that is queried later accounts for the total, whatever arrives in between.
LEMMA StatsKeeps == StatsInv /\ [Stats!Next]_statsVars => StatsInv'
  <1> SUFFICES ASSUME StatsInv, [Stats!Next]_statsVars PROVE StatsInv'
    OBVIOUS
  <1> DEFINE All == Stats!CountIn(Stats!Interval, Values)
             Empty == Stats!CountIn(Stats!Interval, {Stats!NoValue})
  <1>1. StatsTypes /\ Stats!ChartCoversTotal /\ Stats!GroupsCoverTotal
    BY DEF StatsInv, Stats!StatsAgree
  <1>2. All \in Nat /\ Empty \in Nat
    BY Zenon, <1>1, MatchesAreFinite
  <1>3. ASSUME span' = span, rows' = rows
        PROVE  All' = All /\ Empty' = Empty
    BY <1>3 DEF Stats!CountIn, Stats!Interval
  <1>4. ASSUME NEW m \in Times, NEW v \in Values, Stats!Ingest(m, v) PROVE StatsInv'
    <2>1. StatsTypes' /\ All <= All' /\ Empty <= Empty' /\ All' \in Nat /\ Empty' \in Nat
      BY Zenon, <1>1, <1>4, IngestRaises
    <2>2. UNCHANGED <<span, stats, total, volume, groups>>
      BY <1>4 DEF Stats!Ingest
    <2>3. total <= All => total' <= All'
      BY <1>1, <1>2, <2>1, <2>2 DEF StatsTypes
    <2>4. Stats!ChartCoversTotal'
      BY Zenon, <1>1, <2>2, SameCardinality DEF Stats!ChartCoversTotal, Stats!Sum
    <2>5. Stats!GroupsCoverTotal'
      <3> SUFFICES ASSUME stats = "done", Stats!Cardinality(DOMAIN groups) + 1 < GroupLimit
                   PROVE  total' <= Stats!Sum(groups)' + Empty'
        BY <2>2, SameCardinality DEF Stats!GroupsCoverTotal
      <3>1. total <= Stats!Sum(groups) + Empty
        BY <1>1 DEF Stats!GroupsCoverTotal
      <3>2. Stats!Sum(groups)' = Stats!Sum(groups)
        BY <2>2, SameCardinality DEF Stats!Sum
      <3>3. Stats!Sum(groups) \in Nat
        BY DEF StatsInv
      <3> QED
        BY SMTT(30), <1>1, <1>2, <2>1, <2>2, <3>1, <3>2, <3>3 DEF StatsTypes
    <2>6. stats = "done" => Stats!Sum(groups)' \in Nat
      BY Zenon, <2>2, SameCardinality DEF StatsInv, Stats!Sum
    <2> QED
      BY <2>1, <2>2, <2>3, <2>4, <2>5, <2>6 DEF StatsInv, Stats!StatsAgree
  <1>5. CASE Stats!CountTotal
    <2>1. UNCHANGED <<span, rows, volume, groups>> /\ total' = All /\ stats' = "volume"
      BY <1>5 DEF Stats!CountTotal
    <2>2. StatsTypes' /\ total' <= All'
      BY <1>1, <1>2, <1>3, <2>1 DEF StatsTypes
    <2> QED
      BY <2>1, <2>2 DEF StatsInv, Stats!StatsAgree, Stats!ChartCoversTotal, Stats!GroupsCoverTotal
  <1>6. CASE Stats!CountVolume
    <2>1. /\ UNCHANGED <<span, rows, total, groups>> /\ stats = "volume" /\ stats' = "groups"
          /\ volume' = [b \in Stats!Smallest(Stats!FullBuckets, VolumeLimit) |->
                           Stats!CountIn(Stats!BucketMinutes(b), Values)]
      BY Zenon, <1>6 DEF Stats!CountVolume
    <2>2. StatsTypes' /\ total <= All /\ All' = All /\ total \in Nat
      BY Zenon, <1>1, <1>3, <2>1 DEF StatsTypes, StatsInv
    <2>3. Stats!Cardinality(DOMAIN volume') < VolumeLimit =>
              All <= Stats!Sum(volume') /\ Stats!Sum(volume') \in Nat
      BY <1>1, <2>1, VolumeCovers
    <2>4. Stats!ChartCoversTotal'
      BY SMTT(30), <1>2, <2>1, <2>2, <2>3, SameCardinality DEF Stats!ChartCoversTotal
    <2> QED
      BY <2>1, <2>2, <2>4 DEF StatsInv, Stats!StatsAgree, Stats!GroupsCoverTotal
  <1>7. ASSUME Stats!Groups, stats \in {"groups", "values"}, stats' = "done",
               UNCHANGED <<span, rows, arrived, total, volume>>
        PROVE  StatsInv'
    <2>1. PICK S \in Stats!TopValues :
              groups' = [v \in S \ {Stats!NoValue} |-> Stats!CountIn(Stats!Interval, {v})]
      BY <1>7 DEF Stats!Groups
    <2>2. /\ Stats!Sum(groups') \in Nat
          /\ Stats!Cardinality(DOMAIN groups') + 1 < GroupLimit =>
                 All <= Stats!Sum(groups') + Empty
      BY Zenon, <1>1, <2>1, GroupsCover
    <2>3. StatsTypes' /\ total <= All /\ All' = All /\ Empty' = Empty /\ total \in Nat
      BY Zenon, <1>1, <1>3, <1>7 DEF StatsTypes, StatsInv
    <2>4. Stats!GroupsCoverTotal'
      BY <1>2, <1>7, <2>2, <2>3 DEF Stats!GroupsCoverTotal
    <2>5. Stats!ChartCoversTotal'
      <3>1. CASE stats = "groups"
        BY <1>1, <1>7, <3>1, SameCardinality DEF Stats!ChartCoversTotal, Stats!Sum
      <3>2. CASE stats = "values"
        <4>1. total = 0 /\ volume = <<>>
          BY <3>2 DEF StatsInv
        <4>2. Stats!Sum(<<>>) \in Nat
          BY MarksAreFinite, FS_EmptySet
        <4> QED
          BY <1>7, <4>1, <4>2 DEF Stats!ChartCoversTotal
      <3> QED
        BY <1>7, <3>1, <3>2
    <2> QED
      BY <1>7, <2>2, <2>3, <2>4, <2>5 DEF StatsInv, Stats!StatsAgree
  <1>8. CASE Stats!CountGroups
    BY <1>7, <1>8 DEF Stats!CountGroups
  <1>9. CASE Stats!FieldValues
    BY Zenon, <1>7, <1>9 DEF Stats!FieldValues
  <1>10. CASE Stats!StatsFails
    BY ZenonT(60), <1>1, <1>10 DEF Stats!StatsFails, StatsInv, StatsTypes, Stats!StatsAgree,
                       Stats!ChartCoversTotal, Stats!GroupsCoverTotal
  <1>11. CASE UNCHANGED statsVars
    <2>1. UNCHANGED <<span, rows, stats, total, volume, groups>>
      BY <1>11 DEF statsVars
    <2> QED
      BY <2>1, SameCardinality DEF StatsInv, StatsTypes, Stats!StatsAgree, Stats!CountIn,
           Stats!Interval, Stats!ChartCoversTotal, Stats!GroupsCoverTotal, Stats!Sum
  <1> QED
    BY <1>4, <1>5, <1>6, <1>8, <1>9, <1>10, <1>11 DEF Stats!Next, Stats!Rest, Stats!vars, statsVars

\* The parts that Stats queries one after the other, while rows arrive, account for
\* the total unless a limit cut them off.
THEOREM LaterPartsCoverTheTotal == Stats!Spec => []StatsAgree
  <1>1. StatsInv => StatsAgree
    BY DEF StatsInv, StatsAgree
  <1> QED
    BY <1>1, StatsStarts, StatsKeeps, PTL DEF Stats!Spec, Stats!vars, statsVars
-----------------------------------------------------------------------------
(* The export *)

Tokens == {"[", "header", ",", "]", "row", "part"} \X Nat

\* What Export has written, flushed or not, and the document it should become.
Text == out \o buffer
Goal == Export!Document(Export!Wanted)

ExportTypes ==
    /\ format \in {"ndjson", "json", "csv"}
    /\ hits \in Seq(Nat)
    /\ next \in Nat /\ next <= Export!Wanted /\ bytes \in Nat
    /\ export \in {"start", "rows", "broken", "end", "ok", "failed"}
    /\ buffer \in Seq(Tokens) /\ out \in Seq(Tokens)

\* A text t is a beginning of the document g, up to a cut-off line at its end.
Right(t, g, cut) ==
    \A i \in 1..Len(t) : \/ i <= Len(g) /\ t[i] = g[i]
                         \/ i = Len(t) /\ t[i][1] = "part" /\ cut

TextIsRight == Right(Text, Goal, export \in {"broken", "failed"})

\* The array is closed only behind its last row.
Closed(t) == \E i \in 1..Len(t) : t[i][1] = "]"

ClosedIsComplete == Closed(Text) => next = Export!Wanted /\ Len(Text) = Len(Goal)

\* How far the text is.
TextLength ==
    /\ export = "start" => next = 0 /\ bytes = 0 /\ Len(Text) = 0
    /\ export = "rows" => Len(Text) = Export!Length(next)
    /\ export = "end" => next = Export!Wanted /\ Len(Text) = Len(Goal)
    /\ export = "ok" => next = Export!Wanted /\ Len(Text) = Len(Goal) /\ buffer = <<>>

\* bytesRead is the running total of the rows that were copied.
BytesAreCounted ==
    \E sum \in [0..next -> 0..MaxBytes] :
        /\ sum[0] = 0 /\ sum[next] = bytes
        /\ \A i \in 1..next : sum[i] = sum[i - 1] + hits[i]

ExportInv == ExportTypes /\ TextIsRight /\ ClosedIsComplete /\ TextLength /\ BytesAreCounted

\* The rows that are wanted: all hits or the row limit.
LEMMA WantedIsLess ==
    ASSUME hits \in Seq(Nat)
    PROVE  /\ Export!Wanted = IF Len(hits) <= MaxRows THEN Len(hits) ELSE MaxRows
           /\ Export!Wanted \in Nat
           /\ \A n \in Nat : n <= Export!Wanted =>
                (n < Export!Wanted <=> n < MaxRows /\ n < Len(hits))
  <1>1. Len(hits) \in Nat /\ MaxRows \in Nat
    BY ExportAssumption
  <1>2. Export!Wanted = IF Len(hits) <= MaxRows THEN Len(hits) ELSE MaxRows
    BY <1>1 DEF Export!Wanted
  <1> QED
    BY <1>1, <1>2

\* Where the n-th row of a JSON array is.
LEMMA Halves ==
    ASSUME NEW n \in Nat
    PROVE  /\ (2 * n + 1) % 2 = 1 /\ (2 * n + 2) % 2 = 0
           /\ (2 * n + 2) \div 2 = n + 1
  OBVIOUS

\* The document: its length, its tokens before the end, and the end.
LEMMA GoalIs ==
    ASSUME ExportTypes
    PROVE  /\ Export!Length(Export!Wanted) \in Nat
           /\ Len(Goal) = Export!Length(Export!Wanted) + (IF format = "json" THEN 1 ELSE 0)
           /\ Goal \in Seq(Tokens)
           /\ \A p \in 1..Export!Length(Export!Wanted) :
                Goal[p] = Export!TokenAt(p) /\ Goal[p][1] # "]" /\ Goal[p][1] # "part"
           /\ format = "json" => Goal[Len(Goal)] = <<"]", 0>>
  <1> DEFINE n == Export!Length(Export!Wanted)
             s == [p \in 1..n |-> Export!TokenAt(p)]
             e == IF format = "json" THEN <<<<"]", 0>>>> ELSE <<>>
  <1>1. Export!Wanted \in Nat
    BY WantedIsLess DEF ExportTypes
  <1>2. n \in Nat
    BY <1>1 DEF Export!Length, ExportTypes
  <1>3. Goal = s \o e
    BY DEF Goal, Export!Document, Export!Token
  <1> HIDE DEF n
  <1>4. \A p \in 1..n : /\ Export!TokenAt(p) \in Tokens
                        /\ Export!TokenAt(p)[1] # "]" /\ Export!TokenAt(p)[1] # "part"
    <2> SUFFICES ASSUME NEW p \in 1..n
                 PROVE  /\ Export!TokenAt(p) \in Tokens
                        /\ Export!TokenAt(p)[1] # "]" /\ Export!TokenAt(p)[1] # "part"
      OBVIOUS
    <2>1. p \in Nat /\ p \div 2 \in Nat /\ p - 1 \in Nat
      BY <1>2
    <2>2. Export!TokenAt(p) \in {<<"[", 0>>, <<"row", p \div 2>>, <<",", 0>>, <<"header", 0>>,
                                  <<"row", p - 1>>, <<"row", p>>}
      BY Zenon DEF Export!TokenAt, ExportTypes
    <2>3. /\ <<"[", 0>> \in Tokens /\ <<",", 0>> \in Tokens /\ <<"header", 0>> \in Tokens
          /\ \A n1 \in Nat : <<"row", n1>> \in Tokens
      BY Zenon DEF Tokens
    <2> HIDE DEF Tokens
    <2>4. Export!TokenAt(p) \in Tokens
      BY Zenon, <2>1, <2>2, <2>3
    <2>5. Export!TokenAt(p)[1] \in {"[", "row", ",", "header"}
      <3>1. \A a, b : <<a, b>>[1] = a
        OBVIOUS
      <3>2. PICK a, b : Export!TokenAt(p) = <<a, b>> /\ a \in {"[", "row", ",", "header"}
        BY Zenon, <2>2
      <3> QED
        BY <3>1, <3>2, Zenon
    <2> QED
      BY Zenon, <2>4, <2>5
  <1>5. s \in Seq(Tokens) /\ Len(s) = n /\ \A p \in 1..n : s[p] = Export!TokenAt(p)
    BY <1>2, <1>4
  <1> HIDE DEF s
  <1>6. /\ e \in Seq(Tokens) /\ Len(e) = (IF format = "json" THEN 1 ELSE 0)
        /\ format = "json" => e[1] = <<"]", 0>>
    <2>1. <<"]", 0>> \in Tokens
      BY Zenon DEF Tokens
    <2> QED
      BY <2>1
  <1> HIDE DEF e
  <1>7. Len(Goal) = n + Len(e) /\ Goal \in Seq(Tokens)
    BY SMTT(30), <1>3, <1>5, <1>6
  <1>8. \A p \in 1..n : Goal[p] = s[p]
    BY <1>2, <1>3, <1>5, <1>6
  <1>9. format = "json" => Goal[Len(Goal)] = e[1]
    BY <1>2, <1>3, <1>5, <1>6, <1>7
  <1> QED
    BY Zenon, <1>2, <1>4, <1>5, <1>6, <1>7, <1>8, <1>9 DEF n

\* A text behind another.
LEMMA Behind ==
    ASSUME NEW S, NEW t \in Seq(S), NEW x \in Seq(S)
    PROVE  /\ t \o x \in Seq(S) /\ Len(t \o x) = Len(t) + Len(x)
           /\ \A i \in 1..Len(t) : (t \o x)[i] = t[i]
           /\ \A i \in 1..Len(x) : (t \o x)[Len(t) + i] = x[i]
           /\ \A i \in 1..Len(t \o x) : i \in 1..Len(t) \/ i - Len(t) \in 1..Len(x)
  OBVIOUS

\* Appending to the buffer appends to the text.
LEMMA BufferIsBehind ==
    ASSUME NEW S, NEW a \in Seq(S), NEW b \in Seq(S), NEW c \in Seq(S)
    PROVE  a \o (b \o c) = (a \o b) \o c
  OBVIOUS

\* One token, and two of them one behind the other.
LEMMA TextOfTokens ==
    ASSUME NEW S, NEW v \in S
    PROVE  /\ <<>> \o <<v>> \in Seq(S) /\ Len(<<>> \o <<v>>) = 1 /\ (<<>> \o <<v>>)[1] = v
           /\ \A u \in S : /\ <<u>> \o <<v>> \in Seq(S) /\ Len(<<u>> \o <<v>>) = 2
                            /\ (<<u>> \o <<v>>)[1] = u /\ (<<u>> \o <<v>>)[2] = v
  OBVIOUS

\* Sending a part of the buffer leaves the text as it is.
LEMMA SpillMoves ==
    ASSUME NEW S, NEW a \in Seq(S), NEW b \in Seq(S), NEW k \in 1..Len(b)
    PROVE  /\ SubSeq(b, 1, k) \in Seq(S) /\ SubSeq(b, k + 1, Len(b)) \in Seq(S)
           /\ (a \o SubSeq(b, 1, k)) \o SubSeq(b, k + 1, Len(b)) = a \o b
  <1>1. SubSeq(b, 1, k) \in Seq(S) /\ SubSeq(b, k + 1, Len(b)) \in Seq(S)
    OBVIOUS
  <1>2. SubSeq(b, 1, k) \o SubSeq(b, k + 1, Len(b)) = b
    OBVIOUS
  <1>3. (a \o SubSeq(b, 1, k)) \o SubSeq(b, k + 1, Len(b)) =
            a \o (SubSeq(b, 1, k) \o SubSeq(b, k + 1, Len(b)))
    <2>1. \A c, d \in Seq(S) : (a \o c) \o d = a \o (c \o d)
      OBVIOUS
    <2> QED
      BY <1>1, <2>1, Zenon
  <1> QED
    BY <1>1, <1>2, <1>3, Zenon

\* Behind n tokens, x holds what belongs to the next row, or last instead of the row.
Continues(x, n, last) ==
    /\ x \in Seq(Tokens) /\ n \in Nat /\ Len(x) \in {1, 2}
    /\ n + Len(x) = Export!Length(next + 1)
    /\ n + Len(x) <= Export!Length(Export!Wanted)
    /\ x[Len(x)] = last
    /\ Export!TokenAt(n + Len(x)) = <<"row", next + 1>>
    /\ \A i \in 1..Len(x) : i # Len(x) => x[i] = Export!TokenAt(n + i) /\ x[i] = <<",", 0>>

\* CopyRow writes the tokens of the next row, and CopyPart all but the last of them.
LEMMA RowIsNext ==
    ASSUME ExportTypes, Export!HasRow, NEW last \in Tokens,
           NEW x, x = Export!Separator \o <<last>>, NEW n, n = Export!Length(next)
    PROVE  Continues(x, n, last)
  <1> DEFINE w == Export!Wanted
  <1>1. next \in Nat /\ w \in Nat /\ next + 1 <= w
    BY WantedIsLess DEF ExportTypes, Export!HasRow
  <1>2. <<",", 0>> \in Tokens
    BY Zenon DEF Tokens
  <1>3. CASE format = "json" /\ next > 0
    <2>1. Export!Separator = <<<<",", 0>>>>
      BY Zenon, <1>3 DEF Export!Separator, Export!Token
    <2>2. x \in Seq(Tokens) /\ Len(x) = 2 /\ x[1] = <<",", 0>> /\ x[2] = last
      <3>1. x = <<<<",", 0>>>> \o <<last>>
        BY <2>1, Zenon
      <3>2. \A u \in Tokens :
                /\ <<u>> \o <<last>> \in Seq(Tokens) /\ Len(<<u>> \o <<last>>) = 2
                /\ (<<u>> \o <<last>>)[1] = u /\ (<<u>> \o <<last>>)[2] = last
        BY TextOfTokens
      <3> QED
        BY <1>2, <3>1, <3>2, Zenon
    <2>3. n = 2 * next /\ Export!Length(next + 1) = 2 * next + 2 /\ Export!Length(w) = 2 * w
      <3>1. next # 0 /\ next + 1 # 0 /\ w # 0 /\ 2 * (next + 1) = 2 * next + 2
        BY <1>1, <1>3
      <3>2. \A m : m # 0 => Export!Length(m) = 2 * m
        BY <1>3, Zenon DEF Export!Length
      <3>3. n = 2 * next /\ Export!Length(next + 1) = 2 * (next + 1) /\ Export!Length(w) = 2 * w
        BY <3>1, <3>2
      <3> QED
        BY <3>1, <3>3
    <2>4. Export!TokenAt(2 * next + 1) = <<",", 0>>
      <3>1. 2 * next + 1 # 1 /\ (2 * next + 1) % 2 # 0
        BY <1>1, <1>3, Halves
      <3> QED
        BY Zenon, <1>3, <3>1 DEF Export!TokenAt
    <2>5. Export!TokenAt(2 * next + 2) = <<"row", next + 1>>
      <3>1. 2 * next + 2 # 1 /\ (2 * next + 2) % 2 = 0 /\ (2 * next + 2) \div 2 = next + 1
        BY <1>1, Halves
      <3> QED
        BY Zenon, <1>3, <3>1 DEF Export!TokenAt
    <2>6. /\ n \in Nat /\ n + 2 = Export!Length(next + 1) /\ n + 2 <= Export!Length(w)
          /\ 2 \in {1, 2} /\ \A i \in 1..2 : i # 2 => i = 1
      BY <1>1, <2>3
    <2>7. /\ Export!TokenAt(n + 2) = <<"row", next + 1>>
          /\ Export!TokenAt(n + 1) = <<",", 0>>
      BY <2>3, <2>4, <2>5, Zenon
    <2>8. \A i \in 1..2 : i # 2 => x[i] = Export!TokenAt(n + i) /\ x[i] = <<",", 0>>
      BY <2>2, <2>6, <2>7, Zenon
    <2> QED
      BY <2>2, <2>6, <2>7, <2>8, Zenon DEF Continues
  <1>4. CASE ~(format = "json" /\ next > 0)
    <2>1. Export!Separator = <<>>
      BY Zenon, <1>4 DEF Export!Separator
    <2>2. x = <<>> \o <<last>>
      BY <2>1, Zenon
    <2>3. x \in Seq(Tokens) /\ Len(x) = 1 /\ x[1] = last
      <3>1. /\ <<>> \o <<last>> \in Seq(Tokens) /\ Len(<<>> \o <<last>>) = 1
            /\ (<<>> \o <<last>>)[1] = last
        BY TextOfTokens
      <3> QED
        BY <2>2, <3>1, Zenon
    <2>4. n \in Nat /\ n + 1 = Export!Length(next + 1) /\ n + 1 <= Export!Length(w)
      BY <1>1, <1>4 DEF Export!Length, ExportTypes
    <2>5. Export!TokenAt(n + 1) = <<"row", next + 1>>
      <3>1. CASE format = "json"
        <4>1. n = 1 /\ next = 0
          BY <1>1, <1>4, <3>1 DEF Export!Length
        <4>2. 2 # 1 /\ 2 % 2 = 0 /\ 2 \div 2 = 1
          OBVIOUS
        <4>3. Export!TokenAt(2) = <<"row", 1>>
          BY <3>1, <4>2 DEF Export!TokenAt
        <4> QED
          BY <4>1, <4>3
      <3>2. CASE format = "csv"
        <4>1. n = next + 1 /\ n + 1 # 1 /\ (n + 1) - 1 = next + 1
          BY <1>1, <3>2 DEF Export!Length
        <4> QED
          BY <3>2, <4>1 DEF Export!TokenAt
      <3>3. CASE format = "ndjson"
        BY <3>3 DEF Export!Length, Export!TokenAt
      <3> QED
        BY <3>1, <3>2, <3>3 DEF ExportTypes
    <2>6. 1 \in {1, 2} /\ \A i \in 1..1 : i = 1
      OBVIOUS
    <2> QED
      BY <2>3, <2>4, <2>5, <2>6, Zenon DEF Continues
  <1> QED
    BY <1>3, <1>4

\* What is written next continues the text.
LEMMA TextGrows ==
    ASSUME NEW t \in Seq(Tokens), NEW x \in Seq(Tokens), NEW g \in Seq(Tokens), NEW cut,
           Right(t, g, FALSE),
           \A i \in 1..Len(x) : \/ Len(t) + i <= Len(g) /\ x[i] = g[Len(t) + i]
                                \/ i = Len(x) /\ x[i][1] = "part" /\ cut
    PROVE  Right(t \o x, g, cut)
  <1> SUFFICES ASSUME NEW i \in 1..Len(t \o x)
               PROVE  \/ i <= Len(g) /\ (t \o x)[i] = g[i]
                      \/ i = Len(t \o x) /\ (t \o x)[i][1] = "part" /\ cut
    BY DEF Right
  <1>1. Len(t \o x) = Len(t) + Len(x) /\ Len(t) \in Nat /\ Len(x) \in Nat /\ i \in Nat
    OBVIOUS
  <1>2. CASE i \in 1..Len(t)
    <2>1. (t \o x)[i] = t[i]
      BY <1>2
    <2> QED
      BY <1>2, <2>1, Zenon DEF Right
  <1>3. CASE i \notin 1..Len(t)
    <2>1. PICK k \in 1..Len(x) : i = Len(t) + k
      <3>1. \A m, n \in Nat : \A j \in 1..(m + n) :
                j \notin 1..m => j - m \in 1..n /\ j = m + (j - m)
        BY SMTT(30)
      <3> QED
        BY Zenon, <1>1, <1>3, <3>1
    <2>2. (t \o x)[Len(t) + k] = x[k]
      BY SMTT(30)
    <2>3. k = Len(x) => i = Len(t \o x)
      BY <1>1, <2>1
    <2> QED
      BY <2>1, <2>2, <2>3, Zenon
  <1> QED
    BY Zenon, <1>2, <1>3

\* It closes the array if one of the two does.
LEMMA ClosedGrows ==
    ASSUME NEW t \in Seq(Tokens), NEW x \in Seq(Tokens), Closed(t \o x)
    PROVE  Closed(t) \/ Closed(x)
  <1>1. PICK i \in 1..Len(t \o x) : (t \o x)[i][1] = "]"
    BY DEF Closed
  <1>2. Len(t \o x) = Len(t) + Len(x) /\ Len(t) \in Nat /\ Len(x) \in Nat /\ i \in Nat
    OBVIOUS
  <1>3. CASE i \in 1..Len(t)
    <2>1. (t \o x)[i] = t[i]
      BY <1>3
    <2> QED
      BY <1>1, <1>3, <2>1, Zenon DEF Closed
  <1>4. CASE i \notin 1..Len(t)
    <2>1. PICK k \in 1..Len(x) : i = Len(t) + k
      <3>1. \A m, n \in Nat : \A j \in 1..(m + n) :
                j \notin 1..m => j - m \in 1..n /\ j = m + (j - m)
        OBVIOUS
      <3>2. i \in 1..(Len(t) + Len(x))
        BY <1>2, Zenon
      <3> QED
        BY <1>2, <1>4, <3>1, <3>2, Zenon
    <2>2. (t \o x)[Len(t) + k] = x[k]
      OBVIOUS
    <2> QED
      BY <1>1, <2>1, <2>2, Zenon DEF Closed
  <1> QED
    BY <1>3, <1>4

\* One more row is counted if its bytes are within the limit.
LEMMA BytesGrow ==
    ASSUME ExportTypes, BytesAreCounted, Export!HasRow, Export!WithinBytes
    PROVE  \E sum \in [0..(next + 1) -> 0..MaxBytes] :
               /\ sum[0] = 0 /\ sum[next + 1] = bytes + hits[next + 1]
               /\ \A i \in 1..(next + 1) : sum[i] = sum[i - 1] + hits[i]
  <1> DEFINE b == bytes + hits[next + 1]
  <1>1. next \in Nat /\ bytes \in Nat /\ MaxBytes \in Nat /\ hits[next + 1] \in Nat /\ b <= MaxBytes
    BY ExportAssumption DEF ExportTypes, Export!HasRow, Export!WithinBytes
  <1>2. PICK old \in [0..next -> 0..MaxBytes] :
            /\ old[0] = 0 /\ old[next] = bytes
            /\ \A i \in 1..next : old[i] = old[i - 1] + hits[i]
    BY Zenon DEF BytesAreCounted
  <1>3. b \in 0..MaxBytes
    BY <1>1
  <1> DEFINE sum == [i \in 0..(next + 1) |-> IF i = next + 1 THEN b ELSE old[i]]
  <1>4. \A i \in 0..(next + 1) : i \in 0..next \/ i = next + 1
    BY <1>1
  <1>5. \A i \in 0..next : i # next + 1 /\ i \in 0..(next + 1) /\ sum[i] = old[i]
    BY <1>1
  <1>6. next + 1 \in 0..(next + 1) /\ sum[next + 1] = b
    BY <1>1
  <1>7. sum \in [0..(next + 1) -> 0..MaxBytes]
    BY <1>2, <1>3, <1>4
  <1> HIDE DEF sum
  <1>8. sum[0] = 0
    BY <1>1, <1>2, <1>5
  <1>9. ASSUME NEW i \in 1..(next + 1) PROVE sum[i] = sum[i - 1] + hits[i]
    <2>1. i - 1 \in 0..next /\ sum[i - 1] = old[i - 1]
      BY <1>1, <1>5
    <2>2. CASE i = next + 1
      <3>1. i - 1 = next
        BY <1>1, <2>2
      <3> QED
        BY Zenon, <1>2, <1>6, <2>1, <2>2, <3>1
    <2>3. CASE i # next + 1
      <3>1. i \in 1..next /\ i \in 0..next
        BY <1>1, <2>3
      <3> QED
        BY <1>2, <1>5, <2>1, <3>1
    <2> QED
      BY <2>2, <2>3
  <1> QED
    BY Zenon, <1>6, <1>7, <1>8, <1>9

\* The first state, and the preamble.
LEMMA ExportStarts == Export!Init => ExportInv
  <1> SUFFICES ASSUME Export!Init PROVE ExportInv
    OBVIOUS
  <1>1. /\ format \in {"ndjson", "json", "csv"} /\ next = 0 /\ bytes = 0 /\ export = "start"
        /\ buffer = <<>> /\ out = <<>>
    BY DEF Export!Init
  <1>2. hits \in Seq(Nat)
    <2>1. PICK n \in 0..MaxHits : hits \in [1..n -> Sizes]
      BY DEF Export!Init
    <2>2. n \in Nat
      BY ExportAssumption
    <2>3. hits \in [1..n -> Nat]
      BY Zenon, <2>1, ExportAssumption
    <2> QED
      BY <2>2, <2>3
  <1>3. Export!Wanted \in Nat
    BY <1>2, WantedIsLess
  <1>4. ExportTypes
    BY <1>1, <1>2, <1>3 DEF ExportTypes
  <1>5. Len(Text) = 0
    BY <1>1 DEF Text
  <1>6. TextIsRight /\ ~Closed(Text)
    BY <1>5 DEF TextIsRight, Right, Closed
  <1>7. BytesAreCounted
    <2> DEFINE sum == [i \in 0..0 |-> 0]
    <2>1. sum \in [0..0 -> 0..MaxBytes] /\ sum[0] = 0 /\ \A i \in 1..0 : FALSE
      BY ExportAssumption
    <2> QED
      BY <1>1, <2>1, Zenon DEF BytesAreCounted
  <1> QED
    BY <1>1, <1>4, <1>5, <1>6, <1>7 DEF ExportInv, TextLength, ClosedIsComplete

\* A step that leaves the request alone leaves the document it asks for.
LEMMA GoalStays ==
    ASSUME UNCHANGED <<format, hits>>
    PROVE  /\ Goal' = Goal /\ Export!Wanted' = Export!Wanted
           /\ Export!Length(Export!Wanted)' = Export!Length(Export!Wanted)
           /\ \A n : Export!Length(n)' = Export!Length(n)
  <1>1. Export!Wanted' = Export!Wanted
    BY DEF Export!Wanted
  <1>2. \A n : Export!Length(n)' = Export!Length(n)
    BY DEF Export!Length
  <1>3. \A p : Export!TokenAt(p)' = Export!TokenAt(p)
    BY DEF Export!TokenAt
  <1> QED
    BY <1>1, <1>2, <1>3, Zenon DEF Goal, Export!Document, Export!Token

\* Writing x into the buffer keeps what is known of the text if x continues it.
LEMMA WriteKeeps ==
    ASSUME ExportInv, UNCHANGED <<format, hits, out>>, NEW x \in Seq(Tokens),
           buffer' = buffer \o x, export \in {"start", "rows"},
           \A i \in 1..Len(x) :
               \/ Len(Text) + i <= Len(Goal) /\ x[i] = Goal[Len(Text) + i]
               \/ i = Len(x) /\ x[i][1] = "part" /\ export' \in {"broken", "failed"}
    PROVE  /\ buffer' \in Seq(Tokens) /\ out' \in Seq(Tokens)
           /\ Len(Text') = Len(Text) + Len(x) /\ TextIsRight'
           /\ Closed(Text') => Closed(Text) \/ Closed(x)
  <1>1. buffer \in Seq(Tokens) /\ out \in Seq(Tokens) /\ ExportTypes
    BY DEF ExportInv, ExportTypes
  <1>2. Text' = Text \o x
    <2>1. Text' = out \o (buffer \o x)
      BY Zenon DEF Text
    <2>2. \A c \in Seq(Tokens) : out \o (buffer \o c) = (out \o buffer) \o c
      BY SMTT(30), <1>1, BufferIsBehind
    <2> QED
      BY <2>1, <2>2, Zenon DEF Text
  <1>3. Text \in Seq(Tokens)
    BY <1>1 DEF Text
  <1>4. Goal \in Seq(Tokens) /\ Goal' = Goal
    BY <1>1, GoalIs, GoalStays
  <1>5. Right(Text, Goal, FALSE)
    BY Zenon DEF ExportInv, TextIsRight, Right
  <1> DEFINE cut == export' \in {"broken", "failed"}
  <1>6. Right(Text \o x, Goal, cut)
    BY Zenon, <1>3, <1>4, <1>5, TextGrows
  <1>7. Len(Text \o x) = Len(Text) + Len(x)
    BY Zenon, <1>3, Behind
  <1>8. Closed(Text \o x) => Closed(Text) \/ Closed(x)
    BY Zenon, <1>3, ClosedGrows
  <1>9. buffer' \in Seq(Tokens)
    BY <1>1, Behind
  <1> QED
    BY <1>1, <1>2, <1>4, <1>6, <1>7, <1>8, <1>9, ZenonT(60) DEF TextIsRight

\* x continues the text with what belongs to the next row, or with last instead of it.
Follows(x, last) ==
    /\ x \in Seq(Tokens) /\ (buffer \o Export!Separator) \o <<last>> = buffer \o x
    /\ Len(Text) + Len(x) = Export!Length(next + 1)
    /\ ~Closed(Text) /\ ~Closed(x) /\ x[Len(x)] = last
    /\ \A i \in 1..Len(x) :
         i # Len(x) \/ last = <<"row", next + 1>> =>
             Len(Text) + i <= Len(Goal) /\ x[i] = Goal[Len(Text) + i]

\* A row, or a part of it, behind its separator continues the text.
LEMMA NextTokens ==
    ASSUME ExportInv, export = "rows", Export!HasRow, NEW last \in Tokens, last[1] # "]",
           NEW x, x = Export!Separator \o <<last>>
    PROVE  Follows(x, last)
  <1> DEFINE n == Export!Length(next)
             w == Export!Length(Export!Wanted)
  <1>1. ExportTypes /\ Len(Text) = n /\ buffer \in Seq(Tokens)
    BY DEF ExportInv, TextLength, ExportTypes
  <1>2. /\ x \in Seq(Tokens) /\ n \in Nat /\ Len(x) \in {1, 2}
        /\ n + Len(x) = Export!Length(next + 1) /\ n + Len(x) <= w
        /\ x[Len(x)] = last /\ Export!TokenAt(n + Len(x)) = <<"row", next + 1>>
        /\ \A i \in 1..Len(x) : i # Len(x) => x[i] = Export!TokenAt(n + i) /\ x[i] = <<",", 0>>
    <2>1. Continues(x, n, last)
      BY <1>1, RowIsNext, Zenon
    <2> QED
      BY <2>1, Zenon DEF Continues
  <1>3. /\ w \in Nat /\ w <= Len(Goal)
        /\ \A p \in 1..w : Goal[p] = Export!TokenAt(p)
    <2>1. /\ w \in Nat /\ Len(Goal) = w + (IF format = "json" THEN 1 ELSE 0)
          /\ \A p \in 1..w : Goal[p] = Export!TokenAt(p)
      BY <1>1, GoalIs
    <2> QED
      BY <2>1
  <1> HIDE DEF n, w
  <1>4. (buffer \o Export!Separator) \o <<last>> = buffer \o x
    <2>1. Export!Separator \in Seq(Tokens)
      <3>1. Export!Separator \in {<<>>, <<<<",", 0>>>>} /\ <<",", 0>> \in Tokens
        BY Zenon DEF Export!Separator, Export!Token, Tokens
      <3>2. <<>> \in Seq(Tokens) /\ \A u \in Tokens : <<u>> \in Seq(Tokens)
        OBVIOUS
      <3> QED
        BY <3>1, <3>2, Zenon
    <2>2. <<last>> \in Seq(Tokens)
      OBVIOUS
    <2>3. \A c, d \in Seq(Tokens) : (buffer \o c) \o d = buffer \o (c \o d)
      BY SMTT(30), <1>1, BufferIsBehind
    <2> QED
      BY <2>1, <2>2, <2>3, Zenon
  <1>5. ~Closed(Text)
    <2>1. next # Export!Wanted
      BY <1>1, WantedIsLess DEF Export!HasRow, ExportTypes
    <2> QED
      BY <2>1 DEF ExportInv, ClosedIsComplete
  <1>6. ~Closed(x)
    <2> SUFFICES ASSUME NEW i \in 1..Len(x), x[i][1] = "]" PROVE FALSE
      BY Zenon DEF Closed
    <2>1. <<",", 0>>[1] # "]"
      OBVIOUS
    <2> QED
      BY <1>2, <2>1, Zenon
  <1>7. ASSUME NEW i \in 1..Len(x), i # Len(x) \/ last = <<"row", next + 1>>
        PROVE  n + i <= Len(Goal) /\ x[i] = Goal[n + i]
    <2>1. \A a, b \in Nat : \A l \in {1, 2} : \A j \in 1..l :
              a + l <= b => a + j \in 1..b /\ a + j <= b
      OBVIOUS
    <2>2. n + i \in 1..w /\ n + i <= w
      BY <1>2, <1>3, <2>1, Zenon
    <2>3. n + i <= Len(Goal)
      <3>1. \A a, b, c \in Int : a <= b /\ b <= c => a <= c
        OBVIOUS
      <3>2. Len(Goal) \in Int /\ w \in Int /\ n + i \in Int
        <4>1. Goal \in Seq(Tokens)
          BY <1>1, GoalIs
        <4>2. Len(Goal) \in Int
          BY <4>1
        <4> QED
          BY <1>3, <2>2, <4>2
      <3> QED
        BY <1>3, <2>2, <3>1, <3>2, Zenon
    <2>4. x[i] = Export!TokenAt(n + i)
      BY <1>2, <1>7, Zenon
    <2> QED
      BY <1>3, <2>2, <2>3, <2>4, Zenon
  <1> QED
    BY <1>1, <1>2, <1>4, <1>5, <1>6, <1>7, ZenonT(60) DEF Follows

\* The rows, whole or cut off, and the byte limit between them.
LEMMA CopyKeeps ==
    ASSUME ExportInv, Export!CopyRow \/ Export!CopyPart
    PROVE  ExportInv'
  <1>1. ExportTypes /\ export = "rows" /\ Export!HasRow /\ UNCHANGED <<format, hits, out>>
    BY DEF ExportInv, Export!CopyRow, Export!CopyPart, Export!request
  <1>2. Goal' = Goal /\ Export!Wanted' = Export!Wanted
    BY <1>1, GoalStays
  <1>3. next \in Nat /\ next + 1 <= Export!Wanted /\ Export!Wanted \in Nat
    BY <1>1, WantedIsLess DEF ExportTypes, Export!HasRow
  <1>4. CASE Export!CopyRow
    <2> DEFINE last == <<"row", next + 1>>
               x == Export!Separator \o <<last>>
    <2>1. /\ buffer' = (buffer \o Export!Separator) \o <<last>> /\ export' = "rows"
          /\ next' = next + 1 /\ bytes' = bytes + hits[next + 1] /\ Export!WithinBytes
      BY <1>4 DEF Export!CopyRow, Export!Row
    <2>2. last \in Tokens /\ last[1] # "]"
      <3>1. next + 1 \in Nat
        BY <1>3
      <3>2. \A m \in Nat : <<"row", m>> \in Tokens /\ <<"row", m>>[1] # "]"
        BY Zenon DEF Tokens
      <3> QED
        BY <3>1, <3>2, Zenon
    <2> HIDE DEF x, last
    <2>3. Follows(x, last)
      <3>1. x = Export!Separator \o <<last>>
        BY DEF x
      <3> QED
        BY <1>1, <2>2, <3>1, NextTokens, Zenon
    <2>4. \A i \in 1..Len(x) : Len(Text) + i <= Len(Goal) /\ x[i] = Goal[Len(Text) + i]
      BY <2>3, Zenon DEF Follows, last
    <2>5. buffer' = buffer \o x
      BY <2>1, <2>3, Zenon DEF Follows
    <2>6. /\ buffer' \in Seq(Tokens) /\ out' \in Seq(Tokens)
          /\ Len(Text') = Len(Text) + Len(x) /\ TextIsRight' /\ ~Closed(Text')
      BY <1>1, <2>3, <2>4, <2>5, WriteKeeps, Zenon DEF Follows
    <2>7. ExportTypes'
      <3>1. bytes' \in Nat
        BY SMTT(30), <1>1, <2>1 DEF ExportTypes, Export!HasRow
      <3>2. next' \in Nat /\ next' <= Export!Wanted'
        BY <1>2, <1>3, <2>1
      <3> QED
        BY Zenon, <1>1, <2>1, <2>6, <3>1, <3>2 DEF ExportTypes
    <2>8. TextLength'
      <3>1. Export!Length(next)' = Export!Length(next + 1)
        BY <1>1, <2>1, Zenon DEF Export!Length
      <3>2. Len(Text)' = Export!Length(next)'
        BY <2>3, <2>6, <3>1, Zenon DEF Follows
      <3> QED
        BY <2>1, <3>2 DEF TextLength
    <2>9. BytesAreCounted'
      <3>1. \E sum \in [0..(next + 1) -> 0..MaxBytes] :
                /\ sum[0] = 0 /\ sum[next + 1] = bytes + hits[next + 1]
                /\ \A i \in 1..(next + 1) : sum[i] = sum[i - 1] + hits[i]
        BY Zenon, <1>1, <2>1, BytesGrow DEF ExportInv
      <3> QED
        BY <1>1, <2>1, <3>1, Zenon DEF BytesAreCounted
    <2> QED
      BY Zenon, <2>6, <2>7, <2>8, <2>9 DEF ExportInv, ClosedIsComplete
  <1>5. CASE Export!CopyPart
    <2> DEFINE last == <<"part", 0>>
               x == Export!Separator \o <<last>>
    <2>1. /\ buffer' = (buffer \o Export!Separator) \o <<last>> /\ export' = "broken"
          /\ UNCHANGED <<next, bytes>>
      BY <1>5 DEF Export!CopyPart, Export!Token
    <2>2. last \in Tokens /\ last[1] # "]" /\ last[1] = "part"
      BY Zenon DEF Tokens
    <2> HIDE DEF x, last
    <2>3. Follows(x, last)
      <3>1. x = Export!Separator \o <<last>>
        BY DEF x
      <3> QED
        BY <1>1, <2>2, <3>1, NextTokens, Zenon
    <2>4. \A i \in 1..Len(x) :
              \/ Len(Text) + i <= Len(Goal) /\ x[i] = Goal[Len(Text) + i]
              \/ i = Len(x) /\ x[i][1] = "part" /\ export' \in {"broken", "failed"}
      <3>1. export' \in {"broken", "failed"}
        BY <2>1
      <3> QED
        BY <2>2, <2>3, <3>1, Zenon DEF Follows
    <2>5. buffer' = buffer \o x
      BY <2>1, <2>3, Zenon DEF Follows
    <2>6. /\ buffer' \in Seq(Tokens) /\ out' \in Seq(Tokens) /\ TextIsRight' /\ ~Closed(Text')
      BY <1>1, <2>3, <2>4, <2>5, WriteKeeps, Zenon DEF Follows
    <2>7. ExportTypes'
      BY Zenon, <1>1, <1>2, <2>1, <2>6 DEF ExportTypes
    <2>8. BytesAreCounted'
      BY Zenon, <1>1, <2>1 DEF ExportInv, BytesAreCounted
    <2> QED
      BY Zenon, <2>1, <2>6, <2>7, <2>8 DEF ExportInv, ClosedIsComplete, TextLength
  <1> QED
    BY <1>4, <1>5

\* What is written before the rows.
LEMMA PreambleKeeps ==
    ASSUME ExportInv, export = "start", UNCHANGED <<format, hits, next, bytes, out>>,
           buffer' = Export!Preamble, export' = "rows"
    PROVE  ExportInv'
  <1>1. ExportTypes /\ next = 0 /\ bytes = 0 /\ Len(Text) = 0 /\ buffer \in Seq(Tokens)
    BY Zenon DEF ExportInv, ExportTypes, TextLength
  <1>2. buffer = <<>>
    <2>1. Len(buffer) = 0 /\ buffer \in Seq(Tokens)
      BY <1>1 DEF Text, ExportTypes
    <2> QED
      BY <2>1
  <1>3. Goal' = Goal /\ Export!Wanted' = Export!Wanted
    BY Zenon, GoalStays
  <1> DEFINE x == Export!Preamble
  <1>4. /\ x \in Seq(Tokens) /\ Len(x) = Export!Length(0)
        /\ \A i \in 1..Len(x) : i = 1 /\ x[i] = Export!TokenAt(1) /\ x[i][1] # "]"
    <2>1. \A v \in {<<"[", 0>>, <<"header", 0>>} :
              <<v>> \in Seq(Tokens) /\ Len(<<v>>) = 1 /\ \A i \in 1..1 : i = 1 /\ <<v>>[i] = v /\ v[1] # "]"
      <3>1. /\ <<"[", 0>> \in Tokens /\ <<"header", 0>> \in Tokens
            /\ <<"[", 0>>[1] # "]" /\ <<"header", 0>>[1] # "]"
        BY Zenon DEF Tokens
      <3> QED
        BY <3>1
    <2>2. CASE format = "json"
      <3>1. x = <<<<"[", 0>>>> /\ Export!TokenAt(1) = <<"[", 0>> /\ Export!Length(0) = 1
        BY <2>2 DEF Export!Preamble, Export!Token, Export!TokenAt, Export!Length
      <3> QED
        BY <2>1, <3>1, Zenon
    <2>3. CASE format = "csv"
      <3>1. x = <<<<"header", 0>>>> /\ Export!TokenAt(1) = <<"header", 0>> /\ Export!Length(0) = 0 + 1
        BY <2>3 DEF Export!Preamble, Export!Token, Export!TokenAt, Export!Length
      <3>2. 0 + 1 = 1
        OBVIOUS
      <3> QED
        BY <2>1, <3>1, <3>2, Zenon
    <2>4. CASE format = "ndjson"
      <3>1. x = <<>> /\ Export!Length(0) = 0
        BY <2>4 DEF Export!Preamble, Export!Length
      <3>2. <<>> \in Seq(Tokens) /\ Len(<<>>) = 0 /\ \A i \in 1..0 : FALSE
        OBVIOUS
      <3> QED
        BY <3>1, <3>2, Zenon
    <2> QED
      BY Zenon, <1>1, <2>2, <2>3, <2>4 DEF ExportTypes
  <1>5. Export!Length(0) <= Export!Length(Export!Wanted) /\ Export!Length(0) \in Nat
    <2>1. Export!Wanted \in Nat
      BY <1>1, WantedIsLess DEF ExportTypes
    <2> QED
      BY <1>1, <2>1 DEF Export!Length, ExportTypes
  <1> HIDE DEF x
  <1>6. \A i \in 1..Len(x) : Len(Text) + i <= Len(Goal) /\ x[i] = Goal[Len(Text) + i]
    <2> SUFFICES ASSUME NEW i \in 1..Len(x)
                 PROVE  Len(Text) + i <= Len(Goal) /\ x[i] = Goal[Len(Text) + i]
      OBVIOUS
    <2> DEFINE w == Export!Length(Export!Wanted)
    <2>1. /\ w \in Nat /\ Len(Goal) = w + (IF format = "json" THEN 1 ELSE 0)
          /\ \A p \in 1..w : Goal[p] = Export!TokenAt(p)
      BY <1>1, GoalIs
    <2> HIDE DEF w
    <2>2. i = 1 /\ 1 <= Export!Length(0)
      BY SMTT(30), <1>4, <1>5
    <2>3. 1 \in 1..w /\ 1 <= Len(Goal) /\ Len(Text) + i = 1
      BY SMTT(30), <1>1, <1>5, <2>1, <2>2 DEF w
    <2> QED
      BY <1>4, <2>1, <2>2, <2>3, ZenonT(60)
  <1>7. buffer' = buffer \o x
    <2>1. <<>> \o x = x
      BY SMTT(30), <1>4
    <2> QED
      BY <1>2, <2>1, Zenon DEF x
  <1>8. /\ buffer' \in Seq(Tokens) /\ out' \in Seq(Tokens) /\ TextIsRight'
        /\ Len(Text') = Len(Text) + Len(x) /\ (Closed(Text') => Closed(Text) \/ Closed(x))
    BY SMTT(30), <1>4, <1>6, <1>7, WriteKeeps
  <1>9. ~Closed(Text) /\ ~Closed(x)
    <2>1. \A i \in 1..0 : FALSE
      OBVIOUS
    <2> QED
      BY <1>1, <1>4, <2>1, Zenon DEF Closed
  <1>10. TextLength'
    <2>1. Len(Text)' = Export!Length(0)
      BY SMTT(30), <1>1, <1>4, <1>5, <1>8
    <2>2. Export!Length(next)' = Export!Length(0)
      BY <1>1, Zenon DEF Export!Length
    <2> QED
      BY ZenonT(60), <2>1, <2>2 DEF TextLength
  <1>11. ExportTypes' /\ BytesAreCounted'
    BY <1>1, <1>3, <1>8 DEF ExportInv, ExportTypes, BytesAreCounted
  <1> QED
    BY Zenon, <1>8, <1>9, <1>10, <1>11 DEF ExportInv, ClosedIsComplete

\* The end of the rows, at the last one that is wanted.
LEMMA EndKeeps ==
    ASSUME ExportInv, Export!EndOfRows
    PROVE  ExportInv'
  <1>1. ExportTypes /\ export = "rows" /\ ~Export!HasRow /\ UNCHANGED <<format, hits, next, bytes, out>>
    BY DEF ExportInv, Export!EndOfRows, Export!request
  <1> DEFINE x == IF format = "json" THEN <<<<"]", 0>>>> ELSE <<>>
             w == Export!Length(Export!Wanted)
  <1>2. buffer' = buffer \o x /\ export' = "end"
    BY DEF Export!EndOfRows, Export!Token
  <1>3. Goal' = Goal /\ Export!Wanted' = Export!Wanted
    BY <1>1, GoalStays
  <1>4. next = Export!Wanted
    BY <1>1, WantedIsLess DEF ExportTypes, Export!HasRow
  <1>5. /\ w \in Nat /\ Len(Goal) = w + (IF format = "json" THEN 1 ELSE 0)
        /\ format = "json" => Goal[Len(Goal)] = <<"]", 0>>
    BY <1>1, GoalIs
  <1>6. Len(Text) = w
    BY <1>1, <1>4 DEF ExportInv, TextLength
  <1>7. /\ x \in Seq(Tokens) /\ Len(x) = (IF format = "json" THEN 1 ELSE 0)
        /\ format = "json" => x[1] = <<"]", 0>>
    <2>1. <<"]", 0>> \in Tokens
      BY Zenon DEF Tokens
    <2> QED
      BY <2>1
  <1> HIDE DEF x, w
  <1>8. \A i \in 1..Len(x) : Len(Text) + i <= Len(Goal) /\ x[i] = Goal[Len(Text) + i]
    <2> SUFFICES ASSUME NEW i \in 1..Len(x)
                 PROVE  Len(Text) + i <= Len(Goal) /\ x[i] = Goal[Len(Text) + i]
      OBVIOUS
    <2>1. format = "json" /\ i = 1
      BY <1>7
    <2>2. Len(Text) + i = Len(Goal) /\ Len(Goal) <= Len(Goal)
      BY <1>5, <1>6, <2>1
    <2> QED
      BY <1>5, <1>7, <2>1, <2>2, Zenon
  <1>9. /\ buffer' \in Seq(Tokens) /\ out' \in Seq(Tokens) /\ TextIsRight'
        /\ Len(Text') = Len(Text) + Len(x)
    BY Zenon, <1>1, <1>2, <1>7, <1>8, WriteKeeps
  <1>10. Len(Text') = Len(Goal)
    BY Zenon, <1>5, <1>6, <1>7, <1>9
  <1>11. ExportTypes' /\ BytesAreCounted'
    BY Zenon, <1>1, <1>2, <1>3, <1>9 DEF ExportInv, ExportTypes, BytesAreCounted
  <1>12. TextLength' /\ ClosedIsComplete'
    BY Zenon, <1>1, <1>2, <1>3, <1>4, <1>10 DEF TextLength, ClosedIsComplete
  <1> QED
    BY <1>9, <1>11, <1>12 DEF ExportInv

\* A step that writes nothing: what was written may move to the client, and the
\* export may fail or, with all of it sent, succeed.
LEMMA SendKeeps ==
    ASSUME ExportInv, UNCHANGED <<format, hits, next, bytes>>, Text' = Text,
           buffer' \in Seq(Tokens), out' \in Seq(Tokens),
           \/ export' = export /\ export # "ok"
           \/ export' = export /\ buffer' = buffer
           \/ export' = "failed"
           \/ export = "end" /\ export' = "ok" /\ buffer' = <<>>
    PROVE  ExportInv'
  <1>1. Goal' = Goal /\ Export!Wanted' = Export!Wanted
    BY GoalStays
  <1>2. Export!Length(next)' = Export!Length(next)
    BY Zenon DEF Export!Length
  <1>3. ExportTypes'
    BY <1>1 DEF ExportInv, ExportTypes
  <1>4. TextIsRight'
    <2>1. export \in {"broken", "failed"} => export' \in {"broken", "failed"}
      OBVIOUS
    <2> QED
      BY <1>1, <2>1, Zenon DEF ExportInv, TextIsRight, Right
  <1>5. ClosedIsComplete'
    BY <1>1, Zenon DEF ExportInv, ClosedIsComplete
  <1>6. TextLength'
    BY Zenon, <1>1, <1>2 DEF ExportInv, TextLength
  <1>7. BytesAreCounted'
    BY Zenon DEF ExportInv, BytesAreCounted
  <1> QED
    BY Zenon, <1>3, <1>4, <1>5, <1>6, <1>7 DEF ExportInv

\* Every step of Export keeps the text right.
LEMMA ExportKeeps == ExportInv /\ [Export!Next]_exportVars => ExportInv'
  <1> SUFFICES ASSUME ExportInv, [Export!Next]_exportVars PROVE ExportInv'
    BY Zenon
  <1>1. buffer \in Seq(Tokens) /\ out \in Seq(Tokens)
    BY DEF ExportInv, ExportTypes
  <1>2. CASE Export!Fail
    <2>1. UNCHANGED <<format, hits, next, bytes, buffer, out>> /\ export' = "failed"
      BY <1>2 DEF Export!Fail, Export!request
    <2>2. Text' = Text
      BY <2>1 DEF Text
    <2> QED
      BY <1>1, <2>1, <2>2, SendKeeps
  <1>3. CASE Export!Begin
    <2>1. Export!Fail \/
              /\ export = "start" /\ export' = "rows" /\ buffer' = Export!Preamble
              /\ UNCHANGED <<format, hits, next, bytes, out>>
      BY <1>3 DEF Export!Begin, Export!request
    <2> QED
      BY <1>2, <2>1, PreambleKeeps
  <1>4. CASE Export!CopyRow \/ Export!CopyPart
    BY <1>4, CopyKeeps
  <1>5. CASE Export!ByteLimit \/ Export!StreamBreaks \/ Export!ClientLeaves
    BY <1>2, <1>5 DEF Export!ByteLimit, Export!StreamBreaks, Export!ClientLeaves
  <1>6. CASE Export!Spill
    <2>1. PICK k \in 1..Len(buffer) :
              out' = out \o SubSeq(buffer, 1, k) /\ buffer' = SubSeq(buffer, k + 1, Len(buffer))
      BY Zenon, <1>6 DEF Export!Spill
    <2>2. UNCHANGED <<format, hits, next, bytes, export>> /\ export # "ok"
      BY <1>6 DEF Export!Spill, Export!request
    <2>3. /\ SubSeq(buffer, 1, k) \in Seq(Tokens) /\ SubSeq(buffer, k + 1, Len(buffer)) \in Seq(Tokens)
          /\ (out \o SubSeq(buffer, 1, k)) \o SubSeq(buffer, k + 1, Len(buffer)) = out \o buffer
      BY ZenonT(60), <1>1, SpillMoves
    <2>4. Text' = Text
      BY <2>1, <2>3, Zenon DEF Text
    <2>5. \A c \in Seq(Tokens) : out \o c \in Seq(Tokens)
      BY <1>1, Behind
    <2>6. buffer' \in Seq(Tokens) /\ out' \in Seq(Tokens)
      BY <2>1, <2>3, <2>5, Zenon
    <2> QED
      BY Zenon, <2>2, <2>4, <2>6, SendKeeps
  <1>7. CASE Export!EndOfRows
    BY <1>7, EndKeeps
  <1>8. CASE Export!Finish
    <2>1. /\ UNCHANGED <<format, hits, next, bytes>> /\ export = "end" /\ export' = "ok"
          /\ out' = out \o buffer /\ buffer' = <<>>
      BY <1>8 DEF Export!Finish, Export!request
    <2>2. (out \o buffer) \o <<>> = out \o buffer /\ out \o buffer \in Seq(Tokens) /\ <<>> \in Seq(Tokens)
      BY <1>1
    <2>3. Text' = Text /\ buffer' \in Seq(Tokens) /\ out' \in Seq(Tokens)
      BY <2>1, <2>2, Zenon DEF Text
    <2> QED
      BY <2>1, <2>3, SendKeeps
  <1>9. CASE UNCHANGED exportVars
    <2>1. UNCHANGED <<format, hits, next, bytes, export, buffer, out>>
      BY <1>9 DEF exportVars
    <2>2. Text' = Text
      BY <2>1 DEF Text
    <2> QED
      BY Zenon, <1>1, <2>1, <2>2, SendKeeps
  <1> QED
    BY SMTT(30), <1>3, <1>4, <1>5, <1>6, <1>7, <1>8, <1>9
    DEF Export!Next, Export!Rest, Export!vars, exportVars

\* All of the text is received if it is as long as the document and nothing of it is
\* left in the buffer.
LEMMA CompleteText ==
    ASSUME ExportInv, next = Export!Wanted, Len(Text) = Len(Goal), Len(out) = Len(Goal),
           ~\E i \in 1..Len(Text) : i = Len(Text) /\ Text[i][1] = "part" /\ export \in {"broken", "failed"}
    PROVE  out = Goal /\ Export!FitsBytes(Export!Wanted)
  <1>1. ExportTypes /\ buffer \in Seq(Tokens) /\ out \in Seq(Tokens) /\ Goal \in Seq(Tokens)
    BY GoalIs DEF ExportInv, ExportTypes
  <1>2. \A i \in 1..Len(out) : i \in 1..Len(Text) /\ Text[i] = out[i]
    BY SMTT(30), <1>1 DEF Text
  <1>3. \A i \in 1..Len(Text) : Text[i] = Goal[i]
    BY Zenon DEF ExportInv, TextIsRight, Right
  <1>4. \A i \in 1..Len(out) : out[i] = Goal[i]
    BY <1>2, <1>3, Zenon
  <1>5. out = Goal
    <2>1. \A s, t \in Seq(Tokens) : Len(s) = Len(t) /\ (\A i \in 1..Len(s) : s[i] = t[i]) => s = t
      BY SMTT(30)
    <2> QED
      BY <1>1, <1>4, <2>1, ZenonT(60)
  <1>6. Export!FitsBytes(Export!Wanted)
    BY Zenon DEF ExportInv, BytesAreCounted, Export!FitsBytes
  <1> QED
    BY ZenonT(60), <1>5, <1>6

\* What Export sends is the right document as far as it goes, for any rows and limits:
\* a JSON array that arrives closed, or an export that succeeds, is complete.
THEOREM ExportTellsTheTruth == Export!Spec => []ExportIsHonest
  <1>1. ExportInv => Export!OutIsPrefix
    <2> SUFFICES ASSUME ExportInv, NEW i \in DOMAIN out
                 PROVE  \/ i \in DOMAIN Goal /\ out[i] = Goal[i]
                        \/ i = Len(out) /\ out[i][1] = "part"
      BY Zenon DEF Export!OutIsPrefix, Goal
    <2>1. buffer \in Seq(Tokens) /\ out \in Seq(Tokens) /\ Goal \in Seq(Tokens) /\ ExportTypes
      BY Zenon, GoalIs DEF ExportInv, ExportTypes
    <2>2. /\ i \in 1..Len(Text) /\ Text[i] = out[i] /\ i \in Nat /\ i >= 1
          /\ (i = Len(Text) => i = Len(out))
      BY <2>1 DEF Text
    <2>3. DOMAIN Goal = 1..Len(Goal) /\ Len(Goal) \in Nat
      BY <2>1
    <2>4. i <= Len(Goal) => i \in DOMAIN Goal
      BY SMTT(30), <2>2, <2>3
    <2> QED
      BY <2>2, <2>4, Zenon DEF ExportInv, TextIsRight, Right
  <1>2. ExportInv => Export!SuccessIsComplete
    <2> SUFFICES ASSUME ExportInv, export = "ok"
                 PROVE  out = Goal /\ Export!FitsBytes(Export!Wanted)
      BY DEF Export!SuccessIsComplete, Goal
    <2>1. next = Export!Wanted /\ Len(Text) = Len(Goal) /\ buffer = <<>> /\ out \in Seq(Tokens)
      BY DEF ExportInv, ExportTypes, TextLength
    <2>2. Len(out) = Len(Text)
      BY <2>1 DEF Text
    <2>3. export \notin {"broken", "failed"}
      OBVIOUS
    <2> QED
      BY <2>1, <2>2, <2>3, CompleteText, Zenon
  <1>3. ExportInv => Export!JsonEndIsVisible
    <2> SUFFICES ASSUME ExportInv, format = "json", NEW i \in DOMAIN out, out[i][1] = "]"
                 PROVE  out = Goal /\ Export!FitsBytes(Export!Wanted)
      BY Zenon DEF Export!JsonEndIsVisible, Goal
    <2> DEFINE w == Export!Length(Export!Wanted)
    <2>1. buffer \in Seq(Tokens) /\ out \in Seq(Tokens) /\ ExportTypes
      BY DEF ExportInv, ExportTypes
    <2>2. /\ i \in 1..Len(Text) /\ Text[i] = out[i] /\ i \in 1..Len(out)
          /\ Len(out) <= Len(Text) /\ Len(out) \in Nat
      BY SMTT(30), <2>1 DEF Text
    <2>3. next = Export!Wanted /\ Len(Text) = Len(Goal)
      BY <2>2, Zenon DEF ExportInv, ClosedIsComplete, Closed
    <2>4. /\ w \in Nat /\ Len(Goal) = w + 1
          /\ \A p \in 1..w : Goal[p][1] # "]" /\ Goal[p][1] # "part"
          /\ Goal[Len(Goal)] = <<"]", 0>>
      BY Zenon, <2>1, GoalIs
    <2> HIDE DEF w
    <2>5. "part" # "]"
      OBVIOUS
    <2>6. Text[i] = Goal[i]
      BY <2>2, <2>5, Zenon DEF ExportInv, TextIsRight, Right
    <2>7. i \notin 1..w
      BY <2>2, <2>4, <2>6, ZenonT(60)
    <2>8. i = Len(Goal) /\ Len(out) = Len(Goal)
      BY SMTT(30), <2>2, <2>3, <2>4, <2>7
    <2>9. Text[Len(Text)][1] = "]"
      BY <2>2, <2>3, <2>8, Zenon
    <2> QED
      BY <2>3, <2>5, <2>8, <2>9, CompleteText, ZenonT(60)
  <1>4. ExportInv => ExportIsHonest
    BY <1>1, <1>2, <1>3 DEF ExportIsHonest, Export!ExportIsHonest
  <1> QED
    BY <1>4, ExportStarts, ExportKeeps, PTL DEF Export!Spec, Export!vars, exportVars
=============================================================================
