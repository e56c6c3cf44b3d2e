---------------------------- MODULE QueryPaging ----------------------------
(***************************************************************************)
(* POST /api/v1/logs/search and a client that follows its cursors: Query   *)
(* of backend/internal/storage/victorialogs/client.go with Validate and    *)
(* LogsQL of backend/internal/query/builder.go, while rows are ingested.   *)
(*                                                                         *)
(* Times are numbers.  A query asks for the interval Start..End; the rows  *)
(* are those that its text, filters and native text match.  A native text  *)
(* is taken to be one conjunct: LogsQL inserts it as it stands, so that an *)
(* `or' in it must be in parentheses.  VictoriaLogs returns rows of equal  *)
(* time in any order.  DefaultLimit stands for 100, MaxLimit for 1000 and  *)
(* MaxRange for 31 days.                                                   *)
(***************************************************************************)
EXTENDS Integers, Sequences, FiniteSets

CONSTANTS Rows, Start, End, MaxRange, MaxTime, Limits, DefaultLimit, MaxLimit

ASSUME PagingAssumption ==
    /\ IsFiniteSet(Rows)
    /\ MaxTime \in Nat /\ Limits \subseteq Int
    /\ DefaultLimit \in Nat /\ MaxLimit \in Nat

None == -1

VARIABLES time,      \* event time of each row
          visible,   \* rows in the backend
          limit,     \* limit of the client's query; 0 when it sent none
          cursor,    \* cursor of the next request: a time, or None
          walk,      \* "asking", "done", "refused"
          got,       \* rows received so far, page after page
          cursors,   \* history: the cursors of the walk
          initial    \* history: rows that were there from its beginning

vars == <<time, visible, limit, cursor, walk, got, cursors, initial>>
query == <<time, limit, initial>>

Init ==
    /\ time \in [Rows -> 0..MaxTime]
    /\ visible \in SUBSET Rows /\ initial = visible
    /\ limit \in Limits
    /\ cursor = None /\ walk = "asking" /\ got = <<>> /\ cursors = {}

Ingest(r) ==
    /\ r \notin visible
    /\ visible' = visible \cup {r}
    /\ UNCHANGED <<query, cursor, walk, got, cursors>>
-----------------------------------------------------------------------------
(* Validate and LogsQL *)

\* LogsQL validates a copy: the default is filled in there and nowhere else.  The
\* sizes of the text and the form of the filters are left out with the text; a query
\* that is refused for them is one that fails at once.
Validate ==
    LET n == IF limit = 0 THEN DefaultLimit ELSE limit
    IN  Start < End /\ End - Start <= MaxRange /\ n \in 1..MaxLimit

InInterval(r) == time[r] \in Start..End

BeforeCursorOrAt(r) == cursor = None \/ time[r] <= cursor

\* _time:<cursor
BeforeCursor(r) == cursor = None \/ time[r] < cursor

Matches(r) == InInterval(r) /\ BeforeCursor(r)

Matching == {r \in visible : Matches(r)}
-----------------------------------------------------------------------------
(* Query *)

InSeq(s) == {s[i] : i \in DOMAIN s}

\* sort by (_time) desc | limit k
Newest(k) ==
    LET n == IF Cardinality(Matching) < k THEN Cardinality(Matching) ELSE k
    IN  {s \in [1..n -> Matching] :
            /\ \A i, j \in 1..n : i < j => s[i] # s[j] /\ time[s[i]] >= time[s[j]]
            /\ \A r \in Matching \ InSeq(s), i \in 1..n : time[r] <= time[s[i]]}

PageWithFirstTime(rows) ==
    LET truncated == Len(rows) > limit
        data == IF truncated THEN SubSeq(rows, 1, limit) ELSE rows
    IN  /\ got' = got \o data
        /\ IF truncated /\ data # <<>>
           THEN /\ cursor' = time[data[1]]
                /\ cursors' = cursors \cup {cursor'}
                /\ UNCHANGED walk
           ELSE walk' = "done" /\ UNCHANGED <<cursor, cursors>>

PageWithoutData(rows) ==
    LET truncated == Len(rows) > limit
        data == IF truncated THEN SubSeq(rows, 1, limit) ELSE rows
    IN  /\ got' = got \o data
        /\ IF truncated
           THEN /\ cursor' = IF data = <<>> THEN cursor ELSE time[data[Len(data)]]
                /\ cursors' = cursors \cup {cursor'}
                /\ UNCHANGED walk
           ELSE walk' = "done" /\ UNCHANGED <<cursor, cursors>>

\* rows is the result of a request for one row more than the limit.
Page(rows) ==
    LET truncated == Len(rows) > limit
        data == IF truncated THEN SubSeq(rows, 1, limit) ELSE rows
    IN  /\ got' = got \o data
        /\ IF truncated /\ data # <<>>
           THEN /\ cursor' = time[data[Len(data)]]
                /\ cursors' = cursors \cup {cursor'}
                /\ UNCHANGED walk
           ELSE walk' = "done" /\ UNCHANGED <<cursor, cursors>>

QueryWithoutExtraRow ==
    /\ walk = "asking"
    /\ Validate
    /\ \E rows \in Newest(limit) : Page(rows)
    /\ UNCHANGED <<query, visible>>

Query ==
    /\ walk = "asking"
    /\ Validate
    /\ \E rows \in Newest(limit + 1) : Page(rows)
    /\ UNCHANGED <<query, visible>>

\* Every error is answered 400, that of the backend too: the client gives up.
QueryFails ==
    /\ walk = "asking"
    /\ walk' = "refused"
    /\ UNCHANGED <<query, visible, cursor, got, cursors>>

Rest == walk # "asking" /\ UNCHANGED vars

Next == (\E r \in Rows : Ingest(r)) \/ Query \/ QueryFails \/ Rest

Spec == Init /\ [][Next]_vars

\* The client goes on asking for pages; the backend need not fail, but an invalid
\* query is refused.
Fairness == WF_vars(Query) /\ WF_vars(~Validate /\ QueryFails)
-----------------------------------------------------------------------------
(* Properties *)

TypeOK ==
    /\ time \in [Rows -> 0..MaxTime]
    /\ visible \subseteq Rows /\ initial \subseteq visible
    /\ limit \in Limits
    /\ cursor \in Int /\ cursors \subseteq Int
    /\ walk \in {"asking", "done", "refused"}
    /\ got \in Seq(Rows)

\* The cursor stands behind everything that was received, and before nothing else:
\* it is the time of the last row.
CursorIsBoundary ==
    walk = "asking" /\ cursor # None =>
        /\ got # <<>> /\ cursor = time[got[Len(got)]]
        /\ \A i \in DOMAIN got : time[got[i]] >= cursor

\* The pages of a walk are newest first and disjoint, whatever is ingested in the
\* meantime: no row is received twice, and none is newer than one before it.
PagesDescend ==
    \A i, j \in DOMAIN got : i < j => got[i] # got[j] /\ time[got[i]] >= time[got[j]]

\* A complete walk misses a row that was there from the beginning only if the row
\* has the time at which a page ended: the cursor skips ties.
OnlyTiesAreSkipped ==
    walk = "done" /\ limit # 0 =>
        \A r \in initial : InInterval(r) => r \in InSeq(got) \/ time[r] \in cursors

\* The walk comes to an end although rows keep coming.
WalkEnds == <>(walk # "asking")

\* Following the cursors of Query visits each row at most once, newest first, and
\* every row but the ties.
PagesAreExact == PagesDescend /\ OnlyTiesAreSkipped
=============================================================================
