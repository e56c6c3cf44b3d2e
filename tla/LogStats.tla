------------------------------ MODULE LogStats ------------------------------
(***************************************************************************)
(* POST /api/v1/logs/stats and /fields/{field}/values: Stats,              *)
(* groupedCounts and FieldValues of backend/internal/storage/victorialogs/ *)
(* client.go.  The parts of the statistics are queries of their own, one   *)
(* after the other, while rows are ingested; one that fails fails all.     *)
(* Times are minutes, and the interval begins at a boundary of its         *)
(* buckets.  The three groups are represented by one, whose value "" is a  *)
(* row without the field; it is also the field that FieldValues counts.    *)
(***************************************************************************)
EXTENDS Naturals, FiniteSets

CONSTANTS Spans,        \* lengths of the query's interval, which begins at 0
          Times,        \* minutes at which rows arrive
          Values,       \* values of the grouped field, "" among them
          Stored,       \* rows <<minute, value, 0>> from before the request
          MaxArrivals,  \* bound: rows that arrive during it
          VolumeLimit,  \* 500
          GroupLimit    \* 20 or 10

VARIABLES span,    \* the interval of the query is 0..span
          rows,    \* the rows <<minute, value, n>>, n telling equal ones apart
          arrived, \* rows that arrived during the request
          stats,   \* the query that comes next, or "done", "failed"
          total,   \* out.Total
          volume,  \* out.Volume: count by bucket
          groups   \* out.TopHosts, ...: count by value

vars == <<span, rows, arrived, stats, total, volume, groups>>

Init ==
    /\ span \in Spans
    /\ rows = Stored /\ arrived = 0
    /\ stats \in {"total", "values"} /\ total = 0 /\ volume = <<>> /\ groups = <<>>

Ingest(m, v) ==
    /\ arrived < MaxArrivals /\ arrived' = arrived + 1
    /\ rows' = rows \cup {<<m, v, Cardinality({r \in rows : r[1] = m /\ r[2] = v})>>}
    /\ UNCHANGED <<span, stats, total, volume, groups>>
-----------------------------------------------------------------------------
\* The value that stats by reports for a row without the field.
NoValue == ""

Hour == 60
Day == 24 * Hour

Step ==
    CASE span > 7 * Day                       -> 6 * Hour
      [] span > 2 * Day /\ span <= 7 * Day    -> Hour
      [] span > 6 * Hour /\ span <= 2 * Day   -> 5
      [] OTHER                                -> 1

CountIn(minutes, values) ==
    Cardinality({r \in rows : r[1] \in minutes /\ r[2] \in values})

Interval == 0..span

Bucket(m) == m \div Step

BucketMinutes(b) == {m \in Interval : Bucket(m) = b}

\* Buckets that have rows: the backend reports no others.
FullBuckets ==
    {Bucket(r[1]) : r \in {row \in rows : row[1] \in Interval}}

Smallest(S, k) == {b \in S : Cardinality({c \in S : c < b}) < k}

CountTotal ==
    /\ stats = "total"
    /\ total' = CountIn(Interval, Values)
    /\ stats' = "volume"
    /\ UNCHANGED <<span, rows, arrived, volume, groups>>

CountVolumeShifted ==
    /\ stats = "volume"
    /\ volume' = [b \in Smallest(FullBuckets, VolumeLimit) |->
                     CountIn(BucketMinutes(b) \ {b * Step}, Values)]
    /\ stats' = "groups"
    /\ UNCHANGED <<span, rows, arrived, total, groups>>

\* stats by (_time:step) | sort by (_time) asc | limit 500
CountVolume ==
    /\ stats = "volume"
    /\ volume' = [b \in Smallest(FullBuckets, VolumeLimit) |->
                     CountIn(BucketMinutes(b), Values)]
    /\ stats' = "groups"
    /\ UNCHANGED <<span, rows, arrived, total, groups>>

Lesser(a, b) == IF a <= b THEN a ELSE b

Present(v) == CountIn(Interval, {v}) > 0

\* The first of the values by number of rows; ties are broken either way.
TopValues ==
    {S \in SUBSET {v \in Values : Present(v)} :
        /\ Cardinality(S) = Lesser(GroupLimit, Cardinality({v \in Values : Present(v)}))
        /\ \A v \in S, w \in {v \in Values : Present(v)} \ S :
             CountIn(Interval, {v}) >= CountIn(Interval, {w})}

GroupsBeforeEnd ==
    \E S \in TopValues :
        groups' = [v \in S \ {NoValue} |-> CountIn(Interval \ {span}, {v})]

\* The rows without a value are left out after the limit was applied.
Groups == \E S \in TopValues : groups' = [v \in S \ {NoValue} |-> CountIn(Interval, {v})]

CountGroups ==
    /\ stats = "groups"
    /\ Groups
    /\ stats' = "done"
    /\ UNCHANGED <<span, rows, arrived, total, volume>>

FieldValues ==
    /\ stats = "values"
    /\ Groups
    /\ stats' = "done"
    /\ UNCHANGED <<span, rows, arrived, total, volume>>

\* An invalid query, or a failure of any of the backend's requests: 400.
StatsFails ==
    /\ stats \in {"total", "volume", "groups", "values"}
    /\ stats' = "failed"
    /\ UNCHANGED <<span, rows, arrived, total, volume, groups>>

Rest == stats \in {"done", "failed"} /\ UNCHANGED vars

Next ==
    \/ \E m \in Times, v \in Values : Ingest(m, v)
    \/ CountTotal \/ CountVolume \/ CountGroups \/ FieldValues \/ StatsFails \/ Rest

Spec == Init /\ [][Next]_vars
-----------------------------------------------------------------------------
(* Properties *)

\* The sum of the counts f: one mark for each row that is counted.
Sum(f) == Cardinality(UNION {{k} \X (1..f[k]) : k \in DOMAIN f})

\* The chart accounts for every row of the total, and for rows that came between
\* the two queries, unless more buckets have rows than the answer may hold.
ChartCoversTotal ==
    stats \in {"groups", "done"} /\ Cardinality(DOMAIN volume) < VolumeLimit =>
        total <= Sum(volume)

\* With room for all values, and for the empty one that the limit counts as well,
\* the groups and the rows without a value account for every row of the total.
GroupsCoverTotal ==
    stats = "done" /\ Cardinality(DOMAIN groups) + 1 < GroupLimit =>
        total <= Sum(groups) + CountIn(Interval, {NoValue})

\* The parts of the statistics, queried one after the other, do not contradict each
\* other: within their limits the later ones account for the total.
StatsAgree == ChartCoversTotal /\ GroupsCoverTotal
=============================================================================
