---------------------------- MODULE Rfc3164Time ----------------------------
(***************************************************************************)
(* The year of an RFC 3164 time stamp: nearestRFC3164Time of backend/      *)
(* internal/parser/parser.go.  The stamp has a month, a day and a clock;   *)
(* the year is the one that brings it closest to the time of receipt, of   *)
(* the year before, the same and the year after.                           *)
(*                                                                         *)
(* A time is a number of half days in the listener's time zone, so that    *)
(* the clock and ties between two years are there.                         *)
(***************************************************************************)
EXTENDS Integers, Sequences

CONSTANTS Years,    \* the years that a time stamp could be of
          Received, \* those in which messages are received
          Days      \* numbers that stand in the place of the day

Months == 1..12
-----------------------------------------------------------------------------
(* The calendar of package time *)

Leap(y) == (y % 4 = 0 /\ y % 100 # 0) \/ y % 400 = 0

DaysIn(m, y) ==
    CASE m = 2               -> IF Leap(y) THEN 29 ELSE 28
      [] m \in {4, 6, 9, 11} -> 30
      [] OTHER               -> 31

\* Days before month m of a year, from the table of a common year.
DaysBefore(m, y) ==
    <<0, 31, 59, 90, 120, 151, 181, 212, 243, 273, 304, 334>>[m]
        + (IF Leap(y) /\ m > 2 THEN 1 ELSE 0)

\* Days before year y: a leap day for every fourth year, less the centuries but
\* for every fourth.
Jan1(y) == 365 * (y - 1) + (y - 1) \div 4 - (y - 1) \div 100 + (y - 1) \div 400

\* time.ParseInLocation refuses a day that the month does not have.
Parses(y, stamp) == stamp.day \in 1..DaysIn(stamp.month, y)

Time(y, stamp) == 2 * (Jan1(y) + DaysBefore(stamp.month, y) + stamp.day - 1) + stamp.clock

Distance(t, u) == IF t < u THEN u - t ELSE t - u
-----------------------------------------------------------------------------
VARIABLES stamp,   \* month, day and clock of the message
          year,    \* year of receipt, in the listener's zone
          base,    \* time of receipt
          tried,   \* candidate years tried
          best,    \* best time so far, -1 before the first
          result   \* "none", "time" or "error"

vars == <<stamp, year, base, tried, best, result>>

Stamps == [month : Months, day : Days, clock : 0..1]

\* The pattern lets any one or two digits be a day; a time of receipt is one.
Init ==
    /\ stamp \in Stamps
    /\ year \in Received
    /\ \E now \in Stamps : Parses(year, now) /\ base = Time(year, now)
    /\ tried = 0 /\ best = -1 /\ result = "none"

CandidatesNotLater == <<year - 1, year>>

Candidates == <<year - 1, year, year + 1>>

Closer(t) == best = -1 \/ Distance(t, base) < Distance(best, base)

\* One iteration of the loop.
TryYear ==
    /\ result = "none" /\ tried < Len(Candidates)
    /\ tried' = tried + 1
    /\ LET y == Candidates[tried + 1] IN
         IF Parses(y, stamp)
         THEN /\ best' = IF Closer(Time(y, stamp)) THEN Time(y, stamp) ELSE best
              /\ UNCHANGED result
         ELSE result' = "error" /\ UNCHANGED best
    /\ UNCHANGED <<stamp, year, base>>

Return ==
    /\ result = "none" /\ tried = Len(Candidates)
    /\ result' = "time"
    /\ UNCHANGED <<stamp, year, base, tried, best>>

Rest == result # "none" /\ UNCHANGED vars

Next == TryYear \/ Return \/ Rest

Spec == Init /\ [][Next]_vars
-----------------------------------------------------------------------------
(* Properties *)

\* The time is nearest to the receipt among all years of the calendar, although
\* only three were tried, and so never more than half a year off.
NearestOfAllYears ==
    result = "time" =>
        /\ \A y \in Years : Parses(y, stamp) =>
             Distance(best, base) <= Distance(Time(y, stamp), base)
        /\ Distance(best, base) <= 366
=============================================================================
