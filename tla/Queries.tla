------------------------------ MODULE Queries ------------------------------
(***************************************************************************)
(* The queries of logs: a walk through the pages of a search, an export,   *)
(* and statistics.  They share no state, and a behaviour follows one of    *)
(* them while the others rest.                                             *)
(***************************************************************************)
EXTENDS QueryPaging

CONSTANTS Sizes, MaxHits, MaxRows, MaxBytes,    \* of LogExport
          Spans, Times, Values, Stored,         \* of LogStats
          MaxArrivals, VolumeLimit, GroupLimit

ASSUME ExportAssumption ==
    Sizes \subseteq Nat /\ MaxHits \in Nat /\ MaxRows \in Nat /\ MaxBytes \in Nat

ASSUME StatsAssumption ==
    /\ Spans \subseteq Nat /\ Times \subseteq Nat
    /\ IsFiniteSet(Stored) /\ \A r \in Stored : r[1] \in Nat
    /\ VolumeLimit \in Nat /\ GroupLimit \in Nat

VARIABLES path,
          format, valid, hits, next, bytes, export, buffer, out,
          span, rows, arrived, stats, total, volume, groups

exportVars == <<format, valid, hits, next, bytes, export, buffer, out>>
statsVars == <<span, rows, arrived, stats, total, volume, groups>>
queriesVars == <<path, vars, exportVars, statsVars>>

Export == INSTANCE LogExport

Stats == INSTANCE LogStats

QueriesNext ==
    \/ path = "paging" /\ Next /\ UNCHANGED <<path, exportVars, statsVars>>
    \/ path = "export" /\ Export!Next /\ UNCHANGED <<path, vars, statsVars>>
    \/ path = "stats" /\ Stats!Next /\ UNCHANGED <<path, vars, exportVars>>
-----------------------------------------------------------------------------
(* Properties of the components *)

\* What Export sends is right as far as it goes, and its end can be told.
ExportIsHonest == Export!ExportIsHonest

\* The parts that Stats queries one after the other do not contradict each other.
StatsAgree == Stats!StatsAgree
=============================================================================
