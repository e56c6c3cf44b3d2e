----------------------------- MODULE MCQueries -----------------------------
(***************************************************************************)
(* The queries of logs for TLC: the rows that are stored before a request, *)
(* and the states in which the queries that are not followed rest.         *)
(***************************************************************************)
EXTENDS Queries

MCStored == {<<0, "x", 0>>}
-----------------------------------------------------------------------------
PagingRests ==
    /\ time = [r \in Rows |-> 0] /\ visible = {} /\ initial = {} /\ limit = 1
    /\ cursor = None /\ walk = "done" /\ got = <<>> /\ cursors = {}

ExportRests ==
    /\ format = "json" /\ valid = TRUE /\ hits = <<>> /\ next = 0 /\ bytes = 0
    /\ export = "start" /\ buffer = <<>> /\ out = <<>>

StatsRest ==
    /\ span = 2 /\ rows = {} /\ arrived = 0
    /\ stats = "total" /\ total = 0 /\ volume = <<>> /\ groups = <<>>

QueriesInit ==
    /\ path \in {"paging", "export", "stats"}
    /\ IF path = "paging" THEN Init ELSE PagingRests
    /\ IF path = "export" THEN Export!Init ELSE ExportRests
    /\ IF path = "stats" THEN Stats!Init ELSE StatsRest

QueriesSpec == QueriesInit /\ [][QueriesNext]_queriesVars /\ Fairness
=============================================================================
