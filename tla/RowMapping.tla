----------------------------- MODULE RowMapping -----------------------------
(***************************************************************************)
(* What becomes of the fields of a JSON object that is posted to /ingest:  *)
(* the loop of ingestJSON in backend/internal/api/server.go makes an entry *)
(* of it, and toDirectRow of backend/internal/storage/victorialogs/row.go  *)
(* a row of the entry.  Go iterates over the map of dynamic fields in an   *)
(* arbitrary order.                                                        *)
(*                                                                         *)
(* A key is a tuple of the parts that its dots separate.  A value is the   *)
(* key under which it was sent, or "server" for one that the service sets, *)
(* or "nil" for the text "<nil>".                                          *)
(***************************************************************************)
EXTENDS Naturals, Sequences

CONSTANT Keys  \* keys that clients use besides "message"

VARIABLES object, \* keys of the posted object
          fields, \* LogEntry.Fields that are still to be copied
          row,    \* the row under construction: a function on its keys
          stage   \* "entry", "fields" or "stored"

vars == <<object, fields, row, stage>>

Init ==
    /\ object \in {S \cup {<<"message">>} : S \in SUBSET Keys}
    /\ fields = {} /\ row = [k \in {} |-> k] /\ stage = "entry"
-----------------------------------------------------------------------------
\* Keys that ingestJSON does not keep as dynamic fields.
Consumed == {<<"timestamp">>, <<"message">>, <<"hostname">>, <<"level">>, <<"severity">>,
             <<"service">>, <<"app_name">>}

\* fmt.Sprint of the first key of the two that the object has.
FirstOf(k, l) == CASE k \in object -> k
                   [] k \notin object /\ l \in object -> l
                   [] OTHER -> <<"nil">>

\* Fields that toDirectRow always sets, or sets for every posted entry.
ServerKeys == {<<"id">>, <<"tenant_id">>, <<"received_at">>, <<"protocol">>, <<"format">>,
               <<"source_id">>, <<"source">>, <<"source_type">>, <<"parse_status">>,
               <<"schema_version">>}

CanonicalKeys ==
    ServerKeys \cup {<<"message">>, <<"timestamp">>, <<"severity_name">>, <<"app_name">>}
               \cup (object \cap {<<"hostname">>})

\* SourceIP and the other optional fields are empty and leave no key.
Canonical(k) ==
    CASE k \in ServerKeys             -> <<"server">>
      [] k = <<"timestamp">>          -> IF k \in object THEN k ELSE <<"server">>
      [] k = <<"severity_name">>      -> FirstOf(<<"severity">>, <<"level">>)
      [] k = <<"app_name">>           -> FirstOf(<<"app_name">>, <<"service">>)
      [] k \in {<<"message">>, <<"hostname">>} -> k

MakeEntry ==
    /\ stage = "entry"
    /\ row' = [k \in CanonicalKeys |-> Canonical(k)]
    /\ fields' = object \ Consumed
    /\ stage' = "fields"
    /\ UNCHANGED object

Set(k, v) == row' = [l \in DOMAIN row \cup {k} |-> IF l = k THEN v ELSE row[l]]

PlaceOverwriting(k) ==
    /\ stage = "fields" /\ k \in fields
    /\ Set(k, k)
    /\ fields' = fields \ {k}
    /\ UNCHANGED <<object, stage>>

PlaceOrSkip(k) ==
    /\ stage = "fields" /\ k \in fields
    /\ IF k \in DOMAIN row THEN UNCHANGED row ELSE Set(k, k)
    /\ fields' = fields \ {k}
    /\ UNCHANGED <<object, stage>>

\* One iteration of the range over e.Fields.
Place(k) ==
    /\ stage = "fields" /\ k \in fields
    /\ Set(IF k \in DOMAIN row THEN <<"event">> \o k ELSE k, k)
    /\ fields' = fields \ {k}
    /\ UNCHANGED <<object, stage>>

\* The labels of a posted entry are empty.
Store ==
    /\ stage = "fields" /\ fields = {}
    /\ stage' = "stored"
    /\ UNCHANGED <<object, fields, row>>

Rest == stage = "stored" /\ UNCHANGED vars

Next == MakeEntry \/ (\E k \in Keys : Place(k)) \/ Store \/ Rest

Spec == Init /\ [][Next]_vars
-----------------------------------------------------------------------------
(* Properties *)

\* Whatever a client posts, and in whatever order it is copied, the fields that the
\* service has set keep their values.
CanonicalIsKept ==
    stage # "entry" => \A k \in CanonicalKeys : row[k] = Canonical(k)

\* A posted field is lost only if its name is "event." and the name of another posted
\* field, which was put aside under it afterwards.
LostOnlyByCollision ==
    stage = "stored" =>
        \A k \in object \ Consumed :
            \/ \E l \in DOMAIN row : row[l] = k
            \/ Head(k) = "event" /\ Tail(k) \in object

\* toDirectRow keeps the service's fields, and the posted ones up to a collision.
FieldsAreKept == CanonicalIsKept /\ LostOnlyByCollision
=============================================================================
