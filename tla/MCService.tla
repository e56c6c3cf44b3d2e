----------------------------- MODULE MCService -----------------------------
(***************************************************************************)
(* The two programs for TLC: the configurations that are loaded, the       *)
(* bodies and the keys that are posted, and the states in which the parts  *)
(* that are not followed rest.                                             *)
(***************************************************************************)
EXTENDS Service

Sequence == INSTANCE SequencesExt

(* The inputs: every layering with valid limits, and limits and sources around *)
(* their bounds with nothing layered.                                          *)

Layer(layer) == {"unset", "", layer}

File(address, dsn, dsnFile, enabled) ==
    [address |-> address, dsn |-> dsn, dsnFile |-> dsnFile, enabled |-> enabled,
     queue |-> 3, batch |-> 2, attempts |-> 5, backoff |-> <<1, 2>>, rest |-> TRUE,
     sources |-> <<>>]

LayeredFiles ==
    {File(a, d, f, e) : a \in Layer("file"), d \in Layer("file"), f \in Layer("file"),
                        e \in BOOLEAN}

PlainFile == File("file", "unset", "unset", FALSE)

LimitFiles ==
    {[PlainFile EXCEPT !.queue = q, !.batch = b, !.attempts = n, !.backoff = k, !.rest = r] :
        q \in 0..2, b \in 0..2, n \in 0..1, k \in (0..2) \X (0..2), r \in BOOLEAN}

Source == [id : {"", "s", "t"}, limit : {-1, 0, 1}, rest : BOOLEAN]

SourceFiles ==
    {[PlainFile EXCEPT !.sources = s] :
        s \in {<<a>> : a \in Source} \cup {<<a, b>> : a \in Source, b \in Source}}

MCTexts == Layer("file") \cup Layer("env") \cup {"default", "flag", "s", "t"}

MCFiles == LayeredFiles \cup LimitFiles \cup SourceFiles

MCEnvs == [address : Layer("env"), dsn : Layer("env"), dsnFile : Layer("env"),
           enabled : {"unset", "true", "false", "maybe"}]

Silent == [address |-> "unset", dsn |-> "unset", dsnFile |-> "unset", enabled |-> "unset"]

\* Bodies of up to two values of any kind, or of up to four of the kinds that
\* MaxItems = 2 tells apart.
MCBodies ==
    {[shape |-> s, items |-> v] :
        s \in {"ndjson", "array", "single"},
        v \in Sequence!BoundedSeq({"ok", "no_message", "bad_time", "not_object", "syntax"}, 2)
              \cup Sequence!BoundedSeq({"ok", "no_message", "syntax"}, 4)}

\* Keys that are consumed, canonical, put aside, doubly put aside, and free.
MCKeys == {<<"severity">>, <<"level">>, <<"service">>, <<"hostname">>, <<"id">>,
           <<"event", "id">>, <<"event", "event", "id">>, <<"source_ip">>, <<"vendor">>}

MCParts == UNION {{k[i] : i \in DOMAIN k} : k \in MCKeys}
-----------------------------------------------------------------------------
\* run has returned an error of config.Load.
LifecycleRests ==
    /\ main = "returned" /\ signalled = FALSE /\ accepting = FALSE
    /\ store = "none" /\ pipeline = "none" /\ sources = "none" /\ server = "none"
    /\ deadline = "none" /\ errs = {"config"}
    /\ request = [r \in Requests |-> Unsent]

ConfigurationRests ==
    /\ file = PlainFile /\ env = Silent /\ flag = ""
    /\ cfg = Configuration!Default /\ next = 0 /\ load = "file"

GeneratorRests ==
    /\ protocol = "udp" /\ time = 0 /\ run = "pace" /\ target = 0
    /\ sent = 0 /\ buffered = 0 /\ written = 0 /\ batch = 0

IngestRests ==
    /\ body = [shape |-> "array", items |-> <<>>]
    /\ tries = 0 /\ handler = "idle" /\ answer = 0 /\ stored = <<>>

MappingRests ==
    /\ object = {<<"message">>} /\ fields = {} /\ row = [k \in {} |-> k] /\ stage = "entry"

ServiceInit ==
    /\ path \in {"lifecycle", "configuration", "generator", "ingest", "mapping"}
    /\ IF path = "lifecycle" THEN Init ELSE LifecycleRests
    /\ IF path = "configuration"
       THEN Configuration!Init /\ (file \in LayeredFiles \/ env = Silent)
       ELSE ConfigurationRests
    /\ IF path = "generator" THEN Generator!Init ELSE GeneratorRests
    /\ IF path = "ingest" THEN Ingest!Init ELSE IngestRests
    /\ IF path = "mapping" THEN Mapping!Init ELSE MappingRests

ServiceSpec == ServiceInit /\ [][ServiceNext]_serviceVars /\ Fairness
=============================================================================
