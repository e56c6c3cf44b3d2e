------------------------------ MODULE Service ------------------------------
(***************************************************************************)
(* The two programs: the life of the service, the loading of its           *)
(* configuration, the load generator, the batches posted to POST /ingest,  *)
(* and the rows that become of posted objects.  They share no state, and a *)
(* behaviour follows one of them while the others rest.                    *)
(***************************************************************************)
EXTENDS Lifecycle, Integers, Sequences

CONSTANTS Texts,                                 \* values of a text setting
          Files, Envs, Flags,                    \* of Configuration
          Count, Rate, Burst, BatchSize, MaxTime,\* of LoadGenerator
          Bodies, MaxItems, MaxTries,            \* of HttpIngest
          Parts, Keys                            \* of RowMapping: keys, and the parts of keys

\* What the YAML decoder, os.LookupEnv and the flag package can deliver.
ASSUME TextsAssumption == {"", "default"} \subseteq Texts

ASSUME FilesAssumption ==
    Files \subseteq [address : Texts, dsn : Texts, dsnFile : Texts, enabled : BOOLEAN,
                     queue : Int, batch : Int, attempts : Int, backoff : Int \X Int,
                     rest : BOOLEAN,
                     sources : Seq([id : Texts, limit : Int, rest : BOOLEAN])]

ASSUME EnvsAssumption ==
    Envs \subseteq [address : Texts, dsn : Texts, dsnFile : Texts,
                    enabled : {"unset", "true", "false", "maybe"}]

ASSUME FlagsAssumption == Flags \subseteq Texts

ASSUME GeneratorAssumption ==
    Count \in Nat /\ Rate \in Nat /\ Burst \in Nat /\ BatchSize \in Nat /\ MaxTime \in Nat

ASSUME BodiesAssumption ==
    /\ Bodies \subseteq [shape : {"ndjson", "array", "single"},
                         items : Seq({"ok", "no_message", "bad_time", "not_object", "syntax"})]
    /\ MaxItems \in Nat

ASSUME KeysAssumption == "event" \in Parts /\ Keys \subseteq Seq(Parts)

VARIABLES path,
          file, env, flag, cfg, next, load,
          protocol, time, run, target, sent, buffered, written, batch,
          body, tries, handler, answer, stored,
          object, fields, row, stage

configurationVars == <<file, env, flag, cfg, next, load>>
generatorVars == <<protocol, time, run, target, sent, buffered, written, batch>>
ingestVars == <<body, tries, handler, answer, stored>>
mappingVars == <<object, fields, row, stage>>
serviceVars == <<path, vars, configurationVars, generatorVars, ingestVars, mappingVars>>

Configuration == INSTANCE Configuration

Generator == INSTANCE LoadGenerator

Ingest == INSTANCE HttpIngest

Mapping == INSTANCE RowMapping

ServiceNext ==
    \/ /\ path = "lifecycle" /\ Next
       /\ UNCHANGED <<path, configurationVars, generatorVars, ingestVars, mappingVars>>
    \/ /\ path = "configuration" /\ Configuration!Next
       /\ UNCHANGED <<path, vars, generatorVars, ingestVars, mappingVars>>
    \/ /\ path = "generator" /\ Generator!Next
       /\ UNCHANGED <<path, vars, configurationVars, ingestVars, mappingVars>>
    \/ /\ path = "ingest" /\ Ingest!Next
       /\ UNCHANGED <<path, vars, configurationVars, generatorVars, mappingVars>>
    \/ /\ path = "mapping" /\ Mapping!Next
       /\ UNCHANGED <<path, vars, configurationVars, generatorVars, ingestVars>>
-----------------------------------------------------------------------------
(* Properties of the components *)

\* What Load accepts was given by the right layers and is usable.
LoadIsSound == Configuration!LoadIsSound

\* loggen's run keeps its pace and tells the truth about what it sent.
GeneratorIsHonest == Generator!GeneratorIsHonest

\* The answers of ingestJSON can be relied on.
AnswersAreReliable == Ingest!AnswersAreReliable

\* toDirectRow keeps the service's fields, and the posted ones up to a collision.
FieldsAreKept == Mapping!FieldsAreKept
=============================================================================
