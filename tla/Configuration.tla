--------------------------- MODULE Configuration ---------------------------
(***************************************************************************)
(* Loading the configuration: Load, applyEnv, finalize and ControlDSN of   *)
(* backend/internal/config/config.go.  The layers are applied in order,    *)
(* then one function fills in defaults and refuses what is inconsistent.   *)
(*                                                                         *)
(* A text setting has the name of the layer that gave it as its value, or  *)
(* "" for an empty text; "unset" is a layer's silence.  `address' stands   *)
(* for server.http.address and storage.endpoint, which are layered alike   *)
(* and refused when empty; `rest' is whether the durations, the endpoint's *)
(* scheme and a source's protocol, address, parser, framing and zone are   *)
(* valid in themselves.                                                    *)
(***************************************************************************)
EXTENDS Integers, Sequences

CONSTANTS Files,  \* contents of the YAML file
          Envs,   \* settings in the environment
          Flags   \* value of the flag, "" when it is not given

VARIABLES file, env, flag, \* the inputs
          cfg,             \* the Config under construction
          next,            \* sources checked
          load             \* "file", "env", "flags", "limits", "sources",
                           \* "control", "accepted" or "refused"

inputs == <<file, env, flag>>
vars == <<inputs, cfg, next, load>>

Default ==
    [address |-> "default", dsn |-> "", dsnFile |-> "", enabled |-> FALSE,
     queue |-> 3, batch |-> 2, attempts |-> 5, backoff |-> <<1, 2>>, rest |-> TRUE,
     sources |-> <<>>]

Init ==
    /\ file \in Files /\ env \in Envs /\ flag \in Flags
    /\ cfg = Default /\ next = 0 /\ load = "file"
-----------------------------------------------------------------------------
Refuse == load' = "refused" /\ UNCHANGED <<inputs, cfg, next>>

Over(layer, value) == IF layer = "unset" THEN value ELSE layer

\* No path, or an existing file that decodes: its keys replace the defaults.
ReadFile ==
    /\ load = "file"
    /\ \/ /\ cfg' = [cfg EXCEPT !.address = Over(file.address, @), !.dsn = Over(file.dsn, @),
                         !.dsnFile = Over(file.dsnFile, @), !.enabled = file.enabled,
                         !.queue = file.queue, !.batch = file.batch,
                         !.attempts = file.attempts, !.backoff = file.backoff,
                         !.rest = file.rest, !.sources = file.sources]
          /\ load' = "env"
       \/ UNCHANGED cfg /\ load' \in {"env", "refused"}
    /\ UNCHANGED <<inputs, next>>

applyEnvIfEmpty ==
    /\ load = "env"
    /\ cfg' = [cfg EXCEPT !.address = IF @ = "" THEN Over(env.address, @) ELSE @,
                   !.enabled = IF env.enabled = "true" THEN TRUE ELSE @]
    /\ load' = "flags" /\ UNCHANGED <<inputs, next>>

\* A variable that is set replaces, even by an empty text.
applyEnv ==
    /\ load = "env"
    /\ \/ /\ env.enabled # "maybe"
          /\ cfg' = [cfg EXCEPT !.address = Over(env.address, @), !.dsn = Over(env.dsn, @),
                         !.dsnFile = Over(env.dsnFile, @),
                         !.enabled = CASE env.enabled = "true"  -> TRUE
                                       [] env.enabled = "false" -> FALSE
                                       [] env.enabled = "unset" -> @]
          /\ load' = "flags" /\ UNCHANGED <<inputs, next>>
       \/ env.enabled = "maybe" /\ Refuse   \* ParseBool

ApplyFlags ==
    /\ load = "flags"
    /\ cfg' = [cfg EXCEPT !.address = IF flag # "" THEN flag ELSE @]
    /\ load' = "limits"
    /\ UNCHANGED <<inputs, next>>
-----------------------------------------------------------------------------
(* finalize *)

LimitsValid ==
    /\ cfg.rest /\ cfg.address # ""
    /\ cfg.queue > 0 /\ cfg.batch > 0 /\ cfg.batch <= cfg.queue
    /\ cfg.attempts > 0
    /\ cfg.backoff[1] > 0 /\ cfg.backoff[2] > 0 /\ cfg.backoff[1] <= cfg.backoff[2]

CheckLimits ==
    /\ load = "limits"
    /\ \/ LimitsValid /\ load' = "sources" /\ UNCHANGED <<inputs, cfg, next>>
       \/ ~LimitsValid /\ Refuse

\* 0 and "" stand for the defaults, 1024 connections and 64 KiB among them.
Filled(s) == [s EXCEPT !.limit = IF @ = 0 THEN 1024 ELSE @]

SourceValidAlone(s) == s.id # "" /\ s.rest /\ Filled(s).limit > 0

SourceValid(s) ==
    /\ s.id # "" /\ \A i \in 1..next : cfg.sources[i].id # s.id
    /\ s.rest /\ Filled(s).limit > 0

CheckSource ==
    /\ load = "sources" /\ next < Len(cfg.sources)
    /\ LET s == cfg.sources[next + 1] IN
         \/ /\ SourceValid(s)
            /\ cfg' = [cfg EXCEPT !.sources[next + 1] = Filled(s)]
            /\ next' = next + 1
            /\ UNCHANGED <<inputs, load>>
         \/ ~SourceValid(s) /\ Refuse

SourcesChecked ==
    /\ load = "sources" /\ next = Len(cfg.sources)
    /\ load' = "control"
    /\ UNCHANGED <<inputs, cfg, next>>

CheckControl ==
    /\ load = "control"
    /\ IF cfg.enabled /\ cfg.dsn = "" /\ cfg.dsnFile = "" THEN Refuse
       ELSE load' = "accepted" /\ UNCHANGED <<inputs, cfg, next>>

\* The text, or else the contents of the file, which is taken to be readable and
\* not blank.
ControlDSN == IF cfg.dsn # "" THEN cfg.dsn ELSE cfg.dsnFile

Rest == load \in {"accepted", "refused"} /\ UNCHANGED vars

Next ==
    \/ ReadFile \/ applyEnv \/ ApplyFlags \/ CheckLimits
    \/ CheckSource \/ SourcesChecked \/ CheckControl \/ Rest

Spec == Init /\ [][Next]_vars
-----------------------------------------------------------------------------
(* Properties *)

\* What Load accepts meets the assumptions that the other modules make of their
\* constants: positive limits, a batch that fits the queue, at least one attempt,
\* sources that can be told apart, each with room for a message and a connection.
AcceptedIsUsable ==
    load = "accepted" =>
        /\ 0 < cfg.batch /\ cfg.batch <= cfg.queue /\ cfg.attempts > 0
        /\ 0 < cfg.backoff[1] /\ cfg.backoff[1] <= cfg.backoff[2]
        /\ \A i, j \in DOMAIN cfg.sources :
             cfg.sources[i].limit > 0 /\ (cfg.sources[i].id = cfg.sources[j].id => i = j)
        /\ cfg.enabled => ControlDSN # ""

\* The address that is used is that of the highest layer that has one: a flag, the
\* environment, the file if it was given, the default.
HighestLayerWins ==
    load = "accepted" =>
        CASE flag # ""                              -> cfg.address = flag
          [] flag = "" /\ env.address # "unset"     -> cfg.address = env.address
          [] OTHER -> cfg.address \in {file.address, "default"} \ {"", "unset"}

\* What Load accepts was given by the right layers and is usable.
LoadIsSound == AcceptedIsUsable /\ HighestLayerWins
=============================================================================
