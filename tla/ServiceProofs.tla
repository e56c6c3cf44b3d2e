--------------------------- MODULE ServiceProofs ---------------------------
(***************************************************************************)
(* The life of the service, for any set of requests and with or without a  *)
(* control store: run leaves nothing running, the queue outlives the       *)
(* listeners, and a nil result means a clean shutdown.  The load           *)
(* generator, for any count, rate, allowance and size of a batch.  The     *)
(* configuration, for any file, environment and flag.  POST /ingest, for   *)
(* any body and any number of retries, and the rows that become of posted  *)
(* objects, for any keys and order of copying.                             *)
(***************************************************************************)
EXTENDS Service, TLAPS

\* The places of run before the listeners are closed, and those of shutdown.
Before == {"load", "open", "migrate", "pipeline", "sources", "serve", "select",
           "withdraw", "close"}
Leaving == {"withdraw", "close", "stop", "drain", "shutdown", "wait", "deferred", "returned"}

\* Only a failed start of the listeners is recorded as such, and without any error
\* it was the signal that began the shutdown.
ErrInv ==
    /\ main \in Before => "sources" \notin errs
    /\ main \in Leaving /\ errs = {} => signalled

\* Once Shutdown has returned without an error no request runs.
CleanInv ==
    main \in {"deferred", "returned"} /\ errs = {} => \A r \in Requests : ~Running(r)

\* A request that arrived while draining saw the flag withdrawn, and a probe among
\* them is not answered 200.
RequestInv ==
    \A r \in Requests : /\ request[r].late => ~request[r].accepting
                        /\ request[r].kind = "ready" /\ request[r].late => request[r].code # 200

Inv == Stages /\ ErrInv /\ CleanInv /\ RequestInv

\* Before anything is started the invariant holds.
LEMMA InitInv == Init => Inv
  <1> SUFFICES ASSUME Init PROVE Inv
    OBVIOUS
  <1>1. TypeOK
    BY Zenon DEF Init, TypeOK, Unsent
  <1>2. Stages
    BY <1>1 DEF Init, Stages
  <1>3. ErrInv /\ CleanInv
    BY DEF Init, ErrInv, CleanInv, Before, Leaving
  <1>4. RequestInv
    BY DEF Init, RequestInv, Unsent
  <1> QED
    BY <1>2, <1>3, <1>4 DEF Inv

\* The steps of start-up.
LEMMA StartKeepsInv ==
  ASSUME Inv, Load \/ OpenStore \/ Migrate \/ StartPipeline \/ StartSources \/ Serve
  PROVE  Inv'
  <1> USE DEF Inv, Stages, TypeOK, ErrInv, CleanInv, RequestInv, Before, Leaving, Running,
              Goto, Fail, resources
  <1>1. CASE Load
    <2>1. TypeOK'
      BY <1>1, ZenonT(60) DEF Load
    <2>2. Stages'
      BY <1>1, <2>1 DEF Load
    <2>3. ErrInv' /\ CleanInv' /\ RequestInv'
      BY <1>1 DEF Load
    <2> QED
      BY <2>2, <2>3
  <1>2. CASE OpenStore
    <2>1. TypeOK'
      BY <1>2, ZenonT(60) DEF OpenStore
    <2>2. Stages'
      BY <1>2, <2>1 DEF OpenStore
    <2>3. ErrInv' /\ CleanInv' /\ RequestInv'
      BY <1>2 DEF OpenStore
    <2> QED
      BY <2>2, <2>3
  <1>3. CASE Migrate
    <2>1. TypeOK'
      BY <1>3, ZenonT(60) DEF Migrate
    <2>2. Stages'
      BY <1>3, <2>1 DEF Migrate
    <2>3. ErrInv' /\ CleanInv' /\ RequestInv'
      BY <1>3 DEF Migrate
    <2> QED
      BY <2>2, <2>3
  <1>4. CASE StartPipeline
    <2>1. TypeOK'
      BY <1>4, ZenonT(60) DEF StartPipeline
    <2>2. Stages'
      BY <1>4, <2>1 DEF StartPipeline
    <2>3. ErrInv' /\ CleanInv' /\ RequestInv'
      BY <1>4 DEF StartPipeline
    <2> QED
      BY <2>2, <2>3
  <1>5. CASE StartSources
    <2>1. TypeOK'
      BY <1>5, ZenonT(60) DEF StartSources
    <2>2. Stages'
      BY <1>5, <2>1 DEF StartSources
    <2>3. ErrInv' /\ CleanInv' /\ RequestInv'
      BY <1>5 DEF StartSources
    <2> QED
      BY <2>2, <2>3
  <1>6. CASE Serve
    <2>1. TypeOK'
      BY <1>6, ZenonT(60) DEF Serve
    <2>2. Stages'
      BY <1>6, <2>1 DEF Serve
    <2>3. ErrInv' /\ CleanInv' /\ RequestInv'
      BY <1>6 DEF Serve
    <2> QED
      BY <2>2, <2>3
  <1> QED
    BY Zenon, <1>1, <1>2, <1>3, <1>4, <1>5, <1>6

\* The steps of shutdown.
LEMMA StopKeepsInv ==
  ASSUME Inv,
         \/ StopRequested \/ Withdraw \/ CloseSources \/ StopPipeline \/ PipelineStops
         \/ ShutdownBegins \/ ShutdownReturns \/ CloseStore
  PROVE  Inv'
  <1> USE DEF Inv, Stages, TypeOK, ErrInv, CleanInv, RequestInv, Before, Leaving, Running,
              Goto, Fail, resources
  <1>1. CASE StopRequested
    <2>1. TypeOK'
      BY <1>1, ZenonT(60) DEF StopRequested
    <2>2. Stages'
      BY <1>1, <2>1 DEF StopRequested
    <2>3. ErrInv' /\ CleanInv' /\ RequestInv'
      BY <1>1 DEF StopRequested
    <2> QED
      BY <2>2, <2>3
  <1>2. CASE Withdraw
    <2>1. TypeOK'
      BY <1>2, ZenonT(60) DEF Withdraw
    <2>2. Stages'
      BY <1>2, <2>1 DEF Withdraw
    <2>3. ErrInv' /\ CleanInv' /\ RequestInv'
      BY <1>2 DEF Withdraw
    <2> QED
      BY <2>2, <2>3
  <1>3. CASE CloseSources
    <2>1. TypeOK'
      BY <1>3, ZenonT(60) DEF CloseSources
    <2>2. Stages'
      BY <1>3, <2>1 DEF CloseSources
    <2>3. ErrInv' /\ CleanInv' /\ RequestInv'
      BY <1>3 DEF CloseSources
    <2> QED
      BY <2>2, <2>3
  <1>4. CASE StopPipeline
    <2>1. TypeOK'
      BY <1>4, ZenonT(60) DEF StopPipeline
    <2>2. Stages'
      BY <1>4, <2>1 DEF StopPipeline
    <2>3. ErrInv' /\ CleanInv' /\ RequestInv'
      BY <1>4 DEF StopPipeline
    <2> QED
      BY <2>2, <2>3
  <1>5. CASE PipelineStops
    <2>1. TypeOK'
      BY <1>5, ZenonT(60) DEF PipelineStops
    <2>2. Stages'
      BY <1>5, <2>1 DEF PipelineStops
    <2>3. ErrInv' /\ CleanInv' /\ RequestInv'
      BY <1>5 DEF PipelineStops
    <2> QED
      BY <2>2, <2>3
  <1>6. CASE ShutdownBegins
    <2>1. TypeOK'
      BY <1>6, ZenonT(60) DEF ShutdownBegins
    <2>2. Stages'
      BY <1>6, <2>1 DEF ShutdownBegins
    <2>3. ErrInv' /\ CleanInv' /\ RequestInv'
      BY <1>6 DEF ShutdownBegins
    <2> QED
      BY <2>2, <2>3
  <1>7. CASE ShutdownReturns
    <2>1. TypeOK'
      BY <1>7, ZenonT(60) DEF ShutdownReturns
    <2>2. Stages'
      BY <1>7, <2>1 DEF ShutdownReturns
    <2>3. ErrInv' /\ CleanInv' /\ RequestInv'
      BY <1>7 DEF ShutdownReturns
    <2> QED
      BY <2>2, <2>3
  <1>8. CASE CloseStore
    <2>1. TypeOK'
      BY <1>8, ZenonT(60) DEF CloseStore
    <2>2. Stages'
      BY <1>8, <2>1 DEF CloseStore
    <2>3. ErrInv' /\ CleanInv' /\ RequestInv'
      BY <1>8 DEF CloseStore
    <2> QED
      BY <2>2, <2>3
  <1> QED
    BY ZenonT(60), <1>1, <1>2, <1>3, <1>4, <1>5, <1>6, <1>7, <1>8

\* The server's goroutine, the signal and the timer.
LEMMA OthersKeepInv ==
  ASSUME Inv, Listen \/ AcceptFails \/ Signal \/ Expire
  PROVE  Inv'
  <1> USE DEF Inv, Stages, TypeOK, ErrInv, CleanInv, RequestInv, Before, Leaving, Running,
              resources
  <1>1. CASE Listen
    <2>1. TypeOK'
      BY <1>1, ZenonT(120) DEF Listen
    <2>2. Stages'
      BY <1>1, <2>1 DEF Listen
    <2>3. ErrInv' /\ CleanInv' /\ RequestInv'
      BY <1>1 DEF Listen
    <2> QED
      BY <2>2, <2>3
  <1>2. CASE Signal
    <2>1. TypeOK'
      BY <1>2, ZenonT(120) DEF Signal
    <2>2. Stages'
      BY <1>2, <2>1 DEF Signal
    <2>3. ErrInv' /\ CleanInv' /\ RequestInv'
      BY <1>2 DEF Signal
    <2> QED
      BY <2>2, <2>3
  <1>3. CASE Expire
    <2>1. TypeOK'
      BY <1>3, ZenonT(120) DEF Expire
    <2>2. Stages'
      BY <1>3, <2>1 DEF Expire
    <2>3. ErrInv' /\ CleanInv' /\ RequestInv'
      BY <1>3 DEF Expire
    <2> QED
      BY <2>2, <2>3
  <1>4. CASE AcceptFails
    <2>1. TypeOK'
      BY <1>4, ZenonT(120) DEF AcceptFails
    <2>2. Stages'
      BY <1>4, <2>1 DEF AcceptFails
    <2>3. ErrInv' /\ CleanInv' /\ RequestInv'
      BY <1>4 DEF AcceptFails
    <2> QED
      BY <2>2, <2>3
  <1> QED
    BY ZenonT(60), <1>1, <1>2, <1>3, <1>4

\* A request that arrives finds the server open, so run has not come to its end.
LEMMA ArriveKeepsInv ==
  ASSUME Inv, NEW r \in Requests, NEW kind \in Kinds, Arrive(r, kind)
  PROVE  Inv'
  <1> USE DEF Inv, Arrive, resources
  <1>1. kind \in {"ingest", "ready", "tail", "saved"}
    BY DEF Kinds
  <1>2. Draining \in BOOLEAN /\ (Draining => ~accepting)
    BY DEF Draining
  <1>3. TypeOK'
    BY <1>1, <1>2 DEF Stages, TypeOK
  <1>4. Stages' /\ ErrInv'
    BY <1>3 DEF Stages, ErrInv
  <1>5. CleanInv'
    BY DEF Stages, CleanInv
  <1>6. RequestInv'
    BY <1>2 DEF RequestInv, Stages, TypeOK
  <1> QED
    BY <1>4, <1>5, <1>6

\* An answer ends a request; only a probe that saw the flag set is answered 200.
LEMMA AnswerKeepsInv ==
  ASSUME Inv, NEW r \in Requests, NEW code \in {200, 202, 503}, Answer(r, code), Running(r),
         request[r].kind = "ready" /\ code = 200 => request[r].accepting
  PROVE  Inv'
  <1> USE DEF Inv, Answer, resources
  <1>1. TypeOK'
    BY DEF Stages, TypeOK
  <1>2. Stages' /\ ErrInv'
    BY <1>1 DEF Stages, ErrInv
  <1>3. CleanInv'
    BY DEF CleanInv, Running, Stages, TypeOK
  <1>4. RequestInv'
    BY DEF RequestInv, Stages, TypeOK
  <1> QED
    BY <1>2, <1>3, <1>4

\* The handlers and the ends of live tails are such answers.
LEMMA HandlersKeepInv ==
  ASSUME Inv, NEW r \in Requests, Handler(r) \/ TailEnds(r)
  PROVE  Inv'
  <1>1. CASE IngestAnswers(r)
    BY <1>1, AnswerKeepsInv DEF IngestAnswers
  <1>2. CASE ReadyAnswers(r)
    BY <1>2, AnswerKeepsInv DEF ReadyAnswers
  <1>3. CASE SavedAnswers(r)
    BY <1>3, AnswerKeepsInv DEF SavedAnswers, InStatement
  <1>4. CASE TailEnds(r)
    BY <1>4, AnswerKeepsInv DEF TailEnds
  <1> QED
    BY <1>1, <1>2, <1>3, <1>4 DEF Handler

\* The invariant is inductive.
LEMMA StepKeepsInv == Inv /\ [Next]_vars => Inv'
  <1> SUFFICES ASSUME Inv, [Next]_vars PROVE Inv'
    OBVIOUS
  <1>1. CASE Run
    BY <1>1, StartKeepsInv, StopKeepsInv DEF Run
  <1>2. CASE Listen \/ AcceptFails \/ Signal \/ Expire
    BY <1>2, OthersKeepInv
  <1>3. ASSUME NEW r \in Requests, NEW kind \in Kinds, Arrive(r, kind) PROVE Inv'
    BY <1>3, ArriveKeepsInv
  <1>4. ASSUME NEW r \in Requests, Handler(r) \/ TailEnds(r) PROVE Inv'
    BY <1>4, HandlersKeepInv
  <1>5. CASE UNCHANGED vars
    BY <1>5 DEF vars, resources, Inv, Stages, TypeOK, ErrInv, CleanInv, RequestInv, Running
  <1> QED
    BY <1>1, <1>2, <1>3, <1>4, <1>5 DEF Next, Rest

\* Every reachable state satisfies the invariant.
LEMMA InvHolds == Spec => []Inv
  BY InitInv, StepKeepsInv, PTL DEF Spec

\* Which parts of the service exist, run or have stopped follows from how far run
\* of main.go has come.
THEOREM StagesHold == Spec => []Stages
  <1>1. Inv => Stages
    BY DEF Inv
  <1> QED
    BY <1>1, InvHolds, PTL

\* Whatever failed, run returns with no part left running and the pool closed.
THEOREM RunLeavesNothing == Spec => []NothingLeftRunning
  <1>1. Inv => NothingLeftRunning
    BY DEF Inv, Stages, NothingLeftRunning
  <1> QED
    BY <1>1, InvHolds, PTL

\* A nil result of run means a signal and no request cut off.
THEOREM NilResult == Spec => []NilMeansClean
  <1>1. Inv => NilMeansClean
    BY DEF Inv, ErrInv, CleanInv, Leaving, NilMeansClean
  <1> QED
    BY <1>1, InvHolds, PTL

\* The queue is closed only after every listener.
THEOREM QueueClosesLast == Spec => []QueueClosesAfterListeners
  <1>1. Inv => QueueClosesAfterListeners
    BY DEF Inv, Stages, TypeOK, QueueClosesAfterListeners
  <1> QED
    BY <1>1, InvHolds, PTL

\* A readiness probe that begins while draining is not answered 200.
THEOREM ProbesSeeDraining == Spec => []DrainingIsNotReady
  <1>1. Inv => DrainingIsNotReady
    BY DEF Inv, RequestInv, DrainingIsNotReady
  <1> QED
    BY <1>1, InvHolds, PTL

\* run takes the service down in order, whatever failed and whenever it was told to.
THEOREM RunIsOrderly == Spec => []ShutdownIsOrderly
  <1>1. Stages /\ DrainingIsNotReady /\ NilMeansClean => ShutdownIsOrderly
    BY DEF ShutdownIsOrderly
  <1> QED
    BY <1>1, StagesHold, ProbesSeeDraining, NilResult, PTL
-----------------------------------------------------------------------------
(* The load generator *)

\* The burst under way stays below its target, the target below the rate; what was
\* sent is accounted for by protocol; a batch is under way only in a post.
GeneratorInv ==
    /\ run \in {"pace", "burst", "post", "nil", "error"}
    /\ protocol \in {"udp", "tcp", "http"}
    /\ time \in Nat /\ target \in Nat /\ sent \in Nat
    /\ buffered \in Nat /\ written \in Nat /\ batch \in Nat
    /\ sent + batch <= target /\ target <= Count /\ target <= time * Rate + Burst
    /\ run \in {"pace", "burst", "nil"} => batch = 0
    /\ protocol # "tcp" => buffered = 0
    /\ protocol # "http" => sent = written + buffered /\ batch = 0 /\ run # "post"
    /\ protocol = "http" /\ run # "error" => sent = written
    /\ protocol = "http" => sent <= written /\ written <= sent + batch
    /\ run = "nil" => sent = Count /\ buffered = 0

\* min of two numbers, as the pacing and the batches of loggen use it.
LEMMA MinOfTwo ==
    ASSUME NEW a \in Nat, NEW b \in Nat
    PROVE  Generator!Lesser(a, b) = IF a <= b THEN a ELSE b
  BY DEF Generator!Lesser

\* The start of run satisfies the invariant.
LEMMA GeneratorStarts == Generator!Init => GeneratorInv
  BY GeneratorAssumption, SMT DEF Generator!Init, GeneratorInv

\* Every step of the generator, a failed write or post included, keeps it.
LEMMA GeneratorKeeps == GeneratorInv /\ [Generator!Next]_generatorVars => GeneratorInv'
  <1> SUFFICES ASSUME GeneratorInv, [Generator!Next]_generatorVars PROVE GeneratorInv'
    OBVIOUS
  <1> USE GeneratorAssumption DEF GeneratorInv
  <1>1. CASE Generator!Tick
    <2>1. (time + 1) * Rate + Burst >= time * Rate + Burst
      OBVIOUS
    <2> QED
      BY <1>1, <2>1 DEF Generator!Tick
  <1>2. CASE Generator!Pace
    BY <1>2, MinOfTwo DEF Generator!Pace
  <1>3. CASE Generator!Interrupted
    BY <1>3 DEF Generator!Interrupted, Generator!Fail
  <1>4. CASE Generator!Datagram
    BY <1>4 DEF Generator!Datagram
  <1>5. CASE Generator!WriteString
    BY <1>5 DEF Generator!WriteString
  <1>6. CASE Generator!Post
    BY <1>6, MinOfTwo DEF Generator!Post
  <1>7. CASE Generator!Posted
    BY <1>7 DEF Generator!Posted
  <1>8. CASE Generator!EndBurst
    <2>1. CASE /\ written' = written + buffered /\ buffered' = 0
               /\ run' = (IF sent < Count THEN "pace" ELSE "nil")
               /\ UNCHANGED <<protocol, time, target, sent, batch>>
      BY <1>8, <2>1 DEF Generator!EndBurst
    <2>2. CASE protocol = "tcp" /\ Generator!FailWriting
      BY <2>2 DEF Generator!FailWriting
    <2> QED
      BY Zenon, <1>8, <2>1, <2>2 DEF Generator!EndBurst
  <1>9. CASE Generator!WriteFails
    BY <1>9 DEF Generator!WriteFails, Generator!FailWriting
  <1>10. CASE UNCHANGED generatorVars
    BY <1>10 DEF generatorVars
  <1> QED
    BY Zenon, <1>1, <1>2, <1>3, <1>4, <1>5, <1>6, <1>7, <1>8, <1>9, <1>10
    DEF Generator!Next, Generator!Rest, Generator!vars, generatorVars

\* loggen never runs ahead of its rate by more than the allowance, however long a
\* burst takes; a nil result means that everything was written; and of what an
\* interrupted run reports only the buffer is not written, and of what is stored only
\* a part of the last batch is not reported.
THEOREM GeneratorTellsTheTruth == Generator!Spec => []GeneratorIsHonest
  <1>1. GeneratorInv => Generator!NilMeansAllWritten
    BY GeneratorAssumption DEF GeneratorInv, Generator!NilMeansAllWritten
  <1>2. GeneratorInv => Generator!PaceIsKept
    <2>1. \A s, b, t, p \in Nat : s + b <= t /\ t <= p => s + b <= p
      OBVIOUS
    <2>2. time \in Nat => time * Rate + Burst \in Nat
      BY GeneratorAssumption
    <2> QED
      BY <2>1, <2>2 DEF GeneratorInv, Generator!PaceIsKept
  <1>3. GeneratorInv => Generator!CountIsHonest
    <2>1. GeneratorInv => /\ protocol = "udp" => sent = written
                          /\ protocol = "tcp" => sent = written + buffered
                          /\ protocol = "http" => sent <= written /\ written <= sent + batch
      BY DEF GeneratorInv
    <2>2. GeneratorInv => protocol \in {"udp", "tcp", "http"}
      BY DEF GeneratorInv
    <2> QED
      BY Zenon, <2>1, <2>2 DEF Generator!CountIsHonest
  <1>4. GeneratorInv => GeneratorIsHonest
    BY <1>1, <1>2, <1>3 DEF GeneratorIsHonest, Generator!GeneratorIsHonest
  <1> QED
    BY <1>4, GeneratorStarts, GeneratorKeeps, PTL
    DEF Generator!Spec, Generator!vars, generatorVars
-----------------------------------------------------------------------------
(* The configuration *)

Sources == [id : Texts, limit : Int, rest : BOOLEAN]

Configs ==
    [address : Texts, dsn : Texts, dsnFile : Texts, enabled : BOOLEAN,
     queue : Int, batch : Int, attempts : Int, backoff : Int \X Int,
     rest : BOOLEAN, sources : Seq(Sources)]

ConfigurationTypes ==
    /\ file \in Files /\ env \in Envs /\ flag \in Flags
    /\ cfg \in Configs /\ next \in Nat
    /\ load \in {"file", "env", "flags", "limits", "sources", "control", "accepted",
                 "refused"}

\* The address while the layers are applied: after the file, the environment and
\* the flag.
FromFile == cfg.address \in {file.address, "default"} \ {"unset"}
FromEnv == IF env.address # "unset" THEN cfg.address = env.address ELSE FromFile
FromFlag == IF flag # "" THEN cfg.address = flag ELSE FromEnv

LayersInv ==
    /\ load = "file" => cfg.address = "default"
    /\ load = "env" => FromFile
    /\ load = "flags" => FromEnv
    /\ load \in {"limits", "sources", "control", "accepted"} => FromFlag

\* The sources before the next one can be told apart and have their limits, and
\* finalize has checked all of them when it goes on.
SourcesInv ==
    /\ load \in {"file", "env", "flags", "limits"} => next = 0
    /\ next <= Len(cfg.sources)
    /\ \A i \in 1..next : cfg.sources[i].limit > 0
    /\ \A i, j \in 1..next : cfg.sources[i].id = cfg.sources[j].id => i = j
    /\ load \in {"control", "accepted"} => next = Len(cfg.sources)

ConfigurationInv ==
    /\ ConfigurationTypes /\ LayersInv /\ SourcesInv
    /\ load \in {"sources", "control", "accepted"} => Configuration!LimitsValid
    /\ load = "accepted" => (cfg.enabled => cfg.dsn # "" \/ cfg.dsnFile # "")

\* Load starts from the defaults.
LEMMA ConfigurationStarts == Configuration!Init => ConfigurationInv
  <1> SUFFICES ASSUME Configuration!Init PROVE ConfigurationInv
    OBVIOUS
  <1> USE DEF Configuration!Init
  <1>1. cfg \in Configs
    <2>1. <<>> \in Seq(Sources) /\ <<1, 2>> \in Int \X Int
      OBVIOUS
    <2>2. 2 \in Int /\ 3 \in Int /\ 5 \in Int
      OBVIOUS
    <2>3. "" \in Texts /\ "default" \in Texts
      BY Zenon, TextsAssumption
    <2> QED
      BY <2>1, <2>2, <2>3, Zenon DEF Configuration!Default, Configs
  <1>2. ConfigurationTypes
    BY <1>1 DEF ConfigurationTypes
  <1>3. LayersInv
    BY Zenon DEF LayersInv, Configuration!Default
  <1>4. SourcesInv
    <2>1. cfg.sources = <<>> /\ next = 0 /\ load = "file"
      BY Zenon DEF Configuration!Default
    <2>2. Len(cfg.sources) = 0 /\ 1..next = {}
      BY <2>1
    <2> QED
      BY <2>1, <2>2 DEF SourcesInv
  <1> QED
    BY <1>2, <1>3, <1>4 DEF ConfigurationInv

\* A layer replaces a text by a text.
LEMMA OverIsText ==
    ASSUME NEW a \in Texts, NEW b \in Texts
    PROVE  Configuration!Over(a, b) \in Texts
  BY DEF Configuration!Over

\* Reading the file, and a missing or unreadable one.
LEMMA ReadFileKeeps == ConfigurationInv /\ Configuration!ReadFile => ConfigurationInv'
  <1> SUFFICES ASSUME ConfigurationInv, Configuration!ReadFile PROVE ConfigurationInv'
    OBVIOUS
  <1> USE DEF Configuration!ReadFile, Configuration!inputs
  <1>0. /\ ConfigurationTypes /\ LayersInv /\ SourcesInv /\ load = "file" /\ next = 0
        /\ file \in Configs /\ cfg \in Configs
    BY Zenon, FilesAssumption DEF ConfigurationInv, ConfigurationTypes, SourcesInv, Configs, Sources
  <1>1. CASE UNCHANGED cfg /\ load' \in {"env", "refused"}
    <2>1. ConfigurationTypes'
      BY <1>0, <1>1 DEF ConfigurationTypes
    <2>2. LayersInv'
      BY <1>0, <1>1 DEF LayersInv, FromFile
    <2>3. SourcesInv'
      BY <1>0, <1>1 DEF SourcesInv
    <2> QED
      BY Zenon, <1>1, <2>1, <2>2, <2>3 DEF ConfigurationInv
  <1>2. CASE ~(UNCHANGED cfg /\ load' \in {"env", "refused"})
    <2>1. /\ load' = "env"
          /\ cfg' = [cfg EXCEPT !.address = Configuration!Over(file.address, @),
                         !.dsn = Configuration!Over(file.dsn, @),
                         !.dsnFile = Configuration!Over(file.dsnFile, @),
                         !.enabled = file.enabled,
                         !.queue = file.queue, !.batch = file.batch,
                         !.attempts = file.attempts, !.backoff = file.backoff,
                         !.rest = file.rest, !.sources = file.sources]
      BY <1>2
    <2>2. cfg' \in Configs
      BY Zenon, <1>0, <2>1, OverIsText DEF Configs
    <2>3. ConfigurationTypes'
      BY <1>0, <2>1, <2>2 DEF ConfigurationTypes
    <2>4. LayersInv'
      BY <1>0, <2>1 DEF LayersInv, FromFile, Configuration!Over, Configs
    <2>5. Len(cfg'.sources) \in Nat
      BY <2>2 DEF Configs
    <2>6. SourcesInv'
      BY <1>0, <2>1, <2>5 DEF SourcesInv
    <2> QED
      BY <2>1, <2>3, <2>4, <2>6 DEF ConfigurationInv
  <1> QED
    BY <1>1, <1>2

\* Load that refuses leaves the configuration alone.
LEMMA RefuseKeeps ==
    ASSUME ConfigurationInv, UNCHANGED <<file, env, flag, cfg, next>>, load' = "refused"
    PROVE  ConfigurationInv'
  <1>1. ConfigurationTypes'
    BY Zenon DEF ConfigurationInv, ConfigurationTypes
  <1>2. LayersInv'
    BY DEF LayersInv
  <1>3. SourcesInv'
    BY Zenon DEF ConfigurationInv, SourcesInv
  <1> QED
    BY Zenon, <1>1, <1>2, <1>3 DEF ConfigurationInv

\* A variable of the environment that is set replaces what the file gave, and a
\* flag that is set replaces both.
LEMMA LayersKeep ==
    ConfigurationInv /\ (Configuration!applyEnv \/ Configuration!ApplyFlags) => ConfigurationInv'
  <1> SUFFICES ASSUME ConfigurationInv, Configuration!applyEnv \/ Configuration!ApplyFlags
               PROVE  ConfigurationInv'
    OBVIOUS
  <1> USE DEF Configuration!inputs
  <1>0. ConfigurationTypes /\ LayersInv /\ SourcesInv /\ cfg \in Configs
    BY Zenon DEF ConfigurationInv, ConfigurationTypes
  <1>1. CASE env.enabled = "maybe" /\ Configuration!Refuse
    BY <1>1, RefuseKeeps DEF Configuration!Refuse
  <1>2. CASE Configuration!applyEnv /\ env.enabled # "maybe"
    <2>1. /\ load = "env" /\ load' = "flags" /\ UNCHANGED <<file, env, flag, next>>
          /\ cfg' = [cfg EXCEPT !.address = Configuration!Over(env.address, @),
                         !.dsn = Configuration!Over(env.dsn, @),
                         !.dsnFile = Configuration!Over(env.dsnFile, @),
                         !.enabled = CASE env.enabled = "true"  -> TRUE
                                       [] env.enabled = "false" -> FALSE
                                       [] env.enabled = "unset" -> @]
      BY Zenon, <1>2 DEF Configuration!applyEnv
    <2>2. env \in [address : Texts, dsn : Texts, dsnFile : Texts,
                   enabled : {"unset", "true", "false", "maybe"}]
      BY <1>0, EnvsAssumption DEF ConfigurationTypes
    <2>3. cfg' \in Configs
      <3>1. (CASE env.enabled = "true"  -> TRUE
               [] env.enabled = "false" -> FALSE
               [] env.enabled = "unset" -> cfg.enabled) \in BOOLEAN
        BY Zenon, <1>0, <1>2, <2>2 DEF Configs
      <3> QED
        BY Zenon, <1>0, <2>1, <2>2, <3>1, OverIsText DEF Configs
    <2>4. cfg'.address = Configuration!Over(env.address, cfg.address) /\ cfg'.sources = cfg.sources
      BY <1>0, <2>1 DEF Configs
    <2>5. ConfigurationTypes'
      BY Zenon, <1>0, <2>1, <2>3 DEF ConfigurationTypes
    <2>6. LayersInv'
      BY <1>0, <2>1, <2>4 DEF LayersInv, FromEnv, FromFile, Configuration!Over
    <2>7. SourcesInv'
      BY <1>0, <2>1, <2>4 DEF SourcesInv
    <2> QED
      BY <2>1, <2>5, <2>6, <2>7 DEF ConfigurationInv
  <1>3. CASE Configuration!ApplyFlags
    <2>1. /\ load = "flags" /\ load' = "limits" /\ UNCHANGED <<file, env, flag, next>>
          /\ cfg' = [cfg EXCEPT !.address = IF flag # "" THEN flag ELSE @]
      BY Zenon, <1>3 DEF Configuration!ApplyFlags
    <2>2. flag \in Texts
      BY <1>0, FlagsAssumption DEF ConfigurationTypes
    <2>3. cfg' \in Configs
      BY Zenon, <1>0, <2>1, <2>2 DEF Configs
    <2>4. /\ cfg'.address = IF flag # "" THEN flag ELSE cfg.address
          /\ cfg'.sources = cfg.sources
      BY Zenon, <1>0, <2>1 DEF Configs
    <2>5. ConfigurationTypes'
      BY Zenon, <1>0, <2>1, <2>3 DEF ConfigurationTypes
    <2>6. LayersInv'
      BY Zenon, <1>0, <2>1, <2>4 DEF LayersInv, FromFlag, FromEnv, FromFile
    <2>7. SourcesInv'
      <3>1. load = "flags" /\ load' = "limits" /\ next' = next /\ cfg'.sources = cfg.sources
        BY Zenon, <2>1, <2>4
      <3> QED
        BY <1>0, <3>1 DEF SourcesInv
    <2> QED
      BY Zenon, <2>1, <2>5, <2>6, <2>7 DEF ConfigurationInv
  <1> QED
    BY Zenon, <1>1, <1>2, <1>3 DEF Configuration!applyEnv

\* The checks of finalize: the limits, each source in turn against the ones before
\* it, and the control store.
LEMMA FinalizeKeeps ==
    ConfigurationInv /\ (\/ Configuration!CheckLimits \/ Configuration!CheckSource
                         \/ Configuration!SourcesChecked \/ Configuration!CheckControl)
      => ConfigurationInv'
  <1> SUFFICES ASSUME ConfigurationInv,
                      \/ Configuration!CheckLimits \/ Configuration!CheckSource
                      \/ Configuration!SourcesChecked \/ Configuration!CheckControl
               PROVE  ConfigurationInv'
    OBVIOUS
  <1> USE DEF Configuration!inputs
  <1>0. /\ ConfigurationTypes /\ LayersInv /\ SourcesInv /\ cfg \in Configs
        /\ cfg.sources \in Seq(Sources) /\ next \in Nat
    BY Zenon DEF ConfigurationInv, ConfigurationTypes, Configs
  <1>1. CASE Configuration!Refuse
    BY <1>1, RefuseKeeps DEF Configuration!Refuse
  <1>2. CASE /\ UNCHANGED <<file, env, flag, cfg, next>>
             /\ \/ load = "limits" /\ load' = "sources" /\ Configuration!LimitsValid
                \/ load = "sources" /\ load' = "control" /\ next = Len(cfg.sources)
                \/ /\ load = "control" /\ load' = "accepted"
                   /\ ~(cfg.enabled /\ cfg.dsn = "" /\ cfg.dsnFile = "")
    <2>1. ConfigurationTypes'
      BY Zenon, <1>0, <1>2 DEF ConfigurationTypes
    <2>2. LayersInv'
      BY Zenon, <1>0, <1>2 DEF LayersInv, FromFlag, FromEnv, FromFile
    <2>3. SourcesInv'
      BY Zenon, <1>0, <1>2 DEF SourcesInv
    <2>4. Configuration!LimitsValid'
      BY Zenon, <1>2 DEF ConfigurationInv, Configuration!LimitsValid
    <2>5. (load = "accepted" => (cfg.enabled => cfg.dsn # "" \/ cfg.dsnFile # ""))'
      BY Zenon, <1>2
    <2> QED
      BY Zenon, <2>1, <2>2, <2>3, <2>4, <2>5 DEF ConfigurationInv
  <1>3. CASE /\ load = "sources" /\ next < Len(cfg.sources)
             /\ Configuration!SourceValid(cfg.sources[next + 1])
             /\ cfg' = [cfg EXCEPT !.sources[next + 1] =
                                   Configuration!Filled(cfg.sources[next + 1])]
             /\ next' = next + 1 /\ UNCHANGED <<file, env, flag, load>>
    <2> DEFINE s == cfg.sources[next + 1]
               filled == Configuration!Filled(s)
    <2>1. cfg.sources \in Seq(Sources) /\ next + 1 \in 1..Len(cfg.sources) /\ s \in Sources
      BY SMTT(30), <1>0, <1>3 DEF Configs
    <2>2. filled \in Sources /\ filled.id = s.id /\ filled.limit > 0
      <3>1. s.limit \in Int /\ s.id \in Texts /\ s.rest \in BOOLEAN
        BY <2>1 DEF Sources
      <3>2. filled = [s EXCEPT !.limit = IF s.limit = 0 THEN 1024 ELSE s.limit]
        BY DEF Configuration!Filled
      <3>3. filled \in Sources /\ filled.id = s.id
        <4> DEFINE n == IF s.limit = 0 THEN 1024 ELSE s.limit
        <4>1. n \in Int
          BY <3>1
        <4> HIDE DEF n
        <4>2. filled = [s EXCEPT !.limit = n]
          BY <3>2 DEF n
        <4> QED
          BY <2>1, <4>1, <4>2 DEF Sources
      <3>4. filled.limit > 0
        BY Zenon, <1>3 DEF Configuration!SourceValid
      <3> QED
        BY <3>3, <3>4
    <2>3. \A i \in 1..next : cfg.sources[i].id # s.id
      BY Zenon, <1>3 DEF Configuration!SourceValid
    <2> HIDE DEF s, filled
    <2>4. cfg' = [cfg EXCEPT !.sources = [cfg.sources EXCEPT ![next + 1] = filled]]
      BY <1>3 DEF s, filled
    <2>5. /\ cfg'.sources = [cfg.sources EXCEPT ![next + 1] = filled]
          /\ cfg'.sources \in Seq(Sources) /\ Len(cfg'.sources) = Len(cfg.sources)
      BY <1>0, <2>1, <2>2, <2>4 DEF Configs
    <2>6. cfg' \in Configs
      BY Zenon, <1>0, <2>4, <2>5 DEF Configs
    <2>7. /\ cfg'.address = cfg.address /\ cfg'.rest = cfg.rest /\ cfg'.queue = cfg.queue
          /\ cfg'.batch = cfg.batch /\ cfg'.attempts = cfg.attempts
          /\ cfg'.backoff = cfg.backoff
      BY <1>0, <2>4 DEF Configs
    <2>8. ConfigurationTypes'
      BY <1>0, <1>3, <2>6 DEF ConfigurationTypes
    <2>9. LayersInv'
      BY Zenon, <1>0, <1>3, <2>7 DEF LayersInv, FromFlag, FromEnv, FromFile
    <2>10. SourcesInv'
      <3>1. \A i \in 1..next : cfg'.sources[i] = cfg.sources[i]
        BY <1>0, <2>1, <2>5
      <3>2. cfg'.sources[next + 1] = filled
        BY <2>1, <2>5
      <3>3. \A i \in 1..(next + 1) : cfg'.sources[i].limit > 0
        <4>1. \A i \in 1..(next + 1) : i \in 1..next \/ i = next + 1
          BY <1>0
        <4> QED
          BY <1>0, <2>2, <3>1, <3>2, <4>1 DEF SourcesInv
      <3>4. \A i, j \in 1..(next + 1) : cfg'.sources[i].id = cfg'.sources[j].id => i = j
        <4>1. \A i \in 1..(next + 1) : i \in 1..next \/ i = next + 1
          BY <1>0
        <4>2. \A i \in 1..next : cfg'.sources[i].id # cfg'.sources[next + 1].id
          BY SMTT(30), <2>2, <2>3, <3>1, <3>2
        <4>3. \A i, j \in 1..next : cfg'.sources[i].id = cfg'.sources[j].id => i = j
          BY <1>0, <3>1 DEF SourcesInv
        <4> QED
          BY <4>1, <4>2, <4>3
      <3> QED
        BY <1>0, <1>3, <2>5, <3>3, <3>4 DEF SourcesInv
    <2>11. Configuration!LimitsValid'
      BY Zenon, <1>3, <2>7 DEF ConfigurationInv, Configuration!LimitsValid
    <2> QED
      BY <1>3, <2>8, <2>9, <2>10, <2>11 DEF ConfigurationInv
  <1> QED
    BY Zenon, <1>1, <1>2, <1>3
    DEF Configuration!CheckLimits, Configuration!CheckSource, Configuration!SourcesChecked,
        Configuration!CheckControl

\* Every step of Load keeps the invariant.
LEMMA ConfigurationKeeps ==
    ConfigurationInv /\ [Configuration!Next]_(Configuration!vars) => ConfigurationInv'
  <1> SUFFICES ASSUME ConfigurationInv, UNCHANGED configurationVars PROVE ConfigurationInv'
    BY ReadFileKeeps, LayersKeep, FinalizeKeeps
    DEF Configuration!Next, Configuration!Rest, Configuration!vars, Configuration!inputs,
        configurationVars
  <1> QED
    BY Zenon DEF configurationVars, ConfigurationInv, ConfigurationTypes, LayersInv, SourcesInv,
           FromFlag, FromEnv, FromFile, Configuration!LimitsValid

\* Whatever the file, the environment and the flag say, the configuration that Load
\* accepts has a batch that fits the queue, attempts and backoffs above zero, sources
\* with an id of their own and room for a message, a DSN if the control store is on,
\* and the address of the highest layer that gave one.
THEOREM AcceptedConfigurationIsSound == Configuration!Spec => []LoadIsSound
  <1>1. ConfigurationInv => Configuration!AcceptedIsUsable
    <2> SUFFICES ASSUME ConfigurationInv, load = "accepted"
                 PROVE  /\ 0 < cfg.batch /\ cfg.batch <= cfg.queue /\ cfg.attempts > 0
                        /\ 0 < cfg.backoff[1] /\ cfg.backoff[1] <= cfg.backoff[2]
                        /\ \A i, j \in DOMAIN cfg.sources :
                             cfg.sources[i].limit > 0
                               /\ (cfg.sources[i].id = cfg.sources[j].id => i = j)
                        /\ cfg.enabled => Configuration!ControlDSN # ""
      BY Zenon DEF Configuration!AcceptedIsUsable
    <2>1. cfg.batch \in Int /\ cfg.attempts \in Int /\ cfg.backoff \in Int \X Int
      BY Zenon DEF ConfigurationInv, ConfigurationTypes, Configs
    <2>2. DOMAIN cfg.sources = 1..next
      <3>1. cfg.sources \in Seq(Sources)
        BY Zenon DEF ConfigurationInv, ConfigurationTypes, Configs
      <3>2. next = Len(cfg.sources)
        BY Zenon DEF ConfigurationInv, SourcesInv
      <3> QED
        BY <3>1, <3>2
    <2>3. /\ 0 < cfg.batch /\ cfg.batch <= cfg.queue /\ cfg.attempts > 0
          /\ 0 < cfg.backoff[1] /\ cfg.backoff[1] <= cfg.backoff[2]
      BY Zenon, <2>1 DEF ConfigurationInv, Configuration!LimitsValid
    <2>4. cfg.enabled => Configuration!ControlDSN # ""
      BY Zenon DEF ConfigurationInv, Configuration!ControlDSN
    <2> QED
      BY Zenon, <2>2, <2>3, <2>4 DEF ConfigurationInv, SourcesInv
  <1>2. ConfigurationInv => Configuration!HighestLayerWins
    BY Zenon DEF ConfigurationInv, LayersInv, FromFlag, FromEnv, FromFile,
           Configuration!LimitsValid, Configuration!HighestLayerWins
  <1>3. ConfigurationInv => LoadIsSound
    BY <1>1, <1>2 DEF LoadIsSound, Configuration!LoadIsSound
  <1> QED
    BY <1>3, ConfigurationStarts, ConfigurationKeeps, PTL
    DEF Configuration!Spec
-----------------------------------------------------------------------------
(* Posted batches *)

IngestTypes ==
    /\ body \in Bodies /\ tries \in Nat /\ handler \in {"idle", "received", "append"}
    /\ answer \in {0, 202, 400, 413, 503}
    /\ stored \in [DOMAIN body.items -> Nat]

\* Appends that can have been made for a position: one for each request but the one
\* that is under way.
Copies == \A i \in DOMAIN stored : stored[i] <= IF handler = "idle" THEN tries ELSE tries - 1

\* The verdict depends on the body only.  A refused body never gets to Append, and
\* what was answered is what the verdict says.
VerdictInv ==
    IF Ingest!Verdict(body) = 202
    THEN answer \in {0, 202, 503}
    ELSE handler # "append" /\ \A i \in DOMAIN stored : stored[i] = 0

IngestInv ==
    /\ IngestTypes /\ Copies /\ VerdictInv
    /\ handler # "idle" => tries > 0
    /\ answer = 202 => /\ Ingest!Verdict(body) = 202
                       /\ \A i \in Ingest!Entries(body) : stored[i] > 0

\* The verdict is one of the three statuses.
LEMMA VerdictIsStatus == \A b : Ingest!Verdict(b) \in {202, 400, 413}
  BY DEF Ingest!Verdict

\* ingestJSON reads positions of the body from the first, and all of them unless the
\* body is a single value or is refused for its length.
LEMMA ReadsBody ==
    ASSUME NEW b \in Bodies
    PROVE  /\ Ingest!Entries(b) \subseteq DOMAIN b.items
           /\ \A i \in Ingest!Entries(b) : Ingest!Reads(b)[i] = b.items[i]
           /\ Ingest!Verdict(b) = 202 =>
                /\ \A i \in Ingest!Entries(b) : b.items[i] = "ok"
                /\ b.shape # "single" => Ingest!Entries(b) = DOMAIN b.items
  <1> DEFINE n == Len(b.items)
             m == Ingest!Lesser(n, MaxItems + 1)
             o == Ingest!Lesser(n, 1)
  <1>1. /\ b.shape \in {"ndjson", "array", "single"} /\ n \in Nat /\ DOMAIN b.items = 1..n
        /\ b.items \in Seq({"ok", "no_message", "bad_time", "not_object", "syntax"})
        /\ MaxItems \in Nat
    BY BodiesAssumption
  <1>2. m = (IF n <= MaxItems + 1 THEN n ELSE MaxItems + 1) /\ o = (IF n <= 1 THEN n ELSE 1)
    BY <1>1 DEF Ingest!Lesser
  <1> HIDE DEF n, m, o
  <1>3. ASSUME NEW k \in 0..n
        PROVE  /\ Len(SubSeq(b.items, 1, k)) = k /\ DOMAIN SubSeq(b.items, 1, k) = 1..k
               /\ \A i \in 1..k : SubSeq(b.items, 1, k)[i] = b.items[i]
    BY <1>1 DEF n
  <1>4. m \in 0..n /\ o \in 0..n
    BY <1>1, <1>2
  <1>5. CASE b.shape = "ndjson"
    <2>1. Ingest!Reads(b) = SubSeq(b.items, 1, m)
      BY Zenon, <1>5 DEF Ingest!Reads, n, m
    <2>2. /\ Len(Ingest!Reads(b)) = m /\ Ingest!Entries(b) = 1..m
          /\ \A i \in 1..m : Ingest!Reads(b)[i] = b.items[i]
      BY <1>3, <1>4, <2>1 DEF Ingest!Entries
    <2>3. Ingest!Verdict(b) = 202 => m <= MaxItems /\ \A i \in 1..m : Ingest!Reads(b)[i] = "ok"
      BY <1>1, <1>4, <2>2 DEF Ingest!Verdict, Ingest!Entries
    <2> QED
      BY <1>1, <1>2, <1>4, <2>2, <2>3
  <1>6. CASE b.shape = "array"
    <2>1. Ingest!Reads(b) = b.items
      BY <1>6 DEF Ingest!Reads
    <2>2. Ingest!Verdict(b) = 202 => \A i \in DOMAIN b.items : b.items[i] = "ok"
      BY <1>1, <2>1 DEF Ingest!Verdict, n
    <2> QED
      BY <1>6, <2>1, <2>2 DEF Ingest!Entries
  <1>7. CASE b.shape = "single"
    <2>1. Ingest!Reads(b) = SubSeq(b.items, 1, o)
      BY Zenon, <1>7 DEF Ingest!Reads, n, o
    <2>2. /\ Len(Ingest!Reads(b)) = o /\ Ingest!Entries(b) = 1..o
          /\ \A i \in 1..o : Ingest!Reads(b)[i] = b.items[i]
      BY <1>3, <1>4, <2>1 DEF Ingest!Entries
    <2>3. Ingest!Verdict(b) = 202 => \A i \in 1..o : Ingest!Reads(b)[i] = "ok"
      BY <1>1, <1>4, <2>2 DEF Ingest!Verdict, Ingest!Entries
    <2> QED
      BY <1>1, <1>4, <1>7, <2>2, <2>3
  <1> QED
    BY <1>1, <1>5, <1>6, <1>7

\* What an append does to the counts of copies.
LEMMA StoreCounts ==
    ASSUME IngestTypes, NEW part \in SUBSET DOMAIN body.items, Ingest!Store(part), body' = body
    PROVE  /\ stored' \in [DOMAIN body'.items -> Nat] /\ DOMAIN stored' = DOMAIN stored
           /\ \A i \in DOMAIN stored : stored'[i] \in {stored[i], stored[i] + 1}
           /\ \A i \in part : stored'[i] > 0
           /\ \A i \in DOMAIN stored : stored'[i] >= stored[i] /\ stored[i] \in Nat
  <1>1. /\ stored \in [DOMAIN body.items -> Nat] /\ DOMAIN stored = DOMAIN body.items
        /\ stored' = [i \in DOMAIN stored |->
                         IF i \in part THEN stored[i] + 1 ELSE stored[i]]
    BY DEF IngestTypes, Ingest!Store
  <1>2. \A i \in DOMAIN stored :
          stored[i] \in Nat /\ stored'[i] = IF i \in part THEN stored[i] + 1 ELSE stored[i]
    BY SMTT(30), <1>1
  <1> QED
    BY <1>1, <1>2

\* An append, whole or in part, and its answer.
LEMMA AppendKeeps ==
    ASSUME IngestInv, handler = "append", NEW part \in SUBSET Ingest!Entries(body),
           Ingest!Store(part), handler' = "idle", UNCHANGED <<body, tries>>,
           \/ answer' \in {202, 0} /\ part = Ingest!Entries(body)
           \/ answer' \in {503, 0}
    PROVE  IngestInv'
  <1>1. /\ IngestTypes /\ Copies /\ tries > 0 /\ tries \in Nat /\ body \in Bodies
        /\ Ingest!Verdict(body) = 202 /\ DOMAIN stored = DOMAIN body.items
    BY DEF IngestInv, IngestTypes, VerdictInv
  <1>2. part \in SUBSET DOMAIN body.items /\ Ingest!Entries(body) \subseteq DOMAIN stored
    BY <1>1, ReadsBody
  <1>3. /\ stored' \in [DOMAIN body'.items -> Nat] /\ DOMAIN stored' = DOMAIN stored
        /\ \A i \in DOMAIN stored : stored'[i] \in {stored[i], stored[i] + 1}
        /\ \A i \in part : stored'[i] > 0
        /\ \A i \in DOMAIN stored : stored'[i] >= stored[i] /\ stored[i] \in Nat
    BY <1>1, <1>2, StoreCounts
  <1>4. IngestTypes'
    BY <1>1, <1>3 DEF IngestTypes
  <1>5. Copies'
    BY <1>1, <1>3 DEF Copies
  <1>6. Ingest!Verdict(body)' = 202
    BY <1>1
  <1>7. VerdictInv'
    BY <1>6 DEF VerdictInv
  <1>8. ASSUME answer' = 202 PROVE part = Ingest!Entries(body)
    BY <1>8
  <1>9. (answer = 202 => \A i \in Ingest!Entries(body) : stored[i] > 0)'
    BY ZenonT(60), <1>3, <1>8
  <1> QED
    BY <1>4, <1>5, <1>6, <1>7, <1>9 DEF IngestInv

\* Every step of client and handler keeps the invariant.
LEMMA IngestKeeps == IngestInv /\ [Ingest!Next]_ingestVars => IngestInv'
  <1> SUFFICES ASSUME IngestInv, [Ingest!Next]_ingestVars PROVE IngestInv'
    OBVIOUS
  <1> USE DEF IngestInv, IngestTypes, Copies, VerdictInv
  <1>1. CASE Ingest!Send
    <2>1. Ingest!Verdict(body)' = Ingest!Verdict(body)
      BY <1>1 DEF Ingest!Send
    <2> QED
      BY <1>1, <2>1 DEF Ingest!Send
  <1>2. CASE Ingest!Reject
    <2>1. Ingest!Verdict(body)' = Ingest!Verdict(body)
      BY ZenonT(60), <1>2 DEF Ingest!Reject
    <2> QED
      BY <1>2, <2>1, VerdictIsStatus DEF Ingest!Reject, Ingest!Respond
  <1>3. CASE Ingest!Accept
    <2>1. Ingest!Verdict(body)' = Ingest!Verdict(body)
      BY ZenonT(60), <1>3 DEF Ingest!Accept
    <2> QED
      BY <1>3, <2>1 DEF Ingest!Accept
  <1>4. CASE Ingest!AppendSucceeds
    BY SMTT(30), <1>4, AppendKeeps DEF Ingest!AppendSucceeds, Ingest!Respond
  <1>5. CASE Ingest!AppendFails
    BY <1>5, AppendKeeps DEF Ingest!AppendFails, Ingest!Respond
  <1>6. CASE UNCHANGED ingestVars
    <2>1. Ingest!Verdict(body)' = Ingest!Verdict(body)
      BY <1>6 DEF ingestVars
    <2> QED
      BY <1>6, <2>1 DEF ingestVars
  <1> QED
    BY <1>1, <1>2, <1>3, <1>4, <1>5, <1>6
    DEF Ingest!Next, Ingest!Rest, Ingest!vars, ingestVars

\* Whatever a client posts and however often it tries again: a batch answered 400 or
\* 413 has left nothing in the backend, one answered 202 is there completely, and no
\* record is there more often than requests were sent.
THEOREM IngestAnswersAreReliable == Ingest!Spec => []AnswersAreReliable
  <1>1. Ingest!Init => IngestInv
    <2> SUFFICES ASSUME Ingest!Init PROVE IngestInv
      OBVIOUS
    <2>1. IngestTypes
      BY DEF Ingest!Init, IngestTypes
    <2>2. Copies /\ VerdictInv /\ handler = "idle" /\ answer = 0
      BY DEF Ingest!Init, Copies, VerdictInv
    <2> QED
      BY <2>1, <2>2 DEF IngestInv
  <1>2. IngestInv => Ingest!RefusedLeavesNothing
    BY DEF IngestInv, VerdictInv, Ingest!RefusedLeavesNothing
  <1>3. IngestInv => Ingest!AcceptedIsStored
    BY ReadsBody DEF IngestInv, IngestTypes, Ingest!AcceptedIsStored
  <1>4. IngestInv => Ingest!DuplicatesOnlyByRetry
    BY DEF IngestInv, IngestTypes, Copies, Ingest!DuplicatesOnlyByRetry
  <1>5. IngestInv => AnswersAreReliable
    BY <1>2, <1>3, <1>4 DEF AnswersAreReliable, Ingest!AnswersAreReliable
  <1> QED
    BY <1>1, <1>5, IngestKeeps, PTL DEF Ingest!Spec, Ingest!vars, ingestVars
-----------------------------------------------------------------------------
(* The rows of posted objects *)

\* The name under which toDirectRow puts a field aside.
Aside(k) == <<"event">> \o k

\* A field that was copied is under its own name or put aside, or has given way to
\* one that was put aside under its name.
Copied(k) ==
    \/ k \in DOMAIN row /\ row[k] = k
    \/ Aside(k) \in DOMAIN row /\ row[Aside(k)] = k
    \/ Head(k) = "event" /\ Tail(k) \in object

MappingInv ==
    /\ object \subseteq Keys \cup {<<"message">>}
    /\ stage \in {"entry", "fields", "stored"}
    /\ stage # "entry" =>
         /\ fields \subseteq object \ Mapping!Consumed
         /\ Mapping!CanonicalKeys \subseteq DOMAIN row
         /\ \A k \in Mapping!CanonicalKeys : row[k] = Mapping!Canonical(k)
         /\ \A k \in (object \ Mapping!Consumed) \ fields : Copied(k)
    /\ stage = "stored" => fields = {}

\* What toDirectRow puts aside has a name of its own, and not a canonical one.
LEMMA AsideNames ==
    ASSUME NEW k \in Keys
    PROVE  /\ Head(Aside(k)) = "event" /\ Tail(Aside(k)) = k
           /\ \A l \in Keys : Aside(k) = Aside(l) => k = l
           /\ Aside(k) \notin Mapping!CanonicalKeys
  <1>1. "event" \in Parts /\ Keys \subseteq Seq(Parts)
    BY KeysAssumption
  <1>2. \A l \in Seq(Parts) : Head(<<"event">> \o l) = "event" /\ Tail(<<"event">> \o l) = l
    BY <1>1
  <1>3. \A l \in Keys : Head(Aside(l)) = "event" /\ Tail(Aside(l)) = l
    BY <1>1, <1>2 DEF Aside
  <1>4. \A l \in Mapping!CanonicalKeys : Head(l) # "event"
    BY DEF Mapping!CanonicalKeys, Mapping!ServerKeys
  <1> QED
    BY Zenon, <1>3, <1>4

\* One field is copied, in whatever order.
LEMMA PlaceKeeps ==
    ASSUME MappingInv, NEW k \in Keys, Mapping!Place(k)
    PROVE  MappingInv'
  <1> DEFINE name == IF k \in DOMAIN row THEN Aside(k) ELSE k
  <1>1. /\ stage = "fields" /\ stage' = stage /\ k \in fields /\ fields' = fields \ {k}
        /\ object' = object
        /\ row' = [l \in DOMAIN row \cup {name} |-> IF l = name THEN k ELSE row[l]]
    BY DEF Mapping!Place, Mapping!Set, Aside
  <1>2. /\ fields \subseteq object \ Mapping!Consumed
        /\ Mapping!CanonicalKeys \subseteq DOMAIN row
        /\ \A l \in Mapping!CanonicalKeys : row[l] = Mapping!Canonical(l)
        /\ \A l \in (object \ Mapping!Consumed) \ fields : Copied(l)
        /\ object \subseteq Keys \cup {<<"message">>}
    BY <1>1 DEF MappingInv
  <1>3. Mapping!Consumed' = Mapping!Consumed /\ Mapping!CanonicalKeys' = Mapping!CanonicalKeys
    BY <1>1 DEF Mapping!Consumed, Mapping!CanonicalKeys
  <1>4. name \notin Mapping!CanonicalKeys
    BY <1>2, AsideNames
  <1>5. name \in {k, Aside(k)}
    OBVIOUS
  <1>6. k \in DOMAIN row => name = Aside(k)
    OBVIOUS
  <1>7. k \notin DOMAIN row => name = k
    OBVIOUS
  <1> HIDE DEF name
  <1>8. /\ DOMAIN row' = DOMAIN row \cup {name} /\ row'[name] = k
        /\ \A l \in DOMAIN row : l # name => row'[l] = row[l]
    BY <1>1
  <1>9. (\A l \in Mapping!CanonicalKeys : row[l] = Mapping!Canonical(l))'
    <2>1. \A l : Mapping!Canonical(l)' = Mapping!Canonical(l)
      BY Zenon, <1>1 DEF Mapping!Canonical, Mapping!FirstOf
    <2> QED
      BY <1>2, <1>3, <1>4, <1>8, <2>1
  <1>10. Copied(k)'
    BY ZenonT(60), <1>5, <1>8 DEF Copied
  <1>11. ASSUME NEW l \in (object \ Mapping!Consumed) \ fields PROVE Copied(l)'
    <2>1. l # k /\ l \in Keys /\ Copied(l)
      BY <1>1, <1>2, <1>11 DEF Mapping!Consumed
    <2>2. CASE l \in DOMAIN row /\ row[l] = l
      <3>1. CASE l = name
        <4>1. l = Aside(k)
          BY Zenon, <2>1, <2>2, <3>1, <1>5
        <4>2. Head(l) = "event" /\ Tail(l) \in object
          BY ZenonT(60), <4>1, <1>1, <1>2, AsideNames
        <4> QED
          BY <4>2, <1>1 DEF Copied
      <3>2. CASE l # name
        BY Zenon, <2>2, <3>2, <1>8 DEF Copied
      <3> QED
        BY <3>1, <3>2
    <2>3. CASE Aside(l) \in DOMAIN row /\ row[Aside(l)] = l
      <3>1. Aside(l) # name
        BY SMTT(30), <2>1, <2>3, <1>5, <1>6, <1>7, AsideNames
      <3> QED
        BY SMTT(30), <2>3, <3>1, <1>8 DEF Copied
    <2>4. CASE Head(l) = "event" /\ Tail(l) \in object
      BY <2>4, <1>1 DEF Copied
    <2> QED
      BY <2>1, <2>2, <2>3, <2>4 DEF Copied
  <1>12. (\A l \in (object \ Mapping!Consumed) \ fields : Copied(l))'
    BY <1>1, <1>3, <1>10, <1>11
  <1> QED
    BY ZenonT(60), <1>1, <1>2, <1>3, <1>8, <1>9, <1>12 DEF MappingInv

\* Every step that turns a posted object into a row keeps the invariant.
LEMMA MappingKeeps == MappingInv /\ [Mapping!Next]_mappingVars => MappingInv'
  <1> SUFFICES ASSUME MappingInv, [Mapping!Next]_mappingVars PROVE MappingInv'
    OBVIOUS
  <1>1. CASE Mapping!MakeEntry
    <2>1. /\ stage' = "fields" /\ object' = object /\ fields' = object \ Mapping!Consumed
          /\ row' = [k \in Mapping!CanonicalKeys |-> Mapping!Canonical(k)]
      BY <1>1 DEF Mapping!MakeEntry
    <2>2. Mapping!Consumed' = Mapping!Consumed /\ Mapping!CanonicalKeys' = Mapping!CanonicalKeys
      BY <2>1 DEF Mapping!Consumed, Mapping!CanonicalKeys
    <2>3. \A k : Mapping!Canonical(k)' = Mapping!Canonical(k)
      BY <2>1 DEF Mapping!Canonical, Mapping!FirstOf
    <2>4. /\ DOMAIN row' = Mapping!CanonicalKeys
            /\ \A k \in Mapping!CanonicalKeys : row'[k] = Mapping!Canonical(k)
      BY <2>1
    <2> QED
      BY <2>1, <2>2, <2>3, <2>4 DEF MappingInv
  <1>2. CASE \E k \in Keys : Mapping!Place(k)
    BY <1>2, PlaceKeeps
  <1>3. CASE Mapping!Store \/ UNCHANGED mappingVars
    <2>1. /\ UNCHANGED <<object, fields, row>>
          /\ stage' = stage \/ (stage = "fields" /\ stage' = "stored" /\ fields = {})
      BY <1>3 DEF Mapping!Store, mappingVars
    <2>2. Mapping!Consumed' = Mapping!Consumed /\ Mapping!CanonicalKeys' = Mapping!CanonicalKeys
      BY <2>1 DEF Mapping!Consumed, Mapping!CanonicalKeys
    <2>3. \A k : (Mapping!Canonical(k)' = Mapping!Canonical(k)) /\ (Copied(k)' <=> Copied(k))
      BY <2>1 DEF Mapping!Canonical, Mapping!FirstOf, Copied
    <2> QED
      BY <2>1, <2>2, <2>3 DEF MappingInv
  <1> QED
    BY <1>1, <1>2, <1>3 DEF Mapping!Next, Mapping!Rest, Mapping!vars, mappingVars

\* Whatever keys a client posts, in whatever order Go copies them: the fields that
\* the service sets keep their values, and a posted field is lost only to another
\* one that was put aside under its name.
THEOREM RowsKeepFields == Mapping!Spec => []FieldsAreKept
  <1>1. Mapping!Init => MappingInv
    BY DEF Mapping!Init, MappingInv
  <1>2. MappingInv => Mapping!CanonicalIsKept
    BY DEF MappingInv, Mapping!CanonicalIsKept
  <1>3. MappingInv => Mapping!LostOnlyByCollision
    BY DEF MappingInv, Copied, Mapping!LostOnlyByCollision
  <1>4. MappingInv => FieldsAreKept
    BY <1>2, <1>3 DEF FieldsAreKept, Mapping!FieldsAreKept
  <1> QED
    BY <1>1, <1>4, MappingKeeps, PTL DEF Mapping!Spec, Mapping!vars, mappingVars
=============================================================================
