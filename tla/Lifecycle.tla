----------------------------- MODULE Lifecycle -----------------------------
(***************************************************************************)
(* The life of the service: run of backend/cmd/syslogx/main.go, which      *)
(* starts and stops the control store, the pipeline, the listeners and the *)
(* HTTP server, together with the requests that the server is serving.     *)
(*                                                                         *)
(* The parts appear by what their own modules establish: Manager.Close     *)
(* returns with every listener stopped (SyslogManager), Pipeline.Stop      *)
(* returns nil once everything is settled, or an error after the deadline  *)
(* (Pipeline).  A request is one of four kinds: "ingest" writes to storage *)
(* past the queue, "ready" is the readiness probe, "saved" is a statement  *)
(* on a connection of the control store's pool, "tail" is a live tail and  *)
(* lasts as long as its client likes.  `syslogx -version' returns before   *)
(* any of this begins and is left out.                                     *)
(***************************************************************************)
EXTENDS Naturals, FiniteSets

CONSTANTS Requests,     \* requests that clients send
          ControlStore  \* control_store.enabled

VARIABLES main,       \* progress of run
          signalled,  \* rootCtx is done
          accepting,  \* the flag that pipeline, readiness and sources share
          store,      \* the PostgreSQL pool: "none", "open", "closed"
          pipeline,   \* "none", "running", "stopping", "done"
          sources,    \* the listeners: "none", "running", "closed"
          server,     \* the HTTP listener: "none", "starting", "open", ...
          deadline,   \* shutdownCtx: "none", "running", "expired"
          errs,       \* the errors that run returns
          request     \* each request

resources == <<store, pipeline, sources, server>>
vars == <<main, signalled, accepting, resources, deadline, errs, request>>

Unsent == [kind |-> "none", late |-> FALSE, accepting |-> FALSE, code |-> 0]

Init ==
    /\ main = "load" /\ signalled = FALSE /\ accepting = FALSE
    /\ store = "none" /\ pipeline = "none" /\ sources = "none" /\ server = "none"
    /\ deadline = "none" /\ errs = {}
    /\ request = [r \in Requests |-> Unsent]

Running(r) == request[r].kind # "none" /\ request[r].code = 0
-----------------------------------------------------------------------------
(* Start-up; every error returns, through the deferred controlStore.Close *)

Goto(place) == main' = place

Fail(e, place) == Goto(place) /\ errs' = errs \cup {e}

\* config.Load and victorialogs.New
Load ==
    /\ main = "load"
    /\ \/ Goto(IF ControlStore THEN "open" ELSE "pipeline") /\ UNCHANGED errs
       \/ Fail("config", "returned")
    /\ UNCHANGED <<signalled, accepting, resources, deadline, request>>

\* ControlDSN and postgres.Open, which closes the pool that it cannot ping.
OpenStore ==
    /\ main = "open"
    /\ \/ ~signalled /\ store' = "open" /\ Goto("migrate") /\ UNCHANGED errs
       \/ Fail("open", "returned") /\ UNCHANGED store
    /\ UNCHANGED <<signalled, accepting, pipeline, sources, server, deadline, request>>

\* One Exec of idempotent statements, bounded by control_store.timeout.
Migrate ==
    /\ main = "migrate"
    /\ \/ ~signalled /\ Goto("pipeline") /\ UNCHANGED errs
       \/ Fail("migrate", "deferred")
    /\ UNCHANGED <<signalled, accepting, resources, deadline, request>>

\* NewPipeline may refuse a time zone; Start turns accepting on.
StartPipeline ==
    /\ main = "pipeline"
    /\ \/ /\ pipeline' = "running" /\ accepting' = TRUE
          /\ Goto("sources") /\ UNCHANGED errs
       \/ Fail("pipeline", "deferred") /\ UNCHANGED <<pipeline, accepting>>
    /\ UNCHANGED <<signalled, store, sources, server, deadline, request>>

StartSourcesOrReturn ==
    /\ main = "sources"
    /\ \/ sources' = "running" /\ Goto("serve") /\ UNCHANGED <<deadline, errs>>
       \/ /\ sources' = "closed"
          /\ Fail("sources", "deferred") /\ UNCHANGED deadline
    /\ UNCHANGED <<signalled, accepting, store, pipeline, server, request>>

\* Manager.Start closes what it had opened before it reports an error; run
\* then stops the pipeline within shutdown.timeout.
StartSources ==
    /\ main = "sources"
    /\ \/ sources' = "running" /\ Goto("serve") /\ UNCHANGED <<deadline, errs>>
       \/ /\ sources' = "closed" /\ deadline' = "running"
          /\ Fail("sources", "stop")
    /\ UNCHANGED <<signalled, accepting, store, pipeline, server, request>>

\* api.New and the goroutine of ListenAndServe.
Serve ==
    /\ main = "serve"
    /\ server' = "starting"
    /\ Goto("select")
    /\ UNCHANGED <<signalled, accepting, store, pipeline, sources, deadline, errs, request>>

\* ListenAndServe binds its address or fails; after Shutdown it does neither.
Listen ==
    /\ server = "starting"
    /\ server' \in {"open", "failed"}
    /\ UNCHANGED <<main, signalled, accepting, store, pipeline, sources, deadline, errs, request>>

\* An open listener fails when it accepts a connection, and ListenAndServe returns.
AcceptFails ==
    /\ server = "open"
    /\ server' = "failed"
    /\ UNCHANGED <<main, signalled, accepting, store, pipeline, sources, deadline, errs, request>>

\* Before NotifyContext, at "load", a signal kills the process.
Signal ==
    /\ ~signalled /\ main \notin {"load", "returned"}
    /\ signalled' = TRUE
    /\ UNCHANGED <<main, accepting, resources, deadline, errs, request>>
-----------------------------------------------------------------------------
(* Shutdown *)

\* The select over rootCtx.Done() and serverErrors.
StopRequested ==
    /\ main = "select"
    /\ \/ signalled /\ Goto("withdraw") /\ UNCHANGED errs
       \/ server = "failed" /\ Fail("serve", "withdraw")
    /\ UNCHANGED <<signalled, accepting, resources, deadline, request>>

WithdrawAndStop ==
    /\ main = "withdraw"
    /\ accepting' = FALSE /\ pipeline' = "stopping"
    /\ Goto("close")
    /\ UNCHANGED <<signalled, store, sources, server, deadline, errs, request>>

Withdraw ==
    /\ main = "withdraw"
    /\ accepting' = FALSE
    /\ Goto("close")
    /\ UNCHANGED <<signalled, resources, deadline, errs, request>>

\* sources.Close() has no deadline; shutdownCtx is made when it has returned.
CloseSources ==
    /\ main = "close"
    /\ sources' = "closed" /\ deadline' = "running"
    /\ Goto("stop")
    /\ UNCHANGED <<signalled, accepting, store, pipeline, server, errs, request>>

StopPipeline ==
    /\ main = "stop"
    /\ accepting' = FALSE /\ pipeline' = "stopping"
    /\ Goto("drain")
    /\ UNCHANGED <<signalled, store, sources, server, deadline, errs, request>>

\* Pipeline.Stop returns nil when all is settled, or after the deadline has
\* cancelled the workers; its error is dropped when Start had failed.
PipelineStops ==
    /\ main = "drain"
    /\ pipeline' = "done"
    /\ Goto(IF "sources" \in errs THEN "deferred" ELSE "shutdown")
    /\ \/ UNCHANGED errs
       \/ deadline = "expired" /\ errs' = errs \cup {"stop"}
    /\ UNCHANGED <<signalled, accepting, store, sources, server, deadline, request>>

\* http.Server.Shutdown first closes the listener...
ShutdownBegins ==
    /\ main = "shutdown"
    /\ server' = IF server = "failed" THEN "failed" ELSE "closed"
    /\ Goto("wait")
    /\ UNCHANGED <<signalled, accepting, store, pipeline, sources, deadline, errs, request>>

ShutdownWaitsForAll ==
    /\ main = "wait"
    /\ \A r \in Requests : ~Running(r)
    /\ Goto("deferred")
    /\ UNCHANGED <<signalled, accepting, resources, deadline, errs, request>>

ShutdownSilently ==
    /\ main = "wait"
    /\ deadline = "expired" \/ \A r \in Requests : ~Running(r)
    /\ Goto("deferred")
    /\ UNCHANGED <<signalled, accepting, resources, deadline, errs, request>>

\* ... and then waits for the open requests or for the deadline.
ShutdownReturns ==
    /\ main = "wait"
    /\ \/ (\A r \in Requests : ~Running(r)) /\ UNCHANGED errs
       \/ /\ deadline = "expired" /\ \E r \in Requests : Running(r)
          /\ errs' = errs \cup {"shutdown"}
    /\ Goto("deferred")
    /\ UNCHANGED <<signalled, accepting, resources, deadline, request>>

ReturnWithoutClose ==
    /\ main = "deferred"
    /\ Goto("returned")
    /\ UNCHANGED <<signalled, accepting, resources, deadline, errs, request>>

\* A saved-search handler is at a statement.  Its context is the request's, which
\* has no deadline; the probe's check has controlTimeout.
InStatement(r) == Running(r) /\ request[r].kind = "saved"

\* pgxpool.Close waits for the connections that statements hold, without bound.
CloseStore ==
    /\ main = "deferred"
    /\ store = "open" => \A r \in Requests : ~InStatement(r)
    /\ store' = IF store = "open" THEN "closed" ELSE store
    /\ Goto("returned")
    /\ UNCHANGED <<signalled, accepting, pipeline, sources, server, deadline, errs, request>>

Expire ==
    /\ deadline = "running"
    /\ deadline' = "expired"
    /\ UNCHANGED <<main, signalled, accepting, resources, errs, request>>
-----------------------------------------------------------------------------
(* Requests; the process, and with it every handler, ends when run returns *)

Kinds == {"ingest", "ready", "tail"} \cup IF ControlStore THEN {"saved"} ELSE {}

\* accepting was on and has been withdrawn.
Draining == pipeline # "none" /\ ~accepting

\* The handler begins: `ready' loads the flag before it checks the stores.
Arrive(r, kind) ==
    /\ server = "open"
    /\ request[r] = Unsent
    /\ request' = [request EXCEPT ![r] =
           [kind |-> kind, late |-> Draining, accepting |-> accepting, code |-> 0]]
    /\ UNCHANGED <<main, signalled, accepting, resources, deadline, errs>>

Answer(r, code) ==
    /\ main # "returned"
    /\ request' = [request EXCEPT ![r].code = code]
    /\ UNCHANGED <<main, signalled, accepting, resources, deadline, errs>>

\* ingestJSON: the flag is not consulted.
IngestAnswers(r) ==
    /\ Running(r) /\ request[r].kind = "ingest"
    /\ \E code \in {202, 503} : Answer(r, code)

ReadyIgnoresFlag(r) ==
    /\ Running(r) /\ request[r].kind = "ready"
    /\ \E code \in {200, 503} : Answer(r, code)

\* backend.Check and Store.Check are what they are by now.
ReadyAnswers(r) ==
    /\ Running(r) /\ request[r].kind = "ready"
    /\ \E storage, control \in BOOLEAN :
         Answer(r, IF /\ request[r].accepting /\ storage
                      /\ ControlStore => control /\ store = "open"
                   THEN 200 ELSE 503)

SavedAnswers(r) ==
    /\ InStatement(r)
    /\ \E code \in {200, 503} : Answer(r, code)

TailEnds(r) ==
    /\ Running(r) /\ request[r].kind = "tail"
    /\ Answer(r, 200)

Run ==
    \/ Load \/ OpenStore \/ Migrate \/ StartPipeline \/ StartSources \/ Serve
    \/ StopRequested \/ Withdraw \/ CloseSources \/ StopPipeline \/ PipelineStops
    \/ ShutdownBegins \/ ShutdownReturns \/ CloseStore

Handler(r) == IngestAnswers(r) \/ ReadyAnswers(r) \/ SavedAnswers(r)

Rest == main = "returned" /\ UNCHANGED vars

Next ==
    \/ Run \/ Listen \/ AcceptFails \/ Signal \/ Expire
    \/ \E r \in Requests : \/ \E kind \in Kinds : Arrive(r, kind)
                           \/ Handler(r) \/ TailEnds(r)
    \/ Rest

Spec == Init /\ [][Next]_vars

\* run and the server goroutine are scheduled and the timer fires.  Nothing is asked
\* of a handler: the statement of a saved search and a live tail have no deadline,
\* and for the others Shutdown does not wait beyond its own.
Fairness == WF_vars(Run) /\ WF_vars(Listen) /\ WF_vars(Expire)

FairSpec == Spec /\ Fairness
-----------------------------------------------------------------------------
(* Properties *)

TypeOK ==
    /\ main \in {"load", "open", "migrate", "pipeline", "sources", "serve", "select",
                 "withdraw", "close", "stop", "drain", "shutdown", "wait",
                 "deferred", "returned"}
    /\ signalled \in BOOLEAN /\ accepting \in BOOLEAN
    /\ store \in {"none", "open", "closed"}
    /\ pipeline \in {"none", "running", "stopping", "done"}
    /\ sources \in {"none", "running", "closed"}
    /\ server \in {"none", "starting", "open", "failed", "closed"}
    /\ deadline \in {"none", "running", "expired"}
    /\ errs \subseteq {"config", "open", "migrate", "pipeline", "sources", "serve",
                       "stop", "shutdown"}
    /\ request \in [Requests -> [kind : {"none", "ingest", "ready", "tail", "saved"},
                                 late : BOOLEAN, accepting : BOOLEAN,
                                 code : {0, 200, 202, 503}]]

\* Each step of run finds the parts as the steps before it left them: which parts
\* exist, run or have stopped is a function of how far run has come.
Stages ==
    /\ TypeOK
    /\ main \in {"load", "open"} => store = "none"
    /\ main \in {"load", "open", "migrate", "pipeline"} =>
           pipeline = "none" /\ sources = "none" /\ server = "none"
    /\ main = "sources" => pipeline = "running" /\ sources = "none" /\ server = "none"
    /\ main = "serve" => pipeline = "running" /\ sources = "running" /\ server = "none"
    /\ main \in {"select", "withdraw", "close"} =>
           /\ pipeline = "running" /\ sources = "running"
           /\ server \notin {"none", "closed"}
    /\ main = "stop" => pipeline = "running" /\ sources = "closed"
    /\ main = "drain" => pipeline = "stopping" /\ sources = "closed"
    /\ main \in {"shutdown", "wait"} => pipeline = "done" /\ sources = "closed"
    /\ main \in {"stop", "drain"} /\ "sources" \in errs => server = "none"
    /\ main = "wait" => server \in {"failed", "closed"}
    /\ main \in {"deferred", "returned"} =>
           /\ \/ pipeline = "none" /\ sources = "none"
              \/ pipeline = "done" /\ sources = "closed"
           /\ server \notin {"starting", "open"}
    /\ main = "returned" => store # "open"

\* However far start-up came and whatever failed, run returns with nothing left
\* running: the pipeline is settled, listeners and server are closed, and the
\* control store's pool is closed.
NothingLeftRunning ==
    main = "returned" => /\ pipeline \in {"none", "done"}
                         /\ sources # "running"
                         /\ server \notin {"starting", "open"}
                         /\ store # "open"

\* A nil result of run is a promise: no request was cut off, and it was a signal
\* that ended the service.
NilMeansClean ==
    main = "returned" /\ errs = {} =>
        signalled /\ \A r \in Requests : ~Running(r)

\* The queue is closed only when no listener can submit any more.  What a listener
\* reads between Withdraw and CloseSources is refused by Submit for the flag, and is
\* never dropped by a closed queue.
QueueClosesAfterListeners == pipeline \in {"stopping", "done"} => sources = "closed"

\* A readiness probe that begins once the service is draining is answered 503,
\* whatever the checks that follow find.
DrainingIsNotReady ==
    \A r \in Requests :
        request[r].kind = "ready" /\ request[r].late => request[r].code # 200

\* Shutdown is bounded: a signal ends the service, whatever requests are open
\* (docs/architecture.md: "Bound every resource.  [...] shutdown all have limits").
ShutdownIsBounded == signalled ~> main = "returned"

\* If the statements that run on the control store return, a signal ends the
\* service from whatever point of start-up, although a live tail or an ingestion
\* request may stay open for ever.
SignalEndsService == (\A r \in Requests : []<>~InStatement(r)) => ShutdownIsBounded

\* run takes the parts up and down in order (so that it leaves nothing running and
\* the queue outlives the listeners), withdraws readiness first, and returns nil
\* only after a clean end.
ShutdownIsOrderly == Stages /\ DrainingIsNotReady /\ NilMeansClean
=============================================================================
