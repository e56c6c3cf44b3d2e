# Verification of syslogx in TLA+

syslogx receives syslog messages over UDP and TCP and JSON over HTTP, queues and
parses them, stores them in VictoriaLogs and serves queries, exports, a live tail
and saved searches. This directory holds TLA+ models of the service, TLC
configurations that check them on small instances, and TLAPS proofs of the main
properties for every instance. Line references are to `src/`.

## 1. The system and what is modelled

| Part | Code (below `backend/`) | Modules | State |
|---|---|---|---|
| Frame queue | `internal/ingestion/queue.go` | `BoundedFifo` (promise), `FrameQueue` (code) | modelled, proved |
| Ingestion pipeline | `internal/ingestion/pipeline.go` | `Pipeline` | modelled except `Reject` and the gauges; proved |
| Syslog listeners | `internal/transport/syslog/manager.go` | `SyslogManager`, `TcpFraming` | modelled, proved |
| Service lifecycle | `cmd/syslogx/main.go` | `Lifecycle` | modelled, proved |
| Storage append | `internal/storage/victorialogs/client.go` | in `Pipeline`, `HttpIngest` | outcome only: success, or failure after any part was stored |
| Queries and cursors | `client.go`, `internal/query/builder.go` | `QueryPaging` | modelled, proved |
| Export, statistics | `client.go` | `LogExport`, `LogStats` | modelled, proved |
| Row mapping | `row.go`, `internal/api/server.go` | `RowMapping` | modelled for JSON entries, proved |
| Parsers, normalizer | `internal/parser/parser.go`, `internal/normalization/normalizer.go` | `SyslogParser`, `StructuredData`, `Rfc3164Time` | modelled except `parseTag`, `uuidV7`; proved except structured data |
| HTTP ingestion, live tail | `internal/api/server.go` | `HttpIngest`, `LiveTail` | modelled, proved |
| Sessions, saved searches, control store | `internal/api/auth.go`, `saved.go`, `internal/controlstore/**` | `SavedSearches` | modelled, proved |
| Source status | `internal/api/sources.go` | - | not modelled: it changes no state |
| Configuration | `internal/config/config.go` | `Configuration` | layers, limits, sources, DSN; proved |
| Metrics | `internal/metrics/*.go` | in `Pipeline` | counters of terminal outcomes |
| Load generator | `cmd/loggen/main.go` | `LoadGenerator` | pacing and counting, proved |
| Frontend | `frontend/src` | - | not modelled |

How the parts interact: `run` (`Lifecycle`) loads the configuration
(`Configuration`), opens the control store, and starts pipeline, listeners and
HTTP server. A receive loop or connection handler (`SyslogManager`) cuts its
stream into frames (`TcpFraming`) and calls `Pipeline.Submit`; Submit reads
`accepting` and calls `enqueue` (`FrameQueue`); parse workers `dequeue`, parse and
normalise (`SyslogParser`, `StructuredData`, `Rfc3164Time`) and send to the `parsed`
channel; one batch worker collects entries and calls the storage client with
retries (`Pipeline`). Posted JSON goes to the storage client directly
(`HttpIngest`), through the same row mapping (`RowMapping`). Readers meet rows while
they arrive: `QueryPaging`, `LogStats`, `LogExport`, `LiveTail`.

The modules meet at these calls. `Pipeline` is built around `BoundedFifo`, which
`FrameQueue` is shown to implement. `SyslogManager` relies on `EnqueueReturns` for
Submit to return, and `TcpFraming` is the inside of one of its handlers.
`Lifecycle` takes from `CloseLeavesNothing` and `CloseReturns` that `Manager.Close`
returns with every listener stopped, and from `StopReturns` and
`GracefulStopSettlesAll` that `Pipeline.Stop` returns, with nil only when all is
settled. `AcceptedIsUsable` of `Configuration` (a part of `LoadIsSound`) is what the
constants of the other modules assume.

## 2. The modules

**`QueueLimits`** declares the frames, their sizes and the two limits of the queue,
and `IsTotal(b, q)`: b is the total size of the frames of q, stated as the
existence of a running total so that no recursion is needed.

**`BoundedFifo`** is the promise of the queue: `Put`, `Take`, `Close` on a sequence.

**`FrameQueue`** is `queue.go`. `items`, `head`, `bytes`, `closed` are the fields of
the struct. One critical section is one step, so `enqueue` is `EnqueueCall` (the
size test outside the lock), then at the lock `EnqueueClosed`, `EnqueueAdmit` or
`EnqueuePark`, then in the select `EnqueueTimeout`, `EnqueueCancelled` or `Wake`;
`dequeue` likewise. The `changed` channel is represented by `parked`, the callers
whose captured channel is still open: `notifyLocked` closes it, which empties the
set. The compaction threshold 1024 is the constant `CompactAt`.

**`Pipeline`** is `pipeline.go`. Each frame is offered once; `submit[f]` follows its
Submit call, `worker` and `job` the parse workers, `parsed` the channel, `flusher`
the batch worker including the call of the client (`call`, `inflight`, `backoff`),
`stop` the Stop call. `held` is the entry that the batch worker has received but
can only add after the flush it triggered. A worker in the select of `dequeue` is
`asleep`: with the context done it may return although a frame is waiting.
Counters are kept per frame: `counted[f]` how often f was added to `Stored` or
`Dropped`, `outcome[f]` to which. `copies[f]` is the number of rows the backend
holds. The backend is external; a failed request may have stored any prefix of
its rows. Payloads, timings, logging and the remaining metrics are left out. The
deadline may pass at any moment after `Stop` has closed the queue.

**`SyslogManager`** is `manager.go` without the bytes. Every source has
a socket and a loop, every connection a socket and a handler; an accept loop has
the steps accept, semaphore, track, spawn, and a handler the steps of its deferred
calls (close the connection, untrack it, release the slot, leave the wait group).
`buffered` counts frames that the handler's reader already holds and goes on
serving after the socket is closed. `main` follows Start and Close; Close starts
from a shutdown or from a source that fails to start. Any error ends a loop
(`LoopEnds`), as in the code. Rejected datagrams and empty frames change only
metrics or nothing.

**`TcpFraming`** is one connection: the peer writes messages in the encodings of
RFC 6587 and may stop anywhere, `readFrame` and the functions below it are
operators on the unread bytes `wire`, and the handler (`reader`) loops over them. A read that
would block yields "short" and is tried again when more bytes are there.

**`Lifecycle`** is `run`, one step per call that can fail or block, with the requests
that the HTTP server serves meanwhile, of four kinds: ingestion, readiness, saved
searches, live tail. A request records whether it began after readiness was
withdrawn (`late`). A saved search that runs on the control store holds a connection of
the pool (`InStatement`), for which the deferred close waits. The HTTP listener fails when
it is opened or later. A signal before `NotifyContext` kills the process and is left out,
as is `-version`.

**`HttpIngest`** is `ingestJSON`. A body is its shape and what stands at each
position; `Reads` says how far the decoder looks, `Verdict` is the status, and
`Accept` passes on to an append that fails after any part or whose answer is lost.

**`RowMapping`** follows the keys of one posted object through `ingestJSON` and
`toDirectRow`; the dynamic fields are copied one by one in any order. A value is
named by the key under which it was sent.

**`QueryPaging`** is a client that follows cursors: `Validate`, the conditions that
`LogsQL` puts together, one row more than the limit, truncation and cursor (`Page`). Of
`Validate` the interval and the limit are modelled; the sizes and the form of filters
belong to the text that is left out.
VictoriaLogs is external: it evaluates the conditions and sorts by time, ties in
any order. A native text in the query is taken to be one conjunct.

**`LogExport`** copies rows into a buffered writer that spills at any moment and
anywhere in its text; a line that a broken connection cuts off is still copied
(`CopyPart`), as `bufio.Scanner` does. The result is a sequence of tokens. **`LogStats`** has one step per query of `Stats`,
rows arriving in between.

**`LiveTail`** is `tailLogs`: a ticker whose channel holds one tick, a query of the
last window, the truncated result with its gap event, and the memory of keys as
the set `seen` and the sequence `order`. A poll takes at most `MaxDelay`.

**`SavedSearches`** is `auth.go` and `saved.go` with both stores. The session look-up
of the middleware, that of the handler and the store's statement are three steps.
A store error leaves open whether the statement took effect (and so does the restart that
cuts off its answer: to the model that is an error too); a restart loses
sessions and handlers and, without PostgreSQL, the searches. `durable`, chosen at the
beginning, says which store there is.

**`SyslogParser`** is `Registry.Parse`, `Detect`, both parsers and `Normalize` on
messages described by what the code tells apart. **`StructuredData`** is the
character loop of `parseStructuredData` on the encodings of small data, whole or cut
off; a field is named by element, dot and parameter, and dots occur inside them too. **`Rfc3164Time`** is `nearestRFC3164Time` with a calendar in half days, written
without recursion: days before a month from a table, days before a year from the
number of leap years.

**`Configuration`** applies file, environment and flags in order, then the checks of
`finalize`. **`LoadGenerator`** is the loop of `loggen`.

**The compositions.** Three modules bring together components that do not share
state: `SyslogInput` (listeners, framing, parsers, years), `Service` (lifecycle,
configuration, load generator, posted batches, row mapping) and `Queries` (cursors,
export, statistics). Each component keeps its own variables;
`path`, chosen at the beginning, names the one that a behaviour follows, and the
others stay in a state that an operator `...Rest` or `...Rests` gives. So the reachable
states are the union of the components' and not their product. The assumptions on
the constants of instantiated components are stated there. Where components do
depend on each other they are composed by the promises listed above.

**The `MC` modules** give the constants their values and the symmetry sets.
`MCSyslogInput` adds `StructuredData`, about which nothing is proved, to `SyslogInput`.

Operators placed just before a definition, with the same parameters and no comment,
are faulty variants of it (a skipped notification, an off-by-one, a missing flush).
Each property was seen to fail with one of them, and a property that is a conjunction
with one for each of its parts.

## 3. The runs

| Run | Instance |
|---|---|
| `queue` | 2 producers, 2 consumers, frames of 0, 1, 2, 4 bytes, limits 2 frames and 3 bytes, `CompactAt` 1 |
| `pipeline`, `forced_stop` | 3 frames, 2 workers, channel of 1, batch of 2 events / 4 bytes, 2 attempts |
| `pipeline_live` | the same with 2 frames |
| `listeners` | 1 UDP and 2 TCP sources, 3 connections, 2 slots; framing: 2 messages of up to 5 bytes over digits, space, letter and line ends, frames of 4 bytes, 2 digits; parser: 12 priorities around every bound, all shapes, 3 parsers; structured data: 2 elements, 2 parameters, values of 2 special characters, every cut; years: receipt in 2023..2025, candidates in 2021..2027, days 0, 1, 2, 15, 28, 29, 31 of any month for both |
| `listeners_live`, `listeners_close_error` | 1 UDP and 1 TCP source, 2 connections, 1 slot, 2 buffered frames (1 for the second run); framing with 1 message |
| `lifecycle` | 3 requests, control store on; every layering of the configuration, limits and up to 2 sources around their bounds; 7 generated messages, 2 per tick, batches of 2; bodies of up to 4 positions, 2 records allowed, 3 requests; every subset of 9 keys in every order |
| `shutdown_bound` | 1 request, control store on |
| `live_tail` | 3 rows, window 3, limit 2, memory 2, delay 1, 5 ticks |
| `queries` | 4 rows at times 0..3, interval 0..2, limits 0, 1, 2 and one too large; export of up to 4 hits of 1 or 2 bytes with limits of 3 rows and 5 bytes; 3 arriving rows, 3 buckets, 3 groups |
| `saved_searches` | 3 requests, 1 token, 1 restart, with and without PostgreSQL |

What they show:

- `queue`: the queue implements `BoundedFifo` (`ImplementsFifo`), charges bytes
  exactly, loses no wake-up and keeps its slice bounded; `enqueue` returns, and `close`
  releases the consumers.
- `pipeline`: every frame is accounted once, none is in two places, a graceful stop
  settles all, nobody sends on the closed channel, what is counted as stored is in the
  backend, no row has more copies than the retry budget, batches keep their limits, and
  nothing happens after done. `pipeline_live`: Stop returns, and what was admitted is
  settled. `forced_stop` is **violated**, see section 4.
- `listeners`: slots are exact and within the limit (`SlotsAreExact`), connections stay
  within Close's reach (`OpenIsReachable`), and Close leaves nothing
  (`CloseLeavesNothing`). `StreamIsDelivered`: frames are within the limit and are the
  messages that the peer wrote, all of them after an orderly end. `ParsingIsFaithful`:
  auto takes what the fixed parsers take, an inferred time is marked, priorities have
  their names. `StructuredDataIsFaithful`: parsing inverts encoding, up to
  parameters whose field names are the same text, and refuses what is cut off. `NearestOfAllYears`: three candidate years suffice to find the nearest.
- `listeners_live`: Close returns although no peer sends or hangs up, and a connection's
  handler returns when its peer is gone. `listeners_close_error` is **violated**, see
  section 4.
- `lifecycle`: `ShutdownIsOrderly`, start-up and shutdown take the parts through their
  stages in order on every path, readiness is withdrawn first, and nil means a clean
  end; `SignalEndsService`, a signal ends the service if the statements on the control store
  return. `LoadIsSound`: an accepted configuration is usable, and the
  highest layer that sets a value wins. `GeneratorIsHonest`: result, pace and count
  (of a batch that was not accepted any part may be stored).
  `AnswersAreReliable`: a refused batch leaves nothing, 202 means stored, duplicates come
  from the client's retries only. `FieldsAreKept`: canonical fields are kept, and others
  are lost only by collision.
- `shutdown_bound`: the same without that condition is **violated**, see section 4.
- `live_tail`: `TailIsFaithful`, the memory is the end of what was sent, rows are
  repeated only when forgotten and not skipped silently; `PromptRowsAreSent`.
- `queries`: `PagesAreExact`, pages descend, are disjoint and miss only ties; `WalkEnds`.
  `ExportIsHonest`: the output is a prefix of the right document, all of it on success,
  and a JSON array that arrives closed is all of it. `StatsAgree`: chart and groups account for the total.
- `saved_searches`: `SearchesAreKept`, what create, delete and list have answered stays
  true, in either store; `SessionsAreRespected`, logouts are final and the only way for a
  search to lose its owner.

Why the bounds are enough to be interesting: frames can be empty, fill the queue
exactly, not fit next to another one, and exceed it; the queue, the channel, the
batch (by number, by bytes and by one oversized entry) and the retry budget all
reach their limits; compaction happens with frames left behind it; two callers of
each kind compete, so that wake-ups can be stolen; and a third connection meets a
full semaphore. Messages of the framing have a length, a line end, a count or too many
digits inside; a third row overflows the live tail's poll and its memory, and its
clock is long enough for a row to be late, forgotten and repeated; walks have ties
inside and across pages; three requests are enough for a create, a delete and a
list or logout that all overlap; exports meet both limits exactly and by one; the years
have a leap year and its neighbours on both sides, and receipt on both sides of half a
year's distance. What the bounds leave open is what the proofs close where there are
some. Named bounds that are not in the code: `MaxSent`, `MaxTries`, `MaxTime`, `MaxHits`,
`MaxArrivals`, `MaxRestarts`.

Deadlock is checked in every run; `Rest` is the idle step of a program that has
stopped.

**Fairness.** `FrameQueue`: a caller at the lock or with a closed channel runs on
(Go scheduler, mutex without starvation), and a producer that is in its select
again and again with its timer expired takes the timer case some time (select
chooses uniformly among ready cases: strong fairness). `Pipeline`: every goroutine
that can run does; a storage call returns (the HTTP client has a timeout); the
batch timer fires, which takes for granted that stopping, draining and resetting it
(`pipeline.go:188`) leaves it armed. `SyslogManager`: goroutines run on unless they wait for a peer;
reading a closed socket fails; Submit returns. `TcpFraming`: the handler runs on when
its read can return. `Lifecycle`: `run` and the server's goroutine run on, and the
shutdown deadline passes. Handlers need not end: `Shutdown` does not wait for them beyond
its deadline. The one wait that has no deadline is that of `pgxpool.Close` for saved-search
statements, whose context is the request's (`saved.go:19`, `62`, `79`); that these return is
therefore a premise of `SignalEndsService` and not a fairness assumption. (The readiness
probe's statement has `control_store.timeout`.) `QueryPaging`: the client goes on asking, and an invalid
query is refused; the backend need not fail. Never assumed: that anybody submits,
connects, sends, hangs up or calls Stop or Close, that a signal comes, or that storage
recovers.

## 4. Findings

1. *Unaccounted events after the deadline* (`forced_stop`). After `Stop`'s deadline
   the workers return as soon as they see the done context while sending
   (`pipeline.go:136`) or sleeping in `dequeue`; frames still queued are neither
   stored nor counted. `docs/configuration.md:34`: "Remaining events are accounted
   as dropped if the deadline is exhausted".
2. *`Manager.Close` may report an error after a clean shutdown*
   (`listeners_close_error`). A handler closes its connection before it leaves the
   map, so `Close` can close it again (`manager.go:84`);
   `integration_test.go:116` expects nil.

3. *Shutdown without a limit* (`shutdown_bound`). A saved-search statement has no deadline,
   and the deferred `controlStore.Close` (`main.go:76`) waits for it after `Shutdown` has given
   up, so that a signal need not end the service. `docs/architecture.md:38`: "Bound every
   resource", "shutdown all have limits".

Other places where the code and a document differ came up while modelling. They have no
run of their own; the models follow the code, and the properties that hold are stated
around them.

- `sources.go:20`: a listener whose loop has ended is reported as running;
  `docs/api.md:103` promises the runtime state.
- `manager.go:236`: auto framing takes ten digits for a count with no space behind them;
  `docs/configuration.md:22` requires one.
- `server.go:284`: HTTP ingestion goes on while the service drains;
  `docs/ingestion.md:90` stops it first.
- `client.go:136`: a query without a limit is answered with no rows;
  `docs/openapi.yaml:136` has a default of 100. `OnlyTiesAreSkipped` excludes it.
- `builder.go:42`: the end of an interval is included; `docs/api.md:8` says half-open.
- `builder.go:44`: a native text is appended without parentheses, so that an `or` in it
  is not confined to the interval; `docs/storage-comparison.md:82`.
- `server.go:188`: an invalid export is answered 200; `docs/openapi.yaml:39` says 400.
- `client.go:220`: the chart of two days has 577 buckets and is cut off at 500;
  `docs/requirements.md:47`. `LogStats` has the intervals that fit.
- `parser.go:122`: messages of 29 February are refused, because the date must exist in
  all three candidate years; `docs/configuration.md:22`.
- `parser.go:281`: element and parameter of structured data are joined by a dot and not
  escaped, so that `[a.b c="1"]` and `[a b.c="2"]` become one field;
  `docs/log-data-model.md:45` has `syslog.sd.<escaped_element>.<escaped_param>`.
  `StructuredDataIsFaithful` says that a value is lost to such a field only.
- `parser.go:281`: a repeated structured data parameter overwrites the first, likewise;
  `docs/log-data-model.md:47`.
- `parser.go:54`: an auto source drops what looks like syslog and does not parse;
  `docs/syslog.md:9` drops for configured parsers only.
- `parser.go:74`: a trailing line break hides RFC 3164 from detection;
  `docs/ingestion.md:54`.
- `row.go:50`: a posted field may be overwritten by one that is put aside;
  `docs/openapi.yaml:21`. `LostOnlyByCollision` says that nothing else loses one.
- `server.go:263`: a posted `source_ip` is stored as the row's;
  `docs/log-data-model.md:20`.
- `server.go:270`: a missing severity is stored as `<nil>`; `docs/log-data-model.md:57`.
- `config.go:281`: a DSN in the file wins over a DSN file from the environment;
  `docs/configuration.md:3`.
- `pipeline.go:231`: the queue gauges may be stale on an idle queue; help text in
  `metrics.go:32`.

## 5. The proofs

Every safety property of the runs is proved for all values of the constants, except
the parsing of structured data. Eight modules hold the theorems. The constants
are arbitrary within named assumptions, which the runs evaluate on their instances:
sizes, limits and times are numbers and capacities positive (`QueueAssumption`,
`PipelineAssumption`, `ManagerAssumption`, `TailAssumption`, `PagingAssumption`,
`ExportAssumption`, `StatsAssumption`, `GeneratorAssumption`), callers are disjoint and
rows and connections finite, and inputs have the shape that the decoder gives them
(`BodiesAssumption`, `KeysAssumption`, `FilesAssumption`, `EnvsAssumption`,
`FlagsAssumption`, `TextsAssumption`, `ParserAssumption`, `YearAssumption`,
`FramingAssumption`).

- `FrameQueueProofs`: lemmas on slices under append, take, zeroing and cutting, and on
  `Ledger`, the inductive form of `IsTotal` (a running total that is also monotone, so
  that the head of the queue can be subtracted; `PipelineProofs` has the same lemmas for
  its own queue). The invariant is the slice (pending part typed, ledger exact,
  taken prefix short), the callers (a producer in enqueue has a frame) and
  `NoLostWakeup`, which is inductive because every change of the slice empties
  `parked`. From it: types, exact bytes, slice bound, and `Spec => Fifo!Spec`, where
  compaction and all waiting are stuttering steps.
- `PipelineProofs`: the counters alone say nothing inductive about where frames
  are, so the invariant asserts a function that gives each frame one place
  (a stage, outside, or counted) and each action updates it (`PlaceInv`). Next to
  it: control states that exclude each other (`ControlInv`: who may still run once
  the queue, the channel or done is closed), rows bounded by the attempts made so
  far (`CopiesInv`), batch bytes (`BatchInv`) and the queue's ledger.
- `SyslogInputProofs`, the listeners: what an accept loop has in its hand (`HandInv`),
  the phase of each connection (`ConnInv`), what Close has waited for (`MainInv`), and
  the semaphore as the cardinality of its holders. The parsers (`ParsersAgree`):
  `ParserInv` says that event and entry come from the parser that was chosen, and the
  lemma `DetectFindsFormat` that `Detect` chooses whichever parser accepts. The years
  (`NearestYearIsFound`): `YearInv` says that the best time is the nearest of those
  tried; that three suffice follows from the calendar, in which the times of a stamp
  are ordered as their years (`YearsAreOrdered`, `TimeInYear`), so that the receipt lies
  between the first and the last candidate, and at most 366 days are between two
  (`StampsComeAgain`). A stamp of 29 February never gets that far.
- `TcpFramingProofs` (`StreamArrives`): the unread bytes are described by the messages
  still to be read. `Laid` gives, for each number k of messages, what is left of the
  stream after them: the encoding of message k + 1 followed by what is left after it.
  `FramingInv` says that the reader stands at one of these places (`Following`), with the
  frames read so far being the messages up to there, or has read all (`Finished`); a
  broken connection has lost bytes at the end only. So a step compares two ways to
  divide the same bytes (`SameStream`) and needs no induction over the stream. The lemma
  `NextRead` says what `readFrame` does there: it returns the next message, waits for
  the rest of it, or takes the beginning of a line at the end of the stream. It rests on
  what `Leading`, `LineEnd` and `bytesTrimLine` find in a counted message, a line and a
  part of either; the induction that `Atoi` and the two searches need goes through the
  least element of a set of numbers (`LeastOf`, `Upwards`), not through an induction
  schema. The messages must be clear (`AllClear`): RFC 6587 leaves a line that holds a
  line end, or begins like a count, ambiguous.
- `ServiceProofs`, the service (`RunIsOrderly`): `Stages` ties each part to the progress
  of `run`. Next to it, an error of the listeners is recorded only once they were
  started and a run without error was ended by the signal (`ErrInv`), such a run has no
  open request behind it (`CleanInv`), and a probe that began late has read the flag as
  off (`RequestInv`). `Stages` is inductive with these. The load generator
  (`GeneratorTellsTheTruth`): the burst under way stays below its target and the target
  below the rate, and per protocol what was sent is accounted for: over HTTP what is stored
  lies between the count and the count with the batch under way. The configuration
  (`AcceptedConfigurationIsSound`): `LayersInv` gives the address after each layer,
  `SourcesInv` what the loop over the sources has established so far. Posted batches
  (`IngestAnswersAreReliable`): the verdict is a function of the body, so that a retry
  gets the same (`VerdictInv`), and every position was appended at most once per finished
  request (`Copies`). Row mapping (`RowsKeepFields`): each field that was copied is in the
  row or has given way (`Copied`), and names put aside are never canonical (`AsideNames`).
- `LiveTailProofs` (`TailIsExact`): that a row is not repeated early needs that the
  memory is exactly the end of what was sent (`MemoryIsRecent`), which is inductive by
  itself; `PollInv` says that the rows of a window not yet sent or announced are still
  in the batch. `PromptRowsArrive`: a prompt row that was not handled waits for the next
  tick, for a pending one, or for a poll whose window has it (`Waits`). It needs
  `MaxDelay` to be at least 1: with polls that take no time at all a row could arrive
  just after the poll and leave its window before the next tick. The code's
  bound is the storage time-out, 10 s by default, and a tick comes every 2 s.
- `QueriesProofs`, cursors (`WalkIsExact`): what was received lies at or above the
  cursor, what matches lies below it (`PagesDescend`, `CursorIsBoundary`); `Covered` says
  that every initial row of the interval at or above the cursor was received or ties
  with a cursor. Export (`ExportTellsTheTruth`): sent and buffered text together are the
  document of the rows read so far (`TextIsRight`, `TextLength`), a closing bracket is
  there only when all are (`ClosedIsComplete`), and a running total justifies the byte
  count (`BytesAreCounted`). Statistics (`LaterPartsCoverTheTotal`): rows only arrive, so a
  total counted before is not above a later count (`StatsInv`); that buckets and groups
  cover the rows they were counted from is `VolumeCovers` and `GroupsCover`, an injection
  of rows into counted marks.
- `SavedSearchesProofs` (`AnswersStayTrue`, `SessionsEndByLogout`): per request what its
  reply, its owner and its session imply (`Replies`, `Origin`, `Session`, `Late`), together
  with `CreatedStays`, `DeletedOnce` and `ListShowsKnown`, which need each other.

Only model-checked:

- all liveness properties (`EnqueueReturns`, `CloseReleasesConsumers`, `StopReturns`,
  `AdmittedIsSettled`, `CloseReturns`, `ConnectionHandlerReturns`, `SignalEndsService`,
  `WalkEnds`): fairness and ENABLED are outside the prover's reach;
- `StructuredDataIsFaithful`: its texts are concatenations nested three deep (escaped
  characters in values in parameters in elements), each of any length. The prover has no
  induction over data, and a description of the text by positions, as `Laid` gives it for
  a stream of messages, would be needed on every level; it was not carried out.

## 6. Not modelled

- The frontend: rendering and fetch calls without concurrent state of their own.
- Requests without state: `health`, `capabilities`, `recentLogs`, `fieldNames`, `me`,
  `listSources`, and `Recent`, `FieldNames` and the health check's request of the storage
  client. The outcome of the health check is a choice in `Lifecycle`.
- A native query text that is a disjunction, see section 4.
- Text: filters and quoting of `builder.go`, `csvCell`, `parseTag`, message texts and
  option checks of `loggen`, the bits of `uuidV7`. They are formatting that no property
  here depends on.
- `Reject`, the queue gauges, the request log and the HTTP metrics: they only count or
  log, and nothing in the code reads them.
- Single-value checks of the configuration (durations, addresses, time zones): one
  flag, `rest`, in `Configuration`.
- VictoriaLogs, PostgreSQL, the Go runtime, `net/http` and `bufio` are external and
  appear by what the code relies on.

Hazards without a property: the queue gauges may be set in the wrong order; a listener
whose loop has ended is still reported as running; a broken NDJSON or CSV export cannot
be told from a complete one, because nothing marks its end. Two more were seen and not
modelled: expired sessions are never removed from the session map, and identifiers of
posted records may collide when two requests read the same clock value.
