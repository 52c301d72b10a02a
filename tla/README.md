# apm-perf in TLA+

Specifications of elastic/apm-perf, the load generators and benchmarking tools of APM Server, with
the configurations that model-check them with TLC and proofs that TLAPS checks.

    tlc -config MCHandlerLoop.cfg MCHandler
    tlc -config MCPrograms.cfg MCPrograms  # PROJECT.json, "runs", pairs modules and cfgs
    tlapm HandlerProofs.tla

Paths of Go files are relative to the root of the repository.

## 1. The system

| Component | State | Operations | Interacts with |
|---|---|---|---|
| Replay handler, `loadgen/eventhandler/handler.go` | per call `state{burst, sent}`, the position in the corpus, the `eventWriter`; shared: `rand`, the limiter | `New`, `SendBatches`, `SendBatchesInLoop` | limiter (`WaitN`), writer, transport; called by apmbench, soaktest, pkg/telemetrygen, apmtelemetrygen |
| Corpus loader, `New` and `apm-collector.go` | `batches`, `minTimestamp` | scan of files into batches | recorded NDJSON files |
| Event writer, `apm-writer.go` and `handler.go:370-462` | `rewriteBuf`, `idBuf` | rewrite of timestamps, IDs, names | handler |
| APM transport, `apm.go` | none | `SendEvents` | net/http, APM Server |
| Limiter, `loadgen/limiter.go` | tokens (x/time/rate) | `GetNewLimiter`, `ParseEventRate` | one for all agents of a benchmark in apmbench and for all of a generator; one per replica in apmsoak |
| Metrics store, `cmd/otelinmemexporter/store.go`, `histogram.go` | `nums`, `hists`, an RWMutex | `Add`, `Get`, `GetAll`, `Reset` | collector pipeline (`exporter.go`), HTTP server (`http.go`) |
| apmbench | `testing.B`, cleanup index | `Run`, `runOne`, `assertCleanupState` | handler, telemetrygen, metrics store over HTTP |
| telemetrygen, `internal/telemetrygen` | `running` flag, WaitGroup, a counter per worker | `Start`, `Run`, a worker per goroutine | OTLP exporters |
| Soak runner, `internal/soaktest`, `cmd/apmsoak` | errgroup, context, run duration | `Run`, `runAgent` | handler in a loop |
| Generator, `pkg/telemetrygen`, `cmd/apmtelemetrygen` | errgroup | `RunBlocking`, iterations | handler, one pass |
| Elasticsearch stub, `internal/proxy` | buffer pool | `ServeHTTP` | APM Server |
| sendotlp | providers and exporters | one signal of each kind, shutdown | OTLP |

What is hard here:

- **Rates.** A burst is waited for when `sent % burst = 0`. Batches, bursts and passes over the
  corpus end at different events, a pass may fail anywhere, and `sent` survives the failure and the
  pass while the position in the corpus does not.
- **Request bodies that outlive their request.** `SendEvents` may return while net/http still reads
  the body; the comment at `handler.go:356` says why a writer is never reused.
- **Ends.** Loops end by cancellation, by an error or (with `RunForever`) by cancellation only;
  telemetrygen ends by a count or a flag; both must end, without losing what they counted.
- **The store.** Its clients are concurrent, a payload is merged a data point at a time, and data
  points come out of order, with labels on the data point or its resource, and with histogram bounds
  that change.
- **Shared buffers.** All rewrites of an event go through one scratch buffer; the handlers of the stub
  take theirs from a pool. What one leaves in a buffer the next would write.
- **One random number, one minimum.** IDs must be rewritten alike in every batch of a pass, and
  timestamps by their distance from the earliest one of all files.
- **Errors on the way out.** An errgroup cancels the agents that have not failed, sendotlp shuts its
  providers down after it has failed: the cause must be reported, and nothing else lost.

Components that correctness does not depend on (flags, TLS options, version tables) have
`not_modelled` entries in `PROJECT.json`.

## 2. The modules

| Module | What it is |
|---|---|
| `PacedReplay` | abstract: agents deliver a corpus in order, pass after pass, at most `Burst` events per grant; a grant is followed by another one when it is used up, or replaced whole at the start of a pass |
| `Handler` | the replay loop with limiter, transport, buffers, cancellation, failures; implements `PacedReplay` |
| `HandlerProofs` | theorems about `Handler` |
| `MetricsLog` | abstract: a log of data points and answers that are functions of the log at one instant |
| `Arrivals` | data points numbered as they arrive, for `MetricsLog` and the history of `Store` |
| `Store` | the store with its lock, maps, merges and reads; implements `MetricsLog` |
| `StoreProofs` | theorems about `Store` |
| `AggConfigs` | the validation of the store's configurations, the constant `Configs` of `Store` |
| `Quantile` | the quantile of a histogram, in exact fractions |
| `Telemetrygen` | Start, Run and the workers of the three signals |
| `TelemetrygenProofs` | theorems about `Telemetrygen` |
| `BenchRun` | Run of apmbench, the cleanup and the report, with a server that works off events in stages |
| `BenchRunProofs` | theorems about `BenchRun` |
| `Corpus` | what `New` loads: batches and the smallest timestamp (operators, and a definition to compare with) |
| `EventWriter` | how a batch is rewritten and written (operators) |
| `Replay` | loads a recording and writes it pass after pass with `Corpus` and `EventWriter` |
| `AgentGroup` | apmsoak, pkg/telemetrygen and apmtelemetrygen: agents, errgroup, duration, iterations, exit codes |
| `AgentGroupProofs` | theorems about `AgentGroup` |
| `StubES` | the Elasticsearch stub: concurrent bulk requests and the buffer pool |
| `SendOTLP` | sendotlp: exporters, signals, deferred shutdowns, exit code |
| `ReplayProofs` | theorems about `Replay`, and the lemmas about `Corpus` and `EventWriter` |
| `ProgramProofs` | theorems about `StubES`, `SendOTLP`, `AggConfigs` and `Quantile` |
| `DataLemmas` | lemmas the proofs share: induction over numbers, flattened sequences, sums, largest elements and the steps of a fold |
| `MCHandler`, `MCStore`, `MCBenchRun`, `MCReplay` | corpora, configurations, payloads, cleanup keys and recordings for TLC |
| `MCPrograms` | the parts that share no state (`Replay`, `AgentGroup`, `StubES`, `SendOTLP`, `Quantile`, `AggConfigs`, `Telemetrygen`, `BenchRun`) in one run: `program`, chosen at the start, says which one moves |

Operators marked "mutant", and those that follow a definition as a variation of it, are used by no
specification: each is a plausible mistake in the code, and the corresponding property has been seen
to fail with it (`PROJECT.json`, `mutants`).

### Handler

An agent is a goroutine in `SendBatchesInLoop` (`Looping`) or `SendBatches`. Agents are the concurrent
calls that one handler allows, as those of apmbench's parallel benchmark (`bench.go:156-172`); a replica
of apmsoak has a handler and a limiter of its own (`runner.go:148-174`, `:239`), which is the module with one
agent. `pc` follows it through
`handler.go`: `loop` is the `select`, `pass` is between two chunks of `sendBatches`, `wait` is
`Limiter.WaitN`, `write` is `Config.Writer` and `writer.Close`, `send` is `Transport.SendEvents`.

| Code | Model |
|---|---|
| `state.sent`, `range h.batches`, `events`, `n` | `sent`, `batch`, `off` (events already cut off), `n` |
| `select` / `continue` / `s.sent % s.burst` | `Poll`, `PassFailed`, `PassDone` with `Remainder` |
| `sendBatch` up to the writer | `CutChunk`, or `WaitForBurst` then `BurstGranted` or `WaitCancelled` |
| `newEventWriter` | `NewEventWriter`: a buffer nobody refers to (allocation on a garbage-collected heap) |
| `SendEvents` | `SendEvents`, then `Respond` or `ConnectionFails`; `reading` is what net/http still transmits |
| `rate.Limiter` (external) | `tokens`, which reservations make negative, and per agent the refill it still waits for |

`log` (chunks acknowledged in this pass) and `credit` (what of the last granted burst is not acknowledged)
are history variables: no action reads them. A failed pass leaves `credit` as it is. The code knows of it
only `sent % burst`, which is 0 both when the burst is used up and when nothing of it was sent: after a
first request that fails, an agent waits for another burst with one in
hand, and `NoWastedBurst` says so. A reservation that is cancelled is not returned to the limiter: the
agents that share it share the cancellation and take no tokens any more. `Config.Writer` and
`writer.Close` are taken not to fail.

### Store

A client is a goroutine of the collector (Add) or of the HTTP server (Get, GetAll, Reset). Under the
write lock `Add` merges a data point per step; under the read lock `Get` reads a key per step. The
lock is the one of Go: a waiting writer keeps new readers out, and readers that waited go before the
next writer. A payload is flattened to its data points; values are integers, rates are fractions, an
empty label is `Empty`. A histogram is its bounds, count and sum; the percentile is represented by
the count, which stands for any function of the merged histogram. A resource's attributes
are those of each of its data points. A Get of a key that is not configured, which changes nothing,
is left out.

The history `log`, which no action reads, holds the data points by the number of their arrival
(`Arrivals`). `Reset` leaves the histograms where they are, so the log has gaps after it: what is left
keeps its order and its numbers, and an answer is a function of the log and of the set of the numbers
that belong to a group.
What `MetricsLog` defines is the value the code arrives at, over all the points at once; where a comment of
`store.go` promises another, that is a property of `Store` of its own, which a run shows to be violated:
`ResetDeletesAll`, `LowestStart`, `IgnoresUnsupported`. `Forward` (`PointsForward` in `MCStore`, evaluated by TLC) says of the payloads
that no data point of a number ends before it starts; only `RateWindow` needs it.

### Telemetrygen

`kind` selects what differs between the signals: a trace ends up in the queue of the batch span
processor, which a goroutine of the SDK exports and `Start` drains before it shuts the exporter
down; logs and metrics are exported by the worker, and an export error is `logger.Fatal`; a metrics
worker creates its exporter and shuts it down after `wg.Done`. A trace counts as one unit in the
queue however many spans it has. The rate of a worker's limiter does not matter to the properties and
is left out: `Count` is the moment it lets a signal pass.

### BenchRun

`run` counts the agent counts times benchmarks times `-count`; `pc` is `bench` while the function runs,
`tick` and `assert` in `assertCleanupState` (waiting for the ticker; asking for the key `idx`), `report`
before `GetAll`. `testing.Benchmark` is external: it calls the function again, with a larger N, as long
as it has neither failed nor been skipped. The server under test is external too: events pass through
stages, the level of a stage is what a cleanup key reads, and `Publish` is the export of all its
metrics to the store at one time. `Prompt` assumes that it publishes between any two ticks (5 s).

`DrainedReport` needs two things of the configuration, which no document says: the keys must be those
of all stages in the order events pass them, and the server must be prompt. Otherwise a key that has
been zero is not asserted again when events reach its stage; and a key of which nothing has been
published since the reset reads 0 (`store.go:210`, `:242`), so the cleanup is over at the first tick.
TLC finds both when `Prompt` is FALSE (`MCPrograms.cfg`) or the keys are `<<2, 1>>` (`MCBenchRun.tla`).

### Corpus, EventWriter, Replay

A line of a file is a record with its kind (`meta`, `event`, `rum`, `empty`, `long`) and its fields, the
members of its JSON object in order, each with its path. `New` folds `ReadLine` over the lines, as the
scanner's loop does. `WriteMember` is the `switch` of `writeAPMEvents`; the writer `w` is threaded
through it with `rewriteBuf` and `idBuf`, which is what could leak. `BeginPass` is the start of
`sendBatches` (random number and clock), `WriteBatch` one call of the writer. How batches are cut into
chunks is in `Handler`; a chunk repeats the metadata and is otherwise a part of its batch.

Timestamps are nanoseconds with `Micro` of them in a microsecond; the random number is a sequence of
bits, one for the 4 or 5 that a character uses. There is one character of each kind the code tells apart.
Two hexadecimal digits stand for all sixteen: that IDs that differ only in upper and lower case become
equal (`randomizeTraceID` writes lower case) is left out; the recordings have lower case only.

### AgentGroup

`command` selects the program. `main` is the goroutine of Run, RunBlocking or the command; `place`
follows an agent: `setup` (parameters and `NewEventHandler`), `next` (before a pass), `pass`, `done`.
`Done` says whether the agents' context is done: by a signal or the caller (`parent`), the run duration
(`over`), or because the errgroup has an error. A pass is a few requests, each answered (`Send`) or not
(`PassFails`): the abstraction of a pass of `Handler` whose details this module does not need.

### StubES

Each request is a handler `h`, `step` follows it through `ServeHTTP`; a buffer's content is a sequence
of tokens, a body a sequence of lines that can be scanned or not. `GetBuffer` takes any buffer of the
pool or a new one, which is empty; the deferred function is the two steps `ResetBuffer` and `PutBuffer`,
between which other handlers go on.

### SendOTLP

One action per statement of `Main` that can fail. `Fails` is a `return err`; after it come the deferred
shutdowns of what has been created, last first. `failed` (what went wrong) and `exported` (what was
answered without an error, with the header it came with) are history variables, and so is `rejected`: an
answer without an error may say that data was rejected (OTLP's partial success), which nothing in `main.go`
reads. Exporters and endpoint are external.

### Quantile, AggConfigs

Both are algorithms without processes. TLC builds their inputs step by step (a bucket, a configuration)
and compares the result with a reference: the inverse of the distribution function (`Inverts`), and for
configurations the pairwise condition (`Unambiguous`) with the maps that result (`Grouped`).
The conversion of a data point into buckets (`explicitBucketsFromHistogramDataPoint`) is not modelled: the
buckets are the input. `Sorted` stands for `slices.SortFunc` by what it results in: the bounds of a histogram differ, so a bucket's place is
the number of bounds up to its own.

## 3. The runs

| Run | What it asks | Bounds |
|---|---|---|
| `handler_loop` | two agents with RunForever share a limiter: `PaidChunk` (never more than granted), `NoWastedBurst` (never waits with a part of a burst unsent, and with all of it only after a failure), `InOrder` (what a pass delivers is a prefix of the corpus), `RunsForever`, `ImplementsPacedReplay`, `Returns` (once cancelled), `KeepsReplaying` | batches of 2 and 1 events, burst 2, so that a burst spans batches and passes; one failure |
| `handler_single` | SendBatches again and again: `ReturnsDelivered` (the count is what was delivered, nil means all of it), `NoSharedBuffer`, `Returns`, no deadlock | batches of 3, 0 and 2 events: one longer than the burst, one empty; one failure; one body that outlives its request |
| `store_clients` | three clients: `NoRace`, `SnapshotReply` (a reply is of one instant), `ImplementsMetricsLog` (linearizability), `CallsReturn`, no deadlock | two keys, payloads of one and two data points, 3 data points between resets |
| `store_values` | `ImplementsMetricsLog` (values of all aggregations), `RateWindow` | one client, 3 data points between resets out of 12: of value 0, negative, without a start, earlier than others, cumulative; histograms with different bounds, empty ones; a name reported as both |
| `programs` | `LoadsRecording` (what New returns is the recording, if every line fits the scanner), `WritesAsAsked` (members are kept, or rewritten as their option says, and nothing leaks), `KeepsRelationships` (IDs), `KeepsOffsets` (timestamps), `AllDone`, `ReportsCause`, `GroupEnds` (groups of agents), `OwnBuffer`, `OneItemPerAction` (stub), `NoLostFailure`, `OneCredential` (sendotlp), `QuantileInverts`, `GroupsConfigs`; telemetrygen: `ReturnedDone` (Run waits for all, each has generated its number), `AllDelivered` (nothing counted is lost), `OpenWhileUsed` (exporters are used only while open), `StartReturns`; apmbench: `DrainedReport` (metrics are read when nothing is under way), `OwnResults` (what is reported for a run is its events, all of them and no others), `RunEnds` | every pair of files of up to three and two lines out of seven; two files with every kind of field under each option alone, all of them and none, two passes with different bits and times; two agents, two requests a pass, two passes or iterations; two stub handlers and buffers, bodies of up to four lines; sendotlp is finite as it is; up to four buckets of 0 to 2 observations in every order, eight levels; up to three of 13 configurations; three workers of each kind, with a number (3) or a duration (2 signals), a queue of two; two benchmark runs of up to two calls, two stages, 2 events a run, every reset and every request to the endpoint may fail |

Bounds are constants (`MaxFaults`, `MaxLate`, `MaxSent`, `MaxPoints`, `MaxSignals`, `MaxCalls`,
`MaxEvents`, `MaxPasses`, `MaxConfigs`; `MaxSent` matters only without a burst, which no run has and the theorems cover). They are enough where a
property is about a boundary: every residue of `sent` occurs, a burst covers the end of a batch and
of a pass, a failure occurs at every place with and without a grant, every pair of operations of the
store overlaps in every way. No symmetry is used: most runs check liveness.

### Disagreements between the code and what it says

Each is a run that TLC must find violated.

| Run | What it shows |
|---|---|
| `handler_restart` | after an error the loop starts from the first event again; the comment at `handler.go:259` says "restart from where we left" |
| `store_reset` | `Reset` keeps histograms; its comment says "deleting all cached data" |
| `store_rate_start` | the start of a rate is that of the first data point to arrive; the comment at `store.go:338` says "cache the lowest" |
| `store_unsupported` | a data point whose kind the aggregation does not support creates its group with value 0, or hides a number behind a histogram; the comment at `store.go:178` says "ignored with warning" |
| `telemetrygen_no_exporter` | a metrics worker that cannot create its exporter leaves the WaitGroup waiting for ever; the comment at `metrics/worker.go:32` says "notify when done" |
| `writer_null` | with the rewriting of target names `"service":null` is written as `"service":{:null}`, because gjson's `ForEach` calls its function once, without a key, for a value that is not an object; 1270 events of the shipped `apm-ruby-4.5.0.ndjson` have such a context; the comment at `apm-writer.go:16` says "JSON formatted events" |
| `bench_endpoint_gone` | without the telemetry endpoint the wait for cleanup never ends, `assertCleanupState` being given a context that is never done; the message at `main.go:34` says "continuing without cleanup" |

Seen in the code while modelling, and not stated as runs. The first five disagree with a comment as well; the
models behave as the code does, and the properties named do not claim what the comment does:

- when the first request after a grant fails, the next pass waits for another burst although nothing of the
  last was sent (`handler.go:322`, `:364`); the comments at `handler.go:252` and `:321` give as the purpose of the
  state kept between passes that it does not wait at the start of each. `NoWastedBurst` has this as its exception;
- a line longer than the scanner's buffer ends the loading of its file, and `New` succeeds without the rest, as
  it never reads `s.Err()`; the comment of `Path` (`handler.go:75`) sets no limit to a line. The model cuts the
  file there too, and `LoadsRecording`, whose reference is all lines of all files, is stated for files that fit;
- with the rewriting of IDs `"parent_id":null` is written as `"parent_id":""`, where `handler.go:130` has "each
  event ID whose value is entirely hex digits". `WritesAsAsked` says nothing of an ID that is no string;
- a log record that the endpoint rejects in an answer without an error leaves the exit code 0
  (`main.go:368`; line 373 has "TODO: parse response for error"). `SendOTLP` has such answers, and `NoLostFailure`
  promises only that data was sent and answered without an error;
- over HTTP `-api-key` is not read; its help (`main.go:57`) says that it "overrides
  $OTEL_EXPORTER_OTLP_HEADERS and -secretToken". `OneCredential` speaks of a key only with gRPC;
- without `Batch` traces.Start registers no span processor and exports nothing (`traces.go:103`);
  nothing in the repository sets it to false, and the model has it set;
- the store is reset once per run, and `testing.Benchmark` calls the function several times in it: the
  metrics reported are those of all the calls, beside the b.N of the last; the time of the cleanup
  (at least one tick of 5 s) is part of the benchmark's duration (`run.go:120`);
- attempts that fail in the middle of a burst are repeated without tokens or backoff;
- `Run` of metrics can return before the workers' exporters are shut down: `wg.Done`
  (`metrics/worker.go:110`) comes before the deferred Shutdown; logs.Start never shuts its exporter
  down;
- `addHistogramDataPoint` moves exemplars out of its input although the exporter declares that it
  does not mutate data (`factory.go:56`);
- an event before the first metadata line of a file is a nil dereference in `New`; `LoadsRecording` states
  it as the code has it. A line of more than 64 KB is answered with a 400 in the stub;
- pkg/telemetrygen never passes `IgnoreErrors` and `Secure` of its Config on (`generator.go:59`);
  `NewRunner` assigns the default target version to a copy (`runner.go:102`);
- apmsoak exits with 0 after an error (`main.go:50`); apmtelemetrygen with `-ignore-errors` exits with 0
  after an interrupt, the iterations left failing one by one; `AgentGroup` has both;
- sendotlp: a span that cannot be exported is reported to nobody; logs over HTTP are not implemented;
  the connection is not closed after success. `NoLostFailure` states what the code does;
- a failed reset is logged, with the warning that the report may be corrupted (`main.go:59`), and the
  benchmark goes on: `OwnResults` is stated for the runs whose reset succeeded;
- the comment of `addHistogramDataPoint` says "timestamp (if `from` timestamp is lower)", the code takes
  the higher.

## 4. Fairness

`Handler`: weak fairness of each agent's steps (a runnable goroutine runs, a request is answered or
fails), of the end of each transmission and of the refill of the limiter (time passes). Nobody has to
call, to cancel or to fail; failures are bounded by `MaxFaults`, which is what `KeepsReplaying` needs.
`Store`: weak fairness of the holder of a lock, and strong fairness of `Lock`: sync.RWMutex documents
that a blocked Lock keeps new readers out, and its mutex hands over to a waiter in starvation mode.
`Telemetrygen`: weak fairness of the caller, each worker and the span processor's goroutine.
`BenchRun`: weak fairness of Run (a benchmark function returns), of the server and of its publishing;
strong fairness of `KeyIsZero`: requests to an endpoint that is there may fail, but not for ever.

`MCPrograms` requires these of the program that was chosen (`ProgramsFairness`), and a program that has not begun
owes nothing, hence the premises of `StartReturns` and `RunEnds`.

`AgentGroup`: weak fairness of the main goroutine, of each agent (a
request is answered or fails, the HTTP client and the limiter obeying their context) and of the timer of
the run duration. No signal has to come: `GroupEnds` promises an end when one has, when an agent has
failed, when there is a duration, and in the programs that do not loop.

## 5. What is proved

Every theorem holds for all values of the constants that meet the assumptions of the module, which TLC
evaluates on each run; what a theorem assumes beyond them is in its statement. The properties that are
invariants follow from inductive invariants, most of which say more than the property.

For every number of agents, corpus, burst and bound (`HandlerProofs`; the assumptions: the corpus is not
empty, numbers are natural, `NoBuffer` is no buffer):

- `TypeCorrect`: `Spec => []TypeOK`; `RateLimited`: `[]PaidChunk`; `FullRate`: `[]NoWastedBurst`;
  `RunsUntilCancelled`: `RunsForever`.
- The inductive invariant is `TypeOK /\ ChunkInv /\ CreditInv`. `PaidChunk` alone is not inductive:
  that a chunk fits the credit needs `CreditInv`, which says what an agent's credit is at every
  moment: what is missing of `sent` to the next multiple of the burst, except that it is 0, not the
  burst, when `sent` is a multiple and no request is being made; and it may be a whole burst there if a
  request has failed and the pass has delivered nothing. Every step that moves `sent` (an
  acknowledgement, the remainder at the end of a pass, a new call) keeps this by a lemma about `%`
  (`ModAdvance`, `ModIdempotent`). `ChunkInv` keeps the length of a chunk within its batch, which
  `TypeOK` needs. The steps of other agents and of the environment leave an agent's part alone
  (`Locality`).
- `DeliversInOrder`: `[]InOrder`; `CountsDelivered`: `[]ReturnsDelivered`. `DeliveryInv` says that what an
  agent has delivered in its pass is the corpus up to its cursor, batch and offset (`Upto`), which a prefix of
  the corpus always is (`UptoPrefix`) and all of it only at the end of the last batch. For `SendBatches` it
  also says that `sent` is the number of the events delivered, as a call starts from 0.
- `BuffersApart`: `[]NoSharedBuffer`, from `BufferInv`: two agents never have the same buffer, and nobody
  writes into one that net/http still reads.
- `Refinement`: `ImplementsPacedReplay`. Each step of an agent, of the limiter and of the environment is
  mapped to a step of `PacedReplay` or a stutter, under IInv and DeliveryInv: that a delivery of the abstract
  specification takes the next events of the corpus is DeliveryInv, that it has the grant for them is
  CreditInv.

For every finite number of clients, every configuration and payload (`StoreProofs`; the assumptions: payloads are
sequences of data points with integer values and natural times and counts):

- `RaceFree`: `[]NoRace`; `Snapshot`: `[]SnapshotReply`. `IInv` ties `pc` to the lock: a client
  is in `writing` exactly when it is `writer`, in `reading` exactly when it is one of `readers`, and
  there is no writer while there are readers. A step that changes the maps is one of the writer, so
  nobody reads then, and replies under construction stay what the store holds.
- `DataInvariance`: the invariant of the data. `CallInv` says how far each client is: what is left of a payload is
  the end of it, a reply holds the keys that are no longer asked for. `DataInv` says that the maps reflect
  `Seen`: the log with, while there is a writer, what it has merged of its payload. `Reflects` relates each entry
  to the data points of its group: `NumberEntry` and `HistogramEntry` say what the code's incremental
  aggregate (last value, sum, maximum from 0, start and end of a rate, histogram with the bounds of the last) is in
  terms of all the points. A merge keeps it, for each aggregation (`NumberGrows`, `HistogramGrows`), and so does
  a reset, which forgets the numbers and keeps the histograms (`ResetReflects`).
- `Linearizable`: `ImplementsMetricsLog`, for the values the code aggregates: of numbers since the last Reset,
  of histograms since their bounds last changed. An Add and a Reset take effect in the abstract log when the lock is
  released, a Get when its read lock is; that the reply is what `MetricsLog` defines is
  `ReadIsReport`, from `DataInv` and `SnapshotReply`.
- `RatesForward`: under `Forward`, `[]RateWindow`: the duration a rate is divided by is not negative.
- `TypeCorrect`: `[]TypeOK`, whose bound on the data points needs the size of the log and a sum over the clients.

For every number of stages, runs and calls (`BenchRunProofs`):

- `TypeCorrect`: `[]BenchTypeOK`, and `DrainedWhenRead`: `[]DrainedReport` under the assumption `Upstream` on the cleanup
  keys. The keys are asserted at different times, so the invariant has to say why a stage that was
  empty stays empty: `DoneEmpty` (stages whose keys are done with are empty, and nothing enters them
  because the stages before are empty too) and `FreshLevels` (levels published since the call ended:
  if the first s of them are 0, the first s stages are empty, and if all are, everything is published).
- `ResultsOwn`: `[]OwnResults`, under `Upstream` too. `Quiet` says that nothing is in the server from the report
  until the next call, so no event of a run is published in the next; `Conserved`, that the events in the
  stages, finished and published are those that were sent, unless the reset has failed.

For every number of workers, signals and every queue (`TelemetrygenProofs`):

- `TypesCorrect`: `[]GenTypeOK`, `WorkersAwaited`: `[]ReturnedDone`, `ExportersOpen`: `[]OpenWhileUsed`. `Counted` says that
  the counter of the WaitGroup is the cardinality of the set of active workers, that all have begun when
  Run waits, and that none is active when it has returned; `Numbered` ties a worker's count to its
  place, `Exporting` says who has an exporter and that only traces are queued, before the flush.
- `Delivered`: `[]AllDelivered`. `Conserved` says that what is exported and what is queued are what the workers
  have handed over, a sum over the workers: what each has counted, and one more between the export
  of a log or metric and the moment it is counted.

For every number of agents, requests and iterations (`AgentGroupProofs`):

- `EverythingDone`: `[]AllDone`; `CauseReported`: `[]ReportsCause`. The invariant follows the causes back:
  an agent returns `canceled` only when the context is done, and the context is done by the group only
  when the group has an error already, so the first error is one of the outside or a failure. With
  RunForever a failure can only be one of the set-up. For `AllDone` it relates the passes that an agent
  has begun to those that were answered.

For every number of handlers and buffers, and all bodies (`ProgramProofs`):

- `BuffersOwned`: `[]OwnBuffer`: a handler has a buffer exactly from Get to Put, and one that is about to
  be put is empty. `EachActionAnswered`: `[]OneItemPerAction`: while a body is scanned there is a k with 2k
  lines read and the tokens of k items in the handler's buffer (`Scanning`); that one more pair gives the
  tokens of k + 1 items is a lemma about sequences (`ItemsOfOneMore`); that the others leave the buffer
  alone (`OthersSame`) needs `BuffersOwned`'s invariant.

For every recording and configuration, every sequence of bits and every clock (`ReplayProofs`; the assumptions,
`ReplayAssumption` and `InputAssumption`, give the shape of lines, values and options: characters and JSON types
are open):

- `LoadsTheRecording`: `[]LoadsRecording`. The reference is all lines of all files; `Fits` says that none is too
  long, and then the scanner delivers them all (`ScannedFiles`). `New` is two folds, over files and over the
  lines the scanner delivers, and `IsRecording` speaks of all lines of all files at once. `LoadedUpTo` says what a handler is after the first n
  lines (`LinesOf` numbers them over the files): the batches and events that are due by then are there, each in its
  place (`Place`), the minimum is that of the times so far (`LeastOf`), and the status is "ok" exactly if
  there was no RUM line and every file so far began with metadata. A line keeps it (`LineStep`), a file does by induction
  over its lines (`FileStep`), `New` by induction over the files (`AllLoaded`).
- `WritesWhatIsAsked`: under `TargetsAreObjects`, `[]WritesAsAsked`. `MemberStep` is the heart: whatever `WriteMember`
  does by way of the shared second buffer, it appends one member, `Rewritten`, which is a function of the member, the
  event and the pass, and leaves that buffer empty. So the members of a line do not depend on each other
  (`MembersAre`), nor the lines of a batch (`EventsAre`), and `TextRandomized`, `IDRandomized` and `ValueIs` say what
  becomes of a text and so of a value.
  The inductive invariant of `Replay` is `Replayed`: what has been written are the first batches, all
  with one random number and base. `TargetsAreObjects` says that no value on the way to the name of a target is
  something else than an object; without it the statement is false, the path of such a member changes, which is what
  `writer_null` shows. `MCPrograms` has TLC evaluate it for the recordings of the run.
- `RelationshipsAreKept`: `[]KeepsRelationships`, without that hypothesis: `RandomizeTraceID` is injective
  on IDs (`IDRandomized`) and `Replayed` has the same bits for all of a pass.
- `OffsetsAreKept`: `[]KeepsOffsets`: `NoneEarlier`, an invariant of loading, makes the distance to the minimum a
  natural number, and a division by `Micro` loses less than one unit (`Truncated`).

For sendotlp and the configurations of the store (`ProgramProofs`):

- `FailuresReported`: `[]NoLostFailure`; `CredentialsApart`: `[]OneCredential`. `SendOTLP` has no constants, so TLC
  has seen all of it, and the proofs say why: the invariant says for each place of `Main` which providers
  there are, what has been recorded and sent, and that every error but that of a span is joined.
- `ConfigsGrouped`: `ConfigSpec => []GroupsConfigs`, for any list of any configurations whose labels are finite
  maps. The code compares a configuration only with the earlier ones of its name and one way round, and
  labels by their number and the values of one side. That is the symmetric condition `Conflict` on all pairs
  (`DuplicateIs`, `RefusedIs`), as long as the maps have all that was read, so the order is indifferent.

For every number of buckets in any order, all bounds, counts and levels (`ProgramProofs`; the assumption: bounds
and levels are integers and fractions, no bound is above `Infinity`, counts are natural):

- `QuantilesRight`: `QuantileSpec => []QuantileInverts`. What is inductive is only that the bounds differ. With that the
  place of a bucket, the number of bounds up to its own, is a bijection of the positions (`SortedIs`, by the
  pigeonhole principle), and the sum of the first k sorted buckets is that of the unsorted ones up to the k-th bound
  (`SortedCumulates`, by induction on k). The property is about values and says nothing of buckets; `ReachedBy`
  connects the two: the rank is above what is observed up to the j-th bound exactly if the bucket found is a
  later one. So adjacent bounds around the rank are those of the bucket found (`ValueInverts`), and it has
  observations, as the rank is above all before it: the division is never by zero (`RankInBucket`). Of two levels the
  higher one's bucket is not earlier (`LowerRank`): in different buckets a bound lies between the values
  (`OtherBucket`), in the same one the difference is a product of naturals (`SameBucket`).

`DataLemmas` is what these proofs share. The induction theorems of the library take an operator as a
parameter, which the provers cannot instantiate. Induction is stated about a set instead: the
well-foundedness of strict inclusion between finite sets, a fact without such a parameter, gives every
set of natural numbers a least element (`LeastElement`), from which follow induction over numbers
(`Induction`) and over finite sets (`SubsetInduction`), with sets for predicates. What `FlattenSeq` and
`SumFunctionOnSet` compute follows from these: the recursive function each defines exists, is unique, and so
is the one that CHOOSE picks (`FlattensExists`, `FlattensUnique`, `SumsExists`, `SumComputed`); the proofs then use
only how the value grows (`FlattenAppend`, `SumExtend`, `SumChange`). `FoldLeft` is
defined by a recursive function on sets of positions; `FoldSteps` gives it a sequence of values instead, one
step from each to the next, and `ReplayProofs` has a lemma of that form for each operator that is folded.

Only model-checked: liveness (`Returns`, `KeepsReplaying`, `CallsReturn`, `StartReturns`, `RunEnds`, `GroupEnds`), as fairness and
ENABLED are beyond the prover. Every invariant, every action property and both refinements that the runs
check are proved.

## 6. What is not modelled

What is compressed; HTTP headers, URLs, TLS; floating point (sums of the store are integers, quantiles
exact fractions); the syntax of event rates, flags and environment variables; logging; the tests' mock
servers; `cmd/otelinmemexporter`'s factory and the exporters of `internal/telemetrygen`, which only hand
configuration to libraries. `Add` holds the lock in one step per
data point, not per configuration: nobody can look in between. `PROJECT.json` lists every component
and the reason it is left out.

## 7. Plan

Every component with behaviour of its own is modelled. What is left, in the order of its use:

1. `AgentGroup` composed with `PacedReplay` in place of its abstract passes.
2. Event rates and `GetNewLimiter` as operators against a definition.
3. A second endpoint of apmbench's cleanup, and benchmarks selected by name.
