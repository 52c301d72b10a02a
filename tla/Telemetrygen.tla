---------------------------- MODULE Telemetrygen ----------------------------
(***************************************************************************)
(* Start and Run of internal/telemetrygen/{traces,logs,metrics}: Run       *)
(* starts workers that generate signals until they have generated their    *)
(* number or the duration is over, and waits for them.                     *)
(*                                                                         *)
(* The three packages share this shape.  What differs is the exporter: a   *)
(* trace ends up in the queue of a batch span processor that Start drains  *)
(* and shuts down; a log is exported by its worker; a metrics worker       *)
(* creates an exporter of its own and shuts it down, after it has told Run *)
(* that it is done.  logger.Fatal ends the process.                        *)
(***************************************************************************)
EXTENDS Naturals, FiniteSets, FiniteSetsExt

CONSTANTS
    Workers,     \* the goroutines Run starts
    NumSignals,      \* NumTraces, NumLogs or NumMetrics, per worker
    QueueSize,   \* traces the span processor can hold
    MaxSignals   \* signals of a worker in a timed run (bound)

ASSUME TelemetrygenAssumption ==
    /\ IsFiniteSet(Workers)       \* WorkerCount, an int
    /\ NumSignals \in Nat \ {0}       \* Run rejects 0 without a duration
    /\ QueueSize \in Nat \ {0}
    /\ MaxSignals \in Nat

VARIABLES
    kind,       \* which package this is: "traces", "logs" or "metrics"
    timed,      \* TotalDuration > 0, which overrides the number
    starter,       \* where Start is
    running,    \* the flag the workers share
    wg,         \* the counter of the WaitGroup
    worker,     \* where each worker is
    generated,  \* i of each worker
    queue,      \* ended traces the span processor holds
    handedOver,       \* signals exported, with or without success
    exporter    \* what each worker exports to: "none", "open" or "shut"

genVars == <<kind, timed, starter, running, wg, worker, generated, queue, handedOver,
          exporter>>

MainPlaces == {"start", "sleep", "wait", "returned", "flushed", "ended", "exited"}
WorkerPlaces == {"new", "create", "test", "generate", "limit", "stop", "done", "failed"}

GenInit ==
    /\ kind \in {"traces", "logs", "metrics"}
    /\ timed \in BOOLEAN
    /\ starter = "start"
    /\ running = TRUE
    /\ wg = 0
    /\ worker = [w \in Workers |-> "new"]
    /\ generated = [w \in Workers |-> 0]
    /\ queue = 0
    /\ handedOver = 0
    /\ exporter = [w \in Workers |-> IF kind = "metrics" THEN "none" ELSE "open"]

Enter(w, place) == worker' = [worker EXCEPT ![w] = place]

(***************************************************************************)
(* Start and Run                                                           *)
(***************************************************************************)
\* A WaitGroup that is not told of the worker.
StartUncounted(w) ==
    /\ starter = "start"
    /\ worker[w] = "new"
    /\ Enter(w, IF kind = "metrics" THEN "create" ELSE "test")
    /\ UNCHANGED <<starter, running, wg, generated, queue, handedOver, exporter>>

StartWorker(w) ==
    /\ starter = "start"
    /\ worker[w] = "new"
    /\ wg' = wg + 1
    /\ Enter(w, IF kind = "metrics" THEN "create" ELSE "test")
    /\ UNCHANGED <<starter, running, generated, queue, handedOver, exporter>>

Started ==
    /\ starter = "start"
    /\ \A w \in Workers : worker[w] # "new"
    /\ starter' = IF timed THEN "sleep" ELSE "wait"
    /\ UNCHANGED <<running, wg, worker, generated, queue, handedOver, exporter>>

DurationOver ==
    /\ starter = "sleep"
    /\ running' = FALSE
    /\ starter' = "wait"
    /\ UNCHANGED <<wg, worker, generated, queue, handedOver, exporter>>

\* A Run that does not wait.
RunReturnsAtOnce ==
    /\ starter = "wait"
    /\ starter' = "returned"
    /\ UNCHANGED <<running, wg, worker, generated, queue, handedOver, exporter>>

RunReturns ==
    /\ starter = "wait"
    /\ wg = 0
    /\ starter' = "returned"
    /\ UNCHANGED <<running, wg, worker, generated, queue, handedOver, exporter>>

\* The two deferred calls the other way round.
StopProcessorLast ==
    /\ starter = "returned"
    /\ exporter' = [w \in Workers |-> "shut"]
    /\ starter' = "flushed"
    /\ UNCHANGED <<running, wg, worker, generated, queue, handedOver>>

\* What Start deferred last: the span processor exports what it still holds.
StopProcessor ==
    /\ starter = "returned"
    /\ handedOver' = handedOver + queue
    /\ queue' = 0
    /\ starter' = "flushed"
    /\ UNCHANGED <<running, wg, worker, generated, exporter>>

\* logs.Start leaves its exporter open, metrics.Start leaves its workers'.
StopExporter ==
    /\ starter = "flushed"
    /\ exporter' = IF kind = "traces" THEN [w \in Workers |-> "shut"] ELSE exporter
    /\ starter' = "ended"
    /\ UNCHANGED <<running, wg, worker, generated, queue, handedOver>>

(***************************************************************************)
(* A worker                                                                *)
(***************************************************************************)
CreateExporter(w) ==
    /\ worker[w] = "create"
    /\ exporter' = [exporter EXCEPT ![w] = "open"]
    /\ Enter(w, "test")
    /\ UNCHANGED <<starter, running, wg, generated, queue, handedOver>>

\* The worker logs the error and is gone.
CreateFails(w) ==
    /\ worker[w] = "create"
    /\ Enter(w, "failed")
    /\ UNCHANGED <<starter, running, wg, generated, queue, handedOver, exporter>>

LeaveUncounted(w) ==
    /\ Enter(w, IF kind = "metrics" THEN "stop" ELSE "done")
    /\ UNCHANGED wg

\* The loop is over: wg.Done, then what was deferred.
Leave(w) ==
    /\ Enter(w, IF kind = "metrics" THEN "stop" ELSE "done")
    /\ wg' = wg - 1

\* The bound holds a worker of a timed run here until the duration is over.
Test(w) ==
    /\ worker[w] = "test"
    /\ IF running THEN /\ timed => generated[w] < MaxSignals
                       /\ Enter(w, "generate")
                       /\ UNCHANGED wg
                  ELSE Leave(w)
    /\ UNCHANGED <<starter, running, generated, queue, handedOver, exporter>>

\* A trace is begun; a log or a metric is exported.
Generate(w) ==
    /\ worker[w] = "generate"
    /\ handedOver' = IF kind = "traces" THEN handedOver ELSE handedOver + 1
    /\ Enter(w, "limit")
    /\ UNCHANGED <<starter, running, wg, generated, queue, exporter>>

ExportFails(w) ==
    /\ kind # "traces"
    /\ worker[w] = "generate"
    /\ starter' = "exited"
    /\ UNCHANGED <<running, wg, worker, generated, queue, handedOver, exporter>>

EnoughPlusOne(i) == ~timed /\ i > NumSignals

\* This was the last signal of the worker.
Enough(i) == ~timed /\ i >= NumSignals

\* A span processor without WithBlocking: it drops what it cannot queue.
CountDropping(w) ==
    /\ worker[w] = "limit"
    /\ queue' = IF kind = "traces" /\ queue < QueueSize THEN queue + 1 ELSE queue
    /\ generated' = [generated EXCEPT ![w] = @ + 1]
    /\ IF Enough(generated'[w]) THEN Leave(w) ELSE Enter(w, "test") /\ UNCHANGED wg
    /\ UNCHANGED <<starter, running, handedOver, exporter>>

\* The limiter lets the signal pass.  A trace ends; with the processor's
\* queue full that blocks.
Count(w) ==
    /\ worker[w] = "limit"
    /\ IF kind = "traces" THEN queue < QueueSize /\ queue' = queue + 1
                                   ELSE UNCHANGED queue
    /\ generated' = [generated EXCEPT ![w] = @ + 1]
    /\ IF Enough(generated'[w]) THEN Leave(w) ELSE Enter(w, "test") /\ UNCHANGED wg
    /\ UNCHANGED <<starter, running, handedOver, exporter>>

\* A metrics worker that shuts its exporter down when its loop begins.
StopEarly(w) ==
    /\ worker[w] \in {"test", "stop"}
    /\ exporter' = [exporter EXCEPT ![w] = "shut"]
    /\ IF worker[w] = "stop" THEN Enter(w, "done") ELSE UNCHANGED worker
    /\ UNCHANGED <<starter, running, wg, generated, queue, handedOver>>

\* The deferred Shutdown of a metrics worker.
ShutDown(w) ==
    /\ worker[w] = "stop"
    /\ exporter' = [exporter EXCEPT ![w] = "shut"]
    /\ Enter(w, "done")
    /\ UNCHANGED <<starter, running, wg, generated, queue, handedOver>>

(***************************************************************************)
(* The batch span processor (go.opentelemetry.io/otel/sdk/trace): its      *)
(* goroutine exports some of what is queued, and drops what fails.         *)
(***************************************************************************)
ExportBatch ==
    /\ \E n \in 1..queue : queue' = queue - n /\ handedOver' = handedOver + n
    /\ UNCHANGED <<starter, running, wg, worker, generated, exporter>>

Starter == Started \/ DurationOver \/ RunReturns \/ StopProcessor \/ StopExporter

Work(w) ==
    \/ StartWorker(w) \/ CreateExporter(w) \/ CreateFails(w) \/ Test(w)
    \/ Generate(w) \/ ExportFails(w) \/ Count(w) \/ ShutDown(w)

GenNext ==
    /\ starter # "exited"
    /\ \/ Starter
       \/ \E w \in Workers : Work(w)
       \/ ExportBatch
    /\ UNCHANGED <<kind, timed>>

\* The sleep ends, the limiter lets every signal pass, exports return, and
\* the scheduler runs every goroutine.
GenFairness ==
    /\ WF_genVars(GenNext /\ Starter)
    /\ \A w \in Workers : WF_genVars(GenNext /\ Work(w))
    /\ WF_genVars(GenNext /\ ExportBatch)

GenSpec == GenInit /\ [][GenNext]_genVars /\ GenFairness

-----------------------------------------------------------------------------
\* Every variable has its type; no more workers are waited for than there
\* are, and the span processor holds no more than it can.
GenTypeOK ==
    /\ kind \in {"traces", "logs", "metrics"}
    /\ timed \in BOOLEAN
    /\ starter \in MainPlaces
    /\ running \in BOOLEAN
    /\ wg \in 0..Cardinality(Workers)
    /\ worker \in [Workers -> WorkerPlaces]
    /\ generated \in [Workers -> Nat]
    /\ queue \in 0..QueueSize
    /\ handedOver \in Nat
    /\ exporter \in [Workers -> {"none", "open", "shut"}]

HasReturned == starter \in {"returned", "flushed", "ended"}

\* Run does not return while a worker may still generate, and without a
\* duration every worker has generated exactly its number by then.
ReturnedDone ==
    HasReturned => \A w \in Workers :
        /\ worker[w] \in {"stop", "done"}
        /\ ~timed => generated[w] = NumSignals

\* When Start returns, every signal that a worker has counted has been handed
\* to the exporter: none is left in the queue of the span processor, and none
\* is under way in a worker.
AllDelivered ==
    starter = "ended" =>
        handedOver = MapThenSumSet(LAMBDA w : generated[w], Workers)

\* Nothing is handed to an exporter that does not exist yet or is shut down.
OpenWhileUsed ==
    /\ \A w \in Workers : worker[w] \in {"generate", "limit"} => exporter[w] = "open"
    /\ queue > 0 => \A w \in Workers : exporter[w] = "open"

\* Start returns once it has begun, unless an export error has ended the process
\* or a worker had no exporter.
StartReturns ==
    (\E w \in Workers : worker[w] # "new") ~>
        (starter \in {"ended", "exited"} \/ \E w \in Workers : worker[w] = "failed")

\* metrics/worker.go:32: "notify when done": Run also returns when a worker
\* has given up because it could not create its exporter.
EndsWithoutExporter ==
    (\E w \in Workers : worker[w] = "failed") ~> (starter \in {"ended", "exited"})
=============================================================================
