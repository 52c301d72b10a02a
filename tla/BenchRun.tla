------------------------------ MODULE BenchRun ------------------------------
(***************************************************************************)
(* apmbench with a telemetry endpoint: Run and runOne of run.go, and the   *)
(* extra metrics, the cleanup and the reset of main.go.                    *)
(*                                                                         *)
(* The server under test is external.  It takes the events of a benchmark  *)
(* through stages; the level of a stage is the metric of a cleanup key.    *)
(* Now and then it publishes to the store the levels, and the number of    *)
(* events finished.  Until then the store answers with what was published  *)
(* before, or with 0 when nothing has been since the last reset.           *)
(***************************************************************************)
EXTENDS Naturals, Sequences

CONSTANTS
    Runs,         \* agent counts times benchmarks times -count
    Stages,       \* stages of the server
    CleanupKeys,  \* the stages whose levels are asserted, in this order
    Prompt,       \* the server publishes in every interval of the ticker
    MaxCalls,     \* calls of a benchmark function with growing N (bound)
    MaxEvents     \* events of a run (bound)

ASSUME BenchAssumption ==
    /\ Runs \in Nat \ {0} /\ Stages \in Nat \ {0}
    /\ CleanupKeys \in Seq(1..Stages) /\ CleanupKeys # <<>>
    /\ Prompt \in BOOLEAN
    /\ MaxCalls \in Nat \ {0} /\ MaxEvents \in Nat

VARIABLES
    pc,        \* where Run is
    run,       \* the current run
    calls,     \* calls of its function so far
    outcome,   \* of the last call: "ok", "skipped" or "failed"
    idx,       \* the cleanup key to assert next
    metrics,   \* b.ReportMetric: the number of events finished
    printed,   \* the metrics of the runs Run has printed
    stage,     \* server: events in each stage
    finished,  \* server: events finished and not published
    level,     \* store: the level of each stage
    count,     \* store: events finished
    fresh,     \* something was published in this interval of the ticker
    down,      \* the telemetry endpoint is gone
    sentEvents,      \* history: events of the current run
    stale      \* history: the reset of the current run has failed

bench == <<run, calls, outcome, metrics, printed>>
server == <<stage, finished>>
store == <<level, count>>
history == <<sentEvents, stale>>
benchVars == <<pc, idx, bench, server, store, fresh, down, history>>

BenchPlaces == {"reset", "bench", "tick", "assert", "report", "called",
           "ended", "failed", "crashed"}
Zero == [s \in 1..Stages |-> 0]

BenchInit ==
    /\ pc = "reset"
    /\ run = 1
    /\ calls = 0
    /\ outcome = "ok"
    /\ idx = 1
    /\ metrics = 0
    /\ printed = <<>>
    /\ stage = Zero /\ finished = 0
    /\ level = Zero /\ count = 0
    /\ fresh = FALSE
    /\ down = FALSE
    /\ sentEvents = 0 /\ stale = FALSE

(***************************************************************************)
(* The benchmark function                                                  *)
(***************************************************************************)
\* b.ResetTimer forgets the metrics of the last call.
BeginCall ==
    /\ pc' = "bench"
    /\ calls' = calls + 1
    /\ metrics' = 0

\* resetStore.  A failure is logged; the request may have got through.
ResetStore ==
    /\ pc = "reset"
    /\ stale' \in BOOLEAN
    /\ \/ ~down /\ level' = Zero /\ count' = 0
       \/ stale' /\ UNCHANGED store
    /\ sentEvents' = 0
    /\ BeginCall
    /\ UNCHANGED <<idx, run, outcome, printed, server, fresh, down>>

\* The server has accepted an event.
SendEvent ==
    /\ pc = "bench"
    /\ sentEvents < MaxEvents
    /\ sentEvents' = sentEvents + 1
    /\ stage' = [stage EXCEPT ![1] = @ + 1]
    /\ UNCHANGED <<pc, idx, bench, finished, store, fresh, down, stale>>

\* Mutant: the cleanup goes on where that of the last call ended.
FunctionEndsKeepingIndex ==
    /\ pc = "bench"
    /\ outcome' \in {"ok", "skipped", "failed"}
    /\ pc' = "tick"
    /\ fresh' = FALSE
    /\ UNCHANGED <<idx, run, calls, metrics, printed, server, store, down, history>>

\* fn returns, or leaves through b.Skip or b.Fatal; extraMetrics follows.
FunctionEnds ==
    /\ pc = "bench"
    /\ outcome' \in {"ok", "skipped", "failed"}
    /\ pc' = "tick"
    /\ idx' = 1
    /\ fresh' = FALSE
    /\ UNCHANGED <<run, calls, metrics, printed, server, store, down, history>>

\* The functions of bench.go panic when they cannot send, in goroutines
\* where nothing recovers: that ends the process.
Panic ==
    /\ pc = "bench"
    /\ pc' = "crashed"
    /\ UNCHANGED <<idx, bench, server, store, fresh, down, history>>

(***************************************************************************)
(* assertCleanupState and extraMetrics                                     *)
(***************************************************************************)
Tick ==
    /\ pc = "tick"
    /\ Prompt => fresh \/ down
    /\ pc' = "assert"
    /\ UNCHANGED <<idx, bench, server, store, fresh, down, history>>

Satisfied == idx > Len(CleanupKeys)

\* Mutant: the same key is asserted again.
KeyIsZeroAgain ==
    /\ pc = "assert"
    /\ ~Satisfied /\ ~down
    /\ level[CleanupKeys[idx]] = 0
    /\ pc' = "tick"
    /\ UNCHANGED <<idx, bench, server, store, fresh, down, history>>

\* telemetry.Get answers 0: on to the next key, at once.
KeyIsZero ==
    /\ pc = "assert"
    /\ ~Satisfied /\ ~down
    /\ level[CleanupKeys[idx]] = 0
    /\ idx' = idx + 1
    /\ UNCHANGED <<pc, bench, server, store, fresh, down, history>>

\* There is a level, or no answer: this key is asserted at the next tick.
KeyIsNotZero ==
    /\ pc = "assert"
    /\ ~Satisfied
    /\ pc' = "tick"
    /\ fresh' = FALSE
    /\ UNCHANGED <<idx, bench, server, store, down, history>>

CleanupSatisfied ==
    /\ pc = "assert"
    /\ Satisfied
    /\ pc' = "report"
    /\ UNCHANGED <<idx, bench, server, store, fresh, down, history>>

\* telemetry.GetAll; when it fails no metrics are reported.
ReportMetrics ==
    /\ pc = "report"
    /\ \/ ~down /\ metrics' = count
       \/ UNCHANGED metrics
    /\ pc' = "called"
    /\ UNCHANGED <<idx, run, calls, outcome, printed, server, store, fresh,
                   down, history>>

(***************************************************************************)
(* testing.Benchmark and Run                                               *)
(***************************************************************************)
\* testing.Benchmark wants a larger N; the store is not reset.
CallAgain ==
    /\ pc = "called"
    /\ outcome = "ok" /\ calls < MaxCalls
    /\ BeginCall
    /\ UNCHANGED <<idx, run, outcome, printed, server, store, fresh, down, history>>

\* Mutant: resetStore is called once, before the first run.
NextRunWithoutReset ==
    /\ pc = "called"
    /\ printed' = IF outcome = "ok" THEN Append(printed, metrics) ELSE printed
    /\ IF outcome = "failed" THEN pc' = "failed" /\ UNCHANGED <<run, sentEvents, calls>>
       ELSE IF run = Runs THEN pc' = "ended" /\ UNCHANGED <<run, sentEvents, calls>>
       ELSE pc' = "bench" /\ run' = run + 1 /\ sentEvents' = 0 /\ calls' = 1
    /\ UNCHANGED <<idx, outcome, metrics, server, store, fresh, down, stale>>

\* Mutant: the runs are numbered from 0.
NextRunPastLast ==
    /\ pc = "called"
    /\ printed' = IF outcome = "ok" THEN Append(printed, metrics) ELSE printed
    /\ IF outcome = "failed" THEN pc' = "failed" /\ UNCHANGED run
       ELSE IF run > Runs THEN pc' = "ended" /\ UNCHANGED run
       ELSE pc' = "reset" /\ run' = run + 1
    /\ calls' = 0
    /\ UNCHANGED <<idx, outcome, metrics, server, store, fresh, down, history>>

\* Run prints the result and goes on with the next run, but not after a
\* failure.
NextRun ==
    /\ pc = "called"
    /\ printed' = IF outcome = "ok" THEN Append(printed, metrics) ELSE printed
    /\ IF outcome = "failed" THEN pc' = "failed" /\ UNCHANGED run
       ELSE IF run = Runs THEN pc' = "ended" /\ UNCHANGED run
       ELSE pc' = "reset" /\ run' = run + 1
    /\ calls' = 0
    /\ UNCHANGED <<idx, outcome, metrics, server, store, fresh, down, history>>

(***************************************************************************)
(* The server and the telemetry endpoint                                   *)
(***************************************************************************)
\* An event leaves stage s.
PassOn(s) ==
    /\ stage[s] > 0
    /\ IF s = Stages
         THEN stage' = [stage EXCEPT ![s] = @ - 1] /\ finished' = finished + 1
         ELSE /\ stage' = [stage EXCEPT ![s] = @ - 1, ![s + 1] = @ + 1]
              /\ UNCHANGED finished
    /\ UNCHANGED <<pc, idx, bench, store, fresh, down, history>>

\* The metrics are collected all at one time.
Publish ==
    /\ ~down
    /\ level' = stage
    /\ count' = count + finished
    /\ finished' = 0
    /\ fresh' = TRUE
    /\ UNCHANGED <<pc, idx, bench, stage, down, history>>

EndpointGone ==
    /\ ~down
    /\ down' = TRUE
    /\ UNCHANGED <<pc, idx, bench, server, store, fresh, history>>

BenchMain ==
    \/ ResetStore \/ FunctionEnds \/ Tick \/ KeyIsZero \/ KeyIsNotZero
    \/ CleanupSatisfied \/ ReportMetrics \/ CallAgain \/ NextRun

BenchNext ==
    \/ BenchMain \/ SendEvent \/ Panic
    \/ Publish \/ \E s \in 1..Stages : PassOn(s)
    \/ EndpointGone

BenchSpec == BenchInit /\ [][BenchNext]_benchVars

\* Benchmark functions return, the server works and publishes, ticks come,
\* and requests to an endpoint that is there do not fail for ever.
BenchFairness ==
    /\ WF_benchVars(BenchMain)
    /\ SF_benchVars(KeyIsZero)
    /\ WF_benchVars(Publish)
    /\ \A s \in 1..Stages : WF_benchVars(PassOn(s))

BenchFairSpec == BenchSpec /\ BenchFairness

-----------------------------------------------------------------------------
\* Every variable has its type, and no run is begun beyond the last.
BenchTypeOK ==
    /\ pc \in BenchPlaces
    /\ run \in 1..Runs
    /\ calls \in 0..MaxCalls
    /\ outcome \in {"ok", "skipped", "failed"}
    /\ idx \in 1..(Len(CleanupKeys) + 1)
    /\ metrics \in Nat /\ printed \in Seq(Nat)
    /\ stage \in [1..Stages -> Nat] /\ finished \in Nat
    /\ level \in [1..Stages -> Nat] /\ count \in Nat
    /\ fresh \in BOOLEAN /\ down \in BOOLEAN
    /\ sentEvents \in 0..MaxEvents /\ stale \in BOOLEAN

\* config.go:24: the cleanup keys determine "if a specific benchmark funciton
\* has run to completion including draining of all associated data": when the
\* metrics are read the server holds nothing and has published everything.
DrainedReport ==
    pc = "report" => finished = 0 /\ \A s \in 1..Stages : stage[s] = 0

\* What is reported for a run is all its events and no others, unless its
\* reset has failed.
OwnResults == pc = "report" /\ ~stale => count = sentEvents

\* Once begun, Run comes to an end while the telemetry endpoint is there.
RunEnds == (pc # "reset") ~> (pc \in {"ended", "failed", "crashed"} \/ down)

\* main.go:34: "failed to get cleanup metric, continuing without cleanup":
\* without an endpoint the benchmark goes on.
ContinuesWithoutCleanup == (pc \in {"tick", "assert"}) ~> (pc \notin {"tick", "assert"})
=============================================================================
