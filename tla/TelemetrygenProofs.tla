------------------------- MODULE TelemetrygenProofs -------------------------
(* Proofs about Telemetrygen: Run waits for its workers, and no exporter is *)
(* used before or after its time.                                           *)
EXTENDS Telemetrygen, DataLemmas

\* Workers that have begun and not told Run that they are done.
Active == {w \in Workers : worker[w] \in {"create", "test", "generate", "limit", "failed"}}

\* The WaitGroup counts the workers that are active, and all have begun before
\* Run waits for it.
Counted ==
    /\ IsFiniteSet(Active)
    /\ wg = Cardinality(Active)
    /\ starter \notin {"start", "exited"} => \A w \in Workers : worker[w] # "new"
    /\ HasReturned => Active = {}

\* Without a duration a worker goes on exactly until it has its number.
Numbered ==
    /\ ~timed => running /\ starter # "sleep"
    /\ \A w \in Workers :
         /\ worker[w] \in {"new", "create"} => generated[w] = 0
         /\ worker[w] \in {"test", "generate", "limit"} /\ ~timed => generated[w] < NumSignals
         /\ worker[w] \in {"stop", "done"} /\ ~timed => generated[w] = NumSignals

\* Who has an exporter; only traces are queued, and until Start flushes them.
Exporting ==
    /\ \A w \in Workers : worker[w] \in {"create", "failed", "stop"} => kind = "metrics"
    /\ kind = "metrics" => \A w \in Workers :
         worker[w] \in {"test", "generate", "limit", "stop"} => exporter[w] = "open"
    /\ kind # "metrics" /\ starter # "ended" => \A w \in Workers : exporter[w] = "open"
    /\ queue > 0 => kind = "traces" /\ starter \notin {"flushed", "ended"}

Types ==
    /\ kind \in {"traces", "logs", "metrics"}
    /\ timed \in BOOLEAN
    /\ starter \in MainPlaces
    /\ running \in BOOLEAN
    /\ worker \in [Workers -> WorkerPlaces]
    /\ generated \in [Workers -> Nat]
    /\ queue \in 0..QueueSize
    /\ handedOver \in Nat
    /\ exporter \in [Workers -> {"none", "open", "shut"}]

Inv == Types /\ Counted /\ Numbered /\ Exporting

\* The invariant holds at first.
LEMMA InitInv == GenInit => Inv
<1> SUFFICES ASSUME GenInit PROVE Inv OBVIOUS
<1> USE TelemetrygenAssumption DEF GenInit
<1>1. Types BY DEF Types, MainPlaces, WorkerPlaces
<1>2. Active = {} BY DEF Active
<1>3. Counted BY <1>2, FS_EmptySet DEF Counted, HasReturned
<1>4. Numbered BY DEF Numbered
<1>5. Exporting BY DEF Exporting
<1> QED BY <1>1, <1>3, <1>4, <1>5 DEF Inv

\* Every step keeps the types.
LEMMA TypesStep == Inv /\ [GenNext]_genVars => Types'
<1> SUFFICES ASSUME Inv, [GenNext]_genVars PROVE Types' OBVIOUS
<1> USE TelemetrygenAssumption DEF Inv, Types, MainPlaces, WorkerPlaces
<1>1. CASE GenNext
  <2>1. CASE Starter
    <3>1. CASE Started \/ DurationOver \/ RunReturns
      BY <1>1, <3>1 DEF GenNext, Started, DurationOver, RunReturns
    <3>2. CASE StopProcessor BY <1>1, <3>2 DEF GenNext, StopProcessor
    <3>3. CASE StopExporter
      <4>1. exporter' \in [Workers -> {"none", "open", "shut"}] BY <3>3 DEF StopExporter
      <4> QED BY <1>1, <3>3, <4>1 DEF GenNext, StopExporter
    <3> QED BY <2>1, <3>1, <3>2, <3>3 DEF Starter
  <2>2. ASSUME NEW w \in Workers, Work(w) PROVE Types'
    <3>1. CASE StartWorker(w) \/ CreateExporter(w) \/ CreateFails(w) \/ ShutDown(w)
      BY <1>1, <3>1 DEF GenNext, StartWorker, CreateExporter, CreateFails, ShutDown, Enter
    <3>2. CASE Test(w) BY <1>1, <3>2 DEF GenNext, Test, Leave, Enter
    <3>3. CASE Generate(w) \/ ExportFails(w)
      BY <1>1, <3>3 DEF GenNext, Generate, ExportFails, Enter
    <3>4. CASE Count(w) BY <1>1, <3>4 DEF GenNext, Count, Enough, Leave, Enter
    <3> QED BY <2>2, <3>1, <3>2, <3>3, <3>4 DEF Work
  <2>3. CASE ExportBatch BY <1>1, <2>3 DEF GenNext, ExportBatch
  <2> QED BY <1>1, <2>1, <2>2, <2>3 DEF GenNext
<1>2. CASE UNCHANGED genVars BY <1>2 DEF genVars
<1> QED BY <1>1, <1>2

\* What a worker does leaves the places of the others as they are.
LEMMA WorkersOthers ==
    ASSUME Inv, NEW w \in Workers, Work(w)
    PROVE  /\ \A v \in Workers \ {w} : worker'[v] = worker[v]
           /\ worker'[w] # "new"
<1> USE DEF Inv, Types
<1>1. CASE StartWorker(w) \/ CreateExporter(w) \/ CreateFails(w) \/ ShutDown(w)
  BY <1>1 DEF StartWorker, CreateExporter, CreateFails, ShutDown, Enter
<1>2. CASE Test(w) BY <1>2 DEF Test, Leave, Enter
<1>3. CASE Generate(w) \/ ExportFails(w) BY <1>3 DEF Generate, ExportFails, Enter
<1>4. CASE Count(w) BY <1>4 DEF Count, Leave, Enter
<1> QED BY <1>1, <1>2, <1>3, <1>4 DEF Work

\* A worker counts in the wait group while it is active.
LEMMA WorkCounts ==
    ASSUME Inv, NEW w \in Workers, Work(w)
    PROVE  \/ w \notin Active /\ w \in Active' /\ wg' = wg + 1 /\ starter = "start" /\ starter' = starter
           \/ w \in Active /\ w \notin Active' /\ wg' = wg - 1 /\ starter' = starter
           \/ (w \in Active <=> w \in Active') /\ wg' = wg /\ starter' \in {starter, "exited"}
<1> USE DEF Inv, Types, Active
<1>1. CASE StartWorker(w) BY <1>1 DEF StartWorker, Enter
<1>2. CASE CreateExporter(w) \/ CreateFails(w) \/ ShutDown(w)
  BY <1>2 DEF CreateExporter, CreateFails, ShutDown, Enter
<1>3. CASE Test(w) BY <1>3 DEF Test, Leave, Enter
<1>4. CASE Generate(w) \/ ExportFails(w) BY <1>4 DEF Generate, ExportFails, Enter
<1>5. CASE Count(w) BY <1>5 DEF Count, Leave, Enter
<1> QED BY <1>1, <1>2, <1>3, <1>4, <1>5 DEF Work

\* Every step keeps the wait group right.
LEMMA CountedStep == Inv /\ [GenNext]_genVars => Counted'
<1> SUFFICES ASSUME Inv, [GenNext]_genVars PROVE Counted' OBVIOUS
<1>0. /\ IsFiniteSet(Active) /\ wg = Cardinality(Active)
      /\ starter \notin {"start", "exited"} => \A v \in Workers : worker[v] # "new"
      /\ HasReturned => Active = {}
  BY DEF Inv, Counted
<1>1. CASE Starter
  <2>1. Active' = Active /\ wg' = wg
    BY <1>1 DEF Active, Starter, Started, DurationOver, RunReturns, StopProcessor, StopExporter
  <2>2. \A v \in Workers : worker'[v] # "new"
    BY <1>0, <1>1 DEF Starter, Started, DurationOver, RunReturns, StopProcessor, StopExporter
  <2>3. HasReturned' => Active = {}
    <3>1. CASE RunReturns
      <4>1. Cardinality(Active) = 0 BY <1>0, <3>1 DEF RunReturns
      <4> QED BY <4>1, <1>0, FS_EmptySet
    <3>2. CASE StopProcessor \/ StopExporter
      BY <1>0, <3>2 DEF StopProcessor, StopExporter, HasReturned
    <3>3. CASE Started \/ DurationOver
      BY <3>3 DEF Started, DurationOver, HasReturned
    <3> QED BY <1>1, <3>1, <3>2, <3>3 DEF Starter
  <2> QED BY <1>0, <2>1, <2>2, <2>3 DEF Counted
<1>2. ASSUME NEW w \in Workers, Work(w), starter # "exited" PROVE Counted'
  <2>1. /\ \A v \in Workers \ {w} : worker'[v] = worker[v]
        /\ worker'[w] # "new"
    BY <1>2, WorkersOthers
  <2>2. \A v \in Workers \ {w} : v \in Active <=> v \in Active' BY <2>1 DEF Active
  <2>3. Active \subseteq Workers /\ Active' \subseteq Workers BY DEF Active
  <2>4. starter' \in {starter, "exited"} /\ starter' \notin {"start", "exited"} =>
           \A v \in Workers : worker'[v] # "new"
    BY <1>0, <2>1
  <2>5. CASE /\ w \notin Active /\ w \in Active' /\ wg' = wg + 1
             /\ starter = "start" /\ starter' = starter
    <3>1. Active' = Active \cup {w} BY <2>2, <2>3, <2>5
    <3>2. IsFiniteSet(Active') /\ Cardinality(Active') = Cardinality(Active) + 1
      BY <1>0, <2>5, <3>1, FS_AddElement
    <3> QED BY <1>0, <2>5, <3>2 DEF Counted, HasReturned
  <2>6. CASE w \in Active /\ w \notin Active' /\ wg' = wg - 1 /\ starter' = starter
    <3>1. Active' = Active \ {w} BY <2>2, <2>3, <2>6
    <3>2. IsFiniteSet(Active') /\ Cardinality(Active') = Cardinality(Active) - 1
      BY <1>0, <2>6, <3>1, FS_RemoveElement
    <3>3. ~HasReturned' BY <1>0, <2>6 DEF HasReturned
    <3> QED BY <1>0, <2>4, <2>6, <3>2, <3>3 DEF Counted
  <2>7. CASE (w \in Active <=> w \in Active') /\ wg' = wg /\ starter' \in {starter, "exited"}
    <3>1. Active' = Active BY <2>2, <2>3, <2>7
    <3>2. HasReturned' => HasReturned BY <2>7 DEF HasReturned
    <3> QED BY <1>0, <2>4, <2>7, <3>1, <3>2 DEF Counted
  <2> QED BY <1>2, <2>5, <2>6, <2>7, WorkCounts
<1>3. CASE ExportBatch \/ UNCHANGED genVars
  BY <1>0, <1>3 DEF ExportBatch, genVars, Counted, Active, HasReturned
<1> QED BY <1>1, <1>2, <1>3 DEF GenNext

\* Every step keeps the items of the workers within their number.
LEMMA NumberedStep == Inv /\ [GenNext]_genVars => Numbered'
<1> SUFFICES ASSUME Inv, [GenNext]_genVars PROVE Numbered' OBVIOUS
<1> USE TelemetrygenAssumption DEF Inv, Types, Numbered
<1>1. CASE GenNext
  <2>1. CASE Starter
    BY <1>1, <2>1 DEF GenNext, Starter, Started, DurationOver, RunReturns, StopProcessor, StopExporter
  <2>2. ASSUME NEW w \in Workers, Work(w) PROVE Numbered'
    <3>1. CASE StartWorker(w) \/ CreateExporter(w) \/ CreateFails(w) \/ ShutDown(w)
      BY <1>1, <3>1 DEF GenNext, StartWorker, CreateExporter, CreateFails, ShutDown, Enter
    <3>2. CASE Test(w) BY <1>1, <3>2 DEF GenNext, Test, Leave, Enter
    <3>3. CASE Generate(w) \/ ExportFails(w)
      BY <1>1, <3>3 DEF GenNext, Generate, ExportFails, Enter
    <3>4. CASE Count(w) BY <1>1, <3>4 DEF GenNext, Count, Enough, Leave, Enter
    <3> QED BY <2>2, <3>1, <3>2, <3>3, <3>4 DEF Work
  <2>3. CASE ExportBatch BY <1>1, <2>3 DEF GenNext, ExportBatch
  <2> QED BY <1>1, <2>1, <2>2, <2>3 DEF GenNext
<1>2. CASE UNCHANGED genVars BY <1>2 DEF genVars
<1> QED BY <1>1, <1>2

\* Every step keeps the exporters of the workers open.
LEMMA ExportingStep == Inv /\ [GenNext]_genVars => Exporting'
<1> SUFFICES ASSUME Inv, [GenNext]_genVars PROVE Exporting' OBVIOUS
<1> USE TelemetrygenAssumption DEF Inv, Types, Exporting
<1>0. HasReturned => \A w \in Workers : worker[w] \notin {"test", "generate", "limit", "create"}
  BY DEF Counted, Active
<1>1. CASE GenNext
  <2>1. CASE Starter
    BY <1>0, <1>1, <2>1 DEF GenNext, Starter, Started, DurationOver, RunReturns, StopProcessor,
                            StopExporter, HasReturned
  <2>2. ASSUME NEW w \in Workers, Work(w) PROVE Exporting'
    <3>1. CASE StartWorker(w) BY <1>1, <3>1 DEF GenNext, StartWorker, Enter
    <3>2. CASE CreateExporter(w) \/ CreateFails(w) \/ ShutDown(w)
      BY <1>0, <1>1, <3>2 DEF GenNext, CreateExporter, CreateFails, ShutDown, Enter
    <3>3. CASE Test(w) BY <1>1, <3>3 DEF GenNext, Test, Leave, Enter
    <3>4. CASE Generate(w) \/ ExportFails(w)
      BY <1>0, <1>1, <3>4 DEF GenNext, Generate, ExportFails, Enter, HasReturned
    <3>5. CASE Count(w) BY <1>0, <1>1, <3>5 DEF GenNext, Count, Leave, Enter, HasReturned
    <3> QED BY <2>2, <3>1, <3>2, <3>3, <3>4, <3>5 DEF Work
  <2>3. CASE ExportBatch BY <1>1, <2>3 DEF GenNext, ExportBatch
  <2> QED BY <1>1, <2>1, <2>2, <2>3 DEF GenNext
<1>2. CASE UNCHANGED genVars BY <1>2 DEF genVars
<1> QED BY <1>1, <1>2

\* The invariant holds.
LEMMA Invariant == GenSpec => []Inv
<1>1. Inv /\ [GenNext]_genVars => Inv'
  BY TypesStep, CountedStep, NumberedStep, ExportingStep DEF Inv
<1> QED BY <1>1, InitInv, PTL DEF GenSpec

\* The WaitGroup's counter is never negative and never above the number of
\* workers, for every number of them (traces.go:152-174).
THEOREM TypesCorrect == GenSpec => []GenTypeOK
<1>1. Inv => GenTypeOK
  <2> SUFFICES ASSUME Inv PROVE GenTypeOK OBVIOUS
  <2>1. Active \subseteq Workers BY DEF Active
  <2>2. /\ Cardinality(Active) \in Nat /\ Cardinality(Workers) \in Nat
        /\ Cardinality(Active) <= Cardinality(Workers)
    BY <2>1, TelemetrygenAssumption, FS_Subset, FS_CardinalityType DEF Inv, Counted
  <2> QED BY <2>2 DEF GenTypeOK, Inv, Types, Counted
<1> QED BY <1>1, Invariant, PTL

\* Run returns after its last worker has left its loop, with its number
\* generated unless a duration was given (traces.go:152-175).
THEOREM WorkersAwaited == GenSpec => []ReturnedDone
<1>1. Inv => ReturnedDone
  <2> SUFFICES ASSUME Inv, HasReturned, NEW w \in Workers
               PROVE  worker[w] \in {"stop", "done"} /\ (~timed => generated[w] = NumSignals)
    BY DEF ReturnedDone
  <2>1. worker[w] \in WorkerPlaces /\ worker[w] # "new" /\ w \notin Active
    BY DEF Inv, Types, Counted, HasReturned
  <2>2. worker[w] \in {"stop", "done"} BY <2>1 DEF WorkerPlaces, Active
  <2> QED BY <2>2 DEF Inv, Numbered
<1> QED BY <1>1, Invariant, PTL

\* No signal is handed to an exporter that is not there yet or is shut down:
\* the deferred calls of Start and of the workers come in the right order
\* (traces.go:76-92, worker.go:37-51).
THEOREM ExportersOpen == GenSpec => []OpenWhileUsed
<1>1. Inv => OpenWhileUsed
  BY DEF Inv, Types, Exporting, OpenWhileUsed, Counted, Active, HasReturned, MainPlaces
<1> QED BY <1>1, Invariant, PTL

-----------------------------------------------------------------------------
\* What a worker has handed on: a log or a metric is exported before the
\* worker counts it, a trace is queued when it does.
Handed(w) == generated[w] + IF kind # "traces" /\ worker[w] = "limit" THEN 1 ELSE 0

Made == [w \in Workers |-> Handed(w)]

\* No signal is lost or made up between the workers and the exporter.
Conserved == handedOver + queue = SumFunctionOnSet(Made, Workers)

\* The items made by a worker are a number.
LEMMA MadeType == Types => Made \in [Workers -> Nat]
  BY DEF Types, Made, Handed

\* What a worker does changes its own part of the sum.
LEMMA WorkMakes ==
    ASSUME Inv, Inv', kind' = kind, Conserved, NEW w \in Workers,
           \A v \in Workers \ {w} : worker'[v] = worker[v] /\ generated'[v] = generated[v],
           handedOver' + queue' = handedOver + queue + (Handed(w)' - Handed(w))
    PROVE  Conserved'
<1>1. Made \in [Workers -> Nat] /\ Made' \in [Workers -> Nat]
  <2>1. Made \in [Workers -> Nat] BY MadeType DEF Inv
  <2>2. Made' \in [Workers -> Nat] BY DEF Inv, Types, Made, Handed
  <2> QED BY <2>1, <2>2
<1>2. \A v \in Workers \ {w} : Made'[v] = Made[v]
  BY DEF Made, Handed
<1>3. SumFunctionOnSet(Made', Workers) = SumFunctionOnSet(Made, Workers) + (Made'[w] - Made[w])
  BY <1>1, <1>2, TelemetrygenAssumption, SumChange
<1>4. Made'[w] = Handed(w)' /\ Made[w] = Handed(w)
  BY DEF Made
<1> QED BY <1>3, <1>4 DEF Conserved

\* No step loses or invents an item.
LEMMA ConservedStep == Inv /\ Inv' /\ Conserved /\ [GenNext]_genVars => Conserved'
<1> SUFFICES ASSUME Inv, Inv', Conserved, [GenNext]_genVars PROVE Conserved' OBVIOUS
<1>1. CASE GenNext
  <2> USE DEF Inv, Types
  <2>0. kind' = kind /\ handedOver \in Nat /\ queue \in Nat BY <1>1 DEF GenNext
  <2>1. ASSUME UNCHANGED <<worker, generated>>, handedOver' + queue' = handedOver + queue PROVE Conserved'
    <3>1. Made' = Made BY <2>0, <2>1 DEF Made, Handed
    <3> QED BY <2>1, <3>1 DEF Conserved
  <2>2. CASE Starter
    <3>1. /\ UNCHANGED <<worker, generated>>
          /\ \/ handedOver' = handedOver /\ queue' = queue
             \/ handedOver' = handedOver + queue /\ queue' = 0
      BY <2>2 DEF Starter, Started, DurationOver, RunReturns, StopProcessor, StopExporter
    <3>2. CASE handedOver' = handedOver /\ queue' = queue BY <2>1, <3>1, <3>2
    <3>3. CASE handedOver' = handedOver + queue /\ queue' = 0
      <4>1. handedOver' + queue' = handedOver + queue BY <2>0, <3>3
      <4> QED BY <2>1, <3>1, <4>1
    <3> QED BY <3>1, <3>2, <3>3
  <2>3. CASE ExportBatch
    <3>1. PICK n \in 1..queue : queue' = queue - n /\ handedOver' = handedOver + n
      BY <2>3 DEF ExportBatch
    <3>2. handedOver' + queue' = handedOver + queue BY <2>0, <3>1
    <3> QED BY <2>1, <2>3, <3>2 DEF ExportBatch
  <2>4. ASSUME NEW w \in Workers, Work(w) PROVE Conserved'
    <3>0. Handed(w) \in Nat BY DEF Handed
    <3>1. \A v \in Workers \ {w} : worker'[v] = worker[v] BY <2>4, WorkersOthers
    <3>s. ASSUME Handed(w)' = Handed(w), UNCHANGED <<handedOver, queue, generated>> PROVE Conserved'
      <4>1. handedOver' + queue' = handedOver + queue + (Handed(w)' - Handed(w)) BY <2>0, <3>0, <3>s
      <4> QED BY <2>0, <3>1, <3>s, <4>1, WorkMakes
    <3>2. CASE StartWorker(w) \/ CreateExporter(w) \/ CreateFails(w) \/ ShutDown(w)
      <4>1. Handed(w)' = Handed(w) /\ UNCHANGED <<handedOver, queue, generated>>
        BY <2>0, <3>2 DEF StartWorker, CreateExporter, CreateFails, ShutDown, Enter, Handed
      <4> QED BY <3>s, <4>1
    <3>3. CASE Test(w)
      <4>1. Handed(w)' = Handed(w) /\ UNCHANGED <<handedOver, queue, generated>>
        BY <2>0, <3>3 DEF Test, Leave, Enter, Handed
      <4> QED BY <3>s, <4>1
    <3>4. CASE ExportFails(w) BY <2>1, <3>4 DEF ExportFails
    <3>5. CASE Generate(w)
      <4>1. /\ handedOver' = (IF kind = "traces" THEN handedOver ELSE handedOver + 1)
            /\ queue' = queue /\ generated' = generated
            /\ worker[w] = "generate" /\ worker'[w] = "limit"
        BY <3>5 DEF Generate, Enter
      <4>2. handedOver' + queue' = handedOver + queue + (Handed(w)' - Handed(w))
        BY <2>0, <4>1 DEF Handed
      <4> QED BY <2>0, <3>1, <4>1, <4>2, WorkMakes
    <3>6. CASE Count(w)
      <4>1. /\ worker[w] = "limit" /\ worker'[w] # "limit" /\ handedOver' = handedOver
            /\ generated' = [generated EXCEPT ![w] = @ + 1]
            /\ queue' = IF kind = "traces" THEN queue + 1 ELSE queue
        BY <3>6 DEF Count, Leave, Enter
      <4>2. handedOver' + queue' = handedOver + queue + (Handed(w)' - Handed(w))
        BY <2>0, <4>1 DEF Handed
      <4>3. \A v \in Workers \ {w} : generated'[v] = generated[v] BY <4>1
      <4> QED BY <2>0, <3>1, <4>2, <4>3, WorkMakes
    <3> QED BY <2>4, <3>2, <3>3, <3>4, <3>5, <3>6 DEF Work
  <2> QED BY <1>1, <2>2, <2>3, <2>4 DEF GenNext
<1>2. CASE UNCHANGED genVars
  <2>1. Made' = Made BY <1>2 DEF genVars, Made, Handed
  <2> QED BY <1>2, <2>1 DEF genVars, Conserved
<1> QED BY <1>1, <1>2

\* There are no items at first.
LEMMA ConservedInit == GenInit => Conserved
<1> SUFFICES ASSUME GenInit PROVE Conserved OBVIOUS
<1>1. Made \in [Workers -> Nat] BY InitInv, MadeType DEF Inv
<1>2. \A w \in Workers : Made[w] = 0 BY DEF GenInit, Made, Handed
<1>3. SumFunctionOnSet(Made, Workers) = 0 BY <1>1, <1>2, TelemetrygenAssumption, SumType
<1> QED BY <1>3 DEF GenInit, Conserved

\* When Start returns, everything that any worker generated has reached the
\* exporter: the deferred shutdowns of traces.Start leave nothing in the span
\* processor (traces.go:76-92), and Run leaves nothing in a worker.
THEOREM Delivered == GenSpec => []AllDelivered
<1>1. Inv /\ Conserved => AllDelivered
  <2> SUFFICES ASSUME Inv, Conserved, starter = "ended"
               PROVE  handedOver = MapThenSumSet(LAMBDA w : generated[w], Workers)
    BY DEF AllDelivered
  <2>1. queue = 0 BY DEF Inv, Types, Exporting
  <2>2. ASSUME NEW w \in Workers PROVE Handed(w) = generated[w]
    <3>1. worker[w] # "limit" BY DEF Inv, Counted, HasReturned, Active
    <3> QED BY <3>1 DEF Handed, Inv, Types
  <2>3. Made = generated
    <3>1. generated = [w \in Workers |-> generated[w]] BY DEF Inv, Types
    <3> QED BY <2>2, <3>1 DEF Made
  <2>4. MapThenSumSet(LAMBDA w : generated[w], Workers) = SumFunctionOnSet(generated, Workers)
    BY MapSumIs
  <2>5. handedOver = SumFunctionOnSet(generated, Workers)
    BY <2>1, <2>3 DEF Conserved, Inv, Types
  <2> QED BY <2>4, <2>5
<1>2. Inv /\ Inv' /\ Conserved /\ [GenNext]_genVars => Conserved' BY ConservedStep
<1> QED BY <1>1, <1>2, ConservedInit, Invariant, PTL DEF GenSpec
=============================================================================
