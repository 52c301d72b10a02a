--------------------------- MODULE BenchRunProofs ---------------------------
(***************************************************************************)
(* Theorems about BenchRun, for every number of runs and stages.           *)
(***************************************************************************)
EXTENDS BenchRun, DataLemmas

\* All stages are asserted, in the order in which events pass through them,
\* and the server publishes at least as often as the cleanup asks.
Upstream ==
    /\ Prompt
    /\ Len(CleanupKeys) = Stages
    /\ \A s \in 1..Stages : CleanupKeys[s] = s

-----------------------------------------------------------------------------
\* The calls are counted from 0 in every run.
Typed == BenchTypeOK /\ (pc = "reset" => calls = 0)

\* The constants, as the proofs use them.
LEMMA ConstantTypes ==
  /\ Runs \in Nat \ {0} /\ Stages \in Nat \ {0} /\ Len(CleanupKeys) \in Nat
  /\ MaxCalls \in Nat \ {0} /\ MaxEvents \in Nat
  BY BenchAssumption

\* BenchTypeOK in parts: what Run is doing, and what is counted.
ControlType ==
    /\ pc \in BenchPlaces
    /\ pc = "reset" => calls = 0
    /\ run \in 1..Runs
    /\ calls \in 0..MaxCalls
    /\ outcome \in {"ok", "skipped", "failed"}
    /\ idx \in 1..(Len(CleanupKeys) + 1)
    /\ fresh \in BOOLEAN /\ down \in BOOLEAN /\ stale \in BOOLEAN

CountType ==
    /\ metrics \in Nat
    /\ stage \in [1..Stages -> Nat] /\ finished \in Nat
    /\ level \in [1..Stages -> Nat] /\ count \in Nat
    /\ sentEvents \in 0..MaxEvents

\* Typed, in two parts.
LEMMA TypedParts == Typed <=> ControlType /\ CountType /\ printed \in Seq(Nat)
  BY DEF Typed, BenchTypeOK, ControlType, CountType

\* The types hold at first.
LEMMA TypedInit == BenchInit => Typed
<1> SUFFICES ASSUME BenchInit PROVE Typed
  OBVIOUS
<1>1. ControlType
  <2>1. idx \in 1..(Len(CleanupKeys) + 1) /\ run \in 1..Runs /\ calls \in 0..MaxCalls
    BY ConstantTypes DEF BenchInit
  <2> QED BY <2>1 DEF BenchInit, ControlType, BenchPlaces
<1>2. CountType
  BY ConstantTypes DEF BenchInit, CountType, Zero
<1>3. printed \in Seq(Nat)
  BY DEF BenchInit
<1> QED
  BY <1>1, <1>2, <1>3, TypedParts

\* Every step keeps the types of the control state.
LEMMA ControlStep == ControlType /\ [BenchNext]_benchVars => ControlType'
<1> SUFFICES ASSUME ControlType, [BenchNext]_benchVars PROVE ControlType'
  OBVIOUS
<1> USE ConstantTypes DEF ControlType, BenchPlaces
<1>1. CASE ResetStore
  BY <1>1 DEF ResetStore, BeginCall
<1>2. CASE SendEvent \/ Panic \/ Tick \/ CleanupSatisfied
  BY <1>2 DEF SendEvent, Panic, Tick, CleanupSatisfied, bench, history
<1>3. CASE FunctionEnds
  <2>1. idx' \in 1..(Len(CleanupKeys) + 1)
    BY <1>3 DEF FunctionEnds
  <2>2. outcome' \in {"ok", "skipped", "failed"} /\ pc' = "tick" /\ fresh' = FALSE
    BY <1>3 DEF FunctionEnds
  <2> QED BY <1>3, <2>1, <2>2 DEF FunctionEnds, history
<1>4. CASE KeyIsZero
  BY <1>4 DEF KeyIsZero, Satisfied, bench, history
<1>5. CASE KeyIsNotZero
  BY <1>5 DEF KeyIsNotZero, bench, history
<1>6. CASE ReportMetrics
  BY <1>6 DEF ReportMetrics, history
<1>7. CASE CallAgain
  BY <1>7 DEF CallAgain, BeginCall, history
<1>8. CASE NextRun
  BY <1>8 DEF NextRun, history
<1>9. CASE Publish
  BY <1>9 DEF Publish, bench, history
<1>10. ASSUME NEW s \in 1..Stages, PassOn(s) PROVE ControlType'
  BY <1>10 DEF PassOn, bench, history
<1>11. CASE EndpointGone
  BY <1>11 DEF EndpointGone, bench, history
<1>12. CASE UNCHANGED benchVars
  BY <1>12 DEF benchVars, bench, history
<1> QED
  BY <1>1, <1>2, <1>3, <1>4, <1>5, <1>6, <1>7, <1>8, <1>9, <1>10, <1>11, <1>12
  DEF BenchNext, BenchMain

\* Every step keeps the types of the counts.
LEMMA CountStep == CountType /\ [BenchNext]_benchVars => CountType'
<1> SUFFICES ASSUME CountType, [BenchNext]_benchVars PROVE CountType'
  OBVIOUS
<1> USE ConstantTypes DEF CountType
<1>1. CASE ResetStore
  BY <1>1 DEF ResetStore, BeginCall, Zero, server, store
<1>2. CASE SendEvent
  BY <1>2 DEF SendEvent, bench, store
<1>3. CASE FunctionEnds \/ Panic \/ Tick \/ KeyIsZero \/ KeyIsNotZero \/ CleanupSatisfied
  BY <1>3 DEF FunctionEnds, Panic, Tick, KeyIsZero, KeyIsNotZero, CleanupSatisfied,
              bench, server, store, history
<1>4. CASE ReportMetrics \/ CallAgain \/ NextRun
  BY <1>4 DEF ReportMetrics, CallAgain, BeginCall, NextRun, server, store, history
<1>5. CASE Publish
  BY <1>5 DEF Publish, bench, history
<1>6. ASSUME NEW s \in 1..Stages, PassOn(s) PROVE CountType'
  <2>1. stage[s] - 1 \in Nat
    BY <1>6 DEF PassOn
  <2>2. stage' \in [1..Stages -> Nat]
    <3>1. CASE s = Stages
      BY <1>6, <2>1, <3>1 DEF PassOn
    <3>2. CASE s # Stages
      <4>1. stage[s + 1] + 1 \in Nat
        BY <3>2
      <4> QED BY <1>6, <2>1, <3>2, <4>1 DEF PassOn
    <3> QED BY <3>1, <3>2
  <2>3. finished' \in Nat
    BY <1>6 DEF PassOn
  <2> QED BY <1>6, <2>2, <2>3 DEF PassOn, bench, store, history
<1>7. CASE EndpointGone \/ UNCHANGED benchVars
  BY <1>7 DEF EndpointGone, benchVars, bench, server, store, history
<1> QED
  BY <1>1, <1>2, <1>3, <1>4, <1>5, <1>6, <1>7 DEF BenchNext, BenchMain

\* Every step keeps the types.
LEMMA TypedStep == Typed /\ [BenchNext]_benchVars => Typed'
<1> SUFFICES ASSUME Typed, [BenchNext]_benchVars PROVE Typed'
  OBVIOUS
<1>1. ControlType /\ CountType /\ printed \in Seq(Nat)
  BY TypedParts
<1>2. ControlType' /\ CountType'
  BY <1>1, ControlStep, CountStep
<1>3. printed' \in Seq(Nat)
  <2>1. CASE NextRun
    BY <1>1, <2>1 DEF NextRun, CountType
  <2>2. CASE ~NextRun
    <3>1. printed' = printed
      BY <2>2 DEF BenchNext, BenchMain, ResetStore, SendEvent, FunctionEnds, Panic, Tick, KeyIsZero,
                  KeyIsNotZero, CleanupSatisfied, ReportMetrics, CallAgain, PassOn,
                  Publish, EndpointGone, benchVars, bench
    <3> QED BY <1>1, <3>1
  <2> QED BY <2>1, <2>2
<1> QED
  BY <1>2, <1>3, TypedParts DEF Typed, BenchTypeOK, ControlType, CountType

\* BenchRun keeps its types, and never begins a run beyond the last or a call
\* beyond the bound (run.go: Run, runOne).
THEOREM TypeCorrect == BenchSpec => []BenchTypeOK
<1>1. Typed => BenchTypeOK
  BY DEF Typed
<1> QED
  BY TypedInit, TypedStep, <1>1, PTL DEF BenchSpec

-----------------------------------------------------------------------------
Asserting == pc \in {"tick", "assert"}

\* The keys that are done with are those of stages that stay empty.
DoneEmpty ==
    Asserting => \A s \in 1..Stages : s < idx => stage[s] = 0 /\ level[s] = 0

\* Once all are done with, nothing is left to publish.
DonePublished == Asserting /\ idx > Stages => finished = 0

\* Levels published since the call has ended: the stages up to s were empty
\* at once if all their levels are 0, and nothing has entered them since.
EmptyUpTo(s) == \A u \in 1..s : stage[u] = 0
LowUpTo(s) == \A u \in 1..s : level[u] = 0

FreshLevels ==
    Asserting /\ fresh =>
        /\ \A s \in 1..Stages : LowUpTo(s) => EmptyUpTo(s)
        /\ LowUpTo(Stages) => finished = 0

AssertsFresh == pc = "assert" => fresh \/ down

CleanupInv ==
    Typed /\ DoneEmpty /\ DonePublished /\ FreshLevels /\ AssertsFresh
          /\ DrainedReport

\* The invariant of the cleanup holds at first.
LEMMA CleanupInit == BenchInit => CleanupInv
  BY TypedInit
  DEF BenchInit, CleanupInv, DoneEmpty, DonePublished, FreshLevels, AssertsFresh,
      DrainedReport, Asserting

\* An event that leaves a stage enters none of the empty stages before it.
LEMMA ProcessStep ==
  ASSUME Upstream, CleanupInv, NEW s \in 1..Stages, PassOn(s)
  PROVE  /\ DoneEmpty' /\ DonePublished' /\ FreshLevels'
         /\ AssertsFresh' /\ DrainedReport'
<1> USE ConstantTypes
<1>0. Typed /\ stage[s] > 0 /\ UNCHANGED <<pc, idx, level, fresh, down>>
  BY DEF CleanupInv, PassOn, store
<1>1. \A u \in 1..Stages : u < s => stage'[u] = stage[u]
  <2>1. stage \in [1..Stages -> Nat]
    BY <1>0 DEF Typed, BenchTypeOK
  <2>2. CASE s = Stages
    <3>1. stage' = [stage EXCEPT ![s] = @ - 1]
      BY <2>2 DEF PassOn
    <3> QED
      BY <2>1, <3>1
  <2>3. CASE s # Stages
    <3>1. stage' = [stage EXCEPT ![s] = @ - 1, ![s + 1] = @ + 1]
      BY <2>3 DEF PassOn
    <3> QED
      BY <2>1, <3>1
  <2> QED
    BY <2>2, <2>3
<1>2. Asserting => ~(s < idx)
  BY <1>0 DEF CleanupInv, DoneEmpty
<1>3. DoneEmpty'
  <2>1. ASSUME Asserting, NEW u \in 1..Stages, u < idx
        PROVE  stage'[u] = 0 /\ level[u] = 0
    <3>1. stage[u] = 0 /\ level[u] = 0
      BY <2>1 DEF CleanupInv, DoneEmpty
    <3>2. u < s
      BY <2>1, <1>2, <1>0, ConstantTypes DEF Typed, BenchTypeOK
    <3> QED BY <3>1, <3>2, <1>1
  <2> QED BY <2>1, <1>0 DEF DoneEmpty, Asserting
<1>4. DonePublished'
  BY <1>0, <1>2 DEF DonePublished, Asserting, Typed, BenchTypeOK
<1>5. FreshLevels'
  <2> SUFFICES ASSUME Asserting, fresh
               PROVE  /\ \A t \in 1..Stages : LowUpTo(t) => (EmptyUpTo(t))'
                      /\ LowUpTo(Stages) => finished' = 0
    BY <1>0 DEF FreshLevels, Asserting, LowUpTo
  <2>1. ASSUME NEW t \in 1..Stages, LowUpTo(t) PROVE t < s
    <3>1. EmptyUpTo(t)
      BY <2>1 DEF CleanupInv, FreshLevels
    <3> QED BY <3>1, <1>0 DEF EmptyUpTo
  <2>2. ASSUME NEW t \in 1..Stages, LowUpTo(t) PROVE (EmptyUpTo(t))'
    <3>1. EmptyUpTo(t) /\ t < s
      BY <2>1, <2>2 DEF CleanupInv, FreshLevels
    <3>2. \A u \in 1..t : stage'[u] = 0
      BY <3>1, <1>1 DEF EmptyUpTo
    <3> QED BY <3>2 DEF EmptyUpTo
  <2>3. ~LowUpTo(Stages)
    BY <2>1
  <2> QED BY <2>2, <2>3
<1>6. AssertsFresh'
  BY <1>0 DEF CleanupInv, AssertsFresh
<1>7. DrainedReport'
  BY <1>0 DEF CleanupInv, DrainedReport
<1> QED BY <1>3, <1>4, <1>5, <1>6, <1>7

\* A key that reads 0 is the next of stages that were empty when published.
LEMMA KeyStep ==
  ASSUME Upstream, CleanupInv, KeyIsZero
  PROVE  /\ DoneEmpty' /\ DonePublished' /\ FreshLevels'
         /\ AssertsFresh' /\ DrainedReport'
<1> USE ConstantTypes
<1>0. /\ Typed /\ pc = "assert" /\ fresh /\ Asserting
      /\ idx \in 1..Stages /\ level[idx] = 0 /\ idx' = idx + 1
      /\ UNCHANGED <<pc, stage, level, finished, fresh, down>>
  BY DEF CleanupInv, KeyIsZero, Satisfied, AssertsFresh, Asserting, Upstream,
         Typed, BenchTypeOK, server, store
<1>1. LowUpTo(idx)
  BY <1>0 DEF CleanupInv, DoneEmpty, LowUpTo
<1>2. EmptyUpTo(idx)
  BY <1>0, <1>1 DEF CleanupInv, FreshLevels
<1>3. DoneEmpty'
  BY <1>0, <1>1, <1>2 DEF DoneEmpty, Asserting, LowUpTo, EmptyUpTo
<1>4. DonePublished'
  <2>1. idx' > Stages => idx = Stages
    BY <1>0
  <2>2. idx = Stages => finished = 0
    BY <1>0, <1>1 DEF CleanupInv, FreshLevels
  <2> QED BY <1>0, <2>1, <2>2 DEF DonePublished
<1>5. FreshLevels' /\ AssertsFresh' /\ DrainedReport'
  BY <1>0 DEF CleanupInv, FreshLevels, AssertsFresh, DrainedReport, Asserting,
              LowUpTo, EmptyUpTo
<1> QED BY <1>3, <1>4, <1>5

\* Every step keeps the invariant of the cleanup.
LEMMA CleanupStep ==
  ASSUME Upstream PROVE CleanupInv /\ [BenchNext]_benchVars => CleanupInv'
<1> SUFFICES ASSUME CleanupInv, [BenchNext]_benchVars PROVE CleanupInv'
  OBVIOUS
<1> USE ConstantTypes
<1>0. Typed /\ Typed'
  BY TypedStep DEF CleanupInv
<1> DEFINE Parts == DoneEmpty /\ DonePublished /\ FreshLevels /\ AssertsFresh
                    /\ DrainedReport
<1>1. CASE ResetStore \/ SendEvent \/ Panic \/ CallAgain \/ NextRun \/ ReportMetrics
  <2>1. pc' \notin {"tick", "assert", "report"}
    BY <1>1 DEF ResetStore, SendEvent, Panic, CallAgain, NextRun, ReportMetrics, BeginCall
  <2>2. Parts'
    BY <2>1 DEF DoneEmpty, DonePublished, FreshLevels, AssertsFresh,
                DrainedReport, Asserting
  <2> QED BY <1>0, <2>2 DEF CleanupInv
<1>2. CASE FunctionEnds
  <2>1. pc' = "tick" /\ idx' = 1 /\ ~fresh'
    BY <1>2 DEF FunctionEnds
  <2>2. Parts'
    BY <2>1 DEF DoneEmpty, DonePublished, FreshLevels, AssertsFresh,
                DrainedReport, Asserting
  <2> QED BY <1>0, <2>2 DEF CleanupInv
<1>4. CASE KeyIsZero
  BY <1>0, <1>4, KeyStep DEF CleanupInv
<1>5. CASE KeyIsNotZero
  <2>1. pc = "assert" /\ pc' = "tick" /\ ~fresh' /\ UNCHANGED <<idx, stage, level, finished>>
    BY <1>5 DEF KeyIsNotZero, server, store
  <2>2. Parts'
    BY <2>1 DEF CleanupInv, DoneEmpty, DonePublished, FreshLevels, AssertsFresh,
                DrainedReport, Asserting
  <2> QED BY <1>0, <2>2 DEF CleanupInv
<1>6. CASE CleanupSatisfied
  <2>1. /\ pc = "assert" /\ pc' = "report" /\ idx > Stages
        /\ UNCHANGED <<idx, stage, finished>>
    BY <1>6 DEF CleanupSatisfied, Satisfied, Upstream, server
  <2>2. Parts'
    BY <2>1, <1>0 DEF CleanupInv, DoneEmpty, DonePublished, FreshLevels, AssertsFresh,
                DrainedReport, Asserting, Typed, BenchTypeOK
  <2> QED BY <1>0, <2>2 DEF CleanupInv
<1>7. CASE Publish
  <2>1. /\ level' = stage /\ stage' = stage /\ finished' = 0 /\ fresh'
        /\ UNCHANGED <<pc, idx, down>>
    BY <1>7 DEF Publish
  <2>2. DoneEmpty' /\ DonePublished' /\ AssertsFresh' /\ DrainedReport'
    BY <2>1 DEF CleanupInv, DoneEmpty, DonePublished, AssertsFresh,
                DrainedReport, Asserting
  <2>3. FreshLevels'
    BY <2>1 DEF FreshLevels, LowUpTo, EmptyUpTo
  <2> QED BY <1>0, <2>2, <2>3 DEF CleanupInv
<1>8. ASSUME NEW s \in 1..Stages, PassOn(s) PROVE CleanupInv'
  BY <1>0, <1>8, ProcessStep DEF CleanupInv
<1>9. CASE EndpointGone \/ UNCHANGED benchVars
  <2>1. UNCHANGED <<pc, idx, stage, finished, level, fresh>> /\ (down => down')
    BY <1>9 DEF EndpointGone, benchVars, server, store
  <2>2. Parts'
    BY <2>1 DEF CleanupInv, DoneEmpty, DonePublished, FreshLevels, AssertsFresh,
                DrainedReport, Asserting, LowUpTo, EmptyUpTo
  <2> QED BY <1>0, <2>2 DEF CleanupInv
<1>10. CASE Tick
  <2>1. /\ pc = "tick" /\ pc' = "assert" /\ (fresh \/ down)
        /\ UNCHANGED <<idx, stage, finished, level, fresh, down>>
    BY <1>10 DEF Tick, Upstream, server, store
  <2>2. Parts'
    BY <2>1 DEF CleanupInv, DoneEmpty, DonePublished, FreshLevels, AssertsFresh,
                DrainedReport, Asserting, LowUpTo, EmptyUpTo
  <2> QED BY <1>0, <2>2 DEF CleanupInv
<1> QED
  BY <1>1, <1>2, <1>4, <1>5, <1>6, <1>7, <1>8, <1>9, <1>10 DEF BenchNext, BenchMain

\* When the metrics of a call are read, the server holds none of its events
\* and has published all it counted (main.go: assertCleanupState), provided
\* the cleanup keys cover the stages in order and the server is prompt.
THEOREM DrainedWhenRead ==
  ASSUME Upstream PROVE BenchSpec => []DrainedReport
<1>1. CleanupInv => DrainedReport
  BY DEF CleanupInv
<1>2. CleanupInv /\ [BenchNext]_benchVars => CleanupInv'
  BY CleanupStep
<1> QED
  BY CleanupInit, <1>1, <1>2, PTL DEF BenchSpec

-----------------------------------------------------------------------------
\* From the report to the next call nothing enters the server, which is empty.
Quiet ==
    pc \in {"report", "called", "reset"} =>
        finished = 0 /\ \A s \in 1..Stages : stage[s] = 0

InServer == SumFunctionOnSet(stage, 1..Stages)

\* Every event of a run is in a stage of the server, or finished, or published.
Conserved == pc # "reset" /\ ~stale => InServer + finished + count = sentEvents

\* There are finitely many stages.
LEMMA StagesFinite == IsFiniteSet(1..Stages)
  BY ConstantTypes, FS_Interval

\* SumChange for the stages.
LEMMA StageChange ==
  \A f, h \in [1..Stages -> Nat] : \A a \in 1..Stages :
    (\A u \in (1..Stages) \ {a} : h[u] = f[u]) =>
      SumFunctionOnSet(h, 1..Stages)
        = SumFunctionOnSet(f, 1..Stages) + (h[a] - f[a])
<1> DEFINE T == 1..Stages
<1>1. IsFiniteSet(T)
  BY StagesFinite
<1> HIDE DEF T
<1>2. \A f, h \in [T -> Nat] : \A a \in T :
        (\A u \in T \ {a} : h[u] = f[u]) =>
          SumFunctionOnSet(h, T) = SumFunctionOnSet(f, T) + (h[a] - f[a])
  BY <1>1, SumChange
<1> QED
  BY <1>2 DEF T

\* What is in the server is a number, and zero if all stages are empty.
LEMMA InServerType ==
  ASSUME Typed
  PROVE  /\ InServer \in Nat
         /\ (\A s \in 1..Stages : stage[s] = 0) => InServer = 0
<1>1. stage \in [1..Stages -> Nat]
  BY DEF Typed, BenchTypeOK
<1> QED BY <1>1, StagesFinite, SumType DEF InServer

\* Every step keeps the server empty from the report to the next call.
LEMMA QuietStep ==
  ASSUME CleanupInv, CleanupInv', Quiet, [BenchNext]_benchVars
  PROVE  Quiet'
<1> USE ConstantTypes
<1>1. CASE ResetStore \/ SendEvent \/ FunctionEnds \/ Panic \/ Tick \/ KeyIsZero
           \/ KeyIsNotZero \/ CallAgain
  <2>1. pc' \notin {"report", "called", "reset"}
    BY <1>1 DEF ResetStore, SendEvent, FunctionEnds, Panic, Tick, KeyIsZero,
                KeyIsNotZero, CallAgain, BeginCall
  <2> QED BY <2>1 DEF Quiet
<1>2. CASE CleanupSatisfied
  <2>1. pc' = "report"
    BY <1>2 DEF CleanupSatisfied
  <2> QED BY <2>1 DEF CleanupInv, DrainedReport, Quiet
<1>3. CASE ReportMetrics \/ NextRun
  <2>1. pc \in {"report", "called"} /\ UNCHANGED <<stage, finished>>
    BY <1>3 DEF ReportMetrics, NextRun, server
  <2> QED BY <2>1 DEF Quiet
<1>4. CASE Publish
  BY <1>4 DEF Publish, Quiet
<1>5. ASSUME NEW s \in 1..Stages, PassOn(s) PROVE Quiet'
  <2>1. stage[s] > 0 /\ pc' = pc
    BY <1>5 DEF PassOn
  <2> QED BY <2>1 DEF Quiet
<1>6. CASE EndpointGone \/ UNCHANGED benchVars
  BY <1>6 DEF EndpointGone, benchVars, server, Quiet
<1> QED
  BY <1>1, <1>2, <1>3, <1>4, <1>5, <1>6 DEF BenchNext, BenchMain

\* An event sent is in the first stage.
LEMMA SendSum ==
  ASSUME Typed, Typed', SendEvent
  PROVE  InServer' = InServer + 1
<1> USE ConstantTypes
<1>1. /\ stage \in [1..Stages -> Nat] /\ stage' \in [1..Stages -> Nat]
      /\ stage' = [stage EXCEPT ![1] = @ + 1] /\ 1 \in 1..Stages
  <2>1. stage \in [1..Stages -> Nat] /\ stage' \in [1..Stages -> Nat]
    BY DEF Typed, BenchTypeOK
  <2>2. stage' = [stage EXCEPT ![1] = @ + 1]
    BY DEF SendEvent
  <2> QED
    BY <2>1, <2>2
<1>2. \A s \in (1..Stages) \ {1} : stage'[s] = stage[s]
  BY <1>1
<1>3. stage'[1] - stage[1] = 1
  BY <1>1
<1>4. InServer' = InServer + (stage'[1] - stage[1])
  BY <1>1, <1>2, StageChange DEF InServer
<1> QED BY <1>3, <1>4

\* An event that leaves a stage enters the next one, or is finished.
LEMMA ProcessSum ==
  ASSUME Typed, Typed', NEW s \in 1..Stages, PassOn(s)
  PROVE  InServer' + finished' = InServer + finished
<1> USE ConstantTypes
<1> DEFINE T == 1..Stages
           mid == [stage EXCEPT ![s] = @ - 1]
<1>1. /\ stage \in [T -> Nat] /\ stage' \in [T -> Nat] /\ stage[s] > 0
      /\ IsFiniteSet(T) /\ finished \in Nat /\ InServer \in Nat
  BY StagesFinite, InServerType DEF Typed, BenchTypeOK, PassOn
<1>2. /\ mid \in [T -> Nat] /\ mid[s] - stage[s] = 0 - 1
      /\ \A u \in T \ {s} : mid[u] = stage[u]
  BY <1>1
<1> HIDE DEF mid, T
<1>3. SumFunctionOnSet(mid, T) = SumFunctionOnSet(stage, T) + (mid[s] - stage[s])
  BY <1>1, <1>2, StageChange DEF T
<1>4. SumFunctionOnSet(mid, T) = InServer - 1
  BY <1>1, <1>2, <1>3 DEF InServer, T
<1>5. CASE s = Stages
  <2>1. stage' = mid /\ finished' = finished + 1
    BY <1>5 DEF PassOn, mid
  <2>2. InServer' = InServer - 1
    BY <1>4, <2>1 DEF InServer, T
  <2> QED BY <1>1, <2>1, <2>2
<1>6. CASE s # Stages
  <2>1. /\ stage' = [stage EXCEPT ![s] = @ - 1, ![s + 1] = @ + 1]
        /\ finished' = finished
    BY <1>6 DEF PassOn
  <2>2. s + 1 \in T /\ s + 1 # s
    BY <1>6 DEF T
  <2>3. /\ \A u \in T \ {s + 1} : stage'[u] = mid[u]
        /\ stage'[s + 1] - mid[s + 1] = 1
    BY <1>1, <2>1, <2>2 DEF mid
  <2>4. SumFunctionOnSet(stage', T)
          = SumFunctionOnSet(mid, T) + (stage'[s + 1] - mid[s + 1])
    BY <1>1, <1>2, <2>2, <2>3, StageChange DEF T
  <2>5. InServer' = InServer
    BY <1>1, <1>4, <2>3, <2>4 DEF InServer, T
  <2> QED BY <2>1, <2>5
<1> QED BY <1>5, <1>6

\* No step loses or invents an event.
LEMMA ConservedStep ==
  ASSUME CleanupInv, CleanupInv', Quiet, Conserved, [BenchNext]_benchVars
  PROVE  Conserved'
<1> USE ConstantTypes
<1>0. /\ Typed /\ Typed' /\ InServer \in Nat /\ finished \in Nat
      /\ count \in Nat /\ sentEvents \in Nat
  <2>1. Typed /\ Typed'
    BY DEF CleanupInv
  <2>2. InServer \in Nat
    BY <2>1, InServerType
  <2>3. finished \in Nat /\ count \in Nat /\ sentEvents \in Nat
    BY <2>1 DEF Typed, BenchTypeOK
  <2> QED BY <2>1, <2>2, <2>3
<1>1. CASE ResetStore
  <2>1. ~stale' => count' = 0
    BY <1>1 DEF ResetStore
  <2>2. pc = "reset" /\ sentEvents' = 0 /\ UNCHANGED <<stage, finished>>
    BY <1>1 DEF ResetStore, server
  <2>3. finished = 0 /\ InServer = 0
    BY <1>0, <2>2, InServerType DEF Quiet
  <2>4. InServer' = InServer
    BY <2>2 DEF InServer
  <2> QED BY <2>1, <2>2, <2>3, <2>4 DEF Conserved
<1>2. CASE SendEvent
  <2>1. /\ pc = "bench" /\ sentEvents' = sentEvents + 1
        /\ UNCHANGED <<pc, finished, count, stale>>
    BY <1>2 DEF SendEvent, store
  <2>2. InServer' = InServer + 1
    BY <1>0, <1>2, SendSum
  <2> QED BY <1>0, <2>1, <2>2 DEF Conserved
<1>3. CASE FunctionEnds \/ Panic \/ Tick \/ KeyIsZero \/ KeyIsNotZero
           \/ CleanupSatisfied \/ ReportMetrics \/ CallAgain
           \/ EndpointGone \/ UNCHANGED benchVars
  <2>1. /\ UNCHANGED <<stage, finished, count, sentEvents, stale>>
        /\ pc = "reset" => pc' = "reset"
    BY <1>3 DEF FunctionEnds, Panic, Tick, KeyIsZero, KeyIsNotZero,
                CleanupSatisfied, ReportMetrics, CallAgain, BeginCall,
                EndpointGone, benchVars, server, store, history
  <2>2. InServer' = InServer
    BY <2>1 DEF InServer
  <2> QED BY <2>1, <2>2 DEF Conserved
<1>4. CASE NextRun
  <2>1. /\ pc = "called" /\ UNCHANGED <<stage, finished, count, sentEvents, stale>>
    BY <1>4 DEF NextRun, server, store, history
  <2>2. InServer' = InServer
    BY <2>1 DEF InServer
  <2> QED BY <2>1, <2>2 DEF Conserved
<1>5. CASE Publish
  <2>1. /\ stage' = stage /\ count' = count + finished /\ finished' = 0
        /\ UNCHANGED <<pc, sentEvents, stale>>
    BY <1>5 DEF Publish, history
  <2>2. InServer' = InServer
    BY <2>1 DEF InServer
  <2> QED BY <1>0, <2>1, <2>2 DEF Conserved
<1>6. ASSUME NEW s \in 1..Stages, PassOn(s) PROVE Conserved'
  <2>1. UNCHANGED <<pc, count, sentEvents, stale>>
    BY <1>6 DEF PassOn, store, history
  <2>2. InServer' + finished' = InServer + finished
    BY <1>0, <1>6, ProcessSum
  <2> QED BY <2>1, <2>2 DEF Conserved
<1> QED
  BY <1>1, <1>2, <1>3, <1>4, <1>5, <1>6 DEF BenchNext, BenchMain

\* The metrics reported for a run count all its events and those of no other
\* run (main.go: resetStore, extraMetrics), provided the cleanup keys cover
\* the stages in order, the server is prompt, and the reset has succeeded.
THEOREM ResultsOwn ==
  ASSUME Upstream PROVE BenchSpec => []OwnResults
<1>1. BenchInit => Quiet /\ Conserved
  BY DEF BenchInit, Quiet, Conserved, Zero
<1>2. CleanupInv /\ [BenchNext]_benchVars => CleanupInv'
  BY CleanupStep
<1>3. CleanupInv /\ CleanupInv' /\ Quiet /\ Conserved /\ [BenchNext]_benchVars
        => Quiet' /\ Conserved'
  BY QuietStep, ConservedStep
<1>4. CleanupInv /\ Quiet /\ Conserved => OwnResults
  <2> SUFFICES ASSUME CleanupInv, Quiet, Conserved, pc = "report", ~stale
               PROVE  count = sentEvents
    BY DEF OwnResults
  <2>1. InServer = 0 /\ finished = 0 /\ count \in Nat
    BY InServerType DEF CleanupInv, Quiet, Typed, BenchTypeOK
  <2> QED BY <2>1 DEF Conserved
<1> QED
  BY CleanupInit, <1>1, <1>2, <1>3, <1>4, PTL DEF BenchSpec
=============================================================================
