SPECIFICATION ProgramsSpec
CONSTANTS
    Micro = 2
    Inputs <- PlainInputs
    Random <- RandomBits
    Clock <- Times
    Agents = {a1, a2}
    Requests = 2
    Iterations = 2
    MaxPasses = 2
    Handlers = {h1, h2}
    Buffers = {b1, b2}
    NoBuffer = NoBuffer
    Bodies <- SomeBodies
    Infinity = 9
    Bounds <- SomeBounds
    Counts <- SomeCounts
    Levels <- SomeLevels
    Candidates <- SomeCandidates
    MaxConfigs = 3
    Workers = {w1, w2, w3}
    NumSignals = 3
    QueueSize = 2
    MaxSignals = 2
    Runs = 2
    Stages = 2
    Prompt = TRUE
    MaxCalls = 2
    MaxEvents = 2
    CleanupKeys <- UpstreamFirst
CHECK_DEADLOCK FALSE
INVARIANTS
    LoadsRecording WritesAsAsked KeepsRelationships KeepsOffsets
    AllDone ReportsCause
    OwnBuffer OneItemPerAction
    NoLostFailure OneCredential
    QuantileInverts GroupsConfigs
    GenTypeOK ReturnedDone AllDelivered OpenWhileUsed
    BenchTypeOK DrainedReport OwnResults
PROPERTIES GroupEnds StartReturns RunEnds
