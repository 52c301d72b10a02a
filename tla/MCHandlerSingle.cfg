SPECIFICATION FairSpec
CONSTANTS
    Agents = {a1, a2}
    Batches <- CorpusA
    Burst = 2
    Looping = FALSE
    RunForever = FALSE
    IgnoreErrors = TRUE
    Buffers = {b1, b2, b3}
    NoBuffer = NoBuffer
    MaxLate = 1
    MaxFaults = 1
    MaxSent = 0
INVARIANTS ReturnsDelivered NoSharedBuffer
PROPERTIES Returns
