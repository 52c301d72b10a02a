SPECIFICATION FairSpec
CONSTANTS
    Agents = {a1, a2}
    Batches <- CorpusB
    Burst = 2
    Looping = TRUE
    RunForever = TRUE
    IgnoreErrors = FALSE
    Buffers = {b1, b2}
    NoBuffer = NoBuffer
    MaxLate = 0
    MaxFaults = 1
    MaxSent = 0
CHECK_DEADLOCK FALSE
INVARIANTS TypeOK PaidChunk NoWastedBurst InOrder
PROPERTIES RunsForever ImplementsPacedReplay Returns KeepsReplaying
