SPECIFICATION Spec
CONSTANTS
    Agents = {a1}
    Batches <- CorpusB
    Burst = 2
    Looping = TRUE
    RunForever = TRUE
    IgnoreErrors = FALSE
    Buffers = {b1, b2, b3}
    NoBuffer = NoBuffer
    MaxLate = 1
    MaxFaults = 1
    MaxSent = 0
CHECK_DEADLOCK FALSE
PROPERTIES RestartsWhereItLeft
