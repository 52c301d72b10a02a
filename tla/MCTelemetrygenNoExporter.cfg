SPECIFICATION GenSpec
CONSTANTS
    Workers = {w1, w2}
    NumSignals = 1
    QueueSize = 2
    MaxSignals = 1
CHECK_DEADLOCK FALSE
PROPERTIES EndsWithoutExporter
