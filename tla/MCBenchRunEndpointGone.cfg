SPECIFICATION BenchFairSpec
CONSTANTS
    Runs = 2
    Stages = 2
    Prompt = TRUE
    MaxCalls = 2
    MaxEvents = 3
    CleanupKeys <- UpstreamFirst
PROPERTY ContinuesWithoutCleanup
CHECK_DEADLOCK FALSE
