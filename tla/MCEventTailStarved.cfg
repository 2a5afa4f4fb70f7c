SPECIFICATION TailSpec
CONSTANTS
    TailRuns = {a, b, c}
    Watched = a
    TailSeqs = 2
    tailBatchSize = 2
PROPERTY StreamDelivers
CHECK_DEADLOCK FALSE
