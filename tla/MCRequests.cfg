CONSTANTS
    Clients = {1, 2, 3}
    Keys = {1, 2, 3, 4}
    NoKey = NoKey
    latencyUs <- Latencies
    limit = 2
    window = 2
    maxTrackedClients = 2
    maxTrackedKeys = 3
    maxCandidatesPerKey = 2
    LATENCY_SAMPLE_CAP = 2
    THROUGHPUT_WINDOW = 1
    HISTORY_CAP = 2
    CompactAbove = 0
    PercentileOf100 = 50
    MaxTop = 3
    MaxTime = 3
    MaxRequests = 10
    MaxThrottled = 1
SPECIFICATION MCSpec
INVARIANTS TypeOK SnapshotIsExact BurstIsBounded PredictionsAreObserved
CHECK_DEADLOCK FALSE
