CONSTANTS
    Replicas = {r1, r2, r3}
    Origin = origin
    None = None
    AutoPromote = {r1, r2}
    Threshold = 1
    MaxTerm = 1
    Promotable = {}
    MaxRestarts = 1
SPECIFICATION RestartSpec
INVARIANT ElectionSafetyAcrossRestarts
CHECK_DEADLOCK FALSE
