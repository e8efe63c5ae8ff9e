CONSTANTS
    Replicas = {r1, r2}
    Origin = origin
    None = None
    AutoPromote = {r1, r2}
    Threshold = 1
    MaxTerm = 3
    Promotable = {}
SPECIFICATION FailoverSpec
PROPERTY AlwaysLedInTheEnd
CHECK_DEADLOCK FALSE
