CONSTANTS
    Replicas = {r1, r2}
    Origin = origin
    None = None
    AutoPromote = {r1, r2}
    Threshold = 2
    MaxTerm = 3
    Promotable = {r1}
SPECIFICATION FailoverSpec
INVARIANT ElectionSafety
PROPERTIES CampaignEnds FailoverCompletes LeaderlessOnlyBySteppingDown
CHECK_DEADLOCK FALSE
