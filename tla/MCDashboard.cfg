CONSTANTS
    MaxChanges = 2
    MaxEvictions = 2
    MaxRestarts = 1
    MaxPages = 2
    MaxPolls = 3
    MaxFetches = 2
    MaxCalls = 2
SPECIFICATION MCSpec
INVARIANTS TypeOK SimulatorContained KeyViewFollowsMetrics EvictionsReported
