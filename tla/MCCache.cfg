CONSTANTS
    Keys = {k1, k2, k3, k4}
    Values = {v1, v2}
    Absent = Absent
    Never = Never
    MaxEntries = 3
    SampleSize = 2
    Policies = {"lru", "lfu", "access-aware"}
    KeyPrefixes = {{k1, k2}}
    MaxTtl = 1
    MaxHits = 1
SPECIFICATION MCSpec
VIEW CacheView
INVARIANTS TypeOK WithinCapacity
PROPERTIES KeepsContract EvictsOnlyWhenAllLive EvictsTheColdest ExpiredIsReclaimed
