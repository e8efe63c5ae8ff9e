CONSTANTS
    Keys = {k1, k2, k3}
    Values = {v1, v2}
    Mortal = {v2}
    MaxEntries = 2
    Absent = Absent
    Torn = Torn
    NoFile = NoFile
    Signals = {SIGINT, SIGTERM}
    Timer = Timer
    MaxStarts = 2
    PrefixSets = {{k1, k2}, {k1, k3}, {k2, k3}}
    PrimaryEntries = 2
    maxAttempts = 2
    MaxChanges = 3
SPECIFICATION MCSpec
SYMMETRY Symmetry
INVARIANTS TypeOK TornOnlyByOverlap CleanExitSaves DiffersOnlyWhereMissed
PROPERTY FileKeepsKeys
CHECK_DEADLOCK FALSE
