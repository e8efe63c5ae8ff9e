CONSTANTS
    Replicas = {r1, r2, r3}
    Origin = origin
    None = None
    AutoPromote = {r1, r2}
    Threshold = 1
    MaxTerm = 2
    Promotable = {}
SPECIFICATION Spec
SYMMETRY Symmetry
INVARIANT OnePrimaryOnceSettled
CHECK_DEADLOCK FALSE
