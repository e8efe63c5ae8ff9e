CONSTANTS
    Replicas = {r1, r2, r3}
    Origin = origin
    None = None
    AutoPromote = {r1, r2}
    Threshold = 1
    MaxTerm = 2
    Promotable = {r3}
SPECIFICATION Spec
SYMMETRY Symmetry
INVARIANTS TypeOK VoteOncePerTerm ElectionSafety MonitorsItsPrimary FollowersReceiveWrites
PROPERTY AdoptsCurrentLeader
CHECK_DEADLOCK FALSE
