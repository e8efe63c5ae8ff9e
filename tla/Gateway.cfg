CONSTANTS
    Gateways = {g1, g2}
    Nodes = {n1}
    Configured = {n1}
    MaxChanges = 2
SPECIFICATION FairSpec
INVARIANTS TypeOK RingMatchesHealth
PROPERTIES ChecksNeverResurrect DeadNodeLeavesTheRing RecoveredNodeReturns GatewaysConverge
