CONSTANTS
    Gateways = {g1, g2}
    Nodes = {n1}
    Configured = {}
    MaxChanges = 3
SPECIFICATION Spec
INVARIANT DeregisteredIsForgotten
