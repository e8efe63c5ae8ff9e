CONSTANTS
    Nodes = {n1, n2, n3}
    VirtualNodes = 2
    HashSpace = 3
    Gateways = {g1, g2}
    Key = 2
    Values = {v1}
    Absent = Absent
    MaxFlights = 1
    MaxMoves = 2
SPECIFICATION Spec
SYMMETRY Symmetry
INVARIANTS TypeOK LookupFindsSuccessor GatewaysAgree HomeKeepsItsKeys
PROPERTY OnlyItsKeysMove
