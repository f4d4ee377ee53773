SPECIFICATION Spec
SYMMETRY Symmetry
CONSTANTS
    Node = {n1, n2, n3}
    NoNode = NoNode
    WalSurvives = FALSE
    MaxTerm = 2
    MaxCrashes = 1
    MaxInFlight = 2
INVARIANTS
    OneLeaderPerTerm
CHECK_DEADLOCK FALSE
