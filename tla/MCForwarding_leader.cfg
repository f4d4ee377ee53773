SPECIFICATION FwdFairSpec
CONSTANTS
    Node = {n1, n2}
    NoNode = NoNode
    WalSurvives = TRUE
    MaxTerm = 2
    MaxCrashes = 2
    MaxInFlight = 16
    Req = {q1}
INVARIANTS
    FwdTypeOK
    KnownLeaderWasElected
    OneLeaderPerTerm
PROPERTIES
    CachesSettle
    RequestsEnd
    LeaderServesInTheEnd
CHECK_DEADLOCK FALSE
