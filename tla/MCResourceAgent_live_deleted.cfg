SPECIFICATION Spec
CONSTANTS
    c1 = c1
    c2 = c2
    f1 = f1
    a1 = a1
    n1 = n1
    Clusters = {c1, c2}
    TierOf <- MCTierOf
    NoCluster = NoCluster
    NoRow = NoRow
    NoRecord = NoRecord
    HeartbeatTimeout = 0
    Apps = {a1}
    Names = {n1}
    Forms <- OnePlain
    MaxVersion = 1
    MaxFaults = 0
PROPERTIES
    ExpectedIsNotDeleted
