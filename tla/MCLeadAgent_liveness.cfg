SPECIFICATION FairSpec
CONSTANTS
    c1 = c1
    c2 = c2
    f1 = f1
    e1 = e1
    Clusters = {c1, c2}
    TierOf <- MCTierOf
    NoCluster = NoCluster
    NoRow = NoRow
    HeartbeatTimeout = 1
    Apps = {a1}
    RLAs = {r1}
    HttpSlots = {h1}
    DeployTiers = {"cloud"}
    MaxVersion = 2
    MaxClock = 3
    MaxOverlap = 2
INVARIANTS
    TypeOK
    StatusIsOfThisPlacement
    NoNilColumnIsRead
PROPERTIES
    PendingIsPlaced
    SilentCloudIsRequeued
