SPECIFICATION Spec
CONSTANTS
    c1 = c1
    c2 = c2
    f1 = f1
    e1 = e1
    Clusters = {c1}
    TierOf <- MCTierOf
    NoCluster = NoCluster
    NoRow = NoRow
    HeartbeatTimeout = 0
    Apps = {a1}
    RLAs = {r1}
    HttpSlots = {h1}
    DeployTiers = {"cloud"}
    MaxVersion = 2
    MaxClock = 2
    MaxOverlap = 2
PROPERTIES
    DeleteIsFinal
