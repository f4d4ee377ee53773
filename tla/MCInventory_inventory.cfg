SPECIFICATION FairSpec
CONSTANTS
    Worlds <- MCWorlds
    NodeHeartbeatTimeout = 0
INVARIANTS
    TypeOK
PROPERTIES
    InventoryMovesForward
    EmptyAnswerIsATie
    BetterNodeIsNotLeftOut
    InventoryCatchesUp
    GoneNodesLeave
