SPECIFICATION FairSpec
CONSTANTS
    Peers = 2
    SnapCount = 1
    MaxTerm = 3
    MaxIndex = 3
    MaxCrashes = 1
INVARIANTS
    TypeOK
    RestartIsPossible
    AcksSurvive
    AppliedIsOnDisk
    NoFatalStop
    SnapshotsNameEveryPeer
PROPERTIES
    CommittedIsApplied
CHECK_DEADLOCK FALSE
