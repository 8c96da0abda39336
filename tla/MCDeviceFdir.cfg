SPECIFICATION FairSpec
CONSTANTS
    Threshold <- SmallThresholds
    QueueDepth = 2
    MaxRequests = 1
INVARIANTS
    RecoveryIsKnown
PROPERTIES
    OthersDecide
    RecoveryEnds
    GivesUp
