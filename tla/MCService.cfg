SPECIFICATION LiveSpec
CONSTANTS
    objA = objA
    objB = objB
    objC = objC
    qA = qA
    qB = qB
    qC = qC
    NoTC = 0
    TCs <- Three
    Objects <- ObjectsABC
    Queues <- QueuesABC
    Targets <- Shares
    QueueOf <- OwnQueues
    NumberOfParallelCommands = 2
    FifoDepth = 1
    QueueDepth = 2
    Unreadable = {2}
    MaxSteps = 1
INVARIANTS
    ReportsTellOneStory
    StoreMatchesQueues
    OnlyLateRepliesMixUp
PROPERTIES
    TimeoutPassComplete
    EveryTCEnds
