SPECIFICATION FairSpec
CONSTANTS
    Children = {d1, d2}
    None = None
    Enough = 1
    InboxDepth = 2
    MaxEvents = 2
    MaxCommands = 2
    MaxInputs = 3
    Commands <- MCCommands
INVARIANTS
    RestIsFinal
    ModeIsBacked
PROPERTIES
    TransitionsEnd
    RecoveryServed
CHECK_DEADLOCK FALSE
