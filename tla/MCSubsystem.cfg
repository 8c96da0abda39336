SPECIFICATION FairSpec
CONSTANTS
    a = a
    b = b
    Children <- MCChildren
    ChildModes = {"OFF", "ON"}
    modeSequences <- MCSequences
    InitialMode = "OFF"
    None = None
    InboxDepth = 2
    MaxCommands = 2
    MaxTroubles = 2
INVARIANTS
    RestIsBacked
PROPERTIES
    ModeChangesForAReason
    TransitionsEnd
