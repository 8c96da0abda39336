SPECIFICATION CopLiveSpec
CONSTANTS
    SeqModulus = 8
    BModulus = 4
    Window = 6
    WaitCallers = {}
    SendWindow = 3
    MaxFrames = 10
    LinkCapacity = 3
INVARIANTS
    NoSpuriousLockout
    AcknowledgedIsAccepted
PROPERTIES
    InOrderOnce
    EventuallyForwarded
