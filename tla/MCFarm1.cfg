SPECIFICATION FarmSpec
CONSTANTS
    SeqModulus = 16
    BModulus = 8
    Window = 8
    WaitCallers = {"open", "wait"}
INVARIANTS
    ReportIsCurrent
PROPERTY
    LockoutNeedsUnlock
