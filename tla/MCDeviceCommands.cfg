SPECIFICATION FairSpec
CONSTANTS
    get = get
    set = set
    dump = dump
    hk = hk
    raw = raw
    ack = ack
    data = data
    frame = frame
    None = None
    Commands <- AllCommands
    RawCommand = raw
    Replies <- AllReplies
    ReplyOf <- Enables
    Periodic = {frame}
    Timed = {data}
    Immediate = {}
    MaxDelayCycles = 2
    ChildRaw = TRUE
INVARIANTS
    ExecutingIsAwaited
    AnsweredOnce
PROPERTY
    CommandsEnd
