SPECIFICATION Spec
CONSTANTS
    good = good
    bad = bad
    odd = odd
    Tree <- MCTree
    Wanted <- MCWanted
    Unanswerable <- MCUnanswerable
    NoRev = NoRev
    MaxChanges = 4
    MaxLost = 2
    SyncsDraft = FALSE
    paging = paging
    whole = whole
    Poller <- MCPoller
    Limit <- MCLimit
    ByLatest <- MCByLatest
    Capacity = 3
    NoCursor = NoCursor
    MaxPushed = 6
    Text <- MCText
    Empty = ""
    Trimmed <- MCTrimmed
    MaxTodos = 3
    MaxRev = 6
    NavGo = FALSE
    MaxContent = 6
    MaxView = 3
    Caps = {5, 6}
    MaxTiles = 3
    MetricsWait = 2
    MaxTouches = 2
    Blank = Blank
    Other = Other
INVARIANTS
    NoFalseTimeout
    RebuildsBounded
    NoSilentGap
    ImageIsList
PROPERTIES
    WaitReturns
    GivenOnce
    HostContract
    OffsetRestored
CHECK_DEADLOCK FALSE
