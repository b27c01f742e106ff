SPECIFICATION SignalSpec
CONSTANTS
    MaxStrangers = 1
    CallScenarios <- FewPresses
    MaxPosts = 4
    MaxMoves = 1
    Shapes <- SmallShapes
    BufSize = 4
    QueueLen = 1
    MaxMessages = 3
    MaxLosses = 1
INVARIANTS
    RequestsAreOwn
    CallsArePressed
    AddressIsOwn
    NothingIsMixed
PROPERTY
    BusyEnds
CHECK_DEADLOCK FALSE
