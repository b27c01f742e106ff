SPECIFICATION DesktopSpec
CONSTANTS
    MaxConns = 2
    Environments <- OneFailure
    MediaFiles <- SmallMedia
    AudioStep = 2
    VideoStep = 3
    MaxLoops = 2
    MaxRequests = 2
    MaxUnready = 2
    Files <- SmallFiles
    Chunks = {1, 4}
    MaxPasses = 2
INVARIANTS
    ListIsRight
    OneTearsDown
    TouchesAreKnown
    QuietAtUninit
    TimestampIsPlace
    RequestComesFirst
    FramesAreUnits
PROPERTIES
    ReplacedIsReleased
    RequestAnswered
CHECK_DEADLOCK FALSE
