SPECIFICATION PlatformSpec
CONSTANTS
    MaxGrants = 2
    QueueSize = 2
    Surroundings <- FewTroubles
INVARIANTS
    AckedIsStored
    OnlineIsTold
    PausedForCause
    AnsweredAsItself
CHECK_DEADLOCK FALSE
