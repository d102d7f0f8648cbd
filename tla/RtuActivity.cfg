SPECIFICATION ActivitySpec
CONSTANTS
    FrameLen = 3
    Base = 3
    RequestCodes = {1, 2}
    MaxIds = 2
    MaxChunk = 4
    MaxBytes = 8
    SlaveId = 1
    MaxBlocks = 1
    RecentMaxlen = 1
    RateWindow = 1
    MaxTime = 3
INVARIANTS
    CountsEachRequestOnce
    ActivityIsExact
    WrongAddressIsRight
CHECK_DEADLOCK FALSE
