SPECIFICATION FairSpec
CONSTANTS
    StallTimeout = 3
    CheckEvery = 1
    PollMax = 2
    RetryDelay = 1
    RetryMax = 5
    ConnectMax = 1
    CancelMax = 1
    HalfWatchdog = 3
    DataCap = 4
INVARIANTS
    RestartIsLastResort
    NoOrphanLoop
PROPERTIES
    UnreachableIsNotStall
    HungLoopTornDown
    LoopComesBack
    StopEndsRecovery
