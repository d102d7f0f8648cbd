SPECIFICATION FairSpec
CONSTANTS
    StallTimeout = 4
    CheckEvery = 1
    PollMax = 2
    RetryDelay = 1
    RetryMax = 1
    ConnectMax = 1
    CancelMax = 1
    HalfWatchdog = 3
    DataCap = 3
PROPERTIES
    HungLoopTornDown
