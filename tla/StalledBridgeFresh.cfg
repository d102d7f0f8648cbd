SPECIFICATION StalledSpec
CONSTANTS
    MaxAge = 4
    CheckInterval = 1
    MinRestart = 1
    DeadGrace = 1
    MaxClose = 1
    StallTimeout = 3
    CheckEvery = 1
    PollMax = 1
    RetryDelay = 1
    RetryMax = 1
    ConnectMax = 1
    CancelMax = 1
    HalfWatchdog = 3
INVARIANTS
    RecoveryIsSilent
