SPECIFICATION FairSpec
CONSTANTS
    MaxAge = 2
    CheckInterval = 1
    MinRestart = 3
    DeadGrace = 3
    MaxClose = 1
PROPERTIES
    PortProblemIsReported
