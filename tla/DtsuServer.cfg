SPECIFICATION TelemetrySpec
CONSTANTS
    MaxAge = 3
    CheckInterval = 2
    MinRestart = 4
    DeadGrace = 4
    MaxClose = 1
    SummaryInterval = 2
    MaxFailures = 4
INVARIANTS
    BoundedServe
    NoUnreportedService
PROPERTIES
    RestartThrottled
    OpeningGetsGrace
    FreshDataIsServed
    StopTerminates
    OutageIsToldOnce
