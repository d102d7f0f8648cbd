SPECIFICATION Spec
CONSTANTS
    Bridges = {nd45, smartlogger}
INVARIANTS
    NoUngatedService
PROPERTIES
    ClientsClosedLast
    FailureIsRepaired
    StopEndsProcess
CHECK_DEADLOCK FALSE
