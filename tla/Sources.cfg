SPECIFICATION MCSpec
CONSTANTS
    Base = 2
    Maps <- MCMaps
    Holdings <- MCHoldings
    Needed <- MCNeeded
    Devices <- MCDevices
    Aggregating <- MCAggregating
    Mode <- MCMode
    DeriveOps <- MCDeriveOps
    Readings <- MCReadings
    OutOfRange = 9
INVARIANTS
    SampleIsMeant
    SampleServable
    PhasesAddUp
    AggregateIsComplete
    ApparentPowerIsNotNetted
    ConnectIsAllOrNothing
