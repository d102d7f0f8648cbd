SPECIFICATION MCSpec
CONSTANTS
    Base = 256
    None = None
    Sections <- MCSections
    TargetLists <- MCTargetLists
    Bridges <- MCBridges
    Nd45Groups <- MCNd45Groups
    DerivedKeys = {"alias"}
    b1 = b1
    b2 = b2
    EnabledBridges <- MCEnabledBridges
    SerialPorts = {"ttyUSB0", "ttyUSB1"}
    Hosts = {"0.0.0.0", "eth0"}
    AnyHost = "0.0.0.0"
    TcpPorts = {1, 2}
SYMMETRY Symmetry
INVARIANTS
    HubCoversReads
    PairsAreWhole
    KeptMapsServe
    OutputsAreExclusive
    MetricsAreExclusive
CHECK_DEADLOCK FALSE
