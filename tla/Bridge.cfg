SPECIFICATION BridgeSpec
CONSTANTS
    MaxAge = 2
    CheckInterval = 1
    MinRestart = 1
    DeadGrace = 1
    MaxClose = 1
    power = power
    pf = pf
    energy = energy
    v1 = v1
    v2 = v2
    Invalid = Invalid
    Zero = Zero
    Points <- MCPoints
    Optional <- MCOptional
    Blocks = 2
    BlockOf <- MCBlockOf
    Values <- MCValues
    ReadMax = 1
    PollInterval = 1
SYMMETRY ReadingSymmetry
INVARIANTS
    ImageMatchesStore
    RealAgeBounded
PROPERTIES
    ImplementsMeter
