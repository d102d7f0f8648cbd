SPECIFICATION FairSpec
CONSTANTS
    whole = whole
    part = part
    Blocks <- MCBlocks
    Covering <- MCCovering
    PollInterval = 1
    Timeout = 1
    MaxLag = 1
    RetryDelay = 1
    RetryMax = 4
    ConnectWait = 3
INVARIANTS
    SilentWithoutStream
    ConnectedMeansDelivered
    SampleBounded
PROPERTIES
    StreamComesBack
    ConnectReturns
