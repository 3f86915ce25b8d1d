SPECIFICATION FairSpec
CONSTANTS
    s1 = s1
    s2 = s2
    s3 = s3
    Streams = {s1, s2}
    UsageLimit = 2
    SyncEvery = 2
    MaxReceived = 4
    MaxResent = 1
    Production = FALSE
INVARIANTS
    TypeOK
    NeverOvercharged
    LagExplained
PROPERTIES
    WindowCloses
    KeyEventuallyTracked
