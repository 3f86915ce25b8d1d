SPECIFICATION Spec
CONSTANTS
    s1 = s1
    s2 = s2
    s3 = s3
    Streams = {s1}
    UsageLimit = 3
    SyncEvery = 2
    MaxReceived = 2
    MaxResent = 0
    Production = TRUE
INVARIANTS
    EveryEventCounted
