SPECIFICATION Spec
CONSTANTS
    s1 = s1
    s2 = s2
    s3 = s3
    Streams = {s1}
    UsageLimit = 1
    SyncEvery = 2
    MaxReceived = 3
    MaxResent = 0
    Production = TRUE
PROPERTIES
    LimitEnforced
