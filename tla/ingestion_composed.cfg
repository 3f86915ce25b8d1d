SPECIFICATION FairSpec
CONSTANTS
    e1 = e1
    e2 = e2
    s1 = s1
    Events = {e1, e2}
    Malformed = {}
    Invalid = {}
    BatchSize = 2
    Concurrency = 1
    MaxStalled = 0
    Streams = {s1}
    UsageLimit = 2
    SyncEvery = 1
    MaxResent = 0
    Production = TRUE
CHECK_DEADLOCK FALSE
INVARIANTS
    ChargedIsAccounted
PROPERTIES
    ImplementsComponents
