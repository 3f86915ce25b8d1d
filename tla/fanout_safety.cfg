SPECIFICATION FairSpec
CONSTANTS
    o1 = o1
    o2 = o2
    e1 = e1
    e2 = e2
    e3 = e3
    bad = bad
    c1 = c1
    c2 = c2
    all = all
    Owners = {o1, o2}
    Events = {e1, e2, e3, bad}
    OwnerOf <- Owned
    Malformed = {bad}
    Sockets = {c1}
    All = all
    BatchSize = 2
    MaxStalled = 1
    Production = FALSE
    MaxFaults = 1
INVARIANTS
    OncePerConnection
    OrderedUntilStall
    BatchesKeepOwner
PROPERTIES
    ImplementsFeed
    LiveDelivery
