SPECIFICATION Spec
CONSTANTS
    e1 = e1
    e2 = e2
    bad = bad
    null = null
    Events = {e1, e2, bad}
    Malformed = {bad}
    Invalid = {}
    BatchSize = 2
    Concurrency = 2
    MaxStalled = 1
    Production = TRUE
INVARIANTS
    CompletedIsStored
