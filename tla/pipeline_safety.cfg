SPECIFICATION FairSpec
CONSTANTS
    e1 = e1
    e2 = e2
    bad = bad
    null = null
    Events = {e1, bad, null}
    Malformed = {bad}
    Invalid = {null}
    BatchSize = 2
    Concurrency = 2
    MaxStalled = 1
    Production = FALSE
INVARIANTS
    NoLossWithoutFault
    OneBatchPerEvent
    JobsExclusive
    DuplicatesBounded
    FailedForCause
    PoisonedNeverStored
    BatchSizeBound
    PipelineInv
PROPERTIES
    Drains
    ImplementsLedger
