SPECIFICATION Spec
CONSTANTS
    e1 = e1
    e2 = e2
    e3 = e3
    undated = undated
    null = null
    job_reader = job_reader
    i1 = i1
    i2 = i2
    Events = {e1}
    Undated = {}
    Null = {}
    Intervals = {i1}
    Job = job_reader
    Window = 2
    Extra = 1
    ActiveFor = 2
    HourLength = 3
    HoursShown = 2
    LiveCap = 1
    MaxStalled = 1
    MaxLag = 1
    MaxMinute = 4
    MaxFaults = 1
SYMMETRY Symmetry
INVARIANTS
    EveryKeyExpires
