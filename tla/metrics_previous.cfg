SPECIFICATION Spec
CONSTANTS
    e1 = e1
    e2 = e2
    e3 = e3
    undated = undated
    null = null
    job_reader = job_reader
    i1 = i1
    i2 = i2
    Events = {e1, e2}
    Undated = {}
    Null = {}
    Intervals = {i1}
    Job = job_reader
    Window = 5
    Extra = 2
    ActiveFor = 2
    HourLength = 3
    HoursShown = 2
    LiveCap = 1
    MaxStalled = 1
    MaxLag = 1
    MaxMinute = 10
    MaxFaults = 0
SYMMETRY Symmetry
INVARIANTS
    PreviousWindowComplete
