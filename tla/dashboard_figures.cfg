SPECIFICATION ReportSpec
CONSTANTS
    alice = alice
    bob = bob
    missing = missing
    anonymous = anonymous
    x = x
    y = y
    Kinds <- SomeKinds
    Missing = missing
    Anonymous = anonymous
    MockCountries = {x, y}
    Converting = {"purchase"}
    Window = 2
    TopCount = 2
    TimesKept = 2
    MaxMinute = 4
    MaxEvents = 4
CHECK_DEADLOCK FALSE
INVARIANTS
    PartsExplainTotal
    TopEventsRanked
    RoundedHonest
