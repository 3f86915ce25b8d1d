SPECIFICATION Spec
CONSTANTS
    d1 = d1
    d2 = d2
    d3 = d3
    d4 = d4
    alike = alike
    other = other
    Docs = {d1, d2, alike, d3, other}
    Mine = {d1, d2, d3, alike}
    Key <- Keys
    Limits = {1, 2}
INVARIANTS
    NothingHidden
    PagesPartition
    TiesOnlySwap
