SPECIFICATION Spec
CONSTANTS
    q1 = q1
    q2 = q2
    q3 = q3
    s1 = s1
    s2 = s2
    none = none
    Requests = {q1, q2}
    SignUps = {s1, s2}
    None = none
    MaxCodes = 2
    MaxFaults = 0
SYMMETRY Symmetry
CHECK_DEADLOCK FALSE
INVARIANTS
    OnlyStoredAnswered
