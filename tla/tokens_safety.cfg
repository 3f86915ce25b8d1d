SPECIFICATION Spec
CONSTANTS
    c1 = c1
    c2 = c2
    q1 = q1
    q2 = q2
    q3 = q3
    Clients = {c1, c2}
    Requests = {q1, q2, q3}
    MaxTokens = 4
    MaxExits = 1
SYMMETRY Symmetry
CHECK_DEADLOCK FALSE
INVARIANTS
    SerialSessionSurvives
PROPERTIES
    ReplacedNeverAccepted
    ImplementsLifecycle
