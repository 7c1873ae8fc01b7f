SPECIFICATION Spec
CONSTANTS
    c1 = c1
    c2 = c2
    Clients = {c1, c2}
    MaxCalls = 4
    Impatient = {c1}
    MaxParts = 0
    NOCLIENT = NOCLIENT
CHECK_DEADLOCK FALSE
INVARIANT ReturnsEvalResult
