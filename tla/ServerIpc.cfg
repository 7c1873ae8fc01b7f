SPECIFICATION FairSpec
CONSTANTS
    c1 = c1
    c2 = c2
    Clients = {c1, c2}
    MaxCalls = 3
    Impatient = {c1}
    MaxParts = 1
    NOCLIENT = NOCLIENT
CHECK_DEADLOCK FALSE
INVARIANTS TypeOK PatientGetsOwn NothingUnasked
PROPERTIES CallsReturn ServerFree
