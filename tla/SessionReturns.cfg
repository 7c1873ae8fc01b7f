\* A message arrives in one piece, no write times out, and no signal comes between
\* the parts of a big reply.
SPECIFICATION FairSpec
CONSTANTS
    MaxCalls = 4
    BodyCells = 2
    BigCells = 2
    KillAt <- ButBetweenParts
    Faults = {"init"}
    NoNode = NoNode
CHECK_DEADLOCK FALSE
PROPERTY CallsReturn
