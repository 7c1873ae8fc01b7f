\* Signals anywhere, messages in any pieces, writes that time out.
SPECIFICATION FairSpec
CONSTANTS
    MaxCalls = 4
    BodyCells = 2
    BigCells = 2
    KillAt <- Anywhere
    Faults = {"init", "split", "busy"}
    NoNode = NoNode
CHECK_DEADLOCK FALSE
INVARIANTS TypeOK PartsBelongTogether
PROPERTIES ImplementsRpc ServerEnds
