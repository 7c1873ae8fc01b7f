\* One session per user; the vendor and renames may fail, processes may die.
SPECIFICATION Spec
CONSTANTS
    u1 = u1
    u2 = u2
    s1 = s1
    s2 = s2
    c0 = c0
    c1 = c1
    Users = {u1, u2}
    Sessions = {s1, s2}
    UserOf <- MCUserOf
    LinkUsers = {u1}
    Contents = {c0, c1}
    Empty = c0
    NOBODY = NOBODY
    NoFile = NoFile
    Torn = Torn
    Link = Link
    Faults = {"vendor", "rename", "kill"}
INVARIANTS TypeOK DraftInPlace CheckoutDelivers LockHeld CheckoutIsLatest
PROPERTIES PublishesWorkCopy RecheckoutNeverOverwrites HolderOwnsFile ImplementsEditSession
