SPECIFICATION Spec
CONSTANTS
    Ann = Ann
    Bob = Bob
    NOBODY = NOBODY
    Users = {Ann, Bob}
    Sessions = {"a", "b"}
    UserOf <- OwnSession
    Libs = {"A", "B"}
    UnixDirs = {"D"}
    Paths <- TwoPaths
    worklib <- TwoWorklibs
    Asks <- TwoAsks
    Faults = {}
PROPERTY CheckedOutStays
