\* Two sessions of one user; nothing fails.
SPECIFICATION FairSpec
CONSTANTS
    u1 = u1
    u2 = u2
    s1 = s1
    s2 = s2
    c0 = c0
    c1 = c1
    Users = {u1}
    Sessions = {s1, s2}
    UserOf <- MCOneUser
    LinkUsers = {u1}
    Contents = {c0}
    Empty = c0
    NOBODY = NOBODY
    NoFile = NoFile
    Torn = Torn
    Link = Link
    Faults = {}
PROPERTY CancelReleases
