\* Two requests at a time on one account, any store call may fail.
SPECIFICATION Spec
CONSTANTS
    NoPassword = NoPassword
    Password = {a, b}
    Proc = {p1, p2}
    SessionId = {s1, s2}
    Depth = 2
    DefaultDepth = 1
    Faults = {"read", "store"}
INVARIANTS
    TypeOK
    SessionsFollowPassword
    HistoryComplete
    HoldsEndWithChange
PROPERTIES
    ReplacedByRight
    NoneComesBack
SYMMETRY Alike
VIEW Seen
