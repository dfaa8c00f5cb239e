\* Sign-ins with Google while accounts come, go and are suspended.
SPECIFICATION Spec
CONSTANTS
    NoUser = NoUser
    User = {u1, u2}
    Subject = {g1, g2}
    State = {c1, c2, c3}
    Proc = {p1, p2}
    HostedDomain = TRUE
    Faults = TRUE
INVARIANTS
    TypeOK
    SessionsVouched
PROPERTIES
    StatesAreOneTime
    SubjectKeepsAccount
SYMMETRY Symmetry

CHECK_DEADLOCK FALSE
