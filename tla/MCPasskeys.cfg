\* Ceremonies of every purpose, two at a time, any store call may fail.
SPECIFICATION Spec
CONSTANTS
    NoUser = NoUser
    User = {u1, u2}
    Key = {k1}
    Challenge = {c1, c2}
    Proc = {p1, p2}
    MaxCount = 1
    Faults = TRUE
INVARIANTS
    TypeOK
    KeyOwnersOnly
    ClonesNoticed
PROPERTIES
    CeremoniesAreOneTime
SYMMETRY Symmetry
