\* Confirmations and revocations, two at a time, any store call may fail.
SPECIFICATION Spec
CONSTANTS
    Session = {s1, s2}
    Key = {k1, k2}
    Proc = {p1, p2}
    StepUpWindow = 2
    Faults = TRUE
INVARIANTS
    TypeOK
    OwnProof
    PasswordNeverAlone
PROPERTIES
    LastFactorOnPurpose
SYMMETRY Symmetry
