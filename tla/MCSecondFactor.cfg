\* Sign-ins, enrolments and removals, two at a time, any store call may fail.
SPECIFICATION Spec
CONSTANTS
    NoSecret = NoSecret
    Secret = {s1, s2}
    Token = {t1}
    Proc = {p1, p2}
    LastStep = 2
    Faults = TRUE
INVARIANTS
    TypeOK
    SessionsEarned
    ActiveWasProven
    CodesFollowFactor
PROPERTIES
    CodesWorkOnce
    ActiveFactorStays
SYMMETRY Symmetry
VIEW View
