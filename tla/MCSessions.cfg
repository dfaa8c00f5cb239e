\* Sign-ins, requests and logouts, two at a time, any store call may fail.
SPECIFICATION Spec
CONSTANTS
    member = member
    guest = guest
    auditor = auditor
    Session = {s1}
    Proc = {p1, p2}
    Role = {member, guest, auditor}
    Rule <- Windows
    IdleTimeout = 2
    AbsoluteTimeout = 3
    Faults = TRUE
INVARIANTS
    TypeOK
    WindowsHold
    LogoutIsFinal
PROPERTIES
    OverForGood
    EverySessionEnds
