\* A goroutine in the table's methods while rules are replaced at will.
SPECIFICATION Spec
CONSTANTS
    viewer = viewer
    admin = admin
    super = super
    users = users
    manageA = manageA
    manageB = manageB
    NoRole = NoRole
    NoPermission = NoPermission
    Role <- MCRole
    Permission <- MCPermission
    Candidates <- MCCandidates
    Proc = {p1}
INVARIANTS
    MixtureNeedsNewGuards
    AllowedHasBasis
    SystemCanManage
