\* One request at a time, a store call may fail.
SPECIFICATION Spec
CONSTANTS
    viewer = viewer
    admin = admin
    super = super
    ghost = ghost
    use = use
    manage = manage
    u1 = u1
    u2 = u2
    u3 = u3
    o1 = o1
    o2 = o2
    NoRole = NoRole
    NoPermission = NoPermission
    NoUser = NoUser
    NoOrg = NoOrg
    NoKey = NoKey
    Role <- MCRole
    Permission <- MCPermission
    Rules <- MCRules
    Proc = {p1}
    UserId = {u1, u2, u3}
    Org = {o1}
    StartUsers <- Pair
    Operation = {"disable", "enable", "signIn"}
    Faults = TRUE
    KeyId = {}
PROPERTIES
    EnableReturnsSignedOut
