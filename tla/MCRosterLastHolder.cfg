\* Two requests at a time, each passing the last-holder check.
SPECIFICATION Spec
CONSTANTS
    viewer = viewer
    admin = admin
    super = super
    ghost = ghost
    use = use
    manage = manage
    u1 = u1
    u2 = u2
    u3 = u3
    o1 = o1
    o2 = o2
    NoRole = NoRole
    NoPermission = NoPermission
    NoUser = NoUser
    NoOrg = NoOrg
    NoKey = NoKey
    Role <- MCRole
    Permission <- MCPermission
    Rules <- MCRules
    Proc = {p1, p2}
    UserId = {u1, u2}
    Org = {o1}
    StartUsers <- Pair
    Operation = {"disable", "delete"}
    Faults = FALSE
    KeyId = {}
PROPERTIES
    HolderNeverLost
SYMMETRY Requests
