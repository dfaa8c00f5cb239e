\* Every order of the constructor's options, over three roles.
SPECIFICATION MCSpec
CONSTANTS
    viewer = viewer
    admin = admin
    super = super
    users = users
    manage = manage
    NoRole = NoRole
    NoPermission = NoPermission
    Role <- MCRole
    Permission <- MCPermission
INVARIANTS
    AlwaysBuilt
    Clamps
    NoQuietWay
