--------------------------- MODULE PermissionTable ---------------------------
(***************************************************************************)
(* The authorization model of src/role.go as a value: a table is a record  *)
(*                                                                         *)
(*   manageUsers, adminRole   the two fields fixed for a table's life      *)
(*   perms                    role |-> set of permissions (a partial map)  *)
(*   protected                WithProtectedRoles' list; {} is Go's nil     *)
(*   guards                   guarded role |-> permission (a partial map)  *)
(*                                                                         *)
(* and every method of PermissionTable is an operator on that record. How  *)
(* a table changes while requests read it is module TableReplace.          *)
(***************************************************************************)

CONSTANTS
    Role,          \* the role names a table, an account or a key may carry
    Permission,    \* the permission names
    NoRole,        \* the empty Role, ""
    NoPermission   \* the empty Permission, ""

ASSUME EmptyNamesAssumption ==
    NoRole \notin Role /\ NoPermission \notin Permission

PartialMap(S, T) == UNION {[D -> T] : D \in SUBSET S}

Table == [ manageUsers : Permission,
           adminRole   : Role,
           perms       : PartialMap(Role, SUBSET Permission),
           protected   : SUBSET Role,
           guards      : PartialMap(Role, Permission) ]

-----------------------------------------------------------------------------
(* What a table answers. *)

\* perms[role] of the Go map: a role the table does not define reads as the
\* nil set, which grants nothing.
Held(t, role) == IF role \in DOMAIN t.perms THEN t.perms[role] ELSE {}

Can(t, role, p) == p \in Held(t, role)

Valid(t, role) == role \in DOMAIN t.perms

Protected(t, role) ==
    \/ t.protected = {} /\ role = t.adminRole
    \/ role \in t.protected

Privileged(t, role) == role \in DOMAIN t.guards

\* guards[role] of the Go map: the empty permission for an unguarded role.
GuardOf(t, role) == IF Privileged(t, role) THEN t.guards[role] ELSE NoPermission

MayHandle(t, callerRole, role) ==
    Privileged(t, role) => Can(t, callerRole, GuardOf(t, role))

ContainsAll(super, sub) == sub \subseteq super

\* Mutant: incomparable roles get what was asked for.
AtMostOrAsked(t, role, ceiling) ==
    IF ContainsAll(Held(t, role), Held(t, ceiling)) THEN ceiling ELSE role

AtMost(t, role, ceiling) ==
    CASE ContainsAll(Held(t, ceiling), Held(t, role)) -> role
      [] ~ContainsAll(Held(t, ceiling), Held(t, role))
         /\ ContainsAll(Held(t, role), Held(t, ceiling)) -> ceiling
      [] OTHER -> NoRole

-----------------------------------------------------------------------------
(* Which tables the constructors accept. *)

\* NewPermissionTable refuses everything else.
NewPermissionTable(t) ==
    /\ t.adminRole \in DOMAIN t.perms
    /\ t.manageUsers \in t.perms[t.adminRole]

\* WithProtectedRoles(roles...) on a constructed table.
WithProtectedRoles(t) == \A r \in t.protected : Valid(t, r)

\* Mutant: a role carrying a guard need not be guarded itself.
WithRoleGuardsUnclosed(t) ==
    /\ \A r \in DOMAIN t.guards : Valid(t, r)
    /\ \A g \in DOMAIN t.guards : \E r \in DOMAIN t.perms : t.guards[g] \in t.perms[r]

\* WithRoleGuards(guards) on a constructed table; WithPrivilegedRoles is the
\* case where every guarded role names the same permission.
WithRoleGuards(t) ==
    /\ \A r \in DOMAIN t.guards : Valid(t, r)
    /\ \A g \in DOMAIN t.guards :
         LET p == t.guards[g]
             holders == {r \in DOMAIN t.perms : p \in t.perms[r]}
         IN  /\ \A r \in holders : /\ r \in DOMAIN t.guards
                                   /\ t.manageUsers \in t.perms[r]
             /\ holders # {}

\* The tables that can exist: the constructor and both options applied. An
\* option not applied leaves its part empty, which its condition accepts.
Built(t) ==
    /\ t \in Table
    /\ NewPermissionTable(t)
    /\ WithProtectedRoles(t)
    /\ WithRoleGuards(t)

\* Mutant: only the administrator's role is compared.
ReplaceableByRole(t, next) == next.adminRole = t.adminRole

\* Replace(next) refuses a table naming another permission or another role.
Replaceable(t, next) ==
    /\ next.manageUsers = t.manageUsers
    /\ next.adminRole = t.adminRole

-----------------------------------------------------------------------------
(* Properties of the rules themselves, for any constructed table. *)

\* AtMost never returns authority the ceiling does not have, and never less
\* than the request when the ceiling covers it (role.go: "AtMost's whole job
\* is to never return authority the ceiling does not have").
AtMostClamps(t) ==
    \A role, ceiling \in Role \cup {NoRole} :
        LET granted == AtMost(t, role, ceiling)
        IN  /\ Held(t, granted) \subseteq Held(t, ceiling)
            /\ Held(t, role) \subseteq Held(t, ceiling) => granted = role

\* Clamping twice, through a key minted with a key, is never looser than
\* clamping to the first ceiling: a chain of mints cannot climb.
AtMostChains(t) ==
    \A r1, r2, ceiling \in Role \cup {NoRole} :
        Held(t, AtMost(t, r1, AtMost(t, r2, ceiling))) \subseteq Held(t, ceiling)

\* There is no quieter way to a guarded account's authority: whoever may
\* handle a guarded role is itself guarded and manages users, and every
\* guarded role has someone defined who may handle it (WithRoleGuards'
\* rule, "a role that could manage guarded accounts without being one would
\* be a quieter way to the same authority").
NoQuietAuthority(t) ==
    \A g \in DOMAIN t.guards :
        /\ \A r \in Role \cup {NoRole} :
             MayHandle(t, r, g) => Privileged(t, r) /\ Can(t, r, t.manageUsers)
        /\ \E r \in Role : MayHandle(t, r, g)

=============================================================================
