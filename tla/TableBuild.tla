------------------------------ MODULE TableBuild ------------------------------
(***************************************************************************)
(* Building a table (src/role.go): NewPermissionTable makes the rules, and *)
(* the With* options return a copy with one more refinement, in any order  *)
(* and any number of times. The state is the newest copy.                  *)
(***************************************************************************)
EXTENDS PermissionTable

VARIABLE newest

\* Only a role and permission map; no option applied yet.
BuildInit ==
    /\ newest \in Table
    /\ newest.protected = {}
    /\ DOMAIN newest.guards = {}
    /\ NewPermissionTable(newest)

\* Mutant: no check that a protected role exists.
ApplyAnyProtectedRoles ==
    \E roles \in SUBSET Role \ {{}} : newest' = [newest EXCEPT !.protected = roles]

ApplyProtectedRoles ==
    \E roles \in SUBSET Role \ {{}} :
        LET copy == [newest EXCEPT !.protected = roles]
        IN  WithProtectedRoles(copy) /\ newest' = copy

ApplyRoleGuards ==
    \E guards \in PartialMap(Role, Permission) :
        LET copy == [newest EXCEPT !.guards = guards]
        IN  DOMAIN guards # {} /\ WithRoleGuards(copy) /\ newest' = copy

\* One permission for every senior role: guards[r] = manage, then
\* WithRoleGuards.
ApplyPrivilegedRoles ==
    \E roles \in SUBSET Role \ {{}}, manage \in Permission :
        LET copy == [newest EXCEPT !.guards = [r \in roles |-> manage]]
        IN  WithRoleGuards(copy) /\ newest' = copy

BuildNext == ApplyProtectedRoles \/ ApplyRoleGuards \/ ApplyPrivilegedRoles

BuildSpec == BuildInit /\ [][BuildNext]_newest

-----------------------------------------------------------------------------
\* The options never undo a check made before them: however a table was
\* built, every construction rule holds of the finished rules.
AlwaysBuilt == Built(newest)

\* AtMost of role.go clamps on every table that can be built.
Clamps == AtMostClamps(newest) /\ AtMostChains(newest)

\* The promise of WithRoleGuards holds on every table that can be built.
NoQuietWay == NoQuietAuthority(newest)

=============================================================================
