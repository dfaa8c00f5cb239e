----------------------------- MODULE MCTableBuild -----------------------------
(***************************************************************************)
(* Every table over three roles and two permissions, admin being the       *)
(* administrator and users the permission that manages accounts.           *)
(***************************************************************************)
EXTENDS TableBuild

CONSTANTS viewer, admin, super, users, manage

MCRole == {viewer, admin, super}
MCPermission == {users, manage}

\* BuildInit enumerates Table; this gives it the two fixed fields first.
MCInit ==
    \E perms \in PartialMap(MCRole, SUBSET MCPermission) :
        /\ newest = [manageUsers |-> users, adminRole |-> admin, perms |-> perms,
                    protected |-> {}, guards |-> [r \in {} |-> manage]]
        /\ NewPermissionTable(newest)

MCSpec == MCInit /\ [][BuildNext]_newest

=============================================================================
