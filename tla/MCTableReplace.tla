---------------------------- MODULE MCTableReplace ----------------------------
(***************************************************************************)
(* Seven tables over three roles: a flat one, two that guard super with a  *)
(* permission each, one that guards admin instead, two that guard both     *)
(* tiers, held by both or by super alone, and one built around another     *)
(* ManageUsers permission, which Replace must refuse.                      *)
(***************************************************************************)
EXTENDS TableReplace

CONSTANTS viewer, admin, super, users, manageA, manageB

MCRole == {viewer, admin, super}
MCPermission == {users, manageA, manageB}

LOCAL T(mu, perms, protected, guards) ==
    [manageUsers |-> mu, adminRole |-> admin, perms |-> perms,
     protected |-> protected, guards |-> guards]

LOCAL Rules(v, a, s) == [r \in MCRole |-> CASE r = viewer -> v [] r = admin -> a [] r = super -> s]

Flat    == T(users, Rules({}, {users}, {users, manageA, manageB}), {}, [r \in {} |-> manageA])
GuardA  == T(users, Rules({}, {users}, {users, manageA}), {super}, [r \in {super} |-> manageA])
GuardB  == T(users, Rules({}, {users}, {users, manageB}), {super}, [r \in {super} |-> manageB])
Moved   == T(users, Rules({}, {users, manageA}, {users}), {admin}, [r \in {admin} |-> manageA])
Shared  == T(users, Rules({}, {users, manageA}, {users, manageA}), {}, [r \in {admin, super} |-> manageA])
Junior  == T(users, Rules({}, {users}, {users, manageA}), {}, [r \in {admin, super} |-> manageA])
Renamed == T(manageB, Rules({}, {manageB}, {manageB}), {}, [r \in {} |-> manageA])

MCCandidates == {Flat, GuardA, GuardB, Moved, Shared, Junior, Renamed}

=============================================================================
