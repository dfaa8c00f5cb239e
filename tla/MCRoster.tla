------------------------------- MODULE MCRoster -------------------------------
(***************************************************************************)
(* Small rosters. Three roles: viewer carries nothing, admin manages users *)
(* and super also carries the permission that guards super. Both senior    *)
(* roles are protected; ghost is a role name the table does not define.    *)
(***************************************************************************)
EXTENDS Roster, TLC

CONSTANTS viewer, admin, super, ghost, use, manage, u1, u2, u3, o1, o2

MCRole == {viewer, admin, super, ghost}
MCPermission == {use, manage}

MCRules == [ manageUsers |-> use, adminRole |-> admin,
             perms |-> [r \in {viewer, admin, super} |->
                          CASE r = viewer -> {} [] r = admin -> {use} [] r = super -> {use, manage}],
             protected |-> {admin, super},
             guards |-> [r \in {super} |-> manage] ]

LOCAL Account(org, role) ==
    [status |-> "live", org |-> org, role |-> role, disabled |-> FALSE]

\* Two accounts, and one id to create with.
Pair == {[u \in UserId |-> CASE u = u1 -> Account(o1, a)
                             [] u = u2 -> Account(o1, b)
                             [] OTHER -> NoRow("unused")] :
            a \in {admin, super}, b \in {viewer, admin}}

\* One account, and the ids it creates with.
Founder == {[u \in UserId |-> IF u = u1 THEN Account(o1, admin) ELSE NoRow("unused")]}

Requests == Permutations(Proc)

=============================================================================
