----------------------------- MODULE TableReplace -----------------------------
(***************************************************************************)
(* PermissionTable.Replace swaps a table's rules while requests are being  *)
(* checked against it (src/role.go: st atomic.Pointer[tableState]). Each   *)
(* process is a goroutine inside one method of the table; a step is one    *)
(* load of the pointer, so the swap falls between any two loads.           *)
(*                                                                         *)
(* Can, Protected, Valid and AtMost load the pointer once. MayHandle loads *)
(* it three times: in Privileged, for guards[role], and in Can.            *)
(***************************************************************************)
EXTENDS PermissionTable

CONSTANTS
    Proc,         \* goroutines calling the table
    Candidates    \* the tables built at startup or for a Replace

ASSUME CandidatesAssumption == \A t \in Candidates : Built(t)

VARIABLES
    table,   \* what st points at, with the two fixed fields
    wired,   \* the fixed names as the services captured them at startup
    call,    \* call[p]: the method p is in and how far it got
    seen     \* seen[p]: history, the tables current at some time in p's call

vars == <<table, wired, call, seen>>

Names == [manageUsers : Permission, adminRole : Role]
FixedNames(t) == [manageUsers |-> t.manageUsers, adminRole |-> t.adminRole]

Method == {"Can", "Protected", "Valid", "AtMost", "MayHandle"}
AnyRole == Role \cup {NoRole}

\* a is the role asked about; b the caller's role, or the ceiling.
NoCall == [pc |-> "idle", method |-> "Can", a |-> NoRole, b |-> NoRole,
           guard |-> NoPermission, result |-> FALSE]

Call == [pc     : {"idle", "entered", "privileged", "guarded", "returned"},
         method : Method, a : AnyRole, b : AnyRole,
         guard  : Permission \cup {NoPermission},
         result : BOOLEAN \cup AnyRole]

TypeOK ==
    /\ table \in Candidates
    /\ wired \in Names
    /\ call \in [Proc -> Call]
    /\ seen \in [Proc -> SUBSET Candidates]

\* What a call returns when all of it reads the one table t.
Answer(t, c) ==
    CASE c.method = "Can"       -> Can(t, c.b, t.manageUsers)
      [] c.method = "Protected" -> Protected(t, c.a)
      [] c.method = "Valid"     -> Valid(t, c.a)
      [] c.method = "AtMost"    -> AtMost(t, c.a, c.b)
      [] c.method = "MayHandle" -> MayHandle(t, c.b, c.a)

InCall(p) == call[p].pc \in {"entered", "privileged", "guarded"}

-----------------------------------------------------------------------------
Init ==
    /\ table \in Candidates
    /\ wired = FixedNames(table)
    /\ call = [p \in Proc |-> NoCall]
    /\ seen = [p \in Proc |-> {}]

Enter(p) ==
    /\ ~InCall(p)
    /\ \E m \in Method, a, b \in AnyRole :
         call' = [call EXCEPT ![p] = [NoCall EXCEPT !.pc = "entered", !.method = m,
                                                    !.a = a, !.b = b]]
    /\ seen' = [seen EXCEPT ![p] = {table}]
    /\ UNCHANGED <<table, wired>>

Return(p, answer) ==
    call' = [call EXCEPT ![p].pc = "returned", ![p].result = answer]

\* The methods that load the pointer once and answer from that load.
SingleLoad(p) ==
    /\ call[p].pc = "entered"
    /\ call[p].method # "MayHandle"
    /\ Return(p, Answer(table, call[p]))
    /\ UNCHANGED <<table, wired, seen>>

\* MayHandle's first load: if !t.Privileged(role) { return true }.
MayHandlePrivileged(p) ==
    /\ call[p].pc = "entered"
    /\ call[p].method = "MayHandle"
    /\ \/ /\ ~Privileged(table, call[p].a)
          /\ Return(p, TRUE)
       \/ /\ Privileged(table, call[p].a)
          /\ call' = [call EXCEPT ![p].pc = "privileged"]
    /\ UNCHANGED <<table, wired, seen>>

\* The second: the argument t.state().guards[role]. A table that no longer
\* guards the role yields the empty permission.
MayHandleGuard(p) ==
    /\ call[p].pc = "privileged"
    /\ call' = [call EXCEPT ![p].pc = "guarded",
                            ![p].guard = GuardOf(table, call[p].a)]
    /\ UNCHANGED <<table, wired, seen>>

\* Mutants: the arguments of Can swapped; ManageUsers asked for instead of the
\* guard.
MayHandleCanSwapped(p) ==
    /\ call[p].pc = "guarded"
    /\ Return(p, Can(table, call[p].a, call[p].guard))
    /\ UNCHANGED <<table, wired, seen>>

MayHandleCanUsers(p) ==
    /\ call[p].pc = "guarded"
    /\ Return(p, Can(table, call[p].b, table.manageUsers))
    /\ UNCHANGED <<table, wired, seen>>

\* The third: t.Can(callerRole, ...).
MayHandleCan(p) ==
    /\ call[p].pc = "guarded"
    /\ Return(p, Can(table, call[p].b, call[p].guard))
    /\ UNCHANGED <<table, wired, seen>>

Replace ==
    \E next \in Candidates :
        /\ Replaceable(table, next)
        /\ table' = next
        /\ seen' = [p \in Proc |-> IF InCall(p) THEN seen[p] \cup {next} ELSE seen[p]]
        /\ UNCHANGED <<wired, call>>

Step(p) ==
    \/ Enter(p)
    \/ SingleLoad(p)
    \/ MayHandlePrivileged(p)
    \/ MayHandleGuard(p)
    \/ MayHandleCan(p)

Next == Replace \/ \E p \in Proc : Step(p)

Spec == Init /\ [][Next]_vars

-----------------------------------------------------------------------------
\* role.go (PermissionTable): "a reader sees either the old rules or the new ones, never
\* a mixture inside one call". A call answers as one table in force during it
\* would, unless it is a MayHandle, which loads three times, during which the
\* guards were edited. A Replace that only moves permissions between roles is
\* always seen whole.
SameGuards(T) == \A t1, t2 \in T : t1.guards = t2.guards

MixtureNeedsNewGuards ==
    \A p \in Proc : call[p].pc = "returned" =>
        \/ \E t \in seen[p] : call[p].result = Answer(t, call[p])
        \/ call[p].method = "MayHandle" /\ ~SameGuards(seen[p])

\* Even a mixed MayHandle never allows out of thin air: the role was
\* unguarded, or the caller's role carried what guarded it, each in some
\* table in force during the call.
AllowedHasBasis ==
    \A p \in Proc :
        call[p].pc = "returned" /\ call[p].method = "MayHandle" /\ call[p].result =>
            \E t1, t2 \in seen[p] :
                ~Privileged(t1, call[p].a) \/ Can(t2, call[p].b, GuardOf(t1, call[p].a))

\* The names baked into the services at startup keep their meaning through
\* any number of replacements: SystemIdentity's role can always manage users.
SystemCanManage == Can(table, wired.adminRole, wired.manageUsers)

=============================================================================
