------------------------------ MODULE TableProofs ------------------------------
(***************************************************************************)
(* What holds of every table the constructors can make, for any roles and  *)
(* permissions, and what a reader of a table may rely on while Replace     *)
(* swaps its rules, for any tables and any number of goroutines.           *)
(***************************************************************************)
EXTENDS TableBuild, TableReplace, TLAPS

-----------------------------------------------------------------------------
(* Building a table.                                                       *)

\* A guarded role added to a built table by an accepted option leaves a built
\* table: the constructor's own check does not read the guards.
LEMMA GuardsKeepBuilt ==
    ASSUME Built(newest),
           NEW guards \in PartialMap(Role, Permission),
           WithRoleGuards([newest EXCEPT !.guards = guards])
    PROVE  Built([newest EXCEPT !.guards = guards])
  BY DEF Built, Table, NewPermissionTable, WithProtectedRoles, Valid

\* WithPrivilegedRoles builds a guards map like any other.
LEMMA OnePermissionIsAMap ==
    ASSUME NEW roles \in SUBSET Role, NEW manage \in Permission
    PROVE  [r \in roles |-> manage] \in PartialMap(Role, Permission)
  BY DEF PartialMap

\* However the options are applied, every construction rule of role.go still
\* holds of the table that results.
THEOREM TablesAreBuilt == BuildSpec => []AlwaysBuilt
<1>1. BuildInit => AlwaysBuilt
  BY DEF BuildInit, AlwaysBuilt, Built, WithProtectedRoles, WithRoleGuards
<1>2. AlwaysBuilt /\ [BuildNext]_newest => AlwaysBuilt'
  <2> SUFFICES ASSUME Built(newest), [BuildNext]_newest
               PROVE  Built(newest)'
    BY DEF AlwaysBuilt
  <2>1. CASE ApplyProtectedRoles
    BY <2>1 DEF ApplyProtectedRoles, Built, Table, NewPermissionTable,
                WithProtectedRoles, WithRoleGuards, Valid
  <2>2. CASE ApplyRoleGuards
    BY <2>2, GuardsKeepBuilt DEF ApplyRoleGuards
  <2>3. CASE ApplyPrivilegedRoles
    BY <2>3, GuardsKeepBuilt, OnePermissionIsAMap DEF ApplyPrivilegedRoles
  <2>4. CASE UNCHANGED newest
    BY <2>4 DEF Built, Table, NewPermissionTable, WithProtectedRoles, WithRoleGuards, Valid
  <2> QED
    BY <2>1, <2>2, <2>3, <2>4 DEF BuildNext
<1> QED
  BY <1>1, <1>2, PTL DEF BuildSpec

\* The empty role names nothing in a built table.
LEMMA NoRoleHoldsNothing ==
    ASSUME NEW t, Built(t) PROVE Held(t, NoRole) = {}
  BY EmptyNamesAssumption DEF Built, Table, PartialMap, Held

\* AtMost on one built table: never above the ceiling, never below a request
\* the ceiling covers.
LEMMA AtMostNeverClimbs ==
    ASSUME NEW t, Built(t), NEW role, NEW ceiling
    PROVE  /\ Held(t, AtMost(t, role, ceiling)) \subseteq Held(t, ceiling)
           /\ Held(t, role) \subseteq Held(t, ceiling) => AtMost(t, role, ceiling) = role
  BY NoRoleHoldsNothing DEF AtMost, ContainsAll

\* AtMost of role.go never returns authority the ceiling does not have, alone
\* or along a chain of mints, whatever table was built.
THEOREM MintingClamps == BuildSpec => []Clamps
<1>1. AlwaysBuilt => Clamps
  BY AtMostNeverClimbs DEF AlwaysBuilt, Clamps, AtMostClamps, AtMostChains
<1> QED
  BY <1>1, TablesAreBuilt, PTL

\* WithRoleGuards' promise, for any table that can be built: whoever may
\* handle a guarded role is guarded too and manages users, and someone may.
THEOREM GuardsLeaveNoQuietWay == BuildSpec => []NoQuietWay
<1>1. AlwaysBuilt => NoQuietWay
  <2> SUFFICES ASSUME Built(newest), NEW g \in DOMAIN newest.guards
               PROVE  /\ \A r \in Role \cup {NoRole} :
                           MayHandle(newest, r, g) => Privileged(newest, r)
                                                     /\ Can(newest, r, newest.manageUsers)
                      /\ \E r \in Role : MayHandle(newest, r, g)
    BY DEF AlwaysBuilt, NoQuietWay, NoQuietAuthority
  <2>1. DOMAIN newest.perms \subseteq Role
    BY DEF Built, Table, PartialMap
  <2>2. \A r : Can(newest, r, newest.guards[g]) =>
             /\ r \in DOMAIN newest.perms /\ newest.guards[g] \in newest.perms[r]
    BY DEF Can, Held
  <2>3. \A r : Can(newest, r, newest.guards[g]) =>
             r \in DOMAIN newest.guards /\ newest.manageUsers \in newest.perms[r]
    BY <2>2 DEF Built, WithRoleGuards
  <2>4. PICK r \in DOMAIN newest.perms : newest.guards[g] \in newest.perms[r]
    BY DEF Built, WithRoleGuards
  <2> QED
    BY <2>1, <2>2, <2>3, <2>4 DEF MayHandle, Privileged, GuardOf, Can, Held
<1> QED
  BY <1>1, TablesAreBuilt, PTL

-----------------------------------------------------------------------------
(* Replacing its rules. The invariant that carries the proofs says, of     *)
(* each load MayHandle has behind it, that some table in force during the  *)
(* call gave the answer.                                                   *)

\* The names captured at startup are still the table's.
WiredIsFixed == wired = FixedNames(table)

\* A call still running has seen the table in force.
SeesCurrent == \A p \in Proc : InCall(p) => table \in seen[p]

\* What MayHandle learned from its loads so far.
LoadsWitnessed ==
    \A p \in Proc :
        /\ call[p].pc \in {"privileged", "guarded"} =>
             /\ call[p].method = "MayHandle"
             /\ \E t \in seen[p] : Privileged(t, call[p].a)
        /\ call[p].pc = "guarded" =>
             \E t \in seen[p] : call[p].guard = GuardOf(t, call[p].a)

Inv == /\ TypeOK /\ WiredIsFixed /\ SeesCurrent /\ LoadsWitnessed
       /\ MixtureNeedsNewGuards /\ AllowedHasBasis

\* Every answer is a value a call can return.
LEMMA AnswerType ==
    ASSUME NEW t, NEW c, c.method \in Method, c.a \in AnyRole, c.b \in AnyRole
    PROVE  Answer(t, c) \in BOOLEAN \cup AnyRole
<1>1. AtMost(t, c.a, c.b) \in AnyRole
  BY DEF AtMost, AnyRole
<1>2. Can(t, c.b, t.manageUsers) \in BOOLEAN
  BY DEF Can
<1>3. Protected(t, c.a) \in BOOLEAN
  BY DEF Protected
<1>4. Valid(t, c.a) \in BOOLEAN
  BY DEF Valid
<1>5. MayHandle(t, c.b, c.a) \in BOOLEAN
  BY DEF MayHandle
<1> QED
  BY <1>1, <1>2, <1>3, <1>4, <1>5 DEF Answer, Method

\* Two tables with the same guards agree on which roles are guarded, and how.
LEMMA SameGuardsAgree ==
    ASSUME NEW t1, NEW t2, t1.guards = t2.guards, NEW role
    PROVE  Privileged(t1, role) = Privileged(t2, role) /\ GuardOf(t1, role) = GuardOf(t2, role)
  BY DEF Privileged, GuardOf

LEMMA InitInv == Init => Inv
  <1> SUFFICES ASSUME Init PROVE Inv
    OBVIOUS
  <1>1. TypeOK
    BY CandidatesAssumption DEF Init, TypeOK, Call, NoCall, AnyRole, Method, Names, FixedNames, Built, Table
  <1> QED
    BY <1>1 DEF Init, Inv, WiredIsFixed, SeesCurrent, LoadsWitnessed, MixtureNeedsNewGuards,
                AllowedHasBasis, InCall, NoCall

\* A call that returns a single table's answer satisfies both promises.
LEMMA WholeAnswer ==
    ASSUME NEW t, NEW T, t \in T, NEW c, c.result = Answer(t, c)
    PROVE  /\ \E u \in T : c.result = Answer(u, c)
           /\ c.method = "MayHandle" /\ c.result =>
                \E t1, t2 \in T : ~Privileged(t1, c.a) \/ Can(t2, c.b, GuardOf(t1, c.a))
  BY DEF Answer, MayHandle

\* The last load of a MayHandle: with the guards untouched since the first,
\* the answer is the one the table it read last would give.
LEMMA LastLoad ==
    ASSUME Inv, NEW p \in Proc, MayHandleCan(p)
    PROVE  MixtureNeedsNewGuards' /\ AllowedHasBasis'
<1> DEFINE c == call[p]
           d == call'[p]
<1>1. /\ c.pc = "guarded" /\ c.method = "MayHandle"
      /\ d = [c EXCEPT !.pc = "returned", !.result = Can(table, c.b, c.guard)]
      /\ \A q \in Proc : q # p => call'[q] = call[q]
      /\ seen' = seen /\ table \in seen[p] /\ c \in Call
  BY DEF MayHandleCan, Return, Inv, TypeOK, SeesCurrent, InCall, LoadsWitnessed
<1>2. /\ d.pc = "returned" /\ d.method = "MayHandle" /\ d.a = c.a /\ d.b = c.b
      /\ d.result = Can(table, c.b, c.guard)
  BY <1>1 DEF Call
<1>3. PICK t \in seen[p] : c.guard = GuardOf(t, c.a)
  BY <1>1 DEF Inv, LoadsWitnessed
<1>4. PICK s \in seen[p] : Privileged(s, c.a)
  BY <1>1 DEF Inv, LoadsWitnessed
<1>5. SameGuards(seen[p]) => d.result = Answer(table, d)
  <2> SUFFICES ASSUME SameGuards(seen[p]) PROVE d.result = Answer(table, d)
    OBVIOUS
  <2>1. Privileged(table, c.a) /\ GuardOf(table, c.a) = c.guard
    BY <1>1, <1>3, <1>4, SameGuardsAgree DEF SameGuards
  <2>2. d.result = MayHandle(table, c.b, c.a)
    <3>1. d.result = Can(table, c.b, GuardOf(table, c.a))
      BY <1>2, <2>1
    <3> QED
      BY <3>1, <2>1 DEF MayHandle, Can
  <2> QED
    BY <2>2, <1>2 DEF Answer
<1>6. MixtureNeedsNewGuards'
  <2> SUFFICES ASSUME NEW q \in Proc, call'[q].pc = "returned"
               PROVE  \/ \E u \in seen[q] : call'[q].result = Answer(u, call'[q])
                      \/ call'[q].method = "MayHandle" /\ ~SameGuards(seen[q])
    BY <1>1 DEF MixtureNeedsNewGuards, Answer
  <2>1. CASE q = p
    BY <2>1, <1>1, <1>2, <1>5
  <2>2. CASE q # p
    BY <2>2, <1>1 DEF Inv, MixtureNeedsNewGuards
  <2> QED
    BY <2>1, <2>2
<1>7. AllowedHasBasis'
  <2> SUFFICES ASSUME NEW q \in Proc, call'[q].pc = "returned",
                      call'[q].method = "MayHandle", call'[q].result
               PROVE  \E t1, t2 \in seen[q] :
                        ~Privileged(t1, call'[q].a) \/ Can(t2, call'[q].b, GuardOf(t1, call'[q].a))
    BY <1>1 DEF AllowedHasBasis
  <2>1. CASE q = p
    BY <2>1, <1>1, <1>2, <1>3
  <2>2. CASE q # p
    BY <2>2, <1>1 DEF Inv, AllowedHasBasis
  <2> QED
    BY <2>1, <2>2
<1> QED
  BY <1>6, <1>7

\* A call that answers from one load keeps both promises: the table it read
\* is one it saw.
LEMMA OneLoad ==
    ASSUME Inv, NEW p \in Proc, NEW answer, call[p].pc = "entered",
           Return(p, answer), UNCHANGED <<table, wired, seen>>,
           answer = Answer(table, call[p])
    PROVE  MixtureNeedsNewGuards' /\ AllowedHasBasis'
<1> DEFINE d == call'[p]
<1>1. /\ call[p] \in Call /\ table \in seen[p] /\ seen' = seen
      /\ \A q \in Proc : q # p => call'[q] = call[q]
  BY DEF Return, Inv, TypeOK, SeesCurrent, InCall
<1>2. /\ d.method = call[p].method /\ d.a = call[p].a /\ d.b = call[p].b
      /\ d.result = answer
  BY <1>1 DEF Return, Call, Inv, TypeOK
<1>3. d.result = Answer(table, d)
  BY <1>2 DEF Answer
<1>4. MixtureNeedsNewGuards'
  BY <1>1, <1>3 DEF Inv, MixtureNeedsNewGuards
<1>5. AllowedHasBasis'
  BY <1>1, <1>3, WholeAnswer DEF Inv, AllowedHasBasis
<1> QED
  BY <1>4, <1>5

\* A step of the table's own: the calls under way see the next table, the
\* answers already given keep the tables they were given from.
LEMMA ReplaceInv ==
    ASSUME Inv, Replace PROVE Inv'
<1> USE DEF Inv
<1>1. PICK next \in Candidates :
        /\ Replaceable(table, next) /\ table' = next
        /\ seen' = [p \in Proc |-> IF InCall(p) THEN seen[p] \cup {next} ELSE seen[p]]
        /\ wired' = wired /\ call' = call
  BY DEF Replace
<1>2. TypeOK'
  BY <1>1 DEF TypeOK
<1>3. WiredIsFixed'
  BY <1>1 DEF WiredIsFixed, FixedNames, Replaceable
<1>4. SeesCurrent'
  BY <1>1 DEF SeesCurrent, InCall
<1>5. LoadsWitnessed'
  BY <1>1 DEF LoadsWitnessed
<1>6. \A p \in Proc : call[p].pc = "returned" => call'[p] = call[p] /\ seen'[p] = seen[p]
  BY <1>1 DEF InCall
<1>7. MixtureNeedsNewGuards'
  BY <1>1, <1>6 DEF MixtureNeedsNewGuards
<1>8. AllowedHasBasis'
  BY <1>1, <1>6 DEF AllowedHasBasis
<1> QED
  BY <1>2, <1>3, <1>4, <1>5, <1>7, <1>8

LEMMA EnterInv ==
    ASSUME Inv, NEW p \in Proc, Enter(p) PROVE Inv'
<1> USE DEF Inv
<1>1. PICK m \in Method, a \in AnyRole, b \in AnyRole :
        call' = [call EXCEPT ![p] = [NoCall EXCEPT !.pc = "entered", !.method = m,
                                                   !.a = a, !.b = b]]
  BY DEF Enter
<1> DEFINE c == [NoCall EXCEPT !.pc = "entered", !.method = m, !.a = a, !.b = b]
<1>2. c \in Call /\ c.pc = "entered"
  BY DEF Call, NoCall, AnyRole
<1>3. /\ call' = [call EXCEPT ![p] = c] /\ seen' = [seen EXCEPT ![p] = {table}]
      /\ table' = table /\ wired' = wired
  BY <1>1 DEF Enter
<1> HIDE DEF c
<1>4. TypeOK'
  BY <1>2, <1>3 DEF TypeOK
<1>5. WiredIsFixed' /\ SeesCurrent'
  BY <1>2, <1>3 DEF WiredIsFixed, SeesCurrent, InCall, TypeOK
<1>6. LoadsWitnessed'
  BY <1>2, <1>3 DEF LoadsWitnessed, TypeOK
<1>7. MixtureNeedsNewGuards' /\ AllowedHasBasis'
  BY <1>2, <1>3 DEF MixtureNeedsNewGuards, AllowedHasBasis, TypeOK
<1> QED
  BY <1>4, <1>5, <1>6, <1>7

\* A call that returns leaves the rest of the invariant alone.
LEMMA ReturnKeeps ==
    ASSUME Inv, NEW p \in Proc, NEW answer \in BOOLEAN \cup AnyRole,
           Return(p, answer), UNCHANGED <<table, wired, seen>>
    PROVE  TypeOK' /\ WiredIsFixed' /\ SeesCurrent' /\ LoadsWitnessed'
<1> USE DEF Inv
<1>1. call' = [call EXCEPT ![p].pc = "returned", ![p].result = answer]
  BY DEF Return
<1>2. TypeOK'
  BY <1>1, ZenonT(30) DEF TypeOK, Call
<1>3. WiredIsFixed' /\ SeesCurrent'
  BY <1>1 DEF WiredIsFixed, SeesCurrent, InCall, TypeOK, Call
<1>4. LoadsWitnessed'
  BY <1>1 DEF LoadsWitnessed, TypeOK, Call
<1> QED
  BY <1>2, <1>3, <1>4

LEMMA StepInv ==
    ASSUME Inv, NEW p \in Proc, Step(p) PROVE Inv'
<1> USE DEF Inv
<1>0. /\ call[p] \in Call
      /\ call[p].method \in Method /\ call[p].a \in AnyRole /\ call[p].b \in AnyRole
  BY DEF TypeOK, Call
<1>1. CASE Enter(p)
  BY <1>1, EnterInv
<1>2. CASE SingleLoad(p)
  <2>1. Answer(table, call[p]) \in BOOLEAN \cup AnyRole
    BY <1>0, AnswerType
  <2>2. MixtureNeedsNewGuards' /\ AllowedHasBasis'
    BY <1>2, OneLoad DEF SingleLoad
  <2>3. TypeOK' /\ WiredIsFixed' /\ SeesCurrent' /\ LoadsWitnessed'
    BY <1>2, <2>1, ReturnKeeps DEF SingleLoad
  <2> QED
    BY <2>2, <2>3
<1>3. CASE MayHandlePrivileged(p)
  <2>1. CASE ~Privileged(table, call[p].a) /\ Return(p, TRUE)
    <3>1. Answer(table, call[p]) = TRUE
      <4>1. MayHandle(table, call[p].b, call[p].a) = TRUE
        BY <2>1 DEF MayHandle
      <4> QED
        BY <4>1, <1>3 DEF MayHandlePrivileged, Answer
    <3>2. MixtureNeedsNewGuards' /\ AllowedHasBasis'
      BY <1>3, <2>1, <3>1, OneLoad DEF MayHandlePrivileged
    <3>3. TypeOK' /\ WiredIsFixed' /\ SeesCurrent' /\ LoadsWitnessed'
      BY <1>3, <2>1, ReturnKeeps DEF MayHandlePrivileged
    <3> QED
      BY <3>2, <3>3
  <2>2. CASE /\ Privileged(table, call[p].a)
             /\ call' = [call EXCEPT ![p].pc = "privileged"]
    <3>0. call[p].pc = "entered" /\ call[p].method = "MayHandle" /\ table \in seen[p]
      BY <1>3 DEF MayHandlePrivileged, SeesCurrent, InCall
    <3>1. table' = table /\ wired' = wired /\ seen' = seen
      BY <1>3 DEF MayHandlePrivileged
    <3>2. TypeOK'
      BY <2>2, <3>1 DEF TypeOK, Call
    <3>3. WiredIsFixed' /\ SeesCurrent'
      BY <2>2, <3>0, <3>1 DEF WiredIsFixed, SeesCurrent, InCall, TypeOK, Call
    <3>4. LoadsWitnessed'
      BY <2>2, <3>0, <3>1 DEF LoadsWitnessed, TypeOK, Call
    <3>5. MixtureNeedsNewGuards' /\ AllowedHasBasis'
      BY <2>2, <3>1 DEF MixtureNeedsNewGuards, AllowedHasBasis, TypeOK, Call
    <3> QED
      BY <3>2, <3>3, <3>4, <3>5
  <2> QED
    BY <1>3, <2>1, <2>2 DEF MayHandlePrivileged
<1>4. CASE MayHandleGuard(p)
  <2>0. /\ call[p].pc = "privileged" /\ table \in seen[p]
        /\ call' = [call EXCEPT ![p].pc = "guarded", ![p].guard = GuardOf(table, call[p].a)]
        /\ table' = table /\ wired' = wired /\ seen' = seen
    BY <1>4 DEF MayHandleGuard, SeesCurrent, InCall
  <2>1. GuardOf(table, call[p].a) \in Permission \cup {NoPermission}
    BY CandidatesAssumption DEF TypeOK, Built, Table, PartialMap, GuardOf, Privileged
  <2>2. TypeOK'
    BY <2>0, <2>1, ZenonT(30) DEF TypeOK, Call
  <2>3. WiredIsFixed' /\ SeesCurrent'
    BY <2>0 DEF WiredIsFixed, SeesCurrent, InCall, TypeOK, Call
  <2>4. LoadsWitnessed'
    BY <2>0 DEF LoadsWitnessed, TypeOK, Call
  <2>5. MixtureNeedsNewGuards' /\ AllowedHasBasis'
    BY <2>0 DEF MixtureNeedsNewGuards, AllowedHasBasis, TypeOK, Call
  <2> QED
    BY <2>2, <2>3, <2>4, <2>5
<1>5. CASE MayHandleCan(p)
  <2>1. Can(table, call[p].b, call[p].guard) \in BOOLEAN
    BY DEF Can
  <2>2. TypeOK' /\ WiredIsFixed' /\ SeesCurrent' /\ LoadsWitnessed'
    BY <1>5, <2>1, ReturnKeeps DEF MayHandleCan
  <2>3. MixtureNeedsNewGuards' /\ AllowedHasBasis'
    BY <1>5, LastLoad
  <2> QED
    BY <2>2, <2>3
<1> QED
  BY <1>1, <1>2, <1>3, <1>4, <1>5 DEF Step

LEMMA Invariance == Spec => []Inv
<1>1. Inv /\ [Next]_vars => Inv'
  <2> SUFFICES ASSUME Inv, [Next]_vars PROVE Inv'
    OBVIOUS
  <2>1. CASE Next
    BY <2>1, ReplaceInv, StepInv DEF Next
  <2>2. CASE UNCHANGED vars
    BY <2>2 DEF vars, Inv, TypeOK, WiredIsFixed, SeesCurrent, LoadsWitnessed,
                MixtureNeedsNewGuards, AllowedHasBasis, InCall
  <2> QED
    BY <2>1, <2>2
<1> QED
  BY <1>1, InitInv, PTL DEF Spec

-----------------------------------------------------------------------------
\* Every table in force was built by the constructors, and every call stays
\* within its shape.
THEOREM TypeCorrect == Spec => []TypeOK
<1>1. Inv => TypeOK
  BY DEF Inv
<1> QED
  BY <1>1, Invariance, PTL

\* Every method of a table answers as one table in force during the call
\* would, except a MayHandle during which the guards were edited: role.go's
\* "never a mixture inside one call", as far as it goes.
THEOREM OnlyNewGuardsMix == Spec => []MixtureNeedsNewGuards
<1>1. Inv => MixtureNeedsNewGuards
  BY DEF Inv
<1> QED
  BY <1>1, Invariance, PTL

\* A MayHandle that mixed two tables still allows only what some guard in
\* force and some role in force together allowed.
THEOREM AllowingHasBasis == Spec => []AllowedHasBasis
<1>1. Inv => AllowedHasBasis
  BY DEF Inv
<1> QED
  BY <1>1, Invariance, PTL

\* Replace never takes user management away from the role a background job
\* acts as, because it refuses a table with other fixed names and every table
\* was built.
THEOREM SystemKeepsManaging == Spec => []SystemCanManage
<1>1. Inv => SystemCanManage
  BY CandidatesAssumption DEF Inv, TypeOK, WiredIsFixed, FixedNames, Built,
     NewPermissionTable, SystemCanManage, Can, Held
<1> QED
  BY <1>1, Invariance, PTL

=============================================================================
