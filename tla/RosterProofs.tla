----------------------------- MODULE RosterProofs -----------------------------
(***************************************************************************)
(* The roster's theorems, for any accounts, organizations, keys and table, *)
(* and any number of concurrent requests.                                  *)
(***************************************************************************)
EXTENDS Roster, TLAPS

USE DEF ManageOps, AllOps, Absent

\* Every identity the request path resolves is well formed, and names an
\* account that exists, in that account's organization.
LEMMA CallerType ==
    ASSUME TypeOK, NEW by \in Callers
    PROVE  /\ by \in Identity
           /\ by.user # NoUser => Live(by.user) /\ users[by.user].org = by.org
<1> USE RosterAssumption DEF TypeOK
<1>1. CASE \E u \in LiveSessions : by = SessionIdentity(u)
  BY <1>1 DEF LiveSessions, SessionIdentity, Enabled, Live, Row, Identity
<1>2. CASE \E k \in LiveKeys : by = KeyIdentity(k)
  <2>1. PICK k \in LiveKeys : by = KeyIdentity(k)
    BY <1>2
  <2>2. Live(keys[k].owner) /\ keys[k] \in Key
    BY DEF LiveKeys, Enabled
  <2> QED
    BY <2>1, <2>2 DEF KeyIdentity, Live, Row, Key, Identity
<1>3. CASE \E o \in Org : by = SystemIdentity(o)
  BY <1>3 DEF SystemIdentity, Identity, Built, Table
<1> QED
  BY <1>1, <1>2, <1>3 DEF Callers

\* The request a use case starts from is a request.
LEMMA IdleType == Idle \in Request
  BY DEF Idle, Request, Pc, Nobody, Identity

\* AtMost answers a role or the empty role.
LEMMA AtMostType ==
    ASSUME NEW r1 \in Role \cup {NoRole}, NEW r2 \in Role \cup {NoRole}
    PROVE  AtMost(Rules, r1, r2) \in Role \cup {NoRole}
  BY DEF AtMost

\* A write to the users table keeps every request a request.
LEMMA WriteType ==
    ASSUME TypeOK, NEW p \in Proc, NEW table, NEW r \in Request, Write(p, table, r)
    PROVE  req' \in [Proc -> Request] /\ users' = table
<1>1. \A q \in Proc : [req[q] EXCEPT !.fresh = FALSE] \in Request
  BY DEF TypeOK, Request
<1> QED
  BY <1>1 DEF Write

LEMMA InitType == Init => TypeOK
<1> SUFFICES ASSUME Init PROVE TypeOK
  OBVIOUS
<1>1. users \in [UserId -> Row]
  BY RosterAssumption DEF Init
<1>2. keys \in [KeyId -> Key]
  BY DEF Init, NoKeyRow, Key
<1>3. req \in [Proc -> Request]
  BY IdleType DEF Init
<1> QED
  BY <1>1, <1>2, <1>3 DEF Init, TypeOK

\* The steps that only read the database.
LEMMA ReadType ==
    ASSUME TypeOK, NEW p \in Proc,
           \/ BeginManage(p) \/ LoadTarget(p) \/ CountHolders(p)
           \/ BeginCreate(p) \/ LookupEmail(p)
           \/ BeginMint(p) \/ BeginRevokeKey(p) \/ LoadKey(p)
           \/ BeginSignIn(p) \/ StoreError(p)
    PROVE  TypeOK'
<1> USE IdleType DEF TypeOK
<1>1. CASE BeginManage(p)
  <2>1. PICK op \in ManageOps, by \in Callers, target \in UserId, role \in Role \cup {NoRole} :
          Begin(p, [Idle EXCEPT !.pc = "load", !.op = op, !.by = by,
                                !.target = target, !.role = role])
    BY <1>1 DEF BeginManage
  <2>2. by \in Identity
    BY CallerType
  <2> QED
    BY <2>1, <2>2 DEF Begin, Request, Idle, Pc
<1>2. CASE LoadTarget(p)
  <2>1. req[p].op \in ManageOps /\ UNCHANGED <<users, keys, sessions>>
    BY <1>2 DEF LoadTarget
  <2>2. CASE Finish(p)
    BY <2>1, <2>2 DEF Finish
  <2>3. CASE Manageable(req[p]) /\ req' = [req EXCEPT ![p] = Loaded(req[p])]
    <3>1. users[req[p].target].role \in Role \cup {NoRole}
      BY <2>3 DEF Manageable, Live, Row
    <3>2. Loaded(req[p]) \in Request
      BY <3>1 DEF Loaded, Request, Pc
    <3> QED
      BY <2>1, <2>3, <3>2
  <2> QED
    BY <1>2, <2>2, <2>3 DEF LoadTarget
<1>3. CASE CountHolders(p)
  BY <1>3 DEF CountHolders, Finish, Request, Pc
<1>4. CASE BeginCreate(p)
  <2>1. PICK by \in Callers, role \in Role :
          Begin(p, [Idle EXCEPT !.pc = "load", !.op = "create", !.by = by, !.role = role])
    BY <1>4 DEF BeginCreate
  <2>2. by \in Identity
    BY CallerType
  <2> QED
    BY <2>1, <2>2 DEF Begin, Request, Idle, Pc
<1>5. CASE LookupEmail(p)
  BY <1>5 DEF LookupEmail, Finish, Goto, Request, Pc
<1>6. CASE BeginMint(p)
  <2>1. PICK by \in Callers, requested \in Role :
          Begin(p, [Idle EXCEPT !.pc = "write", !.op = "mintKey", !.by = by,
                      !.role = AtMost(Rules, IF Valid(Rules, requested) THEN requested
                                                                        ELSE by.role, by.role)])
    BY <1>6 DEF BeginMint
  <2>2. by \in Identity /\ by.role \in Role \cup {NoRole}
    BY CallerType DEF Identity
  <2>3. AtMost(Rules, IF Valid(Rules, requested) THEN requested ELSE by.role, by.role)
          \in Role \cup {NoRole}
    BY <2>2, AtMostType
  <2> QED
    BY <2>1, <2>2, <2>3 DEF Begin, Request, Idle, Pc
<1>7. CASE BeginRevokeKey(p)
  <2>1. PICK by \in Callers, k \in KeyId :
          Begin(p, [Idle EXCEPT !.pc = "load", !.op = "revokeKey", !.by = by, !.key = k])
    BY <1>7 DEF BeginRevokeKey
  <2>2. by \in Identity
    BY CallerType
  <2> QED
    BY <2>1, <2>2 DEF Begin, Request, Idle, Pc
<1>8. CASE LoadKey(p)
  <2>1. UNCHANGED <<users, keys, sessions>> /\ (Finish(p) \/ Goto(p, "write"))
    BY <1>8 DEF LoadKey
  <2> QED
    BY <2>1 DEF Finish, Goto, Request, Pc
<1>9. CASE BeginSignIn(p)
  <2>1. PICK u \in UserId :
          Begin(p, [Idle EXCEPT !.pc = "write", !.op = "signIn", !.target = u])
    BY <1>9 DEF BeginSignIn
  <2> QED
    BY <2>1 DEF Begin, Request, Idle, Pc
<1>10. CASE StoreError(p)
  BY <1>10 DEF StoreError, Finish
<1> QED
  BY <1>1, <1>2, <1>3, <1>4, <1>5, <1>6, <1>7, <1>8, <1>9, <1>10

\* Suspending an account, or ending the suspension, leaves a users table.
LEMMA DisabledType ==
    ASSUME NEW us \in [UserId -> Row], NEW u \in UserId, NEW b \in BOOLEAN
    PROVE  [us EXCEPT ![u].disabled = b] \in [UserId -> Row]
<1>1. [us[u] EXCEPT !.disabled = b] \in Row
  BY DEF Row
<1> QED
  BY <1>1

\* The steps that write to the database.
LEMMA WriteStepType ==
    ASSUME TypeOK, NEW p \in Proc,
           \/ WriteDisable(p) \/ RevokeSessions(p) \/ WriteEnable(p)
           \/ WriteDelete(p) \/ WriteRole(p) \/ InsertUser(p)
           \/ InsertKey(p) \/ WriteRevokeKey(p) \/ InsertSession(p)
    PROVE  TypeOK'
<1> USE IdleType
<1>0. /\ req[p] \in Request /\ req[p].role \in Role \cup {NoRole}
      /\ req[p].by.org \in Org \cup {NoOrg} /\ req[p].by.user \in UserId \cup {NoUser}
      /\ [req[p] EXCEPT !.pc = "revoke"] \in Request
  BY DEF TypeOK, Request, Identity, Pc
<1>1. CASE WriteDisable(p)
  <2> DEFINE table == IF Live(req[p].target) THEN [users EXCEPT ![req[p].target].disabled = TRUE] ELSE users
             next == [req[p] EXCEPT !.pc = "revoke"]
  <2>1. table \in [UserId -> Row]
    BY DisabledType DEF TypeOK, Live
  <2>2. next \in Request
    BY <1>0
  <2>3. Write(p, table, next)
    BY <1>1 DEF WriteDisable
  <2> HIDE DEF table, next
  <2>4. users' \in [UserId -> Row] /\ req' \in [Proc -> Request]
    BY <2>1, <2>2, <2>3, WriteType
  <2> QED
    BY <1>1, <2>4 DEF WriteDisable, TypeOK
<1>2. CASE RevokeSessions(p)
  BY <1>2 DEF RevokeSessions, Finish, TypeOK
<1>3. CASE WriteEnable(p)
  <2> DEFINE table == IF Live(req[p].target) THEN [users EXCEPT ![req[p].target].disabled = FALSE] ELSE users
             next == Idle
  <2>1. table \in [UserId -> Row]
    BY DisabledType DEF TypeOK, Live
  <2>2. next \in Request
    BY <1>0
  <2>3. Write(p, table, next)
    BY <1>3 DEF WriteEnable
  <2> HIDE DEF table, next
  <2>4. users' \in [UserId -> Row] /\ req' \in [Proc -> Request]
    BY <2>1, <2>2, <2>3, WriteType
  <2> QED
    BY <1>3, <2>4 DEF WriteEnable, TypeOK
<1>4. CASE WriteDelete(p)
  <2>1. NoRow("deleted") \in Row
    BY DEF NoRow, Row
  <2> DEFINE table == IF Live(req[p].target) THEN [users EXCEPT ![req[p].target] = NoRow("deleted")] ELSE users
  <2>4. table \in [UserId -> Row]
    BY <2>1 DEF TypeOK
  <2>5. Write(p, table, Idle)
    BY <1>4 DEF WriteDelete
  <2> HIDE DEF table
  <2>2. users' \in [UserId -> Row] /\ req' \in [Proc -> Request]
    BY <2>4, <2>5, WriteType
  <2>3. keys' \in [KeyId -> Key]
    BY <1>4 DEF WriteDelete, TypeOK, NoKeyRow, Key
  <2> QED
    BY <1>4, <2>2, <2>3 DEF WriteDelete, TypeOK
<1>5. CASE WriteRole(p)
  <2> DEFINE table == IF Live(req[p].target) THEN [users EXCEPT ![req[p].target].role = req[p].role] ELSE users
             next == Idle
  <2>1. table \in [UserId -> Row]
    BY <1>0 DEF TypeOK, Row, Live
  <2>2. next \in Request
    BY <1>0
  <2>3. Write(p, table, next)
    BY <1>5 DEF WriteRole
  <2> HIDE DEF table, next
  <2>4. users' \in [UserId -> Row] /\ req' \in [Proc -> Request]
    BY <2>1, <2>2, <2>3, WriteType
  <2> QED
    BY <1>5, <2>4 DEF WriteRole, TypeOK
<1>6. CASE InsertUser(p)
  <2>1. CASE Finish(p) /\ UNCHANGED users
    BY <1>6, <2>1 DEF InsertUser, Finish, TypeOK
  <2>2. CASE \E u \in UserId :
               Write(p, [users EXCEPT ![u] = [status |-> "live", org |-> req[p].by.org,
                                    role |-> req[p].role, disabled |-> FALSE]], Idle)
    <3>1. [status |-> "live", org |-> req[p].by.org, role |-> req[p].role,
           disabled |-> FALSE] \in Row
      BY <1>0 DEF Row
    <3>2. PICK u \in UserId :
            Write(p, [users EXCEPT ![u] = [status |-> "live", org |-> req[p].by.org,
                                    role |-> req[p].role, disabled |-> FALSE]], Idle)
      BY <2>2
    <3> DEFINE table == [users EXCEPT ![u] = [status |-> "live", org |-> req[p].by.org,
                                    role |-> req[p].role, disabled |-> FALSE]]
    <3>3. table \in [UserId -> Row]
      BY <3>1 DEF TypeOK
    <3>4. Write(p, table, Idle)
      BY <3>2
    <3> HIDE DEF table
    <3>5. users' \in [UserId -> Row] /\ req' \in [Proc -> Request]
      BY <3>3, <3>4, WriteType
    <3> QED
      BY <1>6, <3>5 DEF InsertUser, TypeOK
  <2> QED
    BY <1>6, <2>1, <2>2 DEF InsertUser
<1>7. CASE InsertKey(p)
  <2>1. req' \in [Proc -> Request]
    BY <1>7 DEF InsertKey, Finish, TypeOK
  <2>2. keys' \in [KeyId -> Key]
    BY <1>0, <1>7 DEF InsertKey, TypeOK, Key
  <2> QED
    BY <1>7, <2>1, <2>2 DEF InsertKey, TypeOK
<1>8. CASE WriteRevokeKey(p)
  <2>1. req' \in [Proc -> Request]
    BY <1>8 DEF WriteRevokeKey, Finish, TypeOK
  <2>2. \A k \in KeyId : [keys[k] EXCEPT !.status = "revoked"] \in Key
    BY DEF TypeOK, Key
  <2>3. keys' \in [KeyId -> Key]
    BY <1>8, <2>2 DEF WriteRevokeKey, TypeOK
  <2> QED
    BY <1>8, <2>1, <2>3 DEF WriteRevokeKey, TypeOK
<1>9. CASE InsertSession(p)
  BY <1>9 DEF InsertSession, Finish, TypeOK, Live
<1> QED
  BY <1>1, <1>2, <1>3, <1>4, <1>5, <1>6, <1>7, <1>8, <1>9

\* Next, split into the steps that read and the steps that write.
LEMMA Steps ==
    ASSUME Next
    PROVE  \/ SessionEnds
           \/ \E p \in Proc :
                \/ BeginManage(p) \/ LoadTarget(p) \/ CountHolders(p)
                \/ BeginCreate(p) \/ LookupEmail(p)
                \/ BeginMint(p) \/ BeginRevokeKey(p) \/ LoadKey(p)
                \/ BeginSignIn(p) \/ StoreError(p)
           \/ \E p \in Proc :
                \/ WriteDisable(p) \/ RevokeSessions(p) \/ WriteEnable(p)
                \/ WriteDelete(p) \/ WriteRole(p) \/ InsertUser(p)
                \/ InsertKey(p) \/ WriteRevokeKey(p) \/ InsertSession(p)
  BY DEF Next, Manage, Create, APIKeys, SignIn

\* Every row, key and request keeps its shape, whatever interleaves.
THEOREM TypeCorrect == Spec => []TypeOK
<1>1. TypeOK /\ [Next]_vars => TypeOK'
  <2> SUFFICES ASSUME TypeOK, [Next]_vars PROVE TypeOK'
    OBVIOUS
  <2>1. CASE SessionEnds
    BY <2>1 DEF SessionEnds, TypeOK
  <2>2. CASE UNCHANGED vars
    BY <2>2 DEF vars, TypeOK
  <2> QED
    BY <2>1, <2>2, Steps, ReadType, WriteStepType
<1> QED
  BY <1>1, InitType, PTL DEF Spec

-----------------------------------------------------------------------------
(* The last holder and seniority. Both read the target once and act on it  *)
(* later, so what the checks established has to be carried to the write:   *)
(* for a request nobody overtook, it still holds.                          *)

\* What is known, in the users table us, of a request's target between its
\* load and its write.
Sound(us, r) ==
    /\ r.op \in ManageOps
    /\ r.pc \in {"count", "write", "revoke"}
    /\ r.pc # "revoke" =>
         /\ r.target \in UserId /\ us[r.target].status = "live"
         /\ us[r.target].org = r.by.org
         /\ MayHandle(Rules, r.by.role, us[r.target].role)
         /\ r.pc = "count" => r.found = us[r.target].role
         /\ r.pc = "write" /\ r.op # "enable"
              /\ Protected(Rules, us[r.target].role) /\ ~us[r.target].disabled =>
                 \E u \in UserId \ {r.target} :
                    /\ us[u].status = "live" /\ ~us[u].disabled
                    /\ us[u].org = r.by.org /\ us[u].role = us[r.target].role

FreshSound == \A p \in Proc : req[p].fresh => Sound(users, req[p])

\* What is known of every request on its way: who asks may ask, and an
\* account once loaded is the caller's organization's until it is deleted.
Backed(us, r) ==
    /\ r.by.user # NoUser =>
         /\ us[r.by.user].status # "unused"
         /\ us[r.by.user].status = "live" => us[r.by.user].org = r.by.org
    /\ r.pc # "idle" /\ r.op \in ManageOps =>
         /\ MayManage(r.by) /\ r.target # r.by.user /\ r.target \in UserId
         /\ r.pc # "load" =>
              /\ us[r.target].status # "unused"
              /\ us[r.target].status = "live" => us[r.target].org = r.by.org
              /\ r.op = "setRole" => MayHandle(Rules, r.by.role, r.role)
    /\ r.pc # "idle" /\ r.op = "create" =>
         MayManage(r.by) /\ MayHandle(Rules, r.by.role, r.role)
    /\ r.pc # "idle" /\ r.op = "mintKey" =>
         Held(Rules, r.role) \subseteq Held(Rules, r.by.role)

AllBacked == \A p \in Proc : Backed(users, req[p])

\* A key hangs on an account that exists or existed, never on an id to come.
KeysOwned ==
    \A k \in KeyId : keys[k].status = "live" =>
        keys[k].owner \in UserId /\ users[keys[k].owner].status # "unused"

IInv == TypeOK /\ FreshSound /\ AllBacked /\ KeysOwned

\* How the users table may move from one step to the next: an id leaves
\* "unused" for good, and a row that lives on stays in its organization.
Grows ==
    \A u \in UserId : users[u].status # "unused" =>
        /\ users'[u].status # "unused"
        /\ users'[u].status = "live" =>
             users[u].status = "live" /\ users'[u].org = users[u].org

\* What the four writes to an existing account have in common: p is a
\* manageTarget request at its write, and only p and the target's row move.
LEMMA TargetWrites ==
    ASSUME TypeOK, NEW p \in Proc,
           WriteDisable(p) \/ WriteEnable(p) \/ WriteDelete(p) \/ WriteRole(p)
    PROVE  /\ req[p].op \in ManageOps /\ req[p].pc = "write"
           /\ \/ req'[p] = Idle
              \/ req[p].op = "disable" /\ req'[p] = [req[p] EXCEPT !.pc = "revoke"]
           /\ \A q \in Proc : q # p => req'[q] = [req[q] EXCEPT !.fresh = FALSE]
           /\ \A u \in UserId : u # req[p].target => users'[u] = users[u]
<1>0. users \in [UserId -> Row] /\ req \in [Proc -> Request]
  BY DEF TypeOK
<1>1. CASE WriteDisable(p)
  BY <1>0, <1>1 DEF WriteDisable, Write, At, Live
<1>2. CASE WriteEnable(p)
  BY <1>0, <1>2 DEF WriteEnable, Write, At, Live
<1>3. CASE WriteDelete(p)
  BY <1>0, <1>3 DEF WriteDelete, Write, At, Live
<1>4. CASE WriteRole(p)
  BY <1>0, <1>4 DEF WriteRole, Write, At, Live
<1> QED
  BY <1>1, <1>2, <1>3, <1>4

\* What they do to a row: it stays in its organization or is deleted, gets a
\* role only when that was asked, and is never disabled by an enable.
LEMMA RowWrites ==
    ASSUME TypeOK, NEW p \in Proc, NEW u \in UserId,
           WriteDisable(p) \/ WriteEnable(p) \/ WriteDelete(p) \/ WriteRole(p)
    PROVE  /\ users[u].status # "unused" => users'[u].status # "unused"
           /\ users'[u].status = "live" /\ users[u].status # "unused" =>
                users[u].status = "live" /\ users'[u].org = users[u].org
           /\ users[u].status = "unused" /\ users'[u] # users[u] =>
                u = req[p].target /\ users'[u].status = "deleted"
           /\ users'[u].status = "live" /\ users'[u].role # users[u].role =>
                req[p].op = "setRole" /\ users'[u].role = req[p].role
           /\ req[p].op = "enable" =>
                /\ users'[u].status = users[u].status /\ users'[u].role = users[u].role
                /\ users'[u].org = users[u].org
                /\ ~users[u].disabled => ~users'[u].disabled
<1>0. users \in [UserId -> Row] /\ users[u] \in Row
  BY DEF TypeOK
<1>1. CASE WriteDisable(p)
  BY <1>0, <1>1 DEF WriteDisable, Write, At, Live, Row
<1>2. CASE WriteEnable(p)
  BY <1>0, <1>2 DEF WriteEnable, Write, At, Live, Row
<1>3. CASE WriteDelete(p)
  BY <1>0, <1>3 DEF WriteDelete, Write, At, Live, NoRow, Row
<1>4. CASE WriteRole(p)
  BY <1>0, <1>4 DEF WriteRole, Write, At, Live, Row
<1> QED
  BY <1>1, <1>2, <1>3, <1>4

\* InsertUser gives an unused id a row of the caller's organization, or does
\* nothing.
LEMMA InsertWrites ==
    ASSUME TypeOK, NEW p \in Proc, InsertUser(p)
    PROVE  /\ req[p].op = "create" /\ req[p].pc = "write" /\ req'[p] = Idle
           /\ \A q \in Proc : q # p => req'[q] \in {req[q], [req[q] EXCEPT !.fresh = FALSE]}
           /\ \A u \in UserId : users'[u] # users[u] =>
                /\ users[u].status = "unused" /\ users'[u].status = "live"
                /\ users'[u].org = req[p].by.org /\ users'[u].role = req[p].role
<1>0. users \in [UserId -> Row] /\ req \in [Proc -> Request]
  BY DEF TypeOK
<1>1. CASE Finish(p) /\ UNCHANGED users
  BY <1>0, <1>1 DEF InsertUser, At, Finish
<1>2. CASE \E u \in UserId :
             /\ users[u].status = "unused"
             /\ Write(p, [users EXCEPT ![u] = [status |-> "live", org |-> req[p].by.org,
                                    role |-> req[p].role, disabled |-> FALSE]], Idle)
  BY <1>0, <1>2 DEF InsertUser, At, Write
<1> QED
  BY <1>1, <1>2 DEF InsertUser

\* The steps that leave the users table alone, and change the request of the
\* process that takes them only.
LEMMA OtherSteps ==
    ASSUME TypeOK, NEW p \in Proc,
           \/ BeginManage(p) \/ LoadTarget(p) \/ CountHolders(p)
           \/ BeginCreate(p) \/ LookupEmail(p)
           \/ BeginMint(p) \/ BeginRevokeKey(p) \/ LoadKey(p)
           \/ BeginSignIn(p) \/ StoreError(p)
           \/ RevokeSessions(p) \/ InsertKey(p) \/ WriteRevokeKey(p) \/ InsertSession(p)
    PROVE  users' = users /\ \A q \in Proc : q # p => req'[q] = req[q]
<1>1. users' = users /\ \E r : req' = [req EXCEPT ![p] = r]
  <2>1. CASE \/ BeginManage(p) \/ BeginCreate(p) \/ BeginMint(p)
             \/ BeginRevokeKey(p) \/ BeginSignIn(p)
    BY <2>1 DEF BeginManage, BeginCreate, BeginMint, BeginRevokeKey, BeginSignIn, Begin
  <2>2. CASE LoadTarget(p)
    BY <2>2 DEF LoadTarget, Finish
  <2>3. CASE CountHolders(p)
    <3>1. CASE Finish(p)
      BY <2>3, <3>1 DEF CountHolders, Finish
    <3>2. CASE req' = [req EXCEPT ![p].pc = "write", ![p].found = NoRole]
      BY <2>3, <3>2 DEF CountHolders
    <3> QED
      BY <2>3, <3>1, <3>2 DEF CountHolders
  <2>4. CASE \/ LookupEmail(p) \/ LoadKey(p)
    BY <2>4 DEF LookupEmail, LoadKey, Finish, Goto
  <2>5. CASE \/ StoreError(p) \/ RevokeSessions(p) \/ InsertKey(p)
             \/ WriteRevokeKey(p) \/ InsertSession(p)
    BY <2>5 DEF StoreError, RevokeSessions, InsertKey, WriteRevokeKey, InsertSession, Finish
  <2> QED
    BY <2>1, <2>2, <2>3, <2>4, <2>5
<1> QED
  BY <1>1 DEF TypeOK

\* Next, split by what a step does to the users table.
LEMMA UserSteps ==
    ASSUME Next
    PROVE  \/ SessionEnds
           \/ \E p \in Proc :
                WriteDisable(p) \/ WriteEnable(p) \/ WriteDelete(p) \/ WriteRole(p)
           \/ \E p \in Proc : InsertUser(p)
           \/ \E p \in Proc :
                \/ BeginManage(p) \/ LoadTarget(p) \/ CountHolders(p)
                \/ BeginCreate(p) \/ LookupEmail(p)
                \/ BeginMint(p) \/ BeginRevokeKey(p) \/ LoadKey(p)
                \/ BeginSignIn(p) \/ StoreError(p)
                \/ RevokeSessions(p) \/ InsertKey(p) \/ WriteRevokeKey(p) \/ InsertSession(p)
  BY DEF Next, Manage, Create, APIKeys, SignIn

\* No step gives an id out twice or moves an account between organizations.
LEMMA RowsGrow == TypeOK /\ [Next]_vars => Grows
<1> SUFFICES ASSUME TypeOK, [Next]_vars, NEW u \in UserId, users[u].status # "unused"
             PROVE  /\ users'[u].status # "unused"
                    /\ users'[u].status = "live" =>
                         users[u].status = "live" /\ users'[u].org = users[u].org
  BY DEF Grows
<1>1. CASE users' = users
  BY <1>1
<1>2. CASE \E p \in Proc :
             WriteDisable(p) \/ WriteEnable(p) \/ WriteDelete(p) \/ WriteRole(p)
  BY <1>2, RowWrites
<1>3. CASE \E p \in Proc : InsertUser(p)
  BY <1>3, InsertWrites
<1> QED
  BY <1>1, <1>2, <1>3, UserSteps, OtherSteps DEF vars, SessionEnds

\* What is known of a request survives any such move of the table.
LEMMA BackedStays ==
    ASSUME TypeOK, Grows, NEW r \in Request, Backed(users, r)
    PROVE  Backed(users', r)
<1>1. r.by.user \in UserId \cup {NoUser}
  BY DEF Request, Identity
<1> QED
  BY <1>1 DEF Grows, Backed

\* Losing freshness changes nothing else that is known of a request.
LEMMA BackedForgets ==
    ASSUME NEW us, NEW r \in Request, Backed(us, r)
    PROVE  Backed(us, [r EXCEPT !.fresh = FALSE])
  BY DEF Backed, Request

\* A request starts out backed: its identity is a caller's, and the checks
\* made before the first store call have passed.
LEMMA BeginBacked ==
    ASSUME TypeOK, KeysOwned, NEW p \in Proc,
           BeginManage(p) \/ BeginCreate(p) \/ BeginMint(p) \/ BeginRevokeKey(p) \/ BeginSignIn(p)
    PROVE  Backed(users, req'[p]) /\ ~req'[p].fresh
<1>0. \A by \in Callers : by.user # NoUser =>
         /\ users[by.user].status # "unused"
         /\ users[by.user].status = "live" => users[by.user].org = by.org
  BY CallerType DEF Live
<1>1. CASE BeginManage(p)
  <2>1. PICK op \in ManageOps, by \in Callers, target \in UserId, role \in Role \cup {NoRole} :
          /\ MayManage(by) /\ target # by.user
          /\ Begin(p, [Idle EXCEPT !.pc = "load", !.op = op, !.by = by,
                                   !.target = target, !.role = role])
    BY <1>1 DEF BeginManage
  <2> QED
    BY <1>0, <2>1 DEF Backed, Begin, Idle, TypeOK
<1>2. CASE BeginCreate(p)
  <2>1. PICK by \in Callers, role \in Role :
          /\ MayManage(by) /\ MayHandle(Rules, by.role, role)
          /\ Begin(p, [Idle EXCEPT !.pc = "load", !.op = "create", !.by = by, !.role = role])
    BY <1>2 DEF BeginCreate
  <2> QED
    BY <1>0, <2>1 DEF Backed, Begin, Idle, TypeOK
<1>3. CASE BeginMint(p)
  <2>1. PICK by \in Callers, asked \in Role \cup {NoRole} :
          Begin(p, [Idle EXCEPT !.pc = "write", !.op = "mintKey", !.by = by,
                                !.role = AtMost(Rules, asked, by.role)])
    <3>1. PICK by \in Callers, requested \in Role :
            Begin(p, [Idle EXCEPT !.pc = "write", !.op = "mintKey", !.by = by,
                        !.role = AtMost(Rules, IF Valid(Rules, requested) THEN requested
                                                                          ELSE by.role, by.role)])
      BY <1>3 DEF BeginMint
    <3>2. by.role \in Role \cup {NoRole}
      BY CallerType DEF Identity
    <3> QED
      BY <3>1, <3>2
  <2>2. Held(Rules, AtMost(Rules, asked, by.role)) \subseteq Held(Rules, by.role)
    BY EmptyNamesAssumption, RosterAssumption DEF AtMost, ContainsAll, Held, Built, Table, PartialMap
  <2> QED
    BY <1>0, <2>1, <2>2 DEF Backed, Begin, Idle, TypeOK
<1>4. CASE BeginRevokeKey(p)
  <2>1. PICK by \in Callers, k \in KeyId :
          Begin(p, [Idle EXCEPT !.pc = "load", !.op = "revokeKey", !.by = by, !.key = k])
    BY <1>4 DEF BeginRevokeKey
  <2> QED
    BY <1>0, <2>1 DEF Backed, Begin, Idle, TypeOK
<1>5. CASE BeginSignIn(p)
  <2>1. PICK u \in UserId :
          Begin(p, [Idle EXCEPT !.pc = "write", !.op = "signIn", !.target = u])
    BY <1>5 DEF BeginSignIn
  <2> QED
    BY <2>1 DEF Backed, Nobody, Begin, Idle, TypeOK
<1> QED
  BY <1>1, <1>2, <1>3, <1>4, <1>5

\* manageableTarget and isLastEnabledHolder establish what the write relies
\* on, and every other step of a use case carries it along.
LEMMA StepBacked ==
    ASSUME TypeOK, FreshSound, AllBacked, NEW p \in Proc,
           \/ LoadTarget(p) \/ CountHolders(p) \/ LookupEmail(p) \/ LoadKey(p)
           \/ StoreError(p) \/ RevokeSessions(p) \/ InsertKey(p)
           \/ WriteRevokeKey(p) \/ InsertSession(p)
    PROVE  /\ Backed(users, req'[p])
           /\ req'[p].fresh => Sound(users, req'[p])
<1>0. req[p] \in Request /\ Backed(users, req[p]) /\ (req[p].fresh => Sound(users, req[p]))
      /\ req \in [Proc -> Request]
  BY DEF TypeOK, AllBacked, FreshSound
<1>1. CASE Finish(p)
  BY <1>0, <1>1 DEF Finish, Idle, Nobody, Backed
<1>2. CASE LoadTarget(p) /\ ~Finish(p)
  <2>1. /\ req[p].op \in ManageOps /\ req[p].pc = "load" /\ Manageable(req[p])
        /\ ~GrantRefused(req[p]) /\ req'[p] = Loaded(req[p])
    BY <1>0, <1>2 DEF LoadTarget
  <2>2. \/ /\ NeedsCount(req[p])
           /\ req'[p] = [req[p] EXCEPT !.fresh = TRUE, !.pc = "count",
                                       !.found = users[req[p].target].role]
        \/ /\ ~NeedsCount(req[p])
           /\ req'[p] = [req[p] EXCEPT !.fresh = TRUE, !.pc = "write"]
    BY <2>1 DEF Loaded
  <2>0. /\ req'[p].op = req[p].op /\ req'[p].by = req[p].by
        /\ req'[p].target = req[p].target /\ req'[p].role = req[p].role
        /\ req'[p].pc \in {"count", "write"}
        /\ req'[p].pc = "count" => req'[p].found = users[req[p].target].role
        /\ req'[p].pc = "write" => ~NeedsCount(req[p])
    BY <1>0, <2>2 DEF Request
  <2>3. Backed(users, req'[p])
    BY <1>0, <2>0, <2>1 DEF Backed, Manageable, GrantRefused, Live
  <2>4. Sound(users, req'[p])
    BY <1>0, <2>0, <2>1 DEF Sound, Manageable, NeedsCount, Live, Request
  <2> QED
    BY <2>3, <2>4
<1>3. CASE CountHolders(p) /\ ~Finish(p)
  <2>1. req[p].pc = "count" /\ OtherHolder(req[p])
        /\ req' = [req EXCEPT ![p].pc = "write", ![p].found = NoRole]
    BY <1>3 DEF CountHolders
  <2>2. req'[p] = [req[p] EXCEPT !.pc = "write", !.found = NoRole]
    BY <1>0, <2>1
  <2>3. Backed(users, req'[p])
    BY <1>0, <2>1, <2>2 DEF Backed, Request
  <2>4. req'[p].fresh => Sound(users, req'[p])
    BY <1>0, <2>1, <2>2 DEF Sound, OtherHolder, Enabled, Live, Request
  <2> QED
    BY <2>3, <2>4
<1>4. CASE LookupEmail(p) /\ ~Finish(p)
  BY <1>0, <1>4 DEF LookupEmail, Goto, At, Backed, Sound, Request
<1>5. CASE LoadKey(p) /\ ~Finish(p)
  BY <1>0, <1>5 DEF LoadKey, Goto, At, Backed, Sound, Request
<1> QED
  BY <1>1, <1>2, <1>3, <1>4, <1>5
     DEF StoreError, RevokeSessions, InsertKey, WriteRevokeKey, InsertSession

LEMMA InitInv == Init => IInv
<1> SUFFICES ASSUME Init PROVE IInv
  OBVIOUS
<1>1. TypeOK
  BY InitType
<1>2. \A p \in Proc : req[p] = Idle
  BY DEF Init
<1>3. FreshSound
  BY <1>2 DEF FreshSound, Idle
<1>4. AllBacked
  BY <1>2 DEF AllBacked, Backed, Idle, Nobody
<1>5. KeysOwned
  BY DEF Init, KeysOwned, NoKeyRow
<1> QED
  BY <1>1, <1>3, <1>4, <1>5 DEF IInv

\* A write to the users table makes every other request stale, and leaves
\* nothing known of the request that made it.
LEMMA RequestsKept ==
    ASSUME IInv, Next
    PROVE  FreshSound' /\ AllBacked'
<1> USE DEF IInv
<1>0. TypeOK /\ Grows
  BY RowsGrow
<1>1. \A q \in Proc : /\ req[q] \in Request /\ [req[q] EXCEPT !.fresh = FALSE] \in Request
                      /\ Backed(users, req[q]) /\ (req[q].fresh => Sound(users, req[q]))
  BY <1>0, ZenonT(30) DEF TypeOK, AllBacked, FreshSound, Request
<1>2. \A q \in Proc : Backed(users', req[q]) /\ Backed(users', [req[q] EXCEPT !.fresh = FALSE])
  BY <1>0, <1>1, BackedStays, BackedForgets
<1>3. Backed(users', Idle) /\ ~Idle.fresh
  BY DEF Backed, Idle, Nobody
<1>4. SUFFICES ASSUME NEW q \in Proc
               PROVE  Backed(users', req'[q]) /\ (req'[q].fresh => Sound(users', req'[q]))
  BY DEF FreshSound, AllBacked
<1>5. CASE SessionEnds
  BY <1>1, <1>5 DEF SessionEnds
<1>6. ASSUME NEW p \in Proc, WriteDisable(p) \/ WriteEnable(p) \/ WriteDelete(p) \/ WriteRole(p)
      PROVE  Backed(users', req'[q]) /\ (req'[q].fresh => Sound(users', req'[q]))
  <2>1. CASE q # p
    <3>1. req'[q] = [req[q] EXCEPT !.fresh = FALSE]
      BY <1>6, <2>1, TargetWrites, <1>0
    <3>2. ~[req[q] EXCEPT !.fresh = FALSE].fresh
      BY <1>1 DEF Request
    <3> QED
      BY <1>2, <3>1, <3>2
  <2>2. CASE q = p /\ req'[p] # Idle
    <3>1. /\ req[p].op = "disable" /\ req[p].pc = "write"
          /\ req'[p] = [req[p] EXCEPT !.pc = "revoke"]
      BY <1>0, <1>6, <2>2, TargetWrites
    <3>2. Sound(users', req'[p])
      BY <1>1, <3>1 DEF Sound, Request
    <3>3. Backed(users', req'[p])
      BY <1>1, <1>2, <3>1 DEF Backed, Request
    <3> QED
      BY <2>2, <3>2, <3>3
  <2> QED
    BY <1>3, <2>1, <2>2
<1>7. ASSUME NEW p \in Proc, InsertUser(p)
      PROVE  Backed(users', req'[q]) /\ (req'[q].fresh => Sound(users', req'[q]))
  <2>1. CASE req'[q] = Idle
    BY <1>3, <2>1
  <2>2. CASE users' = users /\ req'[q] = req[q]
    BY <1>1, <2>2
  <2>3. CASE req'[q] = [req[q] EXCEPT !.fresh = FALSE]
    <3>1. ~[req[q] EXCEPT !.fresh = FALSE].fresh
      BY <1>1 DEF Request
    <3> QED
      BY <1>2, <2>3, <3>1
  <2>4. CASE Finish(p) /\ UNCHANGED users
    BY <2>1, <2>2, <2>4, <1>0 DEF Finish, TypeOK
  <2>5. CASE \E table : Write(p, table, Idle)
    BY <2>1, <2>3, <2>5 DEF Write
  <2> QED
    BY <1>7, <2>4, <2>5 DEF InsertUser
<1>8. ASSUME NEW p \in Proc,
             \/ BeginManage(p) \/ LoadTarget(p) \/ CountHolders(p)
             \/ BeginCreate(p) \/ LookupEmail(p)
             \/ BeginMint(p) \/ BeginRevokeKey(p) \/ LoadKey(p)
             \/ BeginSignIn(p) \/ StoreError(p)
             \/ RevokeSessions(p) \/ InsertKey(p) \/ WriteRevokeKey(p) \/ InsertSession(p)
      PROVE  Backed(users', req'[q]) /\ (req'[q].fresh => Sound(users', req'[q]))
  <2>1. users' = users /\ (q # p => req'[q] = req[q])
    BY <1>0, <1>8, OtherSteps
  <2>2. Backed(users, req'[p]) /\ (req'[p].fresh => Sound(users, req'[p]))
    BY <1>0, <1>8, BeginBacked, StepBacked
  <2> QED
    BY <1>1, <2>1, <2>2
<1> QED
  BY <1>5, <1>6, <1>7, <1>8, UserSteps

LEMMA KeysKept ==
    ASSUME IInv, Next
    PROVE  KeysOwned'
<1>0. TypeOK /\ Grows /\ KeysOwned
  BY RowsGrow DEF IInv
<1>1. SUFFICES ASSUME NEW k \in KeyId, keys'[k].status = "live"
               PROVE  keys'[k].owner \in UserId /\ users'[keys'[k].owner].status # "unused"
  BY DEF KeysOwned
<1>2. CASE keys'[k].owner = keys[k].owner /\ keys[k].status = "live"
  BY <1>0, <1>2 DEF KeysOwned, Grows
<1>3. CASE \E p \in Proc : InsertKey(p) /\ Live(req[p].by.user) /\ keys'[k] # keys[k]
  BY <1>0, <1>3 DEF InsertKey, TypeOK, Live
<1>4. CASE \E p \in Proc : WriteDelete(p)
  BY <1>0, <1>1, <1>2, <1>4 DEF WriteDelete, NoKeyRow, TypeOK
<1>5. CASE \E p \in Proc : WriteRevokeKey(p)
  BY <1>0, <1>1, <1>2, <1>5 DEF WriteRevokeKey, TypeOK
<1>6. CASE keys' = keys
  BY <1>1, <1>2, <1>6
<1>7. CASE \E p \in Proc : InsertKey(p)
  BY <1>3, <1>6, <1>7, <1>1, <1>2 DEF InsertKey
<1>8. \/ keys' = keys
      \/ \E p \in Proc : InsertKey(p) \/ WriteDelete(p) \/ WriteRevokeKey(p)
  <2>1. CASE SessionEnds
    BY <2>1 DEF SessionEnds
  <2>2. CASE \E p \in Proc : InsertUser(p) \/ WriteDisable(p) \/ WriteEnable(p) \/ WriteRole(p)
    BY <2>2 DEF InsertUser, WriteDisable, WriteEnable, WriteRole
  <2>3. CASE \E p \in Proc : \/ LoadTarget(p) \/ CountHolders(p) \/ LookupEmail(p) \/ LoadKey(p)
                             \/ StoreError(p) \/ RevokeSessions(p) \/ InsertSession(p)
    BY <2>3 DEF LoadTarget, CountHolders, LookupEmail, LoadKey, StoreError, RevokeSessions,
                InsertSession
  <2>4. CASE \E p \in Proc : \/ BeginManage(p) \/ BeginCreate(p) \/ BeginMint(p)
                             \/ BeginRevokeKey(p) \/ BeginSignIn(p)
    BY <2>4, ZenonT(30) DEF BeginManage, BeginCreate, BeginMint, BeginRevokeKey, BeginSignIn, Begin
  <2> QED
    BY <2>1, <2>2, <2>3, <2>4, UserSteps
<1> QED
  BY <1>4, <1>5, <1>6, <1>7, <1>8

LEMMA NextInv == IInv /\ [Next]_vars => IInv'
<1>1. ASSUME IInv, UNCHANGED vars PROVE IInv'
  BY <1>1 DEF IInv, TypeOK, FreshSound, AllBacked, KeysOwned, vars
<1>2. ASSUME IInv, Next PROVE IInv'
  <2>1. TypeOK'
    <3>1. CASE SessionEnds
      BY <1>2, <3>1 DEF SessionEnds, TypeOK, IInv
    <3> QED
      BY <1>2, <3>1, Steps, ReadType, WriteStepType DEF IInv
  <2> QED
    BY <1>2, <2>1, RequestsKept, KeysKept DEF IInv
<1> QED
  BY <1>1, <1>2

LEMMA Invariance == Spec => []IInv
  BY InitInv, NextInv, PTL DEF Spec

-----------------------------------------------------------------------------
(* The action properties, each from the inductive invariant.               *)

\* Which step can have changed a row.
LEMMA RowChanges ==
    ASSUME IInv, Next, NEW u \in UserId, Changed(u)
    PROVE  \E p \in Proc :
             \/ /\ WriteDisable(p) \/ WriteEnable(p) \/ WriteDelete(p) \/ WriteRole(p)
                /\ u = req[p].target
             \/ InsertUser(p) /\ users[u].status = "unused"
<1>1. TypeOK
  BY DEF IInv
<1>2. CASE \E p \in Proc :
             WriteDisable(p) \/ WriteEnable(p) \/ WriteDelete(p) \/ WriteRole(p)
  BY <1>1, <1>2, TargetWrites DEF Changed
<1>3. CASE \E p \in Proc : InsertUser(p)
  BY <1>1, <1>3, InsertWrites DEF Changed
<1> QED
  BY <1>1, <1>2, <1>3, UserSteps, OtherSteps DEF Changed, SessionEnds

\* A request that writes moves on.
LEMMA WritersMove ==
    ASSUME TypeOK, NEW p \in Proc,
           \/ WriteDisable(p) \/ WriteEnable(p) \/ WriteDelete(p) \/ WriteRole(p)
           \/ InsertUser(p)
    PROVE  Moved(p)
<1>1. req[p] \in Request /\ req[p].pc = "write"
  BY TargetWrites, InsertWrites DEF TypeOK
<1>2. req'[p] = Idle \/ req'[p] = [req[p] EXCEPT !.pc = "revoke"]
  BY TargetWrites, InsertWrites
<1> QED
  BY <1>1, <1>2 DEF Moved, Idle, Request

\* The last enabled holder of a protected role is lost only to a request
\* that another one overtook.
THEOREM HoldersKept == Spec => HolderLostOnlyByRace
<1>1. ASSUME IInv, Next, NEW o \in Org, NEW role \in Role, Protected(Rules, role),
             HasHolder(users, o, role), ~HasHolder(users', o, role)
      PROVE  \E p \in Proc : Moved(p) /\ ~req[p].fresh
  <2>0. TypeOK /\ FreshSound
    BY <1>1 DEF IInv
  <2>1. PICK u \in UserId : /\ users[u].status = "live" /\ ~users[u].disabled
                            /\ users[u].org = o /\ users[u].role = role
    BY <1>1 DEF HasHolder
  <2>2. Changed(u)
    BY <1>1, <2>1 DEF Changed, HasHolder
  <2>3. PICK p \in Proc :
          /\ WriteDisable(p) \/ WriteEnable(p) \/ WriteDelete(p) \/ WriteRole(p)
          /\ u = req[p].target
    BY <1>1, <2>1, <2>2, RowChanges
  <2>4. Moved(p)
    BY <2>0, <2>3, WritersMove
  <2>5. ASSUME req[p].fresh PROVE FALSE
    <3>1. /\ req[p].op \in ManageOps /\ req[p].pc = "write"
          /\ \A v \in UserId : v # u => users'[v] = users[v]
      BY <2>0, <2>3, TargetWrites
    <3>2. CASE req[p].op = "enable"
      <4>1. /\ users'[u].status = "live" /\ ~users'[u].disabled
            /\ users'[u].org = o /\ users'[u].role = role
        BY <2>0, <2>1, <2>3, <3>2, RowWrites
      <4> QED
        BY <1>1, <4>1 DEF HasHolder
    <3>3. CASE req[p].op # "enable"
      <4>1. \E v \in UserId \ {u} : /\ users[v].status = "live" /\ ~users[v].disabled
                                    /\ users[v].org = o /\ users[v].role = role
        BY <1>1, <2>0, <2>1, <2>3, <2>5, <3>1, <3>3 DEF FreshSound, Sound
      <4> QED
        BY <1>1, <3>1, <4>1 DEF HasHolder
    <3> QED
      BY <3>2, <3>3
  <2> QED
    BY <2>4, <2>5
<1>2. IInv /\ [Next]_vars =>
        [\A o \in Org, role \in Role :
           Protected(Rules, role) /\ HasHolder(users, o, role) /\ ~HasHolder(users', o, role)
              => \E p \in Proc : Moved(p) /\ ~req[p].fresh]_vars
  BY <1>1
<1> QED
  BY <1>2, Invariance, PTL DEF Spec, HolderLostOnlyByRace

\* Acting on a guarded account takes the guarding permission, unless the
\* request was overtaken.
THEOREM SeniorityKept == Spec => SeniorityRespected
<1>1. ASSUME IInv, Next, NEW u \in UserId, Live(u), Changed(u)
      PROVE  \E p \in Proc : /\ Moved(p)
                             /\ req[p].fresh => MayHandle(Rules, req[p].by.role, users[u].role)
  <2>0. TypeOK /\ FreshSound
    BY <1>1 DEF IInv
  <2>1. PICK p \in Proc :
          /\ WriteDisable(p) \/ WriteEnable(p) \/ WriteDelete(p) \/ WriteRole(p)
          /\ u = req[p].target
    BY <1>1, RowChanges DEF Live
  <2>2. req[p].pc = "write" /\ Moved(p)
    BY <2>0, <2>1, TargetWrites, WritersMove
  <2>3. req[p].fresh => MayHandle(Rules, req[p].by.role, users[u].role)
    BY <2>0, <2>1, <2>2 DEF FreshSound, Sound
  <2> QED
    BY <2>2, <2>3
<1>2. IInv /\ [Next]_vars =>
        [\A u \in UserId : Live(u) /\ Changed(u) =>
          \E p \in Proc : /\ Moved(p)
                          /\ req[p].fresh => MayHandle(Rules, req[p].by.role, users[u].role)]_vars
  BY <1>1
<1> QED
  BY <1>2, Invariance, PTL DEF Spec, SeniorityRespected

\* Every change to an account is within the authority of whoever made it,
\* however many requests interleave.
THEOREM AuthorityBounded == Spec => WithinAuthority
<1> DEFINE Mandated(u) ==
      \E p \in Proc :
         LET by == req[p].by
         IN  /\ Moved(p)
             /\ MayManage(by) /\ by.user # u
             /\ by.org = (IF users[u].status = "live" THEN users[u].org ELSE users'[u].org)
             /\ users'[u].status = "live" /\ users'[u].role # users[u].role
                  => MayHandle(Rules, by.role, users'[u].role)
<1>1. ASSUME IInv, Next, NEW u \in UserId, Changed(u)
      PROVE  Mandated(u)
  <2>0. TypeOK /\ AllBacked /\ Grows
    BY <1>1, RowsGrow DEF IInv
  <2>1. ASSUME NEW p \in Proc, u = req[p].target,
               WriteDisable(p) \/ WriteEnable(p) \/ WriteDelete(p) \/ WriteRole(p)
        PROVE  Mandated(u)
    <3>1. Moved(p) /\ req[p].op \in ManageOps /\ req[p].pc = "write"
      BY <2>0, <2>1, TargetWrites, WritersMove
    <3>2. Backed(users, req[p])
      BY <2>0 DEF AllBacked
    <3>3. /\ MayManage(req[p].by) /\ req[p].by.user # u /\ users[u].status # "unused"
          /\ users[u].status = "live" => users[u].org = req[p].by.org
          /\ req[p].op = "setRole" => MayHandle(Rules, req[p].by.role, req[p].role)
      BY <2>1, <3>1, <3>2 DEF Backed
    <3>4. users[u].status = "live"
      BY <1>1, <2>0, <2>1 DEF Changed, WriteDisable, WriteEnable, WriteRole, WriteDelete,
                              Write, Live, TypeOK
    <3>5. users'[u].status = "live" /\ users'[u].role # users[u].role =>
            MayHandle(Rules, req[p].by.role, users'[u].role)
      BY <2>0, <2>1, <3>3, RowWrites
    <3> QED
      BY <3>1, <3>3, <3>4, <3>5
  <2>2. ASSUME NEW p \in Proc, InsertUser(p), users[u].status = "unused"
        PROVE  Mandated(u)
    <3>1. /\ Moved(p) /\ req[p].op = "create" /\ req[p].pc = "write"
          /\ users'[u].org = req[p].by.org /\ users'[u].role = req[p].role
      BY <1>1, <2>0, <2>2, InsertWrites, WritersMove DEF Changed
    <3>2. Backed(users, req[p])
      BY <2>0 DEF AllBacked
    <3>3. /\ MayManage(req[p].by) /\ MayHandle(Rules, req[p].by.role, req[p].role)
          /\ req[p].by.user # NoUser => users[req[p].by.user].status # "unused"
      BY <3>1, <3>2 DEF Backed
    <3>4. req[p].by.user # u
      BY <2>2, <3>3, RosterAssumption
    <3> QED
      BY <2>2, <3>1, <3>3, <3>4
  <2> QED
    BY <1>1, <2>1, <2>2, RowChanges
<1>2. IInv /\ [Next]_vars => [\A u \in UserId : Changed(u) => Mandated(u)]_vars
  BY <1>1
<1> QED
  BY <1>2, Invariance, PTL DEF Spec, WithinAuthority

\* Whoever may give a role that carries a guarded permission carries one too.
LEMMA GivingNeedsHaving ==
    ASSUME NEW Q, SelfGuarded(Q), NEW giver, NEW role \in Role \cup {NoRole},
           MayHandle(Rules, giver, role), Carries(role, Q)
    PROVE  Carries(giver, Q)
<1>1. role \in Role
  BY EmptyNamesAssumption, RosterAssumption DEF Carries, Held, Built, Table, PartialMap
<1>2. Privileged(Rules, role) /\ GuardOf(Rules, role) \in Q
  BY <1>1 DEF SelfGuarded
<1> QED
  BY <1>2 DEF MayHandle, Can, Carries

\* A caller's role is held in the caller's organization.
LEMMA CallersInOrg ==
    ASSUME TypeOK, NEW Q, NEW by \in Callers, Carries(by.role, Q)
    PROVE  InOrg(by.org, Q)
<1>1. CASE \E u \in LiveSessions : by = SessionIdentity(u)
  BY <1>1 DEF LiveSessions, SessionIdentity, Enabled, Live, InOrg, TypeOK
<1>2. CASE \E k \in LiveKeys : by = KeyIdentity(k)
  BY <1>2 DEF LiveKeys, KeyIdentity, Enabled, Live, InOrg, TypeOK
<1>3. CASE \E o \in Org : by = SystemIdentity(o)
  BY <1>3 DEF SystemIdentity, InOrg
<1> QED
  BY <1>1, <1>2, <1>3 DEF Callers

\* The identity a request acts under is one it began with.
LEMMA IdentitiesBegin ==
    ASSUME TypeOK, Next, NEW q \in Proc, req'[q].pc # "idle"
    PROVE  \/ req'[q].by = req[q].by /\ req[q].pc # "idle"
           \/ req'[q].by \in Callers
           \/ req'[q].by = Nobody
<1>0. req \in [Proc -> Request]
  BY DEF TypeOK
<1>1. CASE SessionEnds
  BY <1>1 DEF SessionEnds
<1>2. CASE \E p \in Proc :
             WriteDisable(p) \/ WriteEnable(p) \/ WriteDelete(p) \/ WriteRole(p)
  <2>1. PICK p \in Proc :
          WriteDisable(p) \/ WriteEnable(p) \/ WriteDelete(p) \/ WriteRole(p)
    BY <1>2
  <2>2. req'[p] = Idle \/ req'[p] = [req[p] EXCEPT !.pc = "revoke"]
    BY <2>1, TargetWrites
  <2>3. req[p].pc = "write" /\ (q # p => req'[q] = [req[q] EXCEPT !.fresh = FALSE])
    BY <2>1, TargetWrites
  <2> QED
    BY <1>0, <2>2, <2>3 DEF Idle, Request
<1>3. CASE \E p \in Proc : InsertUser(p)
  <2>1. PICK p \in Proc : InsertUser(p)
    BY <1>3
  <2>2. /\ req'[p] = Idle
        /\ q # p => req'[q] \in {req[q], [req[q] EXCEPT !.fresh = FALSE]}
    BY <2>1, InsertWrites
  <2> QED
    BY <1>0, <2>2 DEF Idle, Request
<1>4. ASSUME NEW p \in Proc,
             BeginManage(p) \/ BeginCreate(p) \/ BeginMint(p) \/ BeginRevokeKey(p) \/ BeginSignIn(p)
      PROVE  req'[p].by \in Callers \/ req'[p].by = Nobody
  <2>1. CASE BeginManage(p)
    <3>1. PICK op \in ManageOps, by \in Callers, target \in UserId, role \in Role \cup {NoRole} :
            Begin(p, [Idle EXCEPT !.pc = "load", !.op = op, !.by = by,
                                  !.target = target, !.role = role])
      BY <2>1 DEF BeginManage
    <3> QED
      BY <1>0, <3>1 DEF Begin, Idle
  <2>2. CASE BeginCreate(p)
    <3>1. PICK by \in Callers, role \in Role :
            Begin(p, [Idle EXCEPT !.pc = "load", !.op = "create", !.by = by, !.role = role])
      BY <2>2 DEF BeginCreate
    <3> QED
      BY <1>0, <3>1 DEF Begin, Idle
  <2>3. CASE BeginMint(p)
    <3>1. PICK by \in Callers, requested \in Role :
            Begin(p, [Idle EXCEPT !.pc = "write", !.op = "mintKey", !.by = by,
                        !.role = AtMost(Rules, IF Valid(Rules, requested) THEN requested
                                                                          ELSE by.role, by.role)])
      BY <2>3 DEF BeginMint
    <3> QED
      BY <1>0, <3>1 DEF Begin, Idle
  <2>4. CASE BeginRevokeKey(p)
    <3>1. PICK by \in Callers, k \in KeyId :
            Begin(p, [Idle EXCEPT !.pc = "load", !.op = "revokeKey", !.by = by, !.key = k])
      BY <2>4 DEF BeginRevokeKey
    <3> QED
      BY <1>0, <3>1 DEF Begin, Idle
  <2>5. CASE BeginSignIn(p)
    <3>1. PICK u \in UserId :
            Begin(p, [Idle EXCEPT !.pc = "write", !.op = "signIn", !.target = u])
      BY <2>5 DEF BeginSignIn
    <3> QED
      BY <1>0, <3>1 DEF Begin, Idle
  <2> QED
    BY <1>4, <2>1, <2>2, <2>3, <2>4, <2>5
<1>5. ASSUME NEW p \in Proc,
             \/ LoadTarget(p) \/ CountHolders(p) \/ LookupEmail(p) \/ LoadKey(p)
             \/ StoreError(p) \/ RevokeSessions(p) \/ InsertKey(p)
             \/ WriteRevokeKey(p) \/ InsertSession(p)
      PROVE  \/ req'[p] = Idle
             \/ req'[p].by = req[p].by /\ req[p].pc # "idle"
  <2>1. CASE Finish(p)
    BY <1>0, <2>1 DEF Finish
  <2>2. CASE LoadTarget(p) /\ ~Finish(p)
    <3>1. req'[p] = Loaded(req[p]) /\ req[p].pc = "load"
      BY <1>0, <2>2 DEF LoadTarget
    <3> QED
      BY <1>0, <3>1 DEF Loaded, Request
  <2>3. CASE CountHolders(p) /\ ~Finish(p)
    <3>1. req[p].pc = "count" /\ req' = [req EXCEPT ![p].pc = "write", ![p].found = NoRole]
      BY <2>3 DEF CountHolders
    <3> QED
      BY <1>0, <3>1 DEF Request
  <2>4. CASE (LookupEmail(p) \/ LoadKey(p)) /\ ~Finish(p)
    BY <1>0, <2>4 DEF LookupEmail, LoadKey, At, Goto, Request
  <2> QED
    BY <1>5, <2>1, <2>2, <2>3, <2>4
       DEF StoreError, RevokeSessions, InsertKey, WriteRevokeKey, InsertSession
<1> QED
  BY <1>1, <1>2, <1>3, <1>4, <1>5, UserSteps, OtherSteps DEF Idle

\* Which step can have put a live key there.
LEMMA KeyChanges ==
    ASSUME TypeOK, Next, NEW k \in KeyId, keys'[k].status = "live"
    PROVE  \/ keys'[k] = keys[k]
           \/ \E p \in Proc : /\ req[p].op = "mintKey" /\ req[p].pc = "write"
                              /\ keys'[k].role = req[p].role
                              /\ keys'[k].owner = req[p].by.user /\ Live(req[p].by.user)
                              /\ users' = users
<1>1. CASE \E p \in Proc : InsertKey(p)
  BY <1>1 DEF InsertKey, At, TypeOK
<1>2. CASE \E p \in Proc : WriteDelete(p)
  BY <1>2 DEF WriteDelete, NoKeyRow, TypeOK
<1>3. CASE \E p \in Proc : WriteRevokeKey(p)
  BY <1>3 DEF WriteRevokeKey, TypeOK
<1>4. CASE keys' = keys
  BY <1>4
<1>5. CASE SessionEnds
  BY <1>4, <1>5 DEF SessionEnds
<1>6. CASE \E p \in Proc : InsertUser(p) \/ WriteDisable(p) \/ WriteEnable(p) \/ WriteRole(p)
  BY <1>4, <1>6 DEF InsertUser, WriteDisable, WriteEnable, WriteRole
<1>7. CASE \E p \in Proc : \/ LoadTarget(p) \/ CountHolders(p) \/ LookupEmail(p) \/ LoadKey(p)
                           \/ StoreError(p) \/ RevokeSessions(p) \/ InsertSession(p)
  BY <1>4, <1>7 DEF LoadTarget, CountHolders, LookupEmail, LoadKey, StoreError, RevokeSessions,
              InsertSession
<1>8. CASE \E p \in Proc : \/ BeginManage(p) \/ BeginCreate(p) \/ BeginMint(p)
                           \/ BeginRevokeKey(p) \/ BeginSignIn(p)
  BY <1>4, <1>8, ZenonT(30) DEF BeginManage, BeginCreate, BeginMint, BeginRevokeKey, BeginSignIn, Begin
<1> QED
  BY <1>1, <1>2, <1>3, <1>5, <1>6, <1>7, <1>8, UserSteps

\* An organization gains no guarded authority that nobody in it had,
\* whatever accounts, roles and keys are handed around.
THEOREM NoNewAuthority == Spec => NoAuthorityFromNothing
<1>1. ASSUME IInv, Next, NEW o \in Org, NEW Q \in SUBSET GuardPermissions,
             SelfGuarded(Q), InOrg(o, Q)'
      PROVE  InOrg(o, Q)
  <2>0. TypeOK /\ AllBacked /\ KeysOwned /\ Grows
    BY <1>1, RowsGrow DEF IInv
  <2>1. ASSUME NEW p \in Proc, req[p].pc # "idle", req[p].by.org = o, Carries(req[p].by.role, Q)
        PROVE  InOrg(o, Q)
    BY <2>1 DEF InOrg
  <2>2. CASE Carries(Rules.adminRole, Q)
    BY <2>2 DEF InOrg
  <2>3. ASSUME NEW u \in UserId, users'[u].status = "live", users'[u].org = o,
               Carries(users'[u].role, Q)
        PROVE  InOrg(o, Q)
    <3>1. CASE users[u].status = "live" /\ users'[u].role = users[u].role
      BY <2>0, <2>3, <3>1 DEF InOrg, Live, Grows
    <3>2. CASE Changed(u) /\ users[u].status # "unused" /\ users'[u].role # users[u].role
      <4>1. PICK p \in Proc :
              /\ WriteDisable(p) \/ WriteEnable(p) \/ WriteDelete(p) \/ WriteRole(p)
              /\ u = req[p].target
        BY <1>1, <3>2, RowChanges
      <4>2. /\ req[p].op = "setRole" /\ users'[u].role = req[p].role
            /\ users[u].status = "live" /\ users[u].org = o
        BY <2>0, <2>3, <3>2, <4>1, RowWrites
      <4>3. req[p].pc = "write" /\ req[p].role \in Role \cup {NoRole}
        BY <2>0, <4>1, TargetWrites DEF TypeOK, Request
      <4>4. MayHandle(Rules, req[p].by.role, req[p].role) /\ req[p].by.org = o
        BY <2>0, <4>1, <4>2, <4>3 DEF AllBacked, Backed
      <4>5. Carries(req[p].by.role, Q)
        BY <1>1, <2>3, <4>2, <4>3, <4>4, GivingNeedsHaving
      <4> QED
        BY <2>1, <4>3, <4>4, <4>5
    <3>3. CASE Changed(u) /\ users[u].status = "unused"
      <4>1. PICK p \in Proc : InsertUser(p)
        <5>1. ASSUME NEW p \in Proc,
                     WriteDisable(p) \/ WriteEnable(p) \/ WriteDelete(p) \/ WriteRole(p)
              PROVE  FALSE
          BY <2>0, <2>3, <3>3, <5>1, RowWrites DEF Changed
        <5> QED
          BY <1>1, <3>3, <5>1, RowChanges
      <4>2. /\ req[p].op = "create" /\ req[p].pc = "write"
            /\ users'[u].org = req[p].by.org /\ users'[u].role = req[p].role
        BY <2>0, <3>3, <4>1, InsertWrites DEF Changed
      <4>3. MayHandle(Rules, req[p].by.role, req[p].role) /\ req[p].role \in Role \cup {NoRole}
        BY <2>0, <4>2 DEF AllBacked, Backed, TypeOK, Request
      <4>4. Carries(req[p].by.role, Q)
        BY <1>1, <2>3, <4>2, <4>3, GivingNeedsHaving
      <4> QED
        BY <2>1, <2>3, <4>2, <4>4
    <3> QED
      BY <2>0, <2>3, <3>1, <3>2, <3>3 DEF Changed, Grows
  <2>4. ASSUME NEW k \in KeyId, keys'[k].status = "live", Carries(keys'[k].role, Q),
               keys'[k].owner \in UserId, users'[keys'[k].owner].status = "live",
               users'[keys'[k].owner].org = o
        PROVE  InOrg(o, Q)
    <3>1. CASE keys'[k] = keys[k]
      <4>1. Live(keys[k].owner) /\ users[keys[k].owner].org = o
        BY <2>0, <2>4, <3>1 DEF KeysOwned, Grows, Live
      <4> QED
        BY <2>4, <3>1, <4>1 DEF InOrg
    <3>2. CASE \E p \in Proc : /\ req[p].op = "mintKey" /\ req[p].pc = "write"
                               /\ keys'[k].role = req[p].role
                               /\ keys'[k].owner = req[p].by.user /\ Live(req[p].by.user)
                               /\ users' = users
      <4>1. PICK p \in Proc : /\ req[p].op = "mintKey" /\ req[p].pc = "write"
                              /\ keys'[k].role = req[p].role
                              /\ keys'[k].owner = req[p].by.user /\ Live(req[p].by.user)
                              /\ users' = users
        BY <3>2
      <4>2. /\ Held(Rules, req[p].role) \subseteq Held(Rules, req[p].by.role)
            /\ req[p].by.org = o
        BY <2>0, <2>4, <4>1, RosterAssumption DEF AllBacked, Backed, Live
      <4>3. Carries(req[p].by.role, Q)
        BY <2>4, <4>1, <4>2 DEF Carries
      <4> QED
        BY <2>1, <4>1, <4>2, <4>3
    <3> QED
      BY <1>1, <2>0, <2>4, <3>1, <3>2, KeyChanges
  <2>5. ASSUME NEW q \in Proc, req'[q].pc # "idle", req'[q].by.org = o,
               Carries(req'[q].by.role, Q)
        PROVE  InOrg(o, Q)
    <3>1. CASE req'[q].by = req[q].by /\ req[q].pc # "idle"
      BY <2>1, <2>5, <3>1
    <3>2. CASE req'[q].by \in Callers
      BY <2>0, <2>5, <3>2, CallersInOrg
    <3>3. CASE req'[q].by = Nobody
      BY <2>5, <3>3, RosterAssumption DEF Nobody
    <3> QED
      BY <1>1, <2>0, <2>5, <3>1, <3>2, <3>3, IdentitiesBegin
  <2>6. \/ Carries(Rules.adminRole, Q)
        \/ \E u \in UserId : /\ users'[u].status = "live" /\ users'[u].org = o
                             /\ Carries(users'[u].role, Q)
        \/ \E k \in KeyId : /\ keys'[k].status = "live" /\ Carries(keys'[k].role, Q)
                            /\ keys'[k].owner \in UserId /\ users'[keys'[k].owner].status = "live"
                            /\ users'[keys'[k].owner].org = o
        \/ \E p \in Proc : /\ req'[p].pc # "idle" /\ req'[p].by.org = o
                           /\ Carries(req'[p].by.role, Q)
    BY <1>1 DEF InOrg, Live, Carries
  <2> QED
    BY <2>2, <2>3, <2>4, <2>5, <2>6
<1>2. IInv /\ [Next]_vars =>
        [\A o \in Org, Q \in SUBSET GuardPermissions :
           SelfGuarded(Q) /\ InOrg(o, Q)' => InOrg(o, Q)]_vars
  BY <1>1
<1> QED
  BY <1>2, Invariance, PTL DEF Spec, NoAuthorityFromNothing

-----------------------------------------------------------------------------
(* Enabling a suspended account. That its sessions are gone by then is     *)
(* true of one request at a time, when no store call fails: the rest of    *)
(* the section supposes both.                                              *)

Alone == (\A p, q \in Proc : p = q) /\ ~Faults

\* A suspended account's sessions are gone, or about to go; whoever is about to
\* get one is not suspended.
SignedOut ==
    /\ \A u \in UserId : Live(u) /\ users[u].disabled /\ u \in sessions =>
          \E p \in Proc : At(p, "disable", "revoke") /\ req[p].target = u
    /\ \A p \in Proc : At(p, "signIn", "write") /\ Live(req[p].target) =>
          ~users[req[p].target].disabled
    /\ \A p \in Proc : req[p].pc = "count" => req[p].op # "signIn"

\* What a step that only reads comes to.
LEMMA ReadsLeave ==
    ASSUME TypeOK, ~Faults, NEW p \in Proc, req[p].pc = "count" => req[p].op # "signIn",
           \/ BeginManage(p) \/ LoadTarget(p) \/ CountHolders(p)
           \/ BeginCreate(p) \/ LookupEmail(p)
           \/ BeginMint(p) \/ BeginRevokeKey(p) \/ LoadKey(p)
           \/ BeginSignIn(p) \/ StoreError(p)
    PROVE  /\ UNCHANGED <<users, sessions>>
           /\ ~At(p, "disable", "revoke")
           /\ At(p, "signIn", "write")' => Enabled(req'[p].target)
           /\ req'[p].pc = "count" => req'[p].op # "signIn"
<1> USE DEF At
<1>1. CASE BeginManage(p)
  <2>1. PICK op \in ManageOps, by \in Callers, target \in UserId, role \in Role \cup {NoRole} :
          Begin(p, [Idle EXCEPT !.pc = "load", !.op = op, !.by = by,
                                !.target = target, !.role = role])
    BY <1>1 DEF BeginManage
  <2>2. req'[p].op = op /\ UNCHANGED <<users, sessions>> /\ req[p].pc = "idle"
    BY <1>1, <2>1 DEF Begin, BeginManage, Free, Idle, TypeOK
  <2> QED
    BY <2>2
<1>2. CASE LoadTarget(p)
  <2>1. /\ UNCHANGED <<users, sessions>> /\ req[p].pc = "load" /\ req[p].op \in ManageOps
        /\ \/ req' = [req EXCEPT ![p] = Idle]
           \/ req' = [req EXCEPT ![p] = Loaded(req[p])]
    BY <1>2 DEF LoadTarget, Finish
  <2>2. Loaded(req[p]).op = req[p].op /\ Idle.pc = "idle"
    BY DEF Loaded, TypeOK, Request, Idle
  <2> QED
    BY <2>1, <2>2 DEF TypeOK
<1>3. CASE CountHolders(p)
  <2>1. UNCHANGED <<users, sessions>> /\ req[p].pc = "count"
    BY <1>3 DEF CountHolders
  <2>2. CASE Finish(p)
    BY <2>1, <2>2 DEF Finish, Idle, TypeOK
  <2>3. CASE req' = [req EXCEPT ![p].pc = "write", ![p].found = NoRole]
    <3>1. req' = [req EXCEPT ![p] = [req[p] EXCEPT !.pc = "write", !.found = NoRole]]
      BY <2>3
    <3>2. req'[p].op = req[p].op /\ req'[p].pc = "write"
      BY <3>1 DEF TypeOK, Request
    <3> QED
      BY <2>1, <3>2
  <2> QED
    BY <1>3, <2>2, <2>3 DEF CountHolders
<1>4. CASE BeginCreate(p)
  <2>1. PICK by \in Callers, role \in Role :
          Begin(p, [Idle EXCEPT !.pc = "load", !.op = "create", !.by = by, !.role = role])
    BY <1>4 DEF BeginCreate
  <2> QED
    BY <1>4, <2>1 DEF Begin, BeginCreate, Free, Idle, TypeOK
<1>5. CASE LookupEmail(p)
  <2>1. /\ UNCHANGED <<users, sessions>> /\ req[p].op = "create"
        /\ Finish(p) \/ Goto(p, "write")
    BY <1>5 DEF LookupEmail
  <2> QED
    BY <2>1 DEF Finish, Goto, Idle, TypeOK, Request
<1>6. CASE BeginMint(p)
  <2>1. PICK by \in Callers : \E role :
          Begin(p, [Idle EXCEPT !.pc = "write", !.op = "mintKey", !.by = by, !.role = role])
    BY <1>6 DEF BeginMint
  <2>2. PICK role :
          Begin(p, [Idle EXCEPT !.pc = "write", !.op = "mintKey", !.by = by, !.role = role])
    BY <2>1
  <2> QED
    BY <1>6, <2>2 DEF Begin, BeginMint, Free, Idle, TypeOK
<1>7. CASE BeginRevokeKey(p)
  <2>1. PICK by \in Callers, k \in KeyId :
          Begin(p, [Idle EXCEPT !.pc = "load", !.op = "revokeKey", !.by = by, !.key = k])
    BY <1>7 DEF BeginRevokeKey
  <2> QED
    BY <1>7, <2>1 DEF Begin, BeginRevokeKey, Free, Idle, TypeOK
<1>8. CASE LoadKey(p)
  <2>1. /\ UNCHANGED <<users, sessions>> /\ req[p].op = "revokeKey"
        /\ Finish(p) \/ Goto(p, "write")
    BY <1>8 DEF LoadKey
  <2> QED
    BY <2>1 DEF Finish, Goto, Idle, TypeOK, Request
<1>9. CASE BeginSignIn(p)
  <2>1. PICK u \in UserId :
          /\ Enabled(u)
          /\ Begin(p, [Idle EXCEPT !.pc = "write", !.op = "signIn", !.target = u])
    BY <1>9 DEF BeginSignIn
  <2>2. /\ req'[p].target = u /\ req'[p].pc = "write"
        /\ UNCHANGED <<users, sessions>> /\ req[p].pc = "idle"
    BY <1>9, <2>1 DEF Begin, BeginSignIn, Free, Idle, TypeOK
  <2> QED
    BY <2>1, <2>2
<1>10. CASE StoreError(p)
  BY <1>10 DEF StoreError
<1> QED
  BY <1>1, <1>2, <1>3, <1>4, <1>5, <1>6, <1>7, <1>8, <1>9, <1>10

\* What a step that writes does to suspensions and sessions.
LEMMA WritesLeave ==
    ASSUME TypeOK, NEW p \in Proc,
           \/ WriteDisable(p) \/ RevokeSessions(p) \/ WriteEnable(p)
           \/ WriteDelete(p) \/ WriteRole(p) \/ InsertUser(p)
           \/ InsertKey(p) \/ WriteRevokeKey(p) \/ InsertSession(p)
    PROVE  /\ ~At(p, "signIn", "write")' /\ req'[p].pc # "count"
           /\ \/ /\ At(p, "disable", "revoke") /\ users' = users
                 /\ sessions' = sessions \ {req[p].target}
              \/ /\ At(p, "signIn", "write") /\ users' = users
                 /\ sessions' \subseteq sessions \cup {req[p].target}
              \/ /\ ~At(p, "disable", "revoke") /\ sessions' \subseteq sessions
                 /\ \A u \in UserId : (Live(u) /\ users[u].disabled)' =>
                       \/ Live(u) /\ users[u].disabled
                       \/ At(p, "disable", "revoke")' /\ req'[p].target = u
<1> USE DEF At
<1>1. CASE WriteDisable(p)
  <2> DEFINE u == req[p].target
             next == [req[p] EXCEPT !.pc = "revoke"]
  <2>1. next.pc = "revoke" /\ next.op = req[p].op /\ next.target = u
    BY DEF TypeOK, Request
  <2>2. /\ req'[p] = next /\ UNCHANGED sessions
        /\ req[p].op = "disable" /\ req[p].pc = "write"
        /\ users' = IF Live(u) THEN [users EXCEPT ![u].disabled = TRUE] ELSE users
    BY <1>1 DEF WriteDisable, Write
  <2> HIDE DEF next
  <2>3. \A v \in UserId : v # u => users'[v] = users[v]
    BY <2>2 DEF TypeOK
  <2> QED
    BY <2>1, <2>2, <2>3 DEF Live
<1>2. CASE RevokeSessions(p)
  BY <1>2 DEF RevokeSessions, Finish, Idle, TypeOK
<1>3. CASE WriteEnable(p)
  <2>1. /\ req'[p] = Idle /\ UNCHANGED sessions /\ req[p].op = "enable"
        /\ users' = IF Live(req[p].target) THEN [users EXCEPT ![req[p].target].disabled = FALSE]
                    ELSE users
    BY <1>3 DEF WriteEnable, Write
  <2>2. ASSUME NEW u \in UserId, (Live(u) /\ users[u].disabled)'
        PROVE  Live(u) /\ users[u].disabled
    BY <2>1, <2>2 DEF Live, TypeOK, Row
  <2> QED
    BY <2>1, <2>2 DEF Idle
<1>4. CASE WriteDelete(p)
  <2>1. /\ req'[p] = Idle /\ sessions' \subseteq sessions /\ req[p].op = "delete"
        /\ users' = IF Live(req[p].target) THEN [users EXCEPT ![req[p].target] = NoRow("deleted")]
                    ELSE users
    BY <1>4 DEF WriteDelete, Write
  <2>2. ASSUME NEW u \in UserId, (Live(u) /\ users[u].disabled)'
        PROVE  Live(u) /\ users[u].disabled
    BY <2>1, <2>2 DEF Live, TypeOK, NoRow
  <2> QED
    BY <2>1, <2>2 DEF Idle
<1>5. CASE WriteRole(p)
  <2>1. /\ req'[p] = Idle /\ UNCHANGED sessions /\ req[p].op = "setRole"
        /\ users' = IF Live(req[p].target) THEN [users EXCEPT ![req[p].target].role = req[p].role]
                    ELSE users
    BY <1>5 DEF WriteRole, Write
  <2>2. ASSUME NEW u \in UserId, (Live(u) /\ users[u].disabled)'
        PROVE  Live(u) /\ users[u].disabled
    BY <2>1, <2>2 DEF Live, TypeOK, Row
  <2> QED
    BY <2>1, <2>2 DEF Idle
<1>6. CASE InsertUser(p)
  <2>1. /\ req[p].op = "create" /\ UNCHANGED sessions
        /\ \/ Finish(p) /\ UNCHANGED users
           \/ \E u \in UserId : 
                Write(p, [users EXCEPT ![u] = [status |-> "live", org |-> req[p].by.org,
                                     role |-> req[p].role, disabled |-> FALSE]], Idle)
    BY <1>6 DEF InsertUser
  <2>2. CASE Finish(p) /\ UNCHANGED users
    BY <2>1, <2>2 DEF Finish, Idle, TypeOK, Live
  <2>3. CASE \E u \in UserId : 
                Write(p, [users EXCEPT ![u] = [status |-> "live", org |-> req[p].by.org,
                                     role |-> req[p].role, disabled |-> FALSE]], Idle)
    <3>1. PICK u \in UserId : 
                Write(p, [users EXCEPT ![u] = [status |-> "live", org |-> req[p].by.org,
                                     role |-> req[p].role, disabled |-> FALSE]], Idle)
      BY <2>3
    <3>2. /\ req'[p] = Idle
          /\ users' = [users EXCEPT ![u] = [status |-> "live", org |-> req[p].by.org,
                                     role |-> req[p].role, disabled |-> FALSE]]
      BY <3>1 DEF Write
    <3>3. ASSUME NEW v \in UserId, (Live(v) /\ users[v].disabled)'
          PROVE  Live(v) /\ users[v].disabled
      BY <3>2, <3>3 DEF Live, TypeOK
    <3> QED
      BY <2>1, <3>2, <3>3 DEF Idle
  <2> QED
    BY <2>1, <2>2, <2>3
<1>7. CASE InsertKey(p) \/ WriteRevokeKey(p)
  BY <1>7 DEF InsertKey, WriteRevokeKey, Finish, Idle, TypeOK, Live
<1>8. CASE InsertSession(p)
  BY <1>8 DEF InsertSession, Finish, Idle, TypeOK
<1> QED
  BY <1>1, <1>2, <1>3, <1>4, <1>5, <1>6, <1>7, <1>8

LEMMA SignedOutStep == Alone /\ TypeOK /\ SignedOut /\ [Next]_vars => SignedOut'
<1> SUFFICES ASSUME Alone, TypeOK, SignedOut, [Next]_vars PROVE SignedOut'
  OBVIOUS
<1>1. CASE SessionEnds \/ UNCHANGED vars
  <2>1. UNCHANGED <<users, req>> /\ sessions' \subseteq sessions
    BY <1>1 DEF SessionEnds, vars
  <2> QED
    BY <2>1 DEF SignedOut, At, Live
<1>2. ASSUME NEW p \in Proc,
             \/ BeginManage(p) \/ LoadTarget(p) \/ CountHolders(p)
             \/ BeginCreate(p) \/ LookupEmail(p)
             \/ BeginMint(p) \/ BeginRevokeKey(p) \/ LoadKey(p)
             \/ BeginSignIn(p) \/ StoreError(p)
      PROVE  SignedOut'
  <2>1. /\ UNCHANGED <<users, sessions>> /\ ~At(p, "disable", "revoke")
        /\ At(p, "signIn", "write")' => Enabled(req'[p].target)
        /\ req'[p].pc = "count" => req'[p].op # "signIn"
    BY <1>2, ReadsLeave DEF SignedOut, Alone
  <2>2. \A q \in Proc : q = p
    BY DEF Alone
  <2> QED
    BY <2>1, <2>2 DEF SignedOut, Live, Enabled
<1>3. ASSUME NEW p \in Proc,
             \/ WriteDisable(p) \/ RevokeSessions(p) \/ WriteEnable(p)
             \/ WriteDelete(p) \/ WriteRole(p) \/ InsertUser(p)
             \/ InsertKey(p) \/ WriteRevokeKey(p) \/ InsertSession(p)
      PROVE  SignedOut'
  <2>1. \A q \in Proc : q = p
    BY DEF Alone
  <2>2. ASSUME NEW u \in UserId, (Live(u) /\ users[u].disabled /\ u \in sessions)'
        PROVE  At(p, "disable", "revoke")' /\ req'[p].target = u
    <3>1. Live(u) /\ users[u].disabled /\ u \in sessions
             => At(p, "disable", "revoke") /\ req[p].target = u
      BY <2>1 DEF SignedOut
    <3>2. At(p, "signIn", "write") /\ Live(req[p].target) => ~users[req[p].target].disabled
      BY DEF SignedOut
    <3> QED
      BY <1>3, <2>2, <3>1, <3>2, WritesLeave DEF Live, At
  <2>3. ~At(p, "signIn", "write")' /\ req'[p].pc # "count"
    BY <1>3, WritesLeave
  <2> QED
    BY <2>1, <2>2, <2>3 DEF SignedOut
<1> QED
  BY <1>1, <1>2, <1>3, Steps

\* EnableUser: an account comes back without the sessions it had when it was
\* suspended, provided requests come one at a time and no store call fails.
THEOREM ReturnsSignedOut ==
    ASSUME Alone
    PROVE  Spec => EnableReturnsSignedOut
<1> DEFINE OutWhenEnabled == \A u \in UserId :
          Live(u) /\ users[u].disabled /\ Enabled(u)' => u \notin sessions'
<1>1. Init => SignedOut
  BY DEF Init, SignedOut, Enabled, At, Idle
<1>2. TypeOK /\ SignedOut /\ [Next]_vars => [OutWhenEnabled]_vars
  <2> SUFFICES ASSUME TypeOK, SignedOut, [Next]_vars,
                      NEW u \in UserId, Live(u), users[u].disabled, Enabled(u)'
               PROVE  u \notin sessions'
    OBVIOUS
  <2>1. users' # users
    BY DEF Enabled, Live
  <2>2. PICK p \in Proc :
          \/ WriteDisable(p) \/ RevokeSessions(p) \/ WriteEnable(p)
          \/ WriteDelete(p) \/ WriteRole(p) \/ InsertUser(p)
          \/ InsertKey(p) \/ WriteRevokeKey(p) \/ InsertSession(p)
    BY <2>1, Steps, ReadsLeave DEF SessionEnds, vars, SignedOut, Alone
  <2>3. sessions' \subseteq sessions /\ ~At(p, "disable", "revoke")
    BY <2>1, <2>2, WritesLeave
  <2>4. \A q \in Proc : q = p
    BY DEF Alone
  <2> QED
    BY <2>3, <2>4 DEF SignedOut
<1>3. TypeOK /\ SignedOut /\ [Next]_vars => SignedOut'
  BY SignedOutStep
<1>4. Spec => []SignedOut
  BY <1>1, <1>3, TypeCorrect, PTL DEF Spec
<1> QED
  BY <1>2, <1>4, TypeCorrect, PTL DEF Spec, EnableReturnsSignedOut

=============================================================================
