-------------------------------- MODULE Roster --------------------------------
(***************************************************************************)
(* Who belongs to an organization and what they may do: src/admin.go's     *)
(* account and API key operations, run by concurrent HTTP requests over    *)
(* one database.                                                           *)
(*                                                                         *)
(* A process is one request. It authenticates, which copies an Identity    *)
(* out of the database (src/identity.go), then runs one use case. Every    *)
(* step is at most one store call, so requests interleave between a use    *)
(* case's reads and its writes; nothing in the code holds a lock or a      *)
(* transaction across two calls. With Faults, any store call may fail,     *)
(* which ends the request with whatever it had already written.            *)
(*                                                                         *)
(* The permission table is fixed here (its replacement is TableReplace).   *)
(* Passwords and sign-in credentials are abstracted: any enabled account   *)
(* may sign in.                                                            *)
(***************************************************************************)
EXTENDS PermissionTable

CONSTANTS
    UserId, Org, KeyId,   \* the ids rows may hold; their number is a bound
    NoUser, NoOrg, NoKey,
    Proc,        \* concurrent requests
    Rules,       \* the permission table in force
    StartUsers,  \* users tables the system may start from
    Operation,   \* the use cases this instance runs
    Faults       \* may a store call fail?

Absent == {"unused", "deleted"}

\* A users row. Ids come from IDGen.NewID, so one is never given out twice:
\* "unused" is an id not yet generated, "deleted" one whose row is gone.
Row == [ status   : {"live"} \cup Absent,
         org      : Org \cup {NoOrg},
         role     : Role \cup {NoRole},
         disabled : BOOLEAN ]

NoRow(status) == [status |-> status, org |-> NoOrg, role |-> NoRole, disabled |-> FALSE]

Key == [ status : {"live", "revoked"} \cup Absent,
         owner  : UserId \cup {NoUser},
         role   : Role \cup {NoRole} ]

NoKeyRow(status) == [status |-> status, owner |-> NoUser, role |-> NoRole]

Identity == [ user : UserId \cup {NoUser},
              org  : Org \cup {NoOrg},
              role : Role \cup {NoRole} ]

Nobody == [user |-> NoUser, org |-> NoOrg, role |-> NoRole]

ManageOps == {"disable", "enable", "delete", "setRole"}
AllOps == ManageOps \cup {"create", "mintKey", "revokeKey", "signIn"}

\* The point a request has reached: the store call it makes next.
Pc == {"idle", "load", "count", "write", "revoke"}

Request == [ pc     : Pc,
             op     : AllOps,
             by     : Identity,
             target : UserId \cup {NoUser},   \* the account named
             role   : Role \cup {NoRole},     \* the role to give
             key    : KeyId \cup {NoKey},
             found  : Role \cup {NoRole},     \* the loaded row's role
             fresh  : BOOLEAN ]   \* history: no other request has changed the
                                  \* users table since this one loaded its target

Idle == [pc |-> "idle", op |-> "signIn", by |-> Nobody, target |-> NoUser,
         role |-> NoRole, key |-> NoKey, found |-> NoRole,
         fresh |-> FALSE]

ASSUME RosterAssumption ==
    /\ Built(Rules)
    /\ NoUser \notin UserId /\ NoOrg \notin Org /\ NoKey \notin KeyId
    /\ StartUsers \subseteq [UserId -> Row]
    /\ \A us \in StartUsers :
         \A u \in UserId : us[u].status = "live" => us[u].org \in Org
    /\ Operation \subseteq AllOps
    /\ Faults \in BOOLEAN

VARIABLES
    users,      \* the users table
    keys,       \* the API keys table
    sessions,   \* the accounts with an unrevoked, unexpired session row
    req         \* req[p]: where request p is

vars == <<users, keys, sessions, req>>

TypeOK ==
    /\ users \in [UserId -> Row]
    /\ keys \in [KeyId -> Key]
    /\ sessions \subseteq UserId
    /\ req \in [Proc -> Request]

-----------------------------------------------------------------------------
(* Authentication: the identities the request path can resolve right now.  *)
(* A Store hides the sessions and keys of a disabled owner (src/store.go). *)

Live(u) == u \in UserId /\ users[u].status = "live"
Enabled(u) == Live(u) /\ ~users[u].disabled

SessionIdentity(u) == [user |-> u, org |-> users[u].org, role |-> users[u].role]

KeyIdentity(k) ==
    [user |-> keys[k].owner, org |-> users[keys[k].owner].org, role |-> keys[k].role]

SystemIdentity(o) == [user |-> NoUser, org |-> o, role |-> Rules.adminRole]

LiveSessions == {u \in sessions : Enabled(u)}
LiveKeys == {k \in KeyId : keys[k].status = "live" /\ Enabled(keys[k].owner)}

Callers == {SessionIdentity(u) : u \in LiveSessions}
           \cup {KeyIdentity(k) : k \in LiveKeys}
           \cup {SystemIdentity(o) : o \in Org}

MayManage(by) == Can(Rules, by.role, Rules.manageUsers)

-----------------------------------------------------------------------------
Init ==
    /\ users \in StartUsers
    /\ keys = [k \in KeyId |-> NoKeyRow("unused")]
    /\ sessions \in SUBSET {u \in UserId : Enabled(u)}
    /\ req = [p \in Proc |-> Idle]

Goto(p, pc) == req' = [req EXCEPT ![p].pc = pc]
Finish(p) == req' = [req EXCEPT ![p] = Idle]

\* A write to the users table, after which p is at request r: what any other
\* request has loaded may be out of date.
Write(p, table, r) ==
    /\ users' = table
    /\ req' = [q \in Proc |-> IF q = p THEN r ELSE [req[q] EXCEPT !.fresh = FALSE]]
At(p, op, pc) == req[p].op = op /\ req[p].pc = pc

\* p, between two requests, begins another.
Free(p) == req[p].pc = "idle"

Begin(p, request) ==
    /\ request.op \in Operation
    /\ req' = [req EXCEPT ![p] = request]
    /\ UNCHANGED <<users, keys, sessions>>

-----------------------------------------------------------------------------
(* DisableUser, EnableUser, DeleteUser and SetRole. *)

\* SetRole's own check, then manageableTarget up to its store call. A caller
\* refused here has changed nothing.
BeginManage(p) ==
    /\ Free(p)
    /\ \E op \in ManageOps, by \in Callers, target \in UserId, role \in Role \cup {NoRole} :
           /\ IF op = "setRole" THEN Valid(Rules, role) ELSE role = NoRole
           /\ MayManage(by)
           /\ target # by.user
           /\ Begin(p, [Idle EXCEPT !.pc = "load", !.op = op, !.by = by,
                                    !.target = target, !.role = role])

\* Mutants: no seniority check; no organization check.
ManageableByAnyone(r) == Live(r.target) /\ users[r.target].org = r.by.org
ManageableAnywhere(r) ==
    Live(r.target) /\ MayHandle(Rules, r.by.role, users[r.target].role)

\* The rest of manageableTarget: the row exists, is the caller's
\* organization's, and its role is not held back from the caller.
Manageable(r) ==
    /\ Live(r.target)
    /\ users[r.target].org = r.by.org
    /\ MayHandle(Rules, r.by.role, users[r.target].role)

\* Nothing to do and nothing to report.
AlreadyThere(r) ==
    \/ r.op = "disable" /\ users[r.target].disabled
    \/ r.op = "enable" /\ ~users[r.target].disabled
    \/ r.op = "setRole" /\ users[r.target].role = r.role

GrantRefused(r) == r.op = "setRole" /\ ~MayHandle(Rules, r.by.role, r.role)

\* Would the operation take an enabled holder away from a protected role?
NeedsCount(r) ==
    /\ r.op # "enable"
    /\ Protected(Rules, users[r.target].role)
    /\ ~users[r.target].disabled

Loaded(r) ==
    IF NeedsCount(r)
      THEN [r EXCEPT !.fresh = TRUE, !.pc = "count", !.found = users[r.target].role]
      ELSE [r EXCEPT !.fresh = TRUE, !.pc = "write"]

LoadTarget(p) ==
    LET r == req[p]
        proceeds == Manageable(r) /\ ~AlreadyThere(r) /\ ~GrantRefused(r)
    IN  /\ r.op \in ManageOps /\ r.pc = "load"
        /\ \/ ~proceeds /\ Finish(p)
           \/ /\ proceeds
              /\ req' = [req EXCEPT ![p] = Loaded(r)]
        /\ UNCHANGED <<users, keys, sessions>>

\* Mutant: the target is counted too.
AnyHolder(r) ==
    \E u \in UserId : Enabled(u) /\ users[u].org = r.by.org /\ users[u].role = r.found

\* isLastEnabledHolder, asked of the row as it was loaded: same role, same
\* organization, not the target itself.
OtherHolder(r) ==
    \E u \in UserId \ {r.target} :
        Enabled(u) /\ users[u].org = r.by.org /\ users[u].role = r.found

CountHolders(p) ==
    /\ req[p].pc = "count"
    /\ \/ ~OtherHolder(req[p]) /\ Finish(p)   \* ErrLastAdmin
       \/ /\ OtherHolder(req[p])
          /\ req' = [req EXCEPT ![p].pc = "write", ![p].found = NoRole]
    /\ UNCHANGED <<users, keys, sessions>>

\* Mutant: the sessions are left alone.
WriteDisableOnly(p) ==
    LET u == req[p].target
    IN  /\ At(p, "disable", "write")
        /\ Write(p, IF Live(u) THEN [users EXCEPT ![u].disabled = TRUE] ELSE users, Idle)
        /\ UNCHANGED <<keys, sessions>>

\* SetDisabledAt. An UPDATE of a row deleted since the load changes nothing.
WriteDisable(p) ==
    LET u == req[p].target
    IN  /\ At(p, "disable", "write")
        /\ Write(p, IF Live(u) THEN [users EXCEPT ![u].disabled = TRUE] ELSE users,
                    [req[p] EXCEPT !.pc = "revoke"])
        /\ UNCHANGED <<keys, sessions>>

\* RevokeSessionsByUser, the second of DisableUser's two writes.
RevokeSessions(p) ==
    /\ At(p, "disable", "revoke")
    /\ sessions' = sessions \ {req[p].target}
    /\ Finish(p)
    /\ UNCHANGED <<users, keys>>

WriteEnable(p) ==
    LET u == req[p].target
    IN  /\ At(p, "enable", "write")
        /\ Write(p, IF Live(u) THEN [users EXCEPT ![u].disabled = FALSE] ELSE users, Idle)
        /\ UNCHANGED <<keys, sessions>>

\* DeleteUser: the account's sessions and API keys go with it.
WriteDelete(p) ==
    LET u == req[p].target
    IN  /\ At(p, "delete", "write")
        /\ Write(p, IF Live(u) THEN [users EXCEPT ![u] = NoRow("deleted")] ELSE users, Idle)
        /\ keys' = [k \in KeyId |-> IF keys[k].owner = u THEN NoKeyRow("deleted") ELSE keys[k]]
        /\ sessions' = sessions \ {u}

WriteRole(p) ==
    LET u == req[p].target
    IN  /\ At(p, "setRole", "write")
        /\ Write(p, IF Live(u) THEN [users EXCEPT ![u].role = req[p].role] ELSE users, Idle)
        /\ UNCHANGED <<keys, sessions>>

-----------------------------------------------------------------------------
(* CreateUser and CreateInvitedUser, which differ only in the password.    *)

\* Mutant: the role to give is not checked against the caller's.
BeginCreateAnyRole(p) ==
    /\ Free(p)
    /\ \E by \in Callers, role \in Role :
           /\ MayManage(by)
           /\ Valid(Rules, role)
           /\ Begin(p, [Idle EXCEPT !.pc = "load", !.op = "create", !.by = by,
                                    !.role = role])

\* checkNewUser.
BeginCreate(p) ==
    /\ Free(p)
    /\ \E by \in Callers, role \in Role :
           /\ MayManage(by)
           /\ Valid(Rules, role)
           /\ MayHandle(Rules, by.role, role)
           /\ Begin(p, [Idle EXCEPT !.pc = "load", !.op = "create", !.by = by,
                                    !.role = role])

\* insertUser's UserByEmail finds the address taken or free.
LookupEmail(p) ==
    /\ At(p, "create", "load")
    /\ Finish(p) \/ Goto(p, "write")
    /\ UNCHANGED <<users, keys, sessions>>

\* insertUser's CreateUser. The address may have been taken since: the unique
\* index then answers ErrConflict, and nothing is written.
InsertUser(p) ==
    /\ At(p, "create", "write")
    /\ \/ Finish(p) /\ UNCHANGED users
       \/ \E u \in UserId :
            /\ users[u].status = "unused"
            /\ Write(p, [users EXCEPT ![u] = [status |-> "live", org |-> req[p].by.org,
                                              role |-> req[p].role, disabled |-> FALSE]], Idle)
    /\ UNCHANGED <<keys, sessions>>

-----------------------------------------------------------------------------
(* API keys. *)

\* MintAPIKey up to its store call: an unknown role asks for the caller's
\* own, and the request is clamped to it.
BeginMint(p) ==
    /\ Free(p)
    /\ \E by \in Callers, requested \in Role :
           LET asked == IF Valid(Rules, requested) THEN requested ELSE by.role
           IN  /\ by.user # NoUser
               /\ \E k \in KeyId : keys[k].status = "unused"   \* bound: an id is left
               /\ Begin(p, [Idle EXCEPT !.pc = "write", !.op = "mintKey", !.by = by,
                                        !.role = AtMost(Rules, asked, by.role)])

\* CreateAPIKey; a key of an account deleted meanwhile has no row to hang on.
InsertKey(p) ==
    /\ At(p, "mintKey", "write")
    /\ \/ ~Live(req[p].by.user) /\ UNCHANGED keys
       \/ /\ Live(req[p].by.user)
          /\ \E k \in KeyId :
               /\ keys[k].status = "unused"
               /\ keys' = [keys EXCEPT ![k] = [status |-> "live", owner |-> req[p].by.user,
                                               role |-> req[p].role]]
    /\ Finish(p)
    /\ UNCHANGED <<users, sessions>>

BeginRevokeKey(p) ==
    /\ Free(p)
    /\ \E by \in Callers, k \in KeyId :
           /\ by.user # NoUser
           /\ Begin(p, [Idle EXCEPT !.pc = "load", !.op = "revokeKey", !.by = by, !.key = k])

\* APIKeyByID: not there, somebody else's, or already revoked ends it.
LoadKey(p) ==
    LET k == keys[req[p].key]
    IN  /\ At(p, "revokeKey", "load")
        /\ IF k.status = "live" /\ k.owner = req[p].by.user THEN Goto(p, "write")
                                                            ELSE Finish(p)
        /\ UNCHANGED <<users, keys, sessions>>

WriteRevokeKey(p) ==
    LET k == req[p].key
    IN  /\ At(p, "revokeKey", "write")
        /\ keys' = IF keys[k].status = "live" THEN [keys EXCEPT ![k].status = "revoked"]
                                              ELSE keys
        /\ Finish(p)
        /\ UNCHANGED <<users, sessions>>

-----------------------------------------------------------------------------
(* Sessions come and go. *)

\* The tail every login shares (src/authenticator.go): the row read for the
\* login is refused when disabled, and a later step inserts the session.
BeginSignIn(p) ==
    /\ Free(p)
    /\ \E u \in UserId :
           /\ Enabled(u)
           /\ Begin(p, [Idle EXCEPT !.pc = "write", !.op = "signIn", !.target = u])

InsertSession(p) ==
    LET u == req[p].target
    IN  /\ At(p, "signIn", "write")
        /\ sessions' = IF Live(u) THEN sessions \cup {u} ELSE sessions
        /\ Finish(p)
        /\ UNCHANGED <<users, keys>>

\* Logout of, or the clock running out on, an account's last session.
SessionEnds ==
    \E u \in sessions :
        /\ sessions' = sessions \ {u}
        /\ UNCHANGED <<users, keys, req>>

\* Any store call may fail; the error is returned and the request is over.
StoreError(p) ==
    /\ Faults
    /\ req[p].pc # "idle"
    /\ Finish(p)
    /\ UNCHANGED <<users, keys, sessions>>

-----------------------------------------------------------------------------
Manage(p) ==
    \/ BeginManage(p) \/ LoadTarget(p) \/ CountHolders(p)
    \/ WriteDisable(p) \/ RevokeSessions(p) \/ WriteEnable(p)
    \/ WriteDelete(p) \/ WriteRole(p)

Create(p) == BeginCreate(p) \/ LookupEmail(p) \/ InsertUser(p)

APIKeys(p) ==
    \/ BeginMint(p) \/ InsertKey(p)
    \/ BeginRevokeKey(p) \/ LoadKey(p) \/ WriteRevokeKey(p)

SignIn(p) == BeginSignIn(p) \/ InsertSession(p)

Next ==
    \/ \E p \in Proc : Manage(p) \/ Create(p) \/ APIKeys(p) \/ SignIn(p) \/ StoreError(p)
    \/ SessionEnds

Spec == Init /\ [][Next]_vars

-----------------------------------------------------------------------------
(* Properties. Moved(p) picks out the request a step belongs to.           *)

Moved(p) == req'[p].pc # req[p].pc
Changed(u) == users'[u] # users[u]

HasHolder(us, o, role) ==
    \E u \in UserId :
        /\ us[u].status = "live" /\ ~us[u].disabled
        /\ us[u].org = o /\ us[u].role = role

\* role.go, admin.go (ErrLastAdmin): "every organization must keep at least
\* one enabled instance of" a protected role. Two requests that both count
\* before either writes break it; see the violation run.
HolderNeverLost ==
    [][\A o \in Org, role \in Role :
          Protected(Rules, role) /\ HasHolder(users, o, role) => HasHolder(users', o, role)]_vars

\* The same, as far as the code keeps it: the last enabled holder goes only
\* in a write whose request was overtaken, that is another request changed
\* the users table between its load and its write.
HolderLostOnlyByRace ==
    [][\A o \in Org, role \in Role :
          Protected(Rules, role) /\ HasHolder(users, o, role) /\ ~HasHolder(users', o, role)
              => \E p \in Proc : Moved(p) /\ ~req[p].fresh]_vars

\* admin.go (manageableTarget, checkNewUser): whatever changes in an account
\* is the doing of someone who manages users, in that account's
\* organization, on an account not their own; and a role an account newly
\* holds is one that person may handle. Holds however requests interleave.
WithinAuthority ==
    [][\A u \in UserId : Changed(u) =>
          \E p \in Proc :
             LET by == req[p].by
             IN  /\ Moved(p)
                 /\ MayManage(by) /\ by.user # u
                 /\ by.org = (IF users[u].status = "live" THEN users[u].org ELSE users'[u].org)
                 /\ users'[u].status = "live" /\ users'[u].role # users[u].role
                      => MayHandle(Rules, by.role, users'[u].role)]_vars

\* role.go (WithPrivilegedRoles): acting on an account that holds a guarded
\* role needs the permission guarding it. The check reads the role as loaded,
\* this property the role held when the write lands: they differ only for a
\* request that was overtaken.
SeniorityRespected ==
    [][\A u \in UserId : Live(u) /\ Changed(u) =>
          \E p \in Proc : /\ Moved(p)
                          /\ req[p].fresh => MayHandle(Rules, req[p].by.role, users[u].role)]_vars

\* A set of guard permissions that can only be handed out by someone already
\* holding one of them.
GuardPermissions == {Rules.guards[g] : g \in DOMAIN Rules.guards}
Carries(role, Q) == Held(Rules, role) \cap Q # {}
SelfGuarded(Q) ==
    \A role \in Role :
        Carries(role, Q) => Privileged(Rules, role) /\ GuardOf(Rules, role) \in Q

\* Someone acting, or able to act, in organization o carries one of Q.
InOrg(o, Q) ==
    \/ Carries(Rules.adminRole, Q)
    \/ \E u \in UserId : Live(u) /\ users[u].org = o /\ Carries(users[u].role, Q)
    \/ \E k \in KeyId : /\ keys[k].status = "live" /\ Carries(keys[k].role, Q)
                        /\ Live(keys[k].owner) /\ users[keys[k].owner].org = o
    \/ \E p \in Proc : req[p].pc # "idle" /\ req[p].by.org = o /\ Carries(req[p].by.role, Q)

\* No sequence of account, role and key operations brings an organization a
\* guarded authority nobody in it had (role.go, WithRoleGuards: "a quieter
\* way to the same authority"; admin.go, MintAPIKey: "a key is not new
\* authority").
NoAuthorityFromNothing ==
    [][\A o \in Org, Q \in SUBSET GuardPermissions :
          SelfGuarded(Q) /\ InOrg(o, Q)' => InOrg(o, Q)]_vars

\* admin.go (EnableUser): re-enabling "should return the account to a
\* signed-out state rather than silently reviving whatever was live". True
\* of one request at a time if no store call fails.
EnableReturnsSignedOut ==
    [][\A u \in UserId :
          Live(u) /\ users[u].disabled /\ Enabled(u)' => u \notin sessions']_vars

=============================================================================
