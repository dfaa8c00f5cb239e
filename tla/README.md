# A TLA+ verification of the rbac module

This directory specifies and verifies `golang-module-rbac`: the Go package
`auth`, which keeps accounts, roles, passwords, sessions, API keys and second
factors for other programs. The package has no goroutines of its own. It runs
inside an HTTP server, one goroutine per request, over a database it reaches
through interfaces (`Store`, `AdminStore`, `PolicyStore`, `MFAStore`, ...). It
takes no lock and opens no transaction, so **every use case is a sequence of
store calls that any other request may interleave with, and any of which may
fail after the earlier ones took effect.** That is what makes the code hard to
get right and hard to test, and what these models are about.

Almost everything stated here is a safety property: what may never be reached, what
a step may never do. The code retries nothing and a request may stop anywhere, so no
request is given fairness. The one promise about what must happen is that a session
comes to an end, and the one fairness is that of the clock it ends by: `WF_vars(Tick)`
in Sessions, which says that time passes.

## 1. Inventory

| Part | Source | State | Operations | What makes it correct |
|---|---|---|---|---|
| Authorization model | `role.go` | one atomic pointer to the rules; two fields fixed for life | constructor, three `With*` options, `Replace`; the questions `Can`, `Protected`, `Privileged`, `MayHandle`, `Valid`, `AtMost` | the options keep each other's rules; minting clamps; guards cannot be circumvented; a reader sees one set of rules |
| Identities | `identity.go` | none: a copy of a row, taken at authentication | `Can`, `SystemIdentity`, `WithPermissions` | the zero value can do nothing |
| Account administration | `admin.go` | users and API key tables (external) | create, invite, disable, enable, delete, set role, mint and revoke keys | only within one's organization and seniority; the last holder stays; no way to climb |
| Password administration | `admin.go`, `policy.go` | hash, history, stamp, rotation hold (external) | change, reset, first password, reuse check, policy read | history, stamp, sessions and hold agree with the password in force |
| Password sign-in | `authenticator.go` | none | `Login`, transparent rehash, `issueSession` | no session for a password that is no longer the account's |
| Sessions, keys on the request path | `authenticator.go`, `store.go` | sessions table (external) | `AuthenticateSession`, `AuthenticateAPIKey`, touch, `Logout`, lifetimes | idle window never past the absolute one; over is over, and every session gets there; a disabled owner hides both |
| Second factor | `mfa.go`, `totp.go`, `recovery.go` | TOTP row, recovery codes, MFA tokens (external) | begin/confirm enrolment, verify, disable, clear, issue and claim a token | a code, a recovery code and a token each work once; no single-factor session on a two-factor account |
| Security keys | `webauthn.go` | credentials, ceremonies (external) | begin/finish registration, login, step-up; revoke | a challenge works once, for its purpose and its account; a copied key is noticed; the last key goes only deliberately |
| Google sign-in | `google_sso.go` | OAuth states, links (external) | begin, finish | a state works once; a link rests on a verified address; one subject, one account |
| Step-up | `stepup.go`, `mfa.go` | a stamp on a session (external) | `StepUp`, the passkey variant, `StepUpMethodFor`, `SteppedUp` | a window of one session only; the password alone never stands in for a factor |
| Password rules | `policy.go`, `dictionary.go` | none | `Check`, `Validate`, expiry | bounds; pure string work |
| Helpers | `token.go`, `password.go`, `seal.go`, `support.go`, `webauthntest/` | none | minting, hashing, sealing, clock and ids | cryptography and randomness |

How they interact: `Admin` and `Authenticator` are built from one
`PermissionTable` and capture its fixed names. The request path resolves a
token to an `Identity`, a **copy** of role and organization; the use case is then
checked against that copy and against rows it loads itself, all of which may be
stale when it writes. `Login` hands over to the second factor when the account has
one; with a security key, and with Google, a sign-in is two calls tied together by a
secret the first hands out. Password changes and disabling reach into the sessions,
and revoking the last key asks for a step-up. `Replace` may swap the rules at any
moment.

The hard behaviours, each at its line with the properties that would catch it,
are listed under `hazards` in `PROJECT.json`: checks and writes that are separate
store calls; rows loaded before a slow hash verification and used after it; a first
write that succeeds and a second that fails; decisions read off a pointer loaded
several times; long sequences of legal operations; clocks and counters at their
edges.

## 2. The modules

`PermissionTable` holds the rules as a value and is extended by the others:

    PermissionTable <- TableBuild   <- MCTableBuild
                    <- TableReplace <- MCTableReplace
    TableBuild, TableReplace        <- TableProofs
    PermissionTable <- Roster       <- RosterProofs, MCRoster
    Passwords       <- PasswordsProofs,    MCPasswords
    SecondFactor    <- SecondFactorProofs, MCSecondFactor
    Sessions        <- SessionsProofs,     MCSessions
    StepUp          <- StepUpProofs,       MCStepUp
    OneTimeSecret   <= Passkeys, GoogleSSO        (instantiated: both implement it)
    Passkeys        <- PasskeysProofs,     MCPasskeys
    GoogleSSO       <- GoogleSSOProofs,    MCGoogleSSO

Definitions whose comment starts with *Mutant* are plausible bugs in the code.
They are not part of any specification; they stand before the definition they
spoil, and with one of them in its place each property named in `PROJECT.json`
fails, which shows that the property can.

### PermissionTable (`role.go`)

A table is a record; each method is an operator of the same name. A Go map is a
function on a subset of its keys, and reading an absent key gives Go's zero value:
the empty set of permissions in `Held`, `NoPermission` in `GuardOf`, `NoRole` for
the role `AtMost` returns when neither role contains the other. The errors of
`NewPermissionTable`, `WithProtectedRoles` and `WithRoleGuards` are the negations
of the operators with those names, and `Built` is their conjunction: the tables
that can exist. A nil table and blank names are left out.

### TableBuild (`role.go`)

The state is the `newest` copy of a table; `BuildInit` is the constructor, the actions
are the options, in any order and number. The question is whether an option can
undo what an earlier one checked.

### TableReplace (`role.go`)

A process is a goroutine inside one method of the table, a step one load of the
atomic pointer, and `Replace` may come between any two. `Can`, `Protected`,
`Valid` and `AtMost` load once. `MayHandle` loads three times: in
`Privileged`, for the argument `guards[role]`, and in `Can`. `seen` is a history
variable: the tables in force at some time during the call. The other history is
`wired`, what the services captured at startup.

### Roster (`admin.go`, with `identity.go` and parts of `authenticator.go`)

Users, keys and sessions tables, and `req[p]`, the point request `p` has reached.
A request begins by taking one of `Callers` (the identities a session, a key or a
background job can resolve right now), passes the checks made before the first
store call, and then makes **one store call per step**:

| Code | Steps |
|---|---|
| `DisableUser` | `BeginManage`, `LoadTarget`, `CountHolders` if the role is protected, `WriteDisable`, `RevokeSessions` |
| `EnableUser`, `DeleteUser`, `SetRole` | `BeginManage`, `LoadTarget`, `CountHolders` where the code counts, `WriteEnable` / `WriteDelete` / `WriteRole` |
| `CreateUser`, `CreateInvitedUser` | `BeginCreate`, `LookupEmail`, `InsertUser` |
| `MintAPIKey` | `BeginMint`, `InsertKey` |
| `RevokeAPIKey` | `BeginRevokeKey`, `LoadKey`, `WriteRevokeKey` |
| `Login` as far as the account is concerned | `BeginSignIn`, `InsertSession` |
| `Logout`, expiry | `SessionEnds` |
| any failing store call | `StoreError` |

Early returns are `Finish`. A request that fails a check before it has read
anything changes nothing and does not begin. `fresh` is a history variable: since
this request loaded its target, has no other request written the users table? A
request with `fresh` false has been *overtaken*. Properties the code keeps only
for requests that were not overtaken say so with it. Email addresses are
abstracted to "taken or free"; sign-in needs only an enabled account.

### Passwords (`admin.go`, `authenticator.go`, with `policy.go`)

One account. `hash` is the password it verifies plus whether its cost is outdated;
`stamp` is `PasswordChangedAt` as far as expiry tells values apart; a session has an id, the
password last given in it (history: at its sign-in, or as the new one of a change) and
its rotation hold.

| Code | Steps |
|---|---|
| `Login` | `Login`, `Rehash` if the cost is outdated, `InsertSession` |
| `ChangePassword` | `Change`, `CheckReuse`, `SetHash`, `Record`, `Revoke`, `ClearHold` |
| `ResetPassword` | `Reset`, `CheckReuse`, `SetHash`, `Record`, `Revoke` |
| `SetInitialPassword` | `Redeem`, `SetHash`, `Record` |
| the clock | `Ages`, `SessionEnds` |
| any failing store call | `StoreError`, and the failure branch of `Rehash`, which `Login` ignores |

`own` is the session a change is asked for in, if any and whether or not it still lives; a reset
comes from another account. Whether `RevokeSessionsByUser` spares that session is the store's
to say and the repository says both. `ChangePassword` relies on it: "the caller's own session
survives" (`admin.go:571-573`, `admin.go:625-628`), `store.go:109-113` and `admin.go:72-73` speak
of surviving sessions, and so does `adminpolicy_test.go:493-497`. But the call names an account
and no session, and `store.go:104` calls it "logout everywhere" (the session could be had from
the context's `Identity`). `Revoke` does either, each time anew. If the session survives, it is
`ClearHold` that lifts its hold; if not, there is nothing to lift.

Reading the policy is not a step of its own: a policy is a constant, so when it is
read makes no difference, only **whether** the read succeeds. A failure gives
`DefaultDepth` in `policyFor` and "not expired" in `passwordExpired`. History
variables: `used`, the passwords truly replaced; `due`, whether the password in
force has truly reached its age; `fresh` as in Roster; and `clean`, that nothing has
failed and nobody wrote after being overtaken.

Abstractions: every password satisfies `Policy.Check` (string rules); the
administrator who resets may (that is Roster's `Manageable`); the account is
enabled and has no second factor; `Admin` and `Authenticator` have a policy store.
`Ages` is disabled while a request is between `SetHash` and its end, because a
maximum age is counted in days. Corrupt hashes are left out.

### SecondFactor (`mfa.go`, `totp.go`, with `Login` and `CompleteMFA` of `authenticator.go`)

One account, its TOTP row, its recovery codes, its step-one tokens and a clock that
counts TOTP periods. A process is again one request, a step one store call.

| Code | Steps |
|---|---|
| `Login`, once the password was right | `Login`, `RequiresSecondFactor`, then `IssueMFAToken` or `InsertSession` |
| `CompleteMFA` | `ClaimMFAToken`, `RereadUser`, `VerifyFactor`, `VerifyTOTP` or `SpendRecoveryCode`, `InsertSession` |
| `BeginEnrollment` | `BeginRequest`, `LoadFactor`, `UpsertTOTP` |
| `ConfirmEnrollment` | `BeginRequest`, `LoadFactor`, `ConfirmTOTP`, `IssueRecoveryCodes` |
| `RegenerateRecoveryCodes` | `BeginRequest`, `LoadFactor`, `IssueRecoveryCodes` |
| `Disable` | `BeginRequest`, `LoadFactor`, `DeleteTOTP`, `DropRecoveryCodes` |
| `ClearFactorFor` | `ClearFactorFor`, `DeleteTOTP`, `DropRecoveryCodes` |
| disabling and enabling, expiry of a token, the clock | `Suspended`, `TokenExpires`, `Tick` |
| any failing store call | `StoreError`, and the failure branch of `RequiresSecondFactor`, which counts as a factor |

`Validates` is `ValidateTOTPCode`: a code is a secret and a period, so codes of two
periods or secrets never coincide, which six digits only make likely. Any code of any secret
drawn so far may be tried at any time, seen over a shoulder or not. Of a set of recovery codes the
model keeps for which secret it was issued and whether one is left; that a spent one is
spent is the contract of the atomic `SpendRecoveryCode`. Step-one tokens differ in nothing but their
name. The account has no security key, and where a session goes afterwards is Roster's
and Passwords' matter. `Disable` verifies the password in the step that loads the row;
who may call `ClearFactorFor` is Roster's `Manageable`. History variables: `used` codes,
`proven` secrets, `drawn` secrets (none is drawn twice), `fresh` and `clean` as above.

### Sessions (`authenticator.go`, `store.go`)

One account, whose role decides the windows, and its session rows. An instant is kept as
the **time left** until it, which `Tick` takes one from, in the rows and in what
requests under way have computed and not yet written; so no clock grows without bound,
and the run is exhaustive.

| Code | Steps |
|---|---|
| any sign-in, once it was earned | `SignIn`, `InsertSession` |
| `AuthenticateSession` | `LookUp`, `TouchSession` (whose failure is ignored) |
| `Logout` | `Logout`, `RevokeSession` |
| logout everywhere, a role change, suspending and enabling, the clock | `RevokeSessionsByUser`, `SetRole`, `Suspended`, `Tick` |
| any other failing store call | `StoreError` |

`Lifetimes` is `sessionLifetimes` with its fallbacks; the rule it asks is a constant with
values below, at and above zero. `Touched` is the clamp `store.go:97` demands of
`TouchSession`, by id, whatever became of the session since it was found. A request may wait
between its two steps for as long as it likes, which is how a touch lands late. History
variables: `due`, the longest window a request of the session was granted; `current`, the
sessions last written for the role the account has; `out`, those a `Logout` has answered for.
Windows are whole ticks and the end of a window is outside, as in `now.Before`.

### StepUp (`stepup.go`, with questions of `mfa.go` and a use case of `webauthn.go`)

One account, with or without an app, some keys, and several sessions with a stamp each.

| Code | Steps |
|---|---|
| `StepUp`, `StepUpMethodFor` | `Begin`, `HasAnyFactorOtherThanPasskeys`, then `VerifyFactor`, or `HasCredentials`, `RequiresSecondFactor` and `VerifyPasswordFor`; `StampStepUp` |
| `CompleteStepUpWithPasskey` | `Begin`, `FinishStepUp`, `StampStepUp` |
| `RevokeCredential`, with the `otherFactor` its caller asks for | `BeginRevoke`, `HasAnyFactorOtherThanPasskeys`, `ListCredentials`, `RevokeCredential` |
| what changes the factors | `KeyRegistered`, `AppChanges`, `FactorsCleared` |
| the clock, any other failing store call | `Tick`, `StoreError` |

`Answer` is what a question gives when its read may fail: the truth or its fallback, no for
the first question and yes for the other two. Stamps are kept as time left, in the rows and
in the `Identity` a request brought along, so a stamp the request saw runs out while it is
under way. History variables: `proven`, what is left of the window of the last proof given in a
session; `shown`, whether there was one when a revocation was let through; `fresh`, the
factors are still as the request found them. Codes and signatures are right or wrong here.

### OneTimeSecret

The abstract specification of every sign-in that takes two calls. A secret is issued for one
purpose, to one account or to nobody in particular; it is claimed at most once, and then
completed, which grants one thing for that purpose and to that account, or it lapses. It is
four actions long and knows of no request, no store and no failure.

### Passkeys (`webauthn.go`, with completions in `authenticator.go` and `stepup.go`)

| Code | Steps |
|---|---|
| `BeginRegistration`, `BeginLogin`, `BeginStepUp` | `Begin`, `UserFor`, `StoreCeremony` |
| `BeginPasswordlessLogin` | `Begin`, `StoreCeremony` |
| `FinishRegistration` | `Claim`, `InsertCredential` |
| `FinishLogin` and `FinishPasswordlessLogin` with the completions of the sign-in | `Claim`, `Validate`, `TouchCredential`, `RereadUser`, `Complete` |
| `FinishStepUp` with its completion | `Claim`, `Validate`, `TouchCredential`, `Complete` |
| revocations, suspensions, expiry | `Revoked`, `Suspended`, `Expires` |
| any failing store call | `StoreError` |

A finish call brings a signature of any key with any use counter: two devices may hold one
key, and responses arrive in another order than they were made. `Suspicious` and `Recorded`
are the counter rule of the WebAuthn library and what `TouchCredential` writes. Of the four
claims, each is read as accepting only its own purpose (`webauthn.go:33-36`; the comment of
`ClaimLoginChallenge` speaks of the id alone, the fake store of the tests compares both). A
counter starts at zero; a key either verifies its user or does not (`pin`). History variables:
`granted`, what ceremonies gave; `seen` counters; `repeated`, the keys of which one came up
again; `fresh`, nobody else has used or revoked the key or suspended the account since it was looked at.

**Refinement.** A challenge row is a secret: `open` while it can be claimed, `claimed` while
a request holds it, `spent` afterwards (`PhaseOf`). `CeremoniesAreOneTime` is
`OneTime!Spec`: every behaviour of ceremonies is one of one-time secrets. It says at once
that no challenge is completed twice, for another purpose, or for another account, with any
store call failing in between.

### GoogleSSO (`google_sso.go`, with `CompleteGoogleLogin`)

| Code | Steps |
|---|---|
| `BeginLogin` | `BeginLogin` |
| `FinishLogin` | `ClaimGoogleChallenge`, `Exchange`, `UserByGoogleSubject`, and without a link `UserByEmail`, `LinkGoogleAccount` |
| `CompleteGoogleLogin` after it | `RereadUser`, `InsertSession` |
| accounts created, deleted, suspended; expiry | `UserChanges`, `Expires` |
| any failing store call | `StoreError` |

Google is external: `Exchange` gives a token that says anything, verified or not, in the
hosted domain or not, and addresses move from subject to subject. Addresses are named by the account
here that has them. The contract of `LinkGoogleAccount` does not say what a second link of a
subject does: it replaces the first, or fails like any call may. An account that is deleted
takes its links along. History variables: `granted`; `vouched`, the subjects and addresses
verified tokens had together; `fresh`. `StatesAreOneTime` is the same refinement as above.

### The database

It is outside the repository. Each store call is one atomic step that does what the
interface comments in `store.go`, `admin.go`, `policy.go` and `mfa.go` say: an update of a row
that is gone changes nothing; deleting an account takes its sessions and keys along; the
email index is unique; `RecordPasswordChange` files the outgoing hash unless it is
empty, trims to the depth it is given and stamps; a disabled owner's sessions and
keys are not found, though their rows remain. A call that fails is taken to have
changed nothing.

## 3. Runs

| Run | Shows | Bounds |
|---|---|---|
| `table_build` | `AlwaysBuilt`, `Clamps`, `NoQuietWay` | every permission map over 3 roles and 2 permissions, the two fixed names fixed |
| `table_replace` | `MixtureNeedsNewGuards`, `AllowedHasBasis`, `SystemCanManage` | one reader, seven tables |
| `roster_serial` | `EnableReturnsSignedOut`, `NoAuthorityFromNothing` | one request at a time, every use case, 3 account ids, 1 key id |
| `roster_concurrent` | `HolderLostOnlyByRace`, `SeniorityRespected`, `WithinAuthority` | 2 requests, 2 organizations, 2 accounts, failing calls |
| `roster_last_holder` | violates `HolderNeverLost` | 2 requests, 2 accounts |
| `roster_revived` | violates `EnableReturnsSignedOut` | one request at a time, failing calls |
| `passwords` | `TypeOK`, `SessionsFollowPassword`, `HistoryComplete`, `HoldsEndWithChange`, `ReplacedByRight`, `NoneComesBack` | 2 requests, 2 sessions at a time, 2 passwords, depth 2 (default 1), any call or policy read failing |
| `second_factor` | `TypeOK`, `SessionsEarned`, `ActiveWasProven`, `CodesFollowFactor`, `CodesWorkOnce`, `ActiveFactorStays` | 2 requests, 2 secrets, 1 step-one token at a time, periods 1 to 2 (codes of 0 to 3), any call failing |
| `sessions` | `TypeOK`, `WindowsHold`, `LogoutIsFinal`, `OverForGood`, `EverySessionEnds` | 2 requests, 1 session, 3 roles, windows of 1 to 3 ticks, any call failing |
| `step_up` | `TypeOK`, `OwnProof`, `PasswordNeverAlone`, `LastFactorOnPurpose` | 2 requests, 2 sessions, 2 keys, a window of 2 ticks, any call failing |
| `passkeys` | `TypeOK`, `KeyOwnersOnly`, `ClonesNoticed`, `CeremoniesAreOneTime` | 2 requests, 2 accounts, 1 key, 2 challenges, counters 0 and 1, any call failing |
| `google_sso` | `TypeOK`, `SessionsVouched`, `StatesAreOneTime`, `SubjectKeepsAccount` | 2 requests, 2 accounts, 2 subjects, 3 states, any call failing |

Why the bounds are enough. The readers of `TableReplace` never affect each other, so
one shows all; the seven tables differ pairwise in what `MayHandle` distinguishes
(unguarded, guarded with another permission, another role guarded, who holds the
guard) and one has other fixed names. `MCRoster` has the smallest table with every
kind of role: one with no permission, an administrator, a senior guarded by a
permission the administrator lacks, and a name the table does not define. An overtaken
request needs one other request, and a lost holder two accounts; a third account id
is there to be created and deleted. Depth 2 over a default of 1 tells the two
policies apart, and with two passwords a forbidden one is chosen constantly; two sessions
are the one that asks for a change and another that must go. The ids of ended sessions serve
again, unless a request is still in one. A
state bound appears only where ids run out (`unused` rows): real ids are never
reused. In `second_factor` two secrets are
an old and a new enrolment, and two periods with a skew of one let a code be early,
due, late or replayed; when they are used up, `BeginEnrollment` and the clock stop. Its
cfg and that of `passwords` have a `VIEW` that drops the histories of runs that are no longer
clean: no step and no property reads them then.
In `sessions`, one session is enough because no step looks at two; the
three roles have ordinary windows, none (a negative and a zero one, which fall back), and
an idle window above its ceiling; two requests let one touch wait while the other request logs out or touches again. In
`step_up`, two keys are what the race for the last one needs and two sessions what a
stamp in the wrong one needs. In `passkeys` two accounts and one key tell an owner from
a stranger, two challenges a stale response from a current one, and counters 0 and 1 every
case of the counter rule (absent, risen, repeated). In `google_sso` the third state lets an
address move after two subjects were linked. When ids run out (challenges, states, keys,
session ids), nothing more is issued: real ids are never reused. These runs use symmetry,
except `sessions`, whose liveness property does not allow it.
What these runs show in the small is proved without bounds below, all but
`EverySessionEnds`: two tables or twenty, two requests or two hundred.

Deadlock is checked in every run but `google_sso` and none is found: requests always end.
In `google_sso` everything stops once all states are used up and all accounts are
gone, which is the bound's doing.

**Fairness.** Only `EverySessionEnds` needs any: weak fairness of `Tick`, which is always
enabled. Requests get none, and the property holds whether they go on or stop. It is about
the ceiling: with an idle window alone, or a ceiling that moves along, a session that is used
often enough never ends (the mutant `TouchedWhole`).

## 4. Where the code and its comments disagree

Two are runs TLC must find violated; the passing property beside each says what the
code does keep.

- **The last holder** (`roster_last_holder`; `admin.go:384`). Two administrators disable
  each other; each counts the other before either writes. Kept: `HolderLostOnlyByRace`.
- **Sessions revived** (`roster_revived`; `admin.go:380`). The revocation after
  `SetDisabledAt` fails; another `DisableUser` returns early; `EnableUser` brings
  the session back. A sign-in that loaded the row before the suspension does the
  same without any failure. Kept: the property, one request at a time with nothing failing.

The others are visible in the models and have no run; each is why a property carries a
condition.

- **A mixture of two tables** (`role.go:364` against `role.go:60-62`). `MayHandle`
  loads the rules three times. When the permission guarding a role is changed
  between the loads, a caller that both tables allow is refused, or the reverse.
  Kept: `MixtureNeedsNewGuards`, `AllowedHasBasis`.
- **A stronger key** (`admin.go:709` against `role.go:428-429`). `SetRole` leaves keys
  alone, so a demoted owner's key keeps its role. Kept: `NoAuthorityFromNothing`.
- **The old password back** (`authenticator.go:251` against `store.go:86-87`). A sign-in
  stores the rehash of the password it verified without looking whether it is still
  the account's, and undoes a change made in between. Kept: `ReplacedByRight`.
- **A laxer change** (`admin.go:175` against `admin.go:166-168`). When the policy cannot be
  read the default's history depth counts, which may be below the organization's. Kept:
  `NoneComesBack`.
- **The session that asks** (`admin.go:571-573`, `admin.go:625-628`, `store.go:109-113`). A change
  of password is said to spare it, while `RevokeSessionsByUser` takes no session to spare and
  `store.go:104` calls it "logout everywhere". `Revoke` does either. Kept either way:
  `SessionsFollowPassword`, for in the spared session the new password was given; and
  `HoldsEndWithChange`, with the condition that the spared session may still be held in the one
  step between the revocation and `ClearHold`.
- **The last key without a step-up** (`webauthn.go:476`). Two revocations of two keys each
  count both. Kept: `LastFactorOnPurpose`, for a request whose count still holds.
- **Which question a revocation asks** (`mfa.go:594-596` against `mfa.go:584-586`). Both
  `HasAnyFactor` and `HasAnyFactorOtherThanPasskeys` say the revocation consults
  them. The first counts the very key that is about to go, and would make the guard
  idle; StepUp models the second.
- **A logout that is overtaken** (`authenticator.go:691-695`). A session found expired needs no
  revoking, and neither does that of a suspended account; but a touch sent earlier can
  land later and move the idle window on, and the account can be enabled again. Kept:
  `LogoutIsFinal`, which counts such an answer only when no touch was under way.

## 5. Proofs

All theorems are checked by TLAPS for every value of the constants that satisfies the
assumptions TLC evaluates in the runs:

- `EmptyNamesAssumption`: the empty role and permission are none of the named ones.
- `CandidatesAssumption`: tables passed to `Replace` were built by the constructors.
- `RosterAssumption`: the rules were built; the empty ids are not ids; accounts at the
  start are well formed and belong to an organization.
- `PasswordsAssumption`: the empty hash is no password; depths are natural numbers.
- `SessionsAssumption`: the lifetime rule is any pair of integers for each role; the two
  defaults are positive and ordered, as the constants in `authenticator.go` are.
- `SecondFactorAssumption`, `GoogleSSOAssumption`, `PasskeysAssumption`, `StepUpAssumption`: the
  "none" values are no secret and no account; bounds on counters and the clock are natural
  numbers; the step-up window is positive; calls may fail or not.

No theorem assumes that a set is finite, how many requests there are, or that calls succeed, but
for the one that says so.

**TableProofs**, of building a table: `TablesAreBuilt`, `MintingClamps`, `GuardsLeaveNoQuietWay`.
`AlwaysBuilt` is inductive by itself; the other two are consequences of it, through lemmas on
`AtMost`.

**TableProofs**, of replacing one: `TypeCorrect`, `OnlyNewGuardsMix`, `AllowingHasBasis`,
`SystemKeepsManaging`. The inductive invariant adds to the properties what a
`MayHandle` under way has learnt so far: that the current table is in `seen`, that
the role was privileged in a table of `seen`, that the guard it carries is that of
a table of `seen`; and that `wired` equals the fixed names of the current table.

**RosterProofs**: `TypeCorrect`, `HoldersKept`, `SeniorityKept`, `AuthorityBounded`, `NoNewAuthority`.
The inductive invariant is `TypeOK /\ FreshSound /\ AllBacked /\ KeysOwned`:

- `FreshSound`: a request that was not overtaken still sees what it loaded: the target is live,
  the caller may handle its role, and where the code counted there is another holder.
- `AllBacked`: whoever asks existed, and acts in the organization it belongs to
  while it exists; a request past its checks satisfies them.
- `KeysOwned`: a live key hangs on an account that exists or existed.

`HoldersKept` and `SeniorityKept` follow from `FreshSound` at the write. `AuthorityBounded`
needs only `AllBacked`, since rows never move between organizations: it holds
however requests interleave. `NoNewAuthority` looks at one step: an authority that
appears in an organization was in `req[p].by`, by `MayHandle` for creations
and role changes and by the clamp for keys.

`ReturnsSignedOut` is `EnableReturnsSignedOut` under the two conditions `Alone` names: one
request at a time, and no failing call. Section 4 shows what happens without the second, and tells
of a sign-in that breaks it without the first, so neither can be dropped. Its
invariant `SignedOut` says that a suspended account has no session, but between the two writes of
`DisableUser`, and that nobody suspended is about to get one.

**PasswordsProofs**: `TypeCorrect`, `NoSessionOutlives`, `HistoryIsTrue`, `HoldsEnd`,
`RightfullyReplaced`, `NoneIsSetAgain`. The inductive invariant is
`TypeOK /\ Shape /\ Unset /\ Loaded /\ CleanInv`:

- `Shape`: which operations reach which point, with what they carry.
- `Unset`: without a password nothing was stamped or replaced, and no change is past its first write.
- `Loaded`: what a request that was not overtaken loaded is still so, until it writes.
- `CleanInv`: while the run is clean, changes follow the organization's depth (`OnPolicy`); what a
  change is about to file completes the history (`Pending`); a first password met no
  session but its own (`FirstPassword`); the session a change was asked for in has given the
  password in force (`OwnProven`, which is why it may be spared); and stamp, history, sessions
  and holds are true, except in the steps between a change's new hash and the write that makes
  them so, and a spared session's hold until `ClearHold` (`ToBeLifted`).

All but `TypeCorrect` are conditional, as the properties are. `RightfullyReplaced` speaks of
requests that were not overtaken. `NoSessionOutlives`, `HistoryIsTrue`, `HoldsEnd` and
`NoneIsSetAgain` hold while no call failed, every policy read succeeded and no overtaken request
wrote, and not in the steps of a change that are named above. Outside these conditions the code
does break them: a failing `recordChange`, two changes at once, or a sign-in that inserts its
session late.

**SessionsProofs**: `TypeCorrect`, `WindowsAlwaysHold`, `LogoutAlwaysFinal`, `EndedForGood`, and of the
ceiling `CeilingAlwaysFalls` and `PastCeilingStaysOver`. The
inductive invariant is `TypeOK /\ Known /\ ToWrite /\ WindowsHold /\ OutForGood`:

- `Known`: requests and histories name only sessions that were issued.
- `ToWrite`: what a request is *about* to write keeps the windows too. A touch carries no more
  than its session was granted, and no more than the role allows unless the role changed since.
  This is where a late touch would do its harm: the row is clamped only against the ceiling.
- `OutForGood`: a session that logged out is revoked, or over with nothing left to extend it.

The last two are what `EverySessionEnds` rests on besides the passing of time: once a session is
issued no step moves its end away and every tick brings it nearer, and past it the session stays
over. They need `TypeOK` alone.

**StepUpProofs**: `TypeCorrect`, `AlwaysOwnProof`, `NeverPasswordAlone`, `LastFactorAlwaysOnPurpose`.
The inductive invariant is `TypeOK /\ Shape /\ Found /\ OwnProof /\ Identity`: what a request was
started for; what it found of the account's factors is so until they change, down to "a
revocation leaves another factor or was shown a proof"; and the stamp in an identity is never
beyond a proof of that session. That a failing read cannot lead to the password alone is a case of
`Found`: the fallbacks only ever leave it. The count of keys a revocation
makes is settled by the cardinality lemmas of the library.

**GoogleSSOProofs**: `TypeCorrect`, `SessionsAlwaysVouched`, `SubjectAlwaysKeeps`, and the refinement
`StatesAlwaysOneTime`. The inductive invariant is `TypeOK /\ Held /\ Vouched /\ LookedUp`:

- `Held`: a claimed state is held by one callback.
- `Vouched`: links were vouched for, and so is whatever a callback may still link on its token.
- `LookedUp`: what a callback looked up is so until it is overtaken.

**PasskeysProofs**: `TypeCorrect`, `AlwaysKeyOwnersOnly`, `AlwaysClonesNoticed`, and the refinement
`CeremoniesAlwaysOneTime`. The inductive invariant is
`TypeOK /\ Shape /\ Held /\ Saw /\ Counted /\ ClonesNoticed`. `TypeOK` alone is not inductive: that
a ceremony completes for an account at all needs `Shape`, which says that only a passwordless
one starts without. `Held` is as above, with the purpose and the account of the challenge;
`Saw` is what the verifier saw, until the request is overtaken; `Counted` says that no counter
recorded in order is above the stored one, so that one that comes up again cannot have risen.

**The refinements**. Initial states map to initial states, all secrets unissued. Every step maps to
issuing, claiming, finishing or expiring one secret, or to a stutter: the phase of a secret
is that of its row, and of a taken row whether somebody holds it. What makes a step of one request
leave every other secret alone is `Held`, that no secret is held twice.

**SecondFactorProofs**: `TypeCorrect`, `SessionsAlwaysEarned`, `ActiveAlwaysProven`, `CodesAlwaysFollow`,
`CodesAlwaysWorkOnce`, `ActiveAlwaysStays`. The inductive invariant is the conjunction of `TypeOK` with

- `Shape`: what a request was started for, and that none has passed a factor before verifying it.
- `Loaded`: what a request that was not overtaken loaded, or wrote, is still so: the row it
  verifies is the row stored, the codes it issues or drops belong to what is there.
- `SecretsDrawn`: every secret in sight was drawn, and one about to be stored is nobody else's
  and no code of it was used. Without it a new enrolment could meet codes used before.
- `StepsRecorded`: in a clean run the last step recorded is that of the newest code used. This is
  why a replayed code fails `ValidateTOTPCode`, and the reason for `CodesAlwaysWorkOnce`.
- `ActiveWasProven` and `CodesFollowFactor` themselves.

The proof first says what every step of one request comes to (`Asks`, `Writes` and their parts), for
itself and for the others, and then reasons about these few outcomes instead of eighteen actions.

Every inductive invariant was model-checked on the run of its module before it was proved.

**Only model-checked**: `EverySessionEnds`, since liveness is out of the prover's reach (its safety
half is proved);
`EnableReturnsSignedOut` has a theorem for one request at a time only, because it is not true
beyond that; and of course the violations.

## 6. Not modelled, and why

- *Out of reach of a model checker*: argon2id, AES-GCM, signatures, randomness, timing
  equalization (`password.go`, `seal.go`, `token.go`, the WebAuthn and OAuth libraries).
- *Nothing to check but wording*: listings, `ParseRole`, error texts, context plumbing,
  avatars, `TouchAPIKey`.
- *String work*: the character rules of `policy.go`, the dictionary and its normalizations.
- *A changing policy*: `SetPasswordPolicy` is one validated save; Passwords takes the policy as
  a constant, so a depth that is lowered and raised again is not covered.
- *The product of password and second factor*: a step-one token outlives a change of the
  password it was issued for (`authenticator.go:348`); the two modules abstract from each
  other, and together are beyond an exhaustive run with two requests.
- *A clock that runs backwards*: instants are times left, and time only passes.
- *Test helper*: `webauthntest`.

## 7. Plan

Modelled and checked: sections 2 and 3. Proved: every safety property of the passing runs. Left:

1. **A policy that changes** while passwords do: `SetPasswordPolicy` beside Passwords, with the depth
   a variable; `NoneComesBack` then speaks of the lowest depth since a password was filed.
2. **The step-one token that outlives a password**: a small composition of Passwords' `Login` and
   `Revoke` with SecondFactor's tokens.
