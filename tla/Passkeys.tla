-------------------------------- MODULE Passkeys --------------------------------
(***************************************************************************)
(* Ceremonies with security keys: the begin and finish calls of            *)
(* src/webauthn.go, with the completions of src/authenticator.go and       *)
(* src/stepup.go that they end in.                                         *)
(*                                                                         *)
(* A process is one request and a step at most one store call, which may   *)
(* fail. A finish call brings a signature, made before, of one key over    *)
(* the challenge it names, with a use counter of any value: two devices    *)
(* may hold one key, and requests may arrive in another order than they    *)
(* were signed. Signatures over another challenge are refused after the    *)
(* claim. What a revocation needs is StepUp's, and what becomes of a       *)
(* session or a stamp is Sessions' and StepUp's.                           *)
(***************************************************************************)
EXTENDS Integers

CONSTANTS
    User, NoUser,
    Key,            \* credential ids, each registered once: a bound
    Challenge,      \* challenge ids, each issued once: a bound
    Proc,           \* concurrent requests
    MaxCount,       \* the highest use counter: a bound
    Faults          \* may a store call fail?

ASSUME PasskeysAssumption ==
    /\ NoUser \notin User
    /\ MaxCount \in Nat
    /\ Faults \in BOOLEAN

VARIABLES
    creds,          \* the credential rows
    challenges,     \* the ceremony rows
    disabled,       \* the disabled accounts
    req,            \* req[p]: where request p is
    granted,        \* history: what completed ceremonies gave
    seen,           \* history: per key, the counters of recorded uses
    repeated        \* history: the keys of which a counter was recorded again, when
                    \* every record so far had been made by a request not overtaken

vars == <<creds, challenges, disabled, req, granted, seen, repeated>>

Purpose == {"registration", "login", "step_up", "passwordless"}
Count == 0 .. MaxCount

\* count is the counter inside the stored credential, warned CloneWarning. pin is
\* the key's, not the row's: does it ask for a PIN or a biometric?
Credential == [ status : {"none", "live", "revoked"}, owner : User \cup {NoUser},
                count : Count, warned : BOOLEAN, pin : BOOLEAN ]

NoCredential == [status |-> "none", owner |-> NoUser, count |-> 0, warned |-> FALSE, pin |-> FALSE]
New(u, pin) == [status |-> "live", owner |-> u, count |-> 0, warned |-> FALSE, pin |-> pin]

Ceremony == [phase : {"unissued", "open", "taken"}, purpose : Purpose, user : User \cup {NoUser}]
NoCeremony == [phase |-> "unissued", purpose |-> "registration", user |-> NoUser]

Request == [ pc        : {"idle", "begin", "challenge", "load", "touch", "user", "session",
                          "stamp", "insert"},
             op        : Purpose,
             user      : User \cup {NoUser},
             challenge : SUBSET Challenge,      \* the one it claimed
             key       : SUBSET Key,            \* the one that signed
             count     : Count,                 \* the counter in the signature
             row       : Count,                 \* the counter in the credential as loaded
             fresh     : BOOLEAN ]   \* history: no other request has recorded a use of
                                     \* the key since, and nobody revoked or disabled

Idle == [pc |-> "idle", op |-> "registration", user |-> NoUser, challenge |-> {},
         key |-> {}, count |-> 0, row |-> 0, fresh |-> FALSE]

TypeOK ==
    /\ creds \in [Key -> Credential]
    /\ challenges \in [Challenge -> Ceremony]
    /\ disabled \subseteq User
    /\ req \in [Proc -> Request]
    /\ granted \subseteq [id : Challenge, purpose : Purpose, to : User]
    /\ seen \in [Key -> SUBSET Count]
    /\ repeated \subseteq Key

-----------------------------------------------------------------------------
\* Some keys are registered already.
Init ==
    /\ creds \in [Key -> {NoCredential} \cup {New(u, pin) : u \in User, pin \in BOOLEAN}]
    /\ challenges = [c \in Challenge |-> NoCeremony]
    /\ disabled = {}
    /\ req = [p \in Proc |-> Idle]
    /\ granted = {}
    /\ seen = [k \in Key |-> {}] /\ repeated = {}

At(p, pc) == req[p].pc = pc
Goto(p, pc) == req' = [req EXCEPT ![p].pc = pc]
Finish(p) == req' = [req EXCEPT ![p] = Idle]
Overtaken(ps) == [p \in Proc |-> IF p \in ps THEN [req[p] EXCEPT !.fresh = FALSE] ELSE req[p]]

KeysOf(u) == {k \in Key : creds[k].status = "live" /\ creds[k].owner = u}

-----------------------------------------------------------------------------
(* Begin calls. *)

\* BeginRegistration and BeginStepUp for whoever is signed in, BeginLogin for
\* whoever spent an MFA token; BeginPasswordlessLogin for nobody in particular.
Begin(p) ==
    /\ At(p, "idle")
    /\ \/ \E u \in User, op \in Purpose \ {"passwordless"} :
            req' = [req EXCEPT ![p] = [Idle EXCEPT !.pc = "begin", !.op = op, !.user = u]]
       \/ req' = [req EXCEPT ![p] = [Idle EXCEPT !.pc = "challenge", !.op = "passwordless"]]
    /\ UNCHANGED <<creds, challenges, disabled, granted, seen, repeated>>

\* userFor: without a key there is nothing to sign in or step up with.
UserFor(p) ==
    /\ At(p, "begin")
    /\ IF req[p].op = "registration" \/ KeysOf(req[p].user) # {}
       THEN Goto(p, "challenge")
       ELSE Finish(p)
    /\ UNCHANGED <<creds, challenges, disabled, granted, seen, repeated>>

StoreCeremony(p) ==
    /\ At(p, "challenge")
    /\ \E c \in Challenge :
         /\ challenges[c].phase = "unissued"
         /\ challenges' = [challenges EXCEPT ![c] =
                [phase |-> "open", purpose |-> req[p].op, user |-> req[p].user]]
    /\ Finish(p)
    /\ UNCHANGED <<creds, disabled, granted, seen, repeated>>

-----------------------------------------------------------------------------
(* Finish calls: FinishRegistration and FinishStepUp name their caller's    *)
(* account, FinishLogin takes the challenge's, FinishPasswordlessLogin the  *)
(* one in the response.                                                     *)

\* Mutant: the purpose is not compared.
ClaimableForAll(c, op, actor) ==
    /\ challenges[c].phase = "open"
    /\ op \in {"registration", "step_up"} => challenges[c].user = actor

\* ClaimChallenge, ClaimLoginChallenge, ClaimPasswordlessChallenge.
Claimable(c, op, actor) ==
    /\ challenges[c].phase = "open"
    /\ challenges[c].purpose = op
    /\ op \in {"registration", "step_up"} => challenges[c].user = actor

AccountOf(c, op, actor) == IF op = "login" THEN challenges[c].user ELSE actor

Claim(p) ==
    /\ At(p, "idle")
    /\ \E c \in Challenge, op \in Purpose, actor \in User, k \in Key, n \in Count :
         /\ Claimable(c, op, actor)
         /\ challenges' = [challenges EXCEPT ![c].phase = "taken"]
         /\ req' = [req EXCEPT ![p] =
                [Idle EXCEPT !.pc = IF op = "registration" THEN "insert" ELSE "load",
                             !.op = op, !.user = AccountOf(c, op, actor),
                             !.challenge = {c}, !.key = {k}, !.count = n]]
    /\ UNCHANGED <<creds, disabled, granted, seen, repeated>>

\* ValidateLogin and ValidateDiscoverableLogin, given the account's credentials.
Accepted(k, u, op) ==
    /\ k \in KeysOf(u)
    /\ op = "passwordless" => creds[k].pin

\* userFor, and the library's verdict; a response that does not verify is the
\* end of the ceremony.
Validate(p) ==
    /\ At(p, "load")
    /\ \/ \E k \in req[p].key :
            /\ Accepted(k, req[p].user, req[p].op)
            /\ req' = [req EXCEPT ![p].pc = "touch", ![p].row = creds[k].count, ![p].fresh = TRUE]
       \/ Finish(p)
    /\ UNCHANGED <<creds, challenges, disabled, granted, seen, repeated>>

\* UpdateCounter of the library: a counter that did not rise is a warning, and
\* is not taken over. Keys without one send zero.
Suspicious(count, row) == count <= row /\ (count # 0 \/ row # 0)

\* Mutants: the counter of the registration stays in the stored credential; it
\* is stored one too high.
RecordedWarning(row, r) == [row EXCEPT !.warned = @ \/ Suspicious(r.count, r.row)]
RecordedNext(row, r) ==
    [row EXCEPT !.count = r.count + 1, !.warned = @ \/ Suspicious(r.count, r.row)]

\* TouchCredential: the credential as the verifier left it, and its warning.
Recorded(row, r) ==
    [row EXCEPT !.count = IF Suspicious(r.count, r.row) THEN r.row ELSE r.count,
                !.warned = @ \/ Suspicious(r.count, r.row)]

AfterTouch(op) == IF op = "step_up" THEN "stamp" ELSE "user"

\* The row of a key revoked meanwhile is gone. The history keeps counters only
\* as long as requests record them in the order they loaded the row.
TouchCredential(p) ==
    /\ At(p, "touch")
    /\ \E k \in req[p].key :
         /\ creds' = IF creds[k].status = "live"
                     THEN [creds EXCEPT ![k] = Recorded(@, req[p])] ELSE creds
         /\ repeated' = IF req[p].fresh /\ req[p].count \in seen[k]
                        THEN repeated \cup {k} ELSE repeated
         /\ seen' = [seen EXCEPT ![k] = IF req[p].fresh THEN (@ \cup {req[p].count}) \ {0} ELSE {}]
         /\ req' = [Overtaken({q \in Proc \ {p} : k \in req[q].key})
                      EXCEPT ![p].pc = AfterTouch(req[p].op)]
    /\ UNCHANGED <<challenges, disabled, granted>>

\* Mutant: the account is not read again.
RereadNothing(p) ==
    /\ At(p, "user")
    /\ Goto(p, "session")
    /\ UNCHANGED <<creds, challenges, disabled, granted, seen, repeated>>

\* CompletePasskeyLogin, CompletePasswordlessLogin: UserByID.
RereadUser(p) ==
    /\ At(p, "user")
    /\ IF req[p].user \in disabled THEN Finish(p) ELSE Goto(p, "session")
    /\ UNCHANGED <<creds, challenges, disabled, granted, seen, repeated>>

Gives(p) == granted' = granted \cup {[id |-> c, purpose |-> req[p].op, to |-> req[p].user] :
                                        c \in req[p].challenge}

\* issueSession; StampStepUp.
Complete(p) ==
    /\ At(p, "session") \/ At(p, "stamp")
    /\ Gives(p)
    /\ Finish(p)
    /\ UNCHANGED <<creds, challenges, disabled, seen, repeated>>

\* CreateCredential makes a key the account has from now on, or refuses.
InsertCredential(p) ==
    /\ At(p, "insert")
    /\ \/ /\ \E k \in Key, pin \in BOOLEAN :
               /\ creds[k].status = "none"
               /\ creds' = [creds EXCEPT ![k] = New(req[p].user, pin)]
          /\ Gives(p)
       \/ UNCHANGED <<creds, granted>>
    /\ Finish(p)
    /\ UNCHANGED <<challenges, disabled, seen, repeated>>

-----------------------------------------------------------------------------
(* What happens around it. *)

Expires ==
    /\ \E c \in Challenge :
         /\ challenges[c].phase = "open"
         /\ challenges' = [challenges EXCEPT ![c].phase = "taken"]
    /\ UNCHANGED <<creds, disabled, req, granted, seen, repeated>>

\* RevokeCredential and RevokeAllFor.
Revoked ==
    /\ \E k \in Key :
         /\ creds[k].status = "live"
         /\ creds' = [creds EXCEPT ![k].status = "revoked"]
         /\ req' = Overtaken({p \in Proc : k \in req[p].key})
    /\ UNCHANGED <<challenges, disabled, granted, seen, repeated>>

Suspended ==
    /\ \E u \in User :
         /\ disabled' = (disabled \ {u}) \cup ({u} \ disabled)
         /\ req' = Overtaken({p \in Proc : req[p].user = u})
    /\ UNCHANGED <<creds, challenges, granted, seen, repeated>>

\* Any failing store call ends its request with an error.
StoreError(p) ==
    /\ Faults
    /\ ~At(p, "idle")
    /\ Finish(p)
    /\ UNCHANGED <<creds, challenges, disabled, granted, seen, repeated>>

Next ==
    \/ \E p \in Proc :
         \/ Begin(p) \/ UserFor(p) \/ StoreCeremony(p)
         \/ Claim(p) \/ Validate(p) \/ TouchCredential(p) \/ RereadUser(p)
         \/ Complete(p) \/ InsertCredential(p) \/ StoreError(p)
    \/ Expires \/ Revoked \/ Suspended

Spec == Init /\ [][Next]_vars

-----------------------------------------------------------------------------
(* Properties. *)

\* webauthn.go: "A challenge issued for one must not complete the other", and
\* "the user comes from the CHALLENGE". Every ceremony is a one-time secret.
PhaseOf(c) ==
    IF challenges[c].phase # "taken" THEN challenges[c].phase
    ELSE IF \E p \in Proc : c \in req[p].challenge THEN "claimed" ELSE "spent"

OneTime == INSTANCE OneTimeSecret WITH
    Id <- Challenge, Account <- User, Anyone <- NoUser,
    secrets <- [c \in Challenge |-> [phase |-> PhaseOf(c), purpose |-> challenges[c].purpose,
                                     owner |-> challenges[c].user]]

CeremoniesAreOneTime == OneTime!Spec

\* FinishLogin, FinishPasswordlessLogin, CompletePasskeyLogin: a session or a
\* stamp is about to be given to the account whose key signed, and that is not
\* disabled; passwordless, the key was unlocked as well ("a key that only proves
\* possession would make this one factor"). Unless the key was revoked or the
\* account disabled since it was looked at.
KeyOwnersOnly ==
    \A p \in Proc : (At(p, "session") \/ At(p, "stamp")) /\ req[p].fresh =>
        /\ req[p].key \subseteq KeysOf(req[p].user)
        /\ At(p, "session") => req[p].user \notin disabled
        /\ req[p].op = "passwordless" => \A k \in req[p].key : creds[k].pin

\* TouchCredential: with a credential "that is never rewritten ... the clone check
\* becomes decoration". A counter that came up twice has raised the warning, as
\* long as the uses were recorded in the order they were checked.
ClonesNoticed == \A k \in repeated : creds[k].status = "live" => creds[k].warned

=============================================================================
