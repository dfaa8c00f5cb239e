-------------------------------- MODULE GoogleSSO --------------------------------
(***************************************************************************)
(* Signing in with a Google account: BeginLogin and FinishLogin of         *)
(* src/google_sso.go and CompleteGoogleLogin of src/authenticator.go.      *)
(*                                                                         *)
(* A process is one request and a step at most one store call, which may   *)
(* fail. Google may vouch for any address to any of its subjects, and      *)
(* change its mind: addresses move. An address is named by the account     *)
(* here that has it. The avatar and what becomes of a session are left     *)
(* out.                                                                    *)
(***************************************************************************)
CONSTANTS
    User, NoUser,
    Subject,        \* Google's own ids for its accounts
    State,          \* values of the state parameter, each issued once: a bound
    Proc,           \* concurrent requests
    HostedDomain,   \* is sign-in restricted to a Workspace domain?
    Faults          \* may a store call fail?

ASSUME GoogleSSOAssumption ==
    /\ NoUser \notin User
    /\ HostedDomain \in BOOLEAN /\ Faults \in BOOLEAN

VARIABLES
    users,          \* the accounts
    disabled,       \* the disabled ones
    links,          \* links[s]: the account linked to subject s
    challenges,     \* where each state is
    req,            \* req[p]: where request p is
    granted,        \* history: the sessions given
    vouched         \* history: the subjects and addresses that tokens taken for
                    \* a verified address of an allowed domain had together

vars == <<users, disabled, links, challenges, req, granted, vouched>>

\* What an ID token says: whose it is, which address, whether Google verified
\* the address, and whether the account is in the hosted domain.
Token == [subject : Subject, email : User, verified : BOOLEAN, hosted : BOOLEAN]

Request == [ pc     : {"idle", "exchange", "subject", "email", "link", "user", "session"},
             state  : SUBSET State,             \* the one it claimed
             token  : SUBSET Token,             \* the ID token, once exchanged
             user   : User \cup {NoUser},       \* the account found
             fresh  : BOOLEAN ]   \* history: no other request has written the links,
                                  \* nor anybody an account, since the subject was looked up

Idle == [pc |-> "idle", state |-> {}, token |-> {}, user |-> NoUser, fresh |-> FALSE]

TypeOK ==
    /\ users \in [User -> {"unused", "live", "deleted"}]
    /\ disabled \subseteq User
    /\ links \in [Subject -> User \cup {NoUser}]
    /\ challenges \in [State -> {"unissued", "open", "taken"}]
    /\ req \in [Proc -> Request]
    /\ granted \subseteq [id : State, purpose : {"google"}, to : User]
    /\ vouched \subseteq Subject \X User
    /\ \A p \in Proc : req[p].pc \in {"link", "user", "session"} => req[p].user # NoUser

-----------------------------------------------------------------------------
Init ==
    /\ users \in [User -> {"unused", "live"}]
    /\ disabled = {}
    /\ links = [s \in Subject |-> NoUser]
    /\ challenges = [c \in State |-> "unissued"]
    /\ req = [p \in Proc |-> Idle]
    /\ granted = {} /\ vouched = {}

At(p, pc) == req[p].pc = pc
Goto(p, pc) == req' = [req EXCEPT ![p].pc = pc]
Finish(p) == req' = [req EXCEPT ![p] = Idle]
Overtaken(r, ps) == [p \in Proc |-> IF p \in ps THEN [r[p] EXCEPT !.fresh = FALSE] ELSE r[p]]

\* InsertGoogleChallenge.
BeginLogin ==
    /\ \E c \in State :
         /\ challenges[c] = "unissued"
         /\ challenges' = [challenges EXCEPT ![c] = "open"]
    /\ UNCHANGED <<users, disabled, links, req, granted, vouched>>

-----------------------------------------------------------------------------
(* FinishLogin. *)

\* Mutant: the state is read, not claimed.
ReadGoogleChallenge(p) ==
    /\ At(p, "idle")
    /\ \E c \in State :
         /\ challenges[c] = "open"
         /\ req' = [req EXCEPT ![p] = [Idle EXCEPT !.pc = "exchange", !.state = {c}]]
    /\ UNCHANGED <<users, disabled, links, challenges, granted, vouched>>

ClaimGoogleChallenge(p) ==
    /\ At(p, "idle")
    /\ \E c \in State :
         /\ challenges[c] = "open"
         /\ challenges' = [challenges EXCEPT ![c] = "taken"]
         /\ req' = [req EXCEPT ![p] = [Idle EXCEPT !.pc = "exchange", !.state = {c}]]
    /\ UNCHANGED <<users, disabled, links, granted, vouched>>

InDomain(t) == HostedDomain => t.hosted

\* Exchange and Verify. A code that is no good, and a token of another sign-in
\* (the nonce) or another domain, are the end of it.
Exchange(p) ==
    /\ At(p, "exchange")
    /\ \/ \E t \in Token :
            /\ InDomain(t)
            /\ req' = [req EXCEPT ![p].pc = "subject", ![p].token = {t}]
            /\ vouched' = IF t.verified THEN vouched \cup {<<t.subject, t.email>>} ELSE vouched
       \/ Finish(p) /\ UNCHANGED vouched
    /\ UNCHANGED <<users, disabled, links, challenges, granted>>

\* Mutants: the address is taken on trust; a link is not looked for first.
MayMatchAny(t) == TRUE
LinkedToNone(t) == NoUser

\* "an unverified email is an assertion from whoever holds the Google account"
MayMatchEmail(t) == t.verified

Linked(t) == links[t.subject]

UserByGoogleSubject(p) ==
    /\ At(p, "subject")
    /\ \E t \in req[p].token :
         \/ /\ Linked(t) # NoUser
            /\ req' = [req EXCEPT ![p].pc = "user", ![p].user = Linked(t), ![p].fresh = TRUE]
         \/ /\ Linked(t) = NoUser /\ MayMatchEmail(t)
            /\ req' = [req EXCEPT ![p].pc = "email", ![p].fresh = TRUE]
         \/ /\ Linked(t) = NoUser /\ ~MayMatchEmail(t)
            /\ Finish(p)
    /\ UNCHANGED <<users, disabled, links, challenges, granted, vouched>>

\* Mutant: the error is not looked at, and whatever came back is linked.
UserByEmailOrNobody(p) ==
    /\ At(p, "email")
    /\ \E t \in req[p].token :
         req' = [req EXCEPT ![p].pc = "link",
                            ![p].user = IF users[t.email] = "live" THEN t.email ELSE NoUser]
    /\ UNCHANGED <<users, disabled, links, challenges, granted, vouched>>

\* ErrGoogleAccountNotFound, if nobody has the address: none is created.
UserByEmail(p) ==
    /\ At(p, "email")
    /\ \E t \in req[p].token :
         IF users[t.email] = "live"
         THEN req' = [req EXCEPT ![p].pc = "link", ![p].user = t.email]
         ELSE Finish(p)
    /\ UNCHANGED <<users, disabled, links, challenges, granted, vouched>>

\* By then the account may be gone.
LinkGoogleAccount(p) ==
    /\ At(p, "link")
    /\ links' = [s \in Subject |->
                   IF users[req[p].user] = "live" /\ \E t \in req[p].token : t.subject = s
                   THEN req[p].user ELSE links[s]]
    /\ req' = Overtaken([req EXCEPT ![p].pc = "user"], Proc \ {p})
    /\ UNCHANGED <<users, disabled, challenges, granted, vouched>>

-----------------------------------------------------------------------------
(* CompleteGoogleLogin. *)

RereadUser(p) ==
    /\ At(p, "user")
    /\ IF users[req[p].user] = "live" /\ req[p].user \notin disabled
       THEN Goto(p, "session") ELSE Finish(p)
    /\ UNCHANGED <<users, disabled, links, challenges, granted, vouched>>

\* issueSession.
InsertSession(p) ==
    /\ At(p, "session")
    /\ granted' = granted \cup {[id |-> c, purpose |-> "google", to |-> req[p].user] :
                                   c \in req[p].state}
    /\ Finish(p)
    /\ UNCHANGED <<users, disabled, links, challenges, vouched>>

-----------------------------------------------------------------------------
(* What happens around it. *)

Expires ==
    /\ \E c \in State :
         /\ challenges[c] = "open"
         /\ challenges' = [challenges EXCEPT ![c] = "taken"]
    /\ UNCHANGED <<users, disabled, links, req, granted, vouched>>

\* CreateUser, DeleteUser (its links go along), DisableUser and EnableUser.
UserChanges ==
    /\ \E u \in User :
         \/ /\ users[u] = "unused"
            /\ users' = [users EXCEPT ![u] = "live"]
            /\ UNCHANGED <<disabled, links>>
         \/ /\ users[u] = "live"
            /\ users' = [users EXCEPT ![u] = "deleted"]
            /\ links' = [s \in Subject |-> IF links[s] = u THEN NoUser ELSE links[s]]
            /\ UNCHANGED disabled
         \/ /\ users[u] = "live"
            /\ disabled' = (disabled \ {u}) \cup ({u} \ disabled)
            /\ UNCHANGED <<users, links>>
    /\ req' = Overtaken(req, Proc)
    /\ UNCHANGED <<challenges, granted, vouched>>

\* A failing store call ends its request with an error.
StoreError(p) ==
    /\ Faults
    /\ ~At(p, "idle")
    /\ Finish(p)
    /\ UNCHANGED <<users, disabled, links, challenges, granted, vouched>>

Next ==
    \/ \E p \in Proc :
         \/ ClaimGoogleChallenge(p) \/ Exchange(p) \/ UserByGoogleSubject(p) \/ UserByEmail(p)
         \/ LinkGoogleAccount(p) \/ RereadUser(p) \/ InsertSession(p) \/ StoreError(p)
    \/ BeginLogin \/ Expires \/ UserChanges

Spec == Init /\ [][Next]_vars

-----------------------------------------------------------------------------
(* Properties. *)

\* GoogleSSOStore: "a state value good for more than one callback would let a
\* leaked or replayed redirect be completed twice". Every state is a one-time
\* secret, issued to nobody in particular.
PhaseOf(c) ==
    IF challenges[c] # "taken" THEN challenges[c]
    ELSE IF \E p \in Proc : c \in req[p].state THEN "claimed" ELSE "spent"

OneTime == INSTANCE OneTimeSecret WITH
    Id <- State, Purpose <- {"google"}, Account <- User, Anyone <- NoUser,
    secrets <- [c \in State |-> [phase |-> PhaseOf(c), purpose |-> "google", owner |-> NoUser]]

StatesAreOneTime == OneTime!Spec

\* FinishLogin: "Google-verified email is the only signal this package will link an
\* existing account on". Every link, and every session about to be given, is to an
\* account whose address Google once vouched for to that subject, however links and
\* deletions interleave; and the session goes to the account linked now, enabled,
\* unless somebody wrote since it was looked up.
SessionsVouched ==
    /\ \A s \in Subject : links[s] # NoUser => <<s, links[s]>> \in vouched
    /\ \A p \in Proc : At(p, "session") =>
         \A t \in req[p].token :
            /\ <<t.subject, req[p].user>> \in vouched
            /\ req[p].fresh => /\ links[t.subject] = req[p].user
                               /\ req[p].user \notin disabled

\* GoogleSSOStore: once linked, a sign-in "does not need to fall back to an email
\* match". A subject stays with its account while that exists, whatever address it
\* shows later, except by a request that looked before the link was there.
SubjectKeepsAccount ==
    [][\A s \in Subject :
          \/ links[s] = NoUser \/ links'[s] = links[s]
          \/ users'[links[s]] = "deleted"
          \/ \E p \in Proc : At(p, "link") /\ ~req[p].fresh /\ req'[p].pc = "user"]_vars

=============================================================================
