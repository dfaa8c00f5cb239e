-------------------------------- MODULE Sessions --------------------------------
(***************************************************************************)
(* How long one account's sessions live: issueSession, sessionLifetimes,   *)
(* AuthenticateSession and Logout of src/authenticator.go over the Store   *)
(* of src/store.go.                                                        *)
(*                                                                         *)
(* As in Roster a process is one request and a step at most one store      *)
(* call, which may fail. Every instant is kept as the time left until it,  *)
(* which Tick takes one from: the ones in the rows, and the ones that      *)
(* requests under way have computed and not yet written.                   *)
(***************************************************************************)
EXTENDS Integers

CONSTANTS
    Session,            \* session ids, each issued once: a bound
    Proc,               \* concurrent requests
    Role,               \* the roles the account may be given
    Rule,               \* WithSessionLifetimes: a pair of windows per role
    IdleTimeout,        \* the windows where the rule has none
    AbsoluteTimeout,
    Faults              \* may a store call fail?

ASSUME SessionsAssumption ==
    /\ Rule \in [Role -> [idle : Int, absolute : Int]]
    /\ IdleTimeout \in Nat \ {0} /\ AbsoluteTimeout \in Nat \ {0}
    /\ IdleTimeout <= AbsoluteTimeout
    /\ Faults \in BOOLEAN

VARIABLES
    sessions,   \* the rows: times left until ExpiresAt and AbsoluteExpiresAt
    role, disabled,     \* of the account
    req,        \* req[p]: where request p is
    due,        \* history: the longest time left to a window that a request
                \* of this session, or its sign-in, was granted
    current,    \* history: the sessions whose window was last written by a
                \* request that saw the role the account has now
    out         \* history: the sessions a Logout has answered for

vars == <<sessions, role, disabled, req, due, current, out>>

Row == [issued : BOOLEAN, revoked : BOOLEAN, idle : Nat, absolute : Nat]
NoRow == [issued |-> FALSE, revoked |-> FALSE, idle |-> 0, absolute |-> 0]

Request == [ pc       : {"idle", "insert", "touch", "revoke"},
             session  : SUBSET Session,   \* the one looked up, if any
             idle     : Nat,              \* what is left of the computed windows
             absolute : Nat,
             fresh    : BOOLEAN ]         \* history: the role is still as loaded

Idle == [pc |-> "idle", session |-> {}, idle |-> 0, absolute |-> 0, fresh |-> FALSE]

TypeOK ==
    /\ sessions \in [Session -> Row]
    /\ role \in Role /\ disabled \in BOOLEAN
    /\ req \in [Proc -> Request]
    /\ due \in [Session -> Nat]
    /\ current \subseteq Session /\ out \subseteq Session

-----------------------------------------------------------------------------
Positive(n, default) == IF n > 0 THEN n ELSE default
AtLeast(n, least) == IF n < least THEN least ELSE n
AtMost(n, most) == IF n > most THEN most ELSE n

\* Mutant: only zero falls back.
NonZero(n, default) == IF n # 0 THEN n ELSE default
LifetimesNonZero(r) ==
    LET idle == NonZero(Rule[r].idle, IdleTimeout)
    IN  [idle |-> idle, absolute |-> AtLeast(NonZero(Rule[r].absolute, AbsoluteTimeout), idle)]

\* sessionLifetimes. A nil rule is one that answers zero.
Lifetimes(r) ==
    LET idle == Positive(Rule[r].idle, IdleTimeout)
    IN  [idle |-> idle, absolute |-> AtLeast(Positive(Rule[r].absolute, AbsoluteTimeout), idle)]

\* A window is over, or somebody revoked it.
Over(s) ==
    /\ sessions[s].issued
    /\ sessions[s].revoked \/ sessions[s].idle = 0 \/ sessions[s].absolute = 0

\* Mutant: the idle window is not looked at.
FoundIdle(s) ==
    /\ sessions[s].issued /\ ~sessions[s].revoked /\ sessions[s].absolute > 0
    /\ ~disabled

\* SessionByTokenHash: expired, revoked and owner disabled are no row at all.
Found(s) == sessions[s].issued /\ ~Over(s) /\ ~disabled

Init ==
    /\ sessions = [s \in Session |-> NoRow]
    /\ role \in Role /\ disabled = FALSE
    /\ req = [p \in Proc |-> Idle]
    /\ due = [s \in Session |-> 0]
    /\ current = {} /\ out = {}

At(p, pc) == req[p].pc = pc
Finish(p) == req' = [req EXCEPT ![p] = Idle]
Begin(p, request) ==
    At(p, "idle") /\ req' = [req EXCEPT ![p] = [request EXCEPT !.fresh = TRUE]]
TouchUnderWay(s) == \E p \in Proc : At(p, "touch") /\ s \in req[p].session

-----------------------------------------------------------------------------
(* A sign-in, however it was earned: Login reads the clock and the user,   *)
(* then verifies; the windows count from there.                            *)

SignIn(p) ==
    /\ ~disabled
    /\ Begin(p, [Idle EXCEPT !.pc = "insert", !.idle = Lifetimes(role).idle,
                             !.absolute = Lifetimes(role).absolute])
    /\ UNCHANGED <<sessions, role, disabled, due, current, out>>

\* issueSession.
InsertSession(p) ==
    /\ At(p, "insert")
    /\ \E s \in Session :
         /\ ~sessions[s].issued
         /\ sessions' = [sessions EXCEPT ![s] =
                [issued |-> TRUE, revoked |-> FALSE,
                 idle |-> req[p].idle, absolute |-> req[p].absolute]]
         /\ due' = [due EXCEPT ![s] = req[p].idle]
         /\ current' = IF req[p].fresh THEN current \cup {s} ELSE current
    /\ Finish(p)
    /\ UNCHANGED <<role, disabled, out>>

-----------------------------------------------------------------------------
(* AuthenticateSession. *)

\* userOf: the rule is asked about the role the lookup found.
TouchWindow(r) == Lifetimes(r).idle

\* SessionByTokenHash with now. One that finds nothing ends there.
LookUp(p) ==
    /\ \E s \in Session :
         /\ Found(s)
         /\ Begin(p, [Idle EXCEPT !.pc = "touch", !.session = {s}, !.idle = TouchWindow(role)])
         /\ due' = [due EXCEPT ![s] = AtLeast(due[s], Lifetimes(role).idle)]
    /\ UNCHANGED <<sessions, role, disabled, current, out>>

\* Mutants: the window counts from the landing; the ceiling moves along.
TouchedFromNow(row, r) == [row EXCEPT !.idle = AtMost(TouchWindow(role), row.absolute)]
TouchedWhole(row, r) == [row EXCEPT !.idle = r.idle, !.absolute = AtLeast(row.absolute, r.idle)]

\* TouchSession: now + idle, clamped to the ceiling. By id, whatever became
\* of the session since it was found.
Touched(row, r) == [row EXCEPT !.idle = AtMost(r.idle, row.absolute)]

\* A touch that fails is ignored.
TouchSession(p) ==
    /\ At(p, "touch")
    /\ \/ \E s \in req[p].session :
            /\ sessions' = [sessions EXCEPT ![s] = Touched(@, req[p])]
            /\ current' = IF req[p].fresh THEN current \cup {s} ELSE current \ {s}
       \/ Faults /\ UNCHANGED <<sessions, current>>
    /\ Finish(p)
    /\ UNCHANGED <<role, disabled, due, out>>

-----------------------------------------------------------------------------
(* Logout. *)

\* A session that is not found needs no revoking: the answer is success.
Logout(p) ==
    /\ At(p, "idle")
    /\ \E s \in Session :
         /\ sessions[s].issued
         /\ \/ /\ Found(s)
               /\ Begin(p, [Idle EXCEPT !.pc = "revoke", !.session = {s}])
               /\ UNCHANGED out
            \/ /\ ~Found(s)
               /\ out' = IF disabled \/ TouchUnderWay(s) THEN out ELSE out \cup {s}
               /\ UNCHANGED req
    /\ UNCHANGED <<sessions, role, disabled, due, current>>

\* Mutant: a failure to revoke is swallowed.
RevokeSessionSilently(p) ==
    /\ At(p, "revoke")
    /\ \/ sessions' = [s \in Session |->
                         IF s \in req[p].session THEN [sessions[s] EXCEPT !.revoked = TRUE]
                         ELSE sessions[s]]
       \/ Faults /\ UNCHANGED sessions
    /\ out' = out \cup req[p].session
    /\ Finish(p)
    /\ UNCHANGED <<role, disabled, due, current>>

RevokeSession(p) ==
    /\ At(p, "revoke")
    /\ \/ /\ sessions' = [s \in Session |->
                            IF s \in req[p].session THEN [sessions[s] EXCEPT !.revoked = TRUE]
                            ELSE sessions[s]]
          /\ out' = out \cup req[p].session
       \/ Faults /\ UNCHANGED <<sessions, out>>
    /\ Finish(p)
    /\ UNCHANGED <<role, disabled, due, current>>

-----------------------------------------------------------------------------
(* What happens around it. *)

\* RevokeSessionsByUser of a password change or a suspension.
RevokeSessionsByUser ==
    /\ sessions' = [s \in Session |->
                      IF sessions[s].issued THEN [sessions[s] EXCEPT !.revoked = TRUE] ELSE sessions[s]]
    /\ UNCHANGED <<role, disabled, req, due, current, out>>

SetRole ==
    /\ role' \in Role \ {role}
    /\ req' = [p \in Proc |-> [req[p] EXCEPT !.fresh = FALSE]]
    /\ current' = {}
    /\ UNCHANGED <<sessions, disabled, due, out>>

Suspended ==
    /\ disabled' = ~disabled
    /\ UNCHANGED <<sessions, role, req, due, current, out>>

Less(n) == IF n > 0 THEN n - 1 ELSE 0

Tick ==
    /\ sessions' = [s \in Session |->
          [sessions[s] EXCEPT !.idle = Less(@), !.absolute = Less(@)]]
    /\ req' = [p \in Proc |-> [req[p] EXCEPT !.idle = Less(@), !.absolute = Less(@)]]
    /\ due' = [s \in Session |-> Less(due[s])]
    /\ UNCHANGED <<role, disabled, current, out>>

\* Any other failing store call ends its request with an error.
StoreError(p) ==
    /\ Faults /\ At(p, "insert")
    /\ Finish(p)
    /\ UNCHANGED <<sessions, role, disabled, due, current, out>>

Next ==
    \/ \E p \in Proc : \/ SignIn(p) \/ InsertSession(p) \/ LookUp(p) \/ TouchSession(p)
                       \/ Logout(p) \/ RevokeSession(p) \/ StoreError(p)
    \/ RevokeSessionsByUser \/ SetRole \/ Suspended \/ Tick

\* Time passes, whatever the requests do.
Spec == Init /\ [][Next]_vars /\ WF_vars(Tick)

-----------------------------------------------------------------------------
(* Properties. *)

\* sessionLifetimes, AuthenticateSession. No idle window reaches past its ceiling
\* ("a ceiling below the idle window would bound nothing"), nor past the longest
\* one that a request presenting the session, or its sign-in, was granted when it
\* was found: a touch that lands late gives nothing more. One last written for
\* the role the account has is no longer than that role's ("a change of role
\* takes effect on the user's next request").
WithinCeiling == \A s \in Session : sessions[s].idle <= sessions[s].absolute
Granted == \A s \in Session : sessions[s].idle <= due[s]
RoleTakesEffect == \A s \in current : sessions[s].idle <= Lifetimes(role).idle

WindowsHold == WithinCeiling /\ Granted /\ RoleTakesEffect

\* Logout: "the caller's intent - that this token stop working - is satisfied
\* either way". Once it has answered, the session never works again. When the
\* session was not found that is only so if no earlier request was still about
\* to touch it, and the account was not suspended.
LogoutIsFinal == \A s \in out : Over(s)

\* store.go (SessionByTokenHash): a session that has expired or was revoked,
\* with no touch of it under way, is over for good.
Ended(s) == Over(s) /\ ~TouchUnderWay(s)

OverForGood == [][\A s \in Session : Ended(s) => Ended(s)']_vars

\* WithSessionLifetimes: "the single-clock failure ADR-0027 exists to rule out".
\* However it is used, every session comes to an end and stays there.
EverySessionEnds ==
    \A s \in Session : sessions[s].issued ~> []Over(s)

=============================================================================
