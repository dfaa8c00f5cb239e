------------------------------ MODULE SecondFactor ------------------------------
(***************************************************************************)
(* One account's authenticator app, its recovery codes and the two-step    *)
(* sign-in: MFAService of src/mfa.go with ValidateTOTPCode of src/totp.go, *)
(* and Login and CompleteMFA of src/authenticator.go from the moment the   *)
(* password was right.                                                     *)
(*                                                                         *)
(* As in Roster and Passwords a process is one request and a step at most  *)
(* one store call, any of which may fail. Sealing a secret, verifying a    *)
(* password and who may clear whose factor are left out, and the account   *)
(* has no security key. What becomes of a session is theirs too: here it   *)
(* is the end of a request.                                                *)
(***************************************************************************)
EXTENDS Integers

CONSTANTS
    Secret,        \* the TOTP secrets NewTOTPSecret may draw: a bound
    NoSecret,      \* no TOTP row
    Token,         \* step-one tokens live at once: a bound
    Proc,          \* concurrent requests
    LastStep,      \* the time the model ends at, in TOTP periods: a bound
    Faults         \* may a store call fail?

ASSUME SecondFactorAssumption ==
    /\ NoSecret \notin Secret
    /\ LastStep \in Nat
    /\ Faults \in BOOLEAN

VARIABLES
    factor,     \* the TOTP row
    recovery,   \* the recovery codes
    tokens,     \* the step-one tokens neither claimed nor expired
    disabled,   \* of the account
    now,        \* TOTPStep of the clock
    req,        \* req[p]: where request p is
    drawn,      \* history: the secrets generated so far
    used,       \* history: the codes that signed in or confirmed a factor
    proven,     \* history: the secrets a confirmation was given a code of
    clean       \* history: so far no store call failed, and no request wrote
                \* anything after being overtaken by another's write

vars == <<factor, recovery, tokens, disabled, now, req, drawn, used, proven, clean>>

\* A TOTP row. last is LastUsedStep.
Enrollment == [secret : Secret \cup {NoSecret}, confirmed : BOOLEAN, last : Nat]
NoRow == [secret |-> NoSecret, confirmed |-> FALSE, last |-> 0]
Pending(secret) == [secret |-> secret, confirmed |-> FALSE, last |-> 0]

\* The set in force: which secret it was issued with, and is a code left?
Recovery == [with : Secret \cup {NoSecret}, left : BOOLEAN]
NoCodes == [with |-> NoSecret, left |-> FALSE]

\* What the app shows: in each period, another code of each secret.
Code == [secret : Secret, step : Nat]

Request == [ pc    : {"idle", "requires", "token", "user", "verify", "totp", "spend", "session",
                      "load", "upsert", "confirm", "issue", "delete", "drop"},
             op    : {"login", "complete", "begin", "confirm", "regenerate", "remove"},
             row   : Enrollment,     \* the row as loaded; the new one of an enrolment
             kind  : {"none", "totp", "recovery_code"},   \* FactorUsed
             fresh : BOOLEAN ]       \* history: no other request has written the factor,
                                     \* its codes or the account since p's first load

Idle == [pc |-> "idle", op |-> "login", row |-> NoRow, kind |-> "none", fresh |-> FALSE]

TypeOK ==
    /\ factor \in Enrollment /\ recovery \in Recovery
    /\ tokens \subseteq Token
    /\ disabled \in BOOLEAN
    /\ now \in Nat
    /\ req \in [Proc -> Request]
    /\ drawn \subseteq Secret /\ proven \subseteq Secret
    /\ used \subseteq Code
    /\ clean \in BOOLEAN

-----------------------------------------------------------------------------
TOTPSkew == 1

\* Mutants: the last used step itself is accepted again; a code of another
\* secret is.
ValidatesAgain(row, code) ==
    /\ code.secret = row.secret
    /\ code.step \in now - TOTPSkew .. now + TOTPSkew
    /\ code.step >= row.last

ValidatesAny(row, code) ==
    /\ code.step \in now - TOTPSkew .. now + TOTPSkew
    /\ code.step > row.last

\* ValidateTOTPCode: it matches one of the periods around now, and that
\* period is later than the last one used. Codes of two periods differ.
Validates(row, code) ==
    /\ code.secret = row.secret
    /\ code.step \in now - TOTPSkew .. now + TOTPSkew
    /\ code.step > row.last

\* The codes a user, or whoever watched one, may have at hand.
AtHand == [secret : drawn, step : 0 .. LastStep + TOTPSkew]

Init ==
    /\ factor = NoRow /\ recovery = NoCodes
    /\ tokens = {}
    /\ disabled = FALSE
    /\ now = 1
    /\ req = [p \in Proc |-> Idle]
    /\ drawn = {} /\ used = {} /\ proven = {}
    /\ clean = TRUE

At(p, pc) == req[p].pc = pc
Finish(p) == req' = [req EXCEPT ![p] = Idle]
Goto(p, pc) == req' = [req EXCEPT ![p].pc = pc]

\* p's write, after which it is at request r: the others are overtaken, and
\* the run stays clean if p itself was not.
Wrote(p, r) ==
    /\ req' = [q \in Proc |-> IF q = p THEN r ELSE [req[q] EXCEPT !.fresh = FALSE]]
    /\ clean' = (clean /\ req[p].fresh)

Begin(p, op, pc) ==
    /\ At(p, "idle")
    /\ req' = [req EXCEPT ![p] = [Idle EXCEPT !.op = op, !.pc = pc, !.fresh = TRUE]]

-----------------------------------------------------------------------------
(* Signing in. *)

\* Login: the password was right and the account, as loaded, is enabled.
Login(p) ==
    /\ ~disabled
    /\ Begin(p, "login", "requires")
    /\ UNCHANGED <<factor, recovery, tokens, disabled, now, drawn, used, proven, clean>>

\* Mutant: a failure to read the factor reads as none.
RequiresFailingOpen(p) ==
    /\ At(p, "requires")
    /\ \/ Goto(p, IF factor.confirmed THEN "token" ELSE "session") /\ UNCHANGED clean
       \/ Faults /\ Goto(p, "session") /\ clean' = FALSE
    /\ UNCHANGED <<factor, recovery, tokens, disabled, now, drawn, used, proven>>

\* A failure to read the factor counts as one: fail closed.
RequiresSecondFactor(p) ==
    /\ At(p, "requires")
    /\ \/ Goto(p, IF factor.confirmed THEN "token" ELSE "session") /\ UNCHANGED clean
       \/ Faults /\ Goto(p, "token") /\ clean' = FALSE
    /\ UNCHANGED <<factor, recovery, tokens, disabled, now, drawn, used, proven>>

IssueMFAToken(p) ==
    /\ At(p, "token")
    /\ \E t \in Token : tokens' = tokens \cup {t}
    /\ Finish(p)
    /\ UNCHANGED <<factor, recovery, disabled, now, drawn, used, proven, clean>>

\* CompleteMFA claims the token before anything else.
ClaimMFAToken(p) ==
    /\ Begin(p, "complete", "user")
    /\ \E t \in tokens : tokens' = tokens \ {t}
    /\ UNCHANGED <<factor, recovery, disabled, now, drawn, used, proven, clean>>

\* Then it reads the account again, which may have been disabled meanwhile.
RereadUser(p) ==
    /\ At(p, "user")
    /\ \/ disabled /\ Finish(p)
       \/ /\ ~disabled
          /\ req' = [req EXCEPT ![p].pc = "verify", ![p].fresh = TRUE]
    /\ UNCHANGED <<factor, recovery, tokens, disabled, now, drawn, used, proven, clean>>

\* VerifyFactor: what was typed looks like a TOTP code, or is taken for a
\* recovery code.
VerifyFactor(p) ==
    /\ At(p, "verify")
    /\ \/ ~factor.confirmed /\ Finish(p)
       \/ /\ factor.confirmed
          /\ \/ req' = [req EXCEPT ![p].pc = "totp", ![p].kind = "totp", ![p].row = factor]
             \/ req' = [req EXCEPT ![p].pc = "spend", ![p].kind = "recovery_code"]
    /\ UNCHANGED <<factor, recovery, tokens, disabled, now, drawn, used, proven, clean>>

\* Mutant: what is recorded is the period before those around the one used.
AdvancedShort(row, step) ==
    IF row.secret # NoSecret THEN [row EXCEPT !.last = step - TOTPSkew - 1] ELSE row

\* SetTOTPLastUsedStep: never backwards.
Advanced(row, step) ==
    IF row.secret # NoSecret /\ step > row.last THEN [row EXCEPT !.last = step] ELSE row

\* verifyTOTP judges the code by the row as loaded, and records its step.
VerifyTOTP(p) ==
    /\ At(p, "totp")
    /\ \E code \in AtHand :
         \/ /\ Validates(req[p].row, code)
            /\ factor' = Advanced(factor, code.step)
            /\ used' = used \cup {code}
            /\ Wrote(p, [req[p] EXCEPT !.pc = "session"])
         \/ /\ ~Validates(req[p].row, code)
            /\ Finish(p) /\ UNCHANGED <<factor, used, clean>>
    /\ UNCHANGED <<recovery, tokens, disabled, now, drawn, proven>>

SpendRecoveryCode(p) ==
    /\ At(p, "spend")
    /\ \/ /\ recovery.left
          /\ \E left \in BOOLEAN : recovery' = [recovery EXCEPT !.left = left]
          /\ Wrote(p, [req[p] EXCEPT !.pc = "session"])
       \/ Finish(p) /\ UNCHANGED <<recovery, clean>>
    /\ UNCHANGED <<factor, tokens, disabled, now, drawn, used, proven>>

\* issueSession.
InsertSession(p) ==
    /\ At(p, "session")
    /\ Finish(p)
    /\ UNCHANGED <<factor, recovery, tokens, disabled, now, drawn, used, proven, clean>>

-----------------------------------------------------------------------------
(* Setting a factor up, and removing it. *)

BeginRequest(p) ==
    /\ \E op \in {"begin", "confirm", "regenerate", "remove"} : Begin(p, op, "load")
    /\ UNCHANGED <<factor, recovery, tokens, disabled, now, drawn, used, proven, clean>>

\* ClearFactorFor does not look at the factor first.
ClearFactorFor(p) ==
    /\ Begin(p, "remove", "delete")
    /\ UNCHANGED <<factor, recovery, tokens, disabled, now, drawn, used, proven, clean>>

\* Mutant: BeginEnrollment does not look.
RefusedUnlessBegin(op, row) ==
    CASE op = "begin"      -> FALSE
      [] op = "confirm"    -> row.secret = NoSecret \/ row.confirmed
      [] op = "regenerate" -> ~row.confirmed
      [] op = "remove"     -> row.secret = NoSecret

\* TOTPByUser of BeginEnrollment, ConfirmEnrollment, RegenerateRecoveryCodes
\* and Disable: whom each of them turns away.
Refused(op, row) ==
    CASE op = "begin"      -> row.confirmed
      [] op = "confirm"    -> row.secret = NoSecret \/ row.confirmed
      [] op = "regenerate" -> ~row.confirmed
      [] op = "remove"     -> row.secret = NoSecret

NextPc(op) ==
    CASE op = "confirm" -> "confirm" [] op = "regenerate" -> "issue" [] op = "remove" -> "delete"

LoadFactor(p) ==
    LET op == req[p].op
    IN  /\ At(p, "load")
        /\ \/ /\ \/ Refused(op, factor)
                 \/ op = "begin" /\ drawn = Secret   \* bound
                 \/ op = "remove"                    \* a wrong password
              /\ Finish(p) /\ UNCHANGED drawn
           \/ /\ ~Refused(op, factor) /\ op = "begin"
              /\ \E secret \in Secret \ drawn :
                   /\ drawn' = drawn \cup {secret}
                   /\ req' = [req EXCEPT ![p].pc = "upsert", ![p].row = Pending(secret)]
           \/ /\ ~Refused(op, factor) /\ op # "begin"
              /\ req' = [req EXCEPT ![p].pc = NextPc(op), ![p].row = factor]
              /\ UNCHANGED drawn
        /\ UNCHANGED <<factor, recovery, tokens, disabled, now, used, proven, clean>>

\* UpsertTOTP: whatever row there is, confirmed since or not.
UpsertTOTP(p) ==
    /\ At(p, "upsert")
    /\ factor' = req[p].row
    /\ Wrote(p, Idle)
    /\ UNCHANGED <<recovery, tokens, disabled, now, drawn, used, proven>>

\* ConfirmEnrollment judges the code by the secret it loaded; ConfirmTOTP
\* then activates the row of the account, if there is one.
ConfirmTOTP(p) ==
    /\ At(p, "confirm")
    /\ \E code \in AtHand :
         \/ /\ Validates(req[p].row, code)
            /\ factor' = IF factor.secret = NoSecret THEN factor
                         ELSE [factor EXCEPT !.confirmed = TRUE, !.last = code.step]
            /\ used' = used \cup {code}
            /\ proven' = proven \cup {code.secret}
            /\ Wrote(p, [req[p] EXCEPT !.pc = "issue"])
         \/ /\ ~Validates(req[p].row, code)
            /\ Finish(p) /\ UNCHANGED <<factor, used, proven, clean>>
    /\ UNCHANGED <<recovery, tokens, disabled, now, drawn>>

\* issueRecoveryCodes, after a confirmation and by itself.
IssueRecoveryCodes(p) ==
    /\ At(p, "issue")
    /\ recovery' = [with |-> req[p].row.secret, left |-> TRUE]
    /\ Wrote(p, Idle)
    /\ UNCHANGED <<factor, tokens, disabled, now, drawn, used, proven>>

\* Mutant: the recovery codes are left behind.
DeleteTOTPOnly(p) ==
    /\ At(p, "delete")
    /\ factor' = NoRow
    /\ Wrote(p, Idle)
    /\ UNCHANGED <<recovery, tokens, disabled, now, drawn, used, proven>>

DeleteTOTP(p) ==
    /\ At(p, "delete")
    /\ factor' = NoRow
    /\ Wrote(p, [req[p] EXCEPT !.pc = "drop"])
    /\ UNCHANGED <<recovery, tokens, disabled, now, drawn, used, proven>>

DropRecoveryCodes(p) ==
    /\ At(p, "drop")
    /\ recovery' = NoCodes
    /\ Wrote(p, Idle)
    /\ UNCHANGED <<factor, tokens, disabled, now, drawn, used, proven>>

-----------------------------------------------------------------------------
(* What happens around it. *)

\* DisableUser and EnableUser, seen from here (module Roster has them whole).
Suspended ==
    /\ disabled' = ~disabled
    /\ req' = [p \in Proc |-> [req[p] EXCEPT !.fresh = FALSE]]
    /\ UNCHANGED <<factor, recovery, tokens, now, drawn, used, proven, clean>>

TokenExpires ==
    /\ \E t \in tokens : tokens' = tokens \ {t}
    /\ UNCHANGED <<factor, recovery, disabled, now, req, drawn, used, proven, clean>>

Tick ==
    /\ now < LastStep
    /\ now' = now + 1
    /\ UNCHANGED <<factor, recovery, tokens, disabled, req, drawn, used, proven, clean>>

\* Any other failing store call ends its request with an error.
StoreError(p) ==
    /\ Faults
    /\ req[p].pc \notin {"idle", "requires"}
    /\ Finish(p)
    /\ clean' = FALSE
    /\ UNCHANGED <<factor, recovery, tokens, disabled, now, drawn, used, proven>>

SignIn(p) ==
    \/ Login(p) \/ RequiresSecondFactor(p) \/ IssueMFAToken(p)
    \/ ClaimMFAToken(p) \/ RereadUser(p) \/ VerifyFactor(p)
    \/ VerifyTOTP(p) \/ SpendRecoveryCode(p) \/ InsertSession(p)

Manage(p) ==
    \/ BeginRequest(p) \/ ClearFactorFor(p) \/ LoadFactor(p)
    \/ UpsertTOTP(p) \/ ConfirmTOTP(p) \/ IssueRecoveryCodes(p)
    \/ DeleteTOTP(p) \/ DropRecoveryCodes(p)

Next ==
    \/ \E p \in Proc : SignIn(p) \/ Manage(p) \/ StoreError(p)
    \/ Suspended \/ TokenExpires \/ Tick

Spec == Init /\ [][Next]_vars

-----------------------------------------------------------------------------
(* Properties. *)

\* CompleteMFA and Login: whoever is about to open a session, and was not
\* overtaken, belongs to an enabled account; if it has a factor the login
\* went through it, and a code was one of that factor's secret (mfa.go,
\* RequiresSecondFactor: "fail closed").
SessionsEarned ==
    \A p \in Proc : At(p, "session") /\ req[p].fresh =>
        /\ ~disabled
        /\ factor.confirmed => req[p].kind # "none"
        /\ req[p].kind # "none" => factor.confirmed
        /\ req[p].kind = "totp" => req[p].row.secret = factor.secret

\* totp.go, mfa.go (VerifyFactor): the step is recorded so that no code
\* "completes two logins", nor the one that confirmed the factor any. Two
\* requests that both load the row before either records its step can.
CodesWorkOnce ==
    [][\A p \in Proc :
          At(p, "totp") /\ req'[p].pc = "session" /\ clean' => used' # used]_vars

\* mfa.go (BeginEnrollment): "it refuses to overwrite a CONFIRMED factor".
\* An active factor goes only by being removed, or by a request that loaded
\* the row before somebody else's write.
ActiveFactorStays ==
    [][factor.confirmed =>
          \/ factor'.confirmed /\ factor'.secret = factor.secret
          \/ factor' = NoRow
          \/ \E p \in Proc : req'[p].pc # req[p].pc /\ ~req[p].fresh]_vars

\* mfa.go (BeginEnrollment): a secret active before a code of it was seen
\* "locks out anyone whose scan failed".
ActiveWasProven == clean /\ factor.confirmed => factor.secret \in proven

\* mfa.go (ConfirmEnrollment, Disable): an active factor has the recovery
\* codes issued for it, or had: "no way back is exactly the lockout"; and
\* without a factor there are none: "a set of standalone credentials".
UnderWay(pcs) == \E p \in Proc : req[p].pc \in pcs

CodesFollowFactor ==
    clean => \/ recovery.with = (IF factor.confirmed THEN factor.secret ELSE NoSecret)
             \/ UnderWay({"issue", "drop"})

=============================================================================
