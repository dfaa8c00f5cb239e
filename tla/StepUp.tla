--------------------------------- MODULE StepUp ---------------------------------
(***************************************************************************)
(* Confirming that it is still you: src/stepup.go, the questions about an  *)
(* account's factors it asks src/mfa.go, and the use case of               *)
(* src/webauthn.go that needs the answer, RevokeCredential.                *)
(*                                                                         *)
(* One account, several of its sessions; a process is one request and a    *)
(* step at most one store call, which may fail. Instants are kept as the   *)
(* time left until StepUpWindow is over, in the rows and in the identities *)
(* requests took from them. Codes and signatures are right or wrong        *)
(* (SecondFactor and Passkeys look closer), and sessions do not end here.  *)
(***************************************************************************)
EXTENDS Integers, FiniteSets

CONSTANTS
    Session,        \* live sessions of the account
    Key,            \* ids of security keys: a bound, each is registered once
    Proc,           \* concurrent requests
    StepUpWindow,
    Faults          \* may a store call fail?

ASSUME StepUpAssumption ==
    /\ StepUpWindow \in Nat \ {0}
    /\ Faults \in BOOLEAN

VARIABLES
    app,        \* has the account a confirmed authenticator app?
    keys,       \* the registered keys
    lost,       \* the ids of keys revoked since
    stamp,      \* SteppedUpAt of each session: what is left of its window
    req,        \* req[p]: where request p is
    proven      \* history: as stamp, of the last proof given in the session

vars == <<app, keys, lost, stamp, req, proven>>

Window == 0 .. StepUpWindow

Request == [ pc      : {"idle", "other", "verify", "keys", "app", "password", "ceremony",
                        "stamp", "list", "revoke"},
             op      : {"secret", "method", "passkey", "revoke"},
             session : SUBSET Session,   \* the request's own
             stamp   : Window,           \* SteppedUpAt of its identity
             key     : SUBSET Key,       \* the key to revoke
             other   : BOOLEAN,          \* otherFactor
             shown   : BOOLEAN,    \* history: when it was let through, had its session
                                   \* given a proof within the window?
             fresh   : BOOLEAN ]   \* history: the account's factors are as p found them

Idle == [pc |-> "idle", op |-> "secret", session |-> {}, stamp |-> 0, key |-> {},
         other |-> FALSE, shown |-> FALSE, fresh |-> FALSE]

TypeOK ==
    /\ app \in BOOLEAN
    /\ keys \subseteq Key /\ lost \subseteq Key
    /\ stamp \in [Session -> Window] /\ proven \in [Session -> Window]
    /\ req \in [Proc -> Request]

HasFactor == app \/ keys # {}

-----------------------------------------------------------------------------
Init ==
    /\ app \in BOOLEAN
    /\ keys = {} /\ lost = {}
    /\ stamp = [s \in Session |-> 0] /\ proven = stamp
    /\ req = [p \in Proc |-> Idle]

At(p, pc) == req[p].pc = pc
Goto(p, pc) == req' = [req EXCEPT ![p].pc = pc]
Finish(p) == req' = [req EXCEPT ![p] = Idle]

\* After p's step every request has an outdated view of the factors.
Overtaken(r) == [p \in Proc |-> [r[p] EXCEPT !.fresh = FALSE]]

FirstPc(op) == IF op = "passkey" THEN "ceremony" ELSE "other"

\* A request of a session that AuthenticateSession let in: StepUp,
\* StepUpMethodFor or CompleteStepUpWithPasskey.
Begin(p) ==
    /\ At(p, "idle")
    /\ \E s \in Session, op \in {"secret", "method", "passkey"} :
         req' = [req EXCEPT ![p] = [Idle EXCEPT !.pc = FirstPc(op), !.op = op,
                                    !.session = {s}, !.stamp = stamp[s], !.fresh = TRUE]]
    /\ UNCHANGED <<app, keys, lost, stamp, proven>>

\* Or RevokeCredential.
BeginRevoke(p) ==
    /\ At(p, "idle")
    /\ \E s \in Session, k \in keys :
         req' = [req EXCEPT ![p] = [Idle EXCEPT !.pc = "other", !.op = "revoke", !.key = {k},
                                    !.session = {s}, !.stamp = stamp[s], !.fresh = TRUE]]
    /\ UNCHANGED <<app, keys, lost, stamp, proven>>

-----------------------------------------------------------------------------
(* What may stand for the caller. *)

\* Mutant: a failing read answers the other way.
AnswerOpen(truth, onError) == {truth} \cup (IF Faults THEN {~onError} ELSE {})

\* What a question about the factors answers: the truth, or, when its store
\* call fails, the value it falls back to.
Answer(truth, onError) == {truth} \cup (IF Faults THEN {onError} ELSE {})

\* It falls back to no: RequiresSecondFactor is still to be asked.
HasAnyFactorOtherThanPasskeys(p) ==
    /\ At(p, "other")
    /\ \E yes \in Answer(app, FALSE) :
         IF req[p].op = "revoke"
         THEN req' = [req EXCEPT ![p].pc = "list", ![p].other = yes]
         ELSE Goto(p, IF yes THEN "verify" ELSE "keys")
    /\ UNCHANGED <<app, keys, lost, stamp, proven>>

\* RequiresSecondFactor falls back to yes: ErrStepUpNeedsPasskey, and "passkey"
\* is the method. First it asks for the keys,
HasCredentials(p) ==
    /\ At(p, "keys")
    /\ \E yes \in Answer(keys # {}, TRUE) : IF yes THEN Finish(p) ELSE Goto(p, "app")
    /\ UNCHANGED <<app, keys, lost, stamp, proven>>

\* then for the app.
RequiresSecondFactor(p) ==
    /\ At(p, "app")
    /\ \E yes \in Answer(app, TRUE) : IF yes THEN Finish(p) ELSE Goto(p, "password")
    /\ UNCHANGED <<app, keys, lost, stamp, proven>>

\* Where StepUpMethodFor has its answer, StepUp takes a code, or the password.
VerifyFactor(p) ==
    /\ At(p, "verify")
    /\ \/ app /\ req[p].op = "secret" /\ Goto(p, "stamp")
       \/ Finish(p)
    /\ UNCHANGED <<app, keys, lost, stamp, proven>>

VerifyPasswordFor(p) ==
    /\ At(p, "password")
    /\ \/ req[p].op = "secret" /\ Goto(p, "stamp")
       \/ Finish(p)
    /\ UNCHANGED <<app, keys, lost, stamp, proven>>

\* FinishStepUp, of a key the account has.
FinishStepUp(p) ==
    /\ At(p, "ceremony")
    /\ \/ keys # {} /\ Goto(p, "stamp")
       \/ Finish(p)
    /\ UNCHANGED <<app, keys, lost, stamp, proven>>

\* Mutants: a new window is added to what was left of the old one; the stamp is
\* the account's.
StampMore(p) ==
    /\ At(p, "stamp")
    /\ stamp' = [s \in Session |-> IF s \in req[p].session THEN stamp[s] + StepUpWindow ELSE stamp[s]]
    /\ proven' = [s \in Session |-> IF s \in req[p].session THEN StepUpWindow ELSE proven[s]]
    /\ Finish(p)
    /\ UNCHANGED <<app, keys, lost>>

StampAccount(p) ==
    /\ At(p, "stamp")
    /\ stamp' = [s \in Session |-> StepUpWindow]
    /\ proven' = [s \in Session |-> IF s \in req[p].session THEN StepUpWindow ELSE proven[s]]
    /\ Finish(p)
    /\ UNCHANGED <<app, keys, lost>>

StampStepUp(p) ==
    /\ At(p, "stamp")
    /\ stamp' = [s \in Session |-> IF s \in req[p].session THEN StepUpWindow ELSE stamp[s]]
    /\ proven' = [s \in Session |-> IF s \in req[p].session THEN StepUpWindow ELSE proven[s]]
    /\ Finish(p)
    /\ UNCHANGED <<app, keys, lost>>

-----------------------------------------------------------------------------
(* RevokeCredential. *)

\* Mutant: the end of the window, and never, count as inside.
SteppedUpStill(r) == r.stamp >= 0

\* Zero is never, and the end of the window is outside.
SteppedUp(r) == r.stamp > 0

\* The last factor the account has, and nobody confirmed.
Guarded(r) == Cardinality(keys) <= 1 /\ ~r.other /\ ~SteppedUp(r)

ListCredentials(p) ==
    /\ At(p, "list")
    /\ IF req[p].key \subseteq keys /\ ~Guarded(req[p])
       THEN req' = [req EXCEPT ![p].pc = "revoke",
                      ![p].shown = \E s \in req[p].session : proven[s] > 0]
       ELSE Finish(p)
    /\ UNCHANGED <<app, keys, lost, stamp, proven>>

RevokeCredential(p) ==
    /\ At(p, "revoke")
    /\ keys' = keys \ req[p].key
    /\ lost' = lost \cup req[p].key
    /\ req' = Overtaken([req EXCEPT ![p] = Idle])
    /\ UNCHANGED <<app, stamp, proven>>

-----------------------------------------------------------------------------
(* What happens around it. *)

\* FinishRegistration, seen from here.
KeyRegistered ==
    /\ \E k \in Key \ (keys \cup lost) : keys' = keys \cup {k}
    /\ req' = Overtaken(req)
    /\ UNCHANGED <<app, lost, stamp, proven>>

\* ConfirmEnrollment, and Disable, which asks for the password.
AppChanges ==
    /\ app' = ~app
    /\ req' = Overtaken(req)
    /\ UNCHANGED <<keys, lost, stamp, proven>>

\* ClearFactorFor: the app, and RevokeAllFor.
FactorsCleared ==
    /\ keys' = {} /\ lost' = lost \cup keys
    /\ app' \in {app, FALSE}
    /\ req' = Overtaken(req)
    /\ UNCHANGED <<stamp, proven>>

Less(n) == IF n > 0 THEN n - 1 ELSE 0

Tick ==
    /\ stamp' = [s \in Session |-> Less(stamp[s])]
    /\ proven' = [s \in Session |-> Less(proven[s])]
    /\ req' = [p \in Proc |-> [req[p] EXCEPT !.stamp = Less(@)]]
    /\ UNCHANGED <<app, keys, lost>>

\* Any other failing store call ends its request with an error.
StoreError(p) ==
    /\ Faults
    /\ req[p].pc \in {"stamp", "list", "revoke"}
    /\ Finish(p)
    /\ UNCHANGED <<app, keys, lost, stamp, proven>>

Next ==
    \/ \E p \in Proc :
         \/ Begin(p) \/ HasAnyFactorOtherThanPasskeys(p) \/ HasCredentials(p)
         \/ RequiresSecondFactor(p) \/ VerifyFactor(p) \/ VerifyPasswordFor(p)
         \/ FinishStepUp(p) \/ StampStepUp(p)
         \/ BeginRevoke(p) \/ ListCredentials(p) \/ RevokeCredential(p)
         \/ StoreError(p)
    \/ KeyRegistered \/ AppChanges \/ FactorsCleared \/ Tick

Spec == Init /\ [][Next]_vars

-----------------------------------------------------------------------------
(* Properties. *)

\* stepup.go (StepUp): "A second factor satisfied in one browser must not unlock
\* the audit log in another". No session is stepped up beyond the window of a
\* proof given in that very session.
OwnProof == \A s \in Session : stamp[s] <= proven[s]

\* stepup.go (StepUp): "an account that has a second factor is saying the password
\* alone is not enough for it". Whoever is asked for the password alone has no
\* factor, whichever reads fail, unless the factors changed since they were read.
PasswordNeverAlone ==
    \A p \in Proc : At(p, "password") /\ req[p].fresh => ~HasFactor

\* webauthn.go (RevokeCredential): an account "cannot get there by accident, or
\* by someone who found an unlocked machine". The last factor is revoked only in
\* a session that gave a proof within the window before, unless the factors
\* changed since they were counted.
LastFactorOnPurpose ==
    [][\A p \in Proc :
          At(p, "revoke") /\ req[p].fresh /\ HasFactor /\ ~HasFactor' /\ At(p, "idle")'
              => req[p].shown]_vars

=============================================================================
