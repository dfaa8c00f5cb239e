------------------------------ MODULE OneTimeSecret ------------------------------
(***************************************************************************)
(* What every two-call sign-in of the package promises: the secret handed  *)
(* out by the first call is taken by at most one second call, and what it  *)
(* grants is granted once, for the purpose it was issued for and to the    *)
(* account it was issued to. The challenges of src/webauthn.go (Passkeys)  *)
(* and the states of src/google_sso.go (GoogleSSO) implement it.           *)
(***************************************************************************)
CONSTANTS
    Id, Purpose, Account,
    Anyone          \* the owner of a secret issued before the account is known

VARIABLES
    secrets,        \* secrets[i]: where secret i is
    granted         \* what was granted so far

vars == <<secrets, granted>>

Secret == [ phase   : {"unissued", "open", "claimed", "spent"},
            purpose : Purpose,
            owner   : Account \cup {Anyone} ]

Grant == [id : Id, purpose : Purpose, to : Account]

Init ==
    /\ secrets \in [Id -> Secret]
    /\ \A i \in Id : secrets[i].phase = "unissued"
    /\ granted = {}

Issue(i) ==
    /\ secrets[i].phase = "unissued"
    /\ \E purpose \in Purpose, owner \in Account \cup {Anyone} :
         secrets' = [secrets EXCEPT ![i] =
                        [phase |-> "open", purpose |-> purpose, owner |-> owner]]
    /\ UNCHANGED granted

Claim(i) ==
    /\ secrets[i].phase = "open"
    /\ secrets' = [secrets EXCEPT ![i].phase = "claimed"]
    /\ UNCHANGED granted

Complete(i) ==
    /\ secrets[i].phase = "claimed"
    /\ secrets' = [secrets EXCEPT ![i].phase = "spent"]
    /\ \E to \in Account :
         /\ secrets[i].owner \in {to, Anyone}
         /\ granted' = granted \cup {[id |-> i, purpose |-> secrets[i].purpose, to |-> to]}

\* It expires, or the attempt that claimed it fails.
Lapse(i) ==
    /\ secrets[i].phase \in {"open", "claimed"}
    /\ secrets' = [secrets EXCEPT ![i].phase = "spent"]
    /\ UNCHANGED granted

Next == \E i \in Id : Issue(i) \/ Claim(i) \/ Complete(i) \/ Lapse(i)

Spec == Init /\ [][Next]_vars

=============================================================================
