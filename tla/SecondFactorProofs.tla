--------------------------- MODULE SecondFactorProofs ---------------------------
(***************************************************************************)
(* The theorems of the authenticator app and the two-step sign-in, for any *)
(* secrets and tokens, any number of concurrent requests, any length of    *)
(* time and any store call failing.                                        *)
(***************************************************************************)
EXTENDS SecondFactor, TLAPS

-----------------------------------------------------------------------------
(* The inductive invariant.                                                *)

\* What a request at each step was started for, and that no factor was used yet
\* by one that has still to verify it.
ShapeOf(r) ==
    /\ r.pc = "load" => r.op \in {"begin", "confirm", "regenerate", "remove"}
    /\ r.pc \in {"requires", "user", "verify"} => r.kind = "none"

Shape == \A p \in Proc : ShapeOf(req[p])

\* What a request loaded, or wrote, is so for as long as no other overtakes it.
LoadedOf(r) ==
    r.fresh =>
        /\ r.pc \in {"requires", "verify", "totp", "spend", "session"} => ~disabled
        /\ r.pc = "totp" => factor.confirmed /\ r.row = factor /\ r.kind = "totp"
        /\ r.pc = "spend" => factor.confirmed /\ r.kind = "recovery_code"
        /\ r.pc = "session" => (factor.confirmed <=> r.kind # "none")
        /\ r.pc = "session" /\ r.kind = "totp" => r.row.secret = factor.secret
        /\ r.pc = "upsert" => ~factor.confirmed
        /\ r.pc = "confirm" => r.row = factor /\ factor.secret # NoSecret
        /\ r.pc = "issue" => factor.confirmed /\ r.row.secret = factor.secret
        /\ r.pc = "drop" => factor = NoRow

Loaded == \A p \in Proc : LoadedOf(req[p])

\* Every secret in sight was drawn; one about to be stored is nobody else's, and
\* no code of it can have been used.
Known(secret) == secret \in drawn \cup {NoSecret}

NewTo(p, secret) ==
    /\ secret # NoSecret /\ factor.secret # secret
    /\ \A q \in Proc \ {p} : req[q].row.secret # secret
    /\ \A code \in used : code.secret # secret

SecretsDrawn ==
    /\ Known(factor.secret)
    /\ \A p \in Proc : Known(req[p].row.secret)
    /\ \A code \in used : code.secret \in drawn
    /\ \A p \in Proc : req[p].pc = "upsert" =>
          ~req[p].row.confirmed /\ NewTo(p, req[p].row.secret)

\* In a clean run the last step recorded is that of the newest code used.
StepsRecorded ==
    clean => \A code \in used : code.secret = factor.secret => code.step <= factor.last

IInv ==
    /\ TypeOK /\ Shape /\ Loaded /\ SecretsDrawn
    /\ StepsRecorded /\ ActiveWasProven /\ CodesFollowFactor

-----------------------------------------------------------------------------
(* What a step of one request comes to, for itself and for the others.     *)

\* The others stay where they are; one that is not overtaken finds the factor
\* and the account as they were.
Bystanders(p) ==
    \A q \in Proc \ {p} :
       /\ req'[q].pc = req[q].pc /\ req'[q].op = req[q].op
       /\ req'[q].row = req[q].row /\ req'[q].kind = req[q].kind
       /\ req'[q].fresh => req[q].fresh /\ UNCHANGED <<factor, disabled>>

Quiet == UNCHANGED <<factor, recovery, disabled, used, proven>> /\ (clean' => clean)

Stops(p) ==
    /\ Quiet /\ UNCHANGED drawn
    /\ req'[p] = Idle
    /\ clean' => req[p].pc \notin {"issue", "drop"}

Starts(p) ==
    /\ Quiet /\ UNCHANGED drawn
    /\ req[p].pc = "idle"
    /\ req'[p].pc \in {"requires", "user", "load", "delete"}
    /\ req'[p].row = NoRow /\ req'[p].kind = "none"
    /\ req'[p].pc = "load" => req'[p].op \in {"begin", "confirm", "regenerate", "remove"}
    /\ req'[p].pc = "requires" => ~disabled

SignsIn(p) ==
    /\ Quiet /\ UNCHANGED drawn
    /\ \/ /\ req[p].pc = "requires"
          /\ \/ req'[p].pc = "token"
             \/ req'[p].pc = "session" /\ ~factor.confirmed
          /\ req'[p].row = req[p].row /\ req'[p].kind = req[p].kind
          /\ req'[p].fresh = req[p].fresh
       \/ /\ req[p].pc = "user" /\ ~disabled
          /\ req'[p].pc = "verify"
          /\ req'[p].row = req[p].row /\ req'[p].kind = req[p].kind
       \/ /\ req[p].pc = "verify" /\ factor.confirmed
          /\ req'[p].fresh = req[p].fresh
          /\ \/ /\ req'[p].pc = "totp" /\ req'[p].kind = "totp" /\ req'[p].row = factor
             \/ /\ req'[p].pc = "spend" /\ req'[p].kind = "recovery_code"
                /\ req'[p].row = req[p].row

Loads(p) ==
    /\ Quiet
    /\ req[p].pc = "load" /\ req'[p].kind = req[p].kind /\ req'[p].fresh = req[p].fresh
    /\ \/ /\ req'[p].pc = "upsert" /\ ~factor.confirmed
          /\ \E secret \in Secret \ drawn :
               req'[p].row = Pending(secret) /\ drawn' = drawn \cup {secret}
       \/ /\ req'[p].pc \in {"confirm", "issue", "delete"}
          /\ req'[p].pc = "confirm" => factor.secret # NoSecret
          /\ req'[p].pc = "issue" => factor.confirmed
          /\ req'[p].row = factor /\ UNCHANGED drawn

\* The writes. p goes on to step pc, its other fields as they were.
Onward(p, pc) ==
    /\ req'[p].pc = pc /\ req'[p].row = req[p].row
    /\ req'[p].kind = req[p].kind /\ req'[p].fresh = req[p].fresh

Overtaking(p) ==
    /\ UNCHANGED <<disabled, drawn>> /\ clean' \in BOOLEAN
    /\ clean' => clean /\ req[p].fresh

Accepts(p) ==
    /\ Overtaking(p) /\ UNCHANGED <<recovery, proven>>
    /\ req[p].pc = "totp" /\ Onward(p, "session")
    /\ \E code \in AtHand : /\ Validates(req[p].row, code)
                            /\ factor' = Advanced(factor, code.step)
                            /\ used' = used \cup {code}

Spends(p) ==
    /\ Overtaking(p) /\ UNCHANGED <<factor, used, proven>>
    /\ req[p].pc = "spend" /\ Onward(p, "session")
    /\ \E left \in BOOLEAN : recovery' = [recovery EXCEPT !.left = left]

Stores(p) ==
    /\ Overtaking(p) /\ UNCHANGED <<recovery, used, proven>>
    /\ req[p].pc = "upsert" /\ req'[p] = Idle
    /\ factor' = req[p].row

Confirms(p) ==
    /\ Overtaking(p) /\ UNCHANGED recovery
    /\ req[p].pc = "confirm" /\ Onward(p, "issue")
    /\ \E code \in AtHand :
         /\ Validates(req[p].row, code)
         /\ factor' = IF factor.secret = NoSecret THEN factor
                      ELSE [factor EXCEPT !.confirmed = TRUE, !.last = code.step]
         /\ used' = used \cup {code} /\ proven' = proven \cup {code.secret}

Issues(p) ==
    /\ Overtaking(p) /\ UNCHANGED <<factor, used, proven>>
    /\ req[p].pc = "issue" /\ req'[p] = Idle
    /\ recovery' = [with |-> req[p].row.secret, left |-> TRUE]

Deletes(p) ==
    /\ Overtaking(p) /\ UNCHANGED <<recovery, used, proven>>
    /\ req[p].pc = "delete" /\ Onward(p, "drop")
    /\ factor' = NoRow

Drops(p) ==
    /\ Overtaking(p) /\ UNCHANGED <<factor, used, proven>>
    /\ req[p].pc = "drop" /\ req'[p] = Idle
    /\ recovery' = NoCodes

Asks(p) == Stops(p) \/ Starts(p) \/ SignsIn(p) \/ Loads(p)

Writes(p) ==
    \/ Accepts(p) \/ Spends(p) \/ Stores(p) \/ Confirms(p)
    \/ Issues(p) \/ Deletes(p) \/ Drops(p)

Outcome(p) ==
    /\ req' \in [Proc -> Request] /\ tokens' \subseteq Token /\ UNCHANGED now
    /\ clean' \in BOOLEAN
    /\ Bystanders(p)
    /\ Asks(p) \/ Writes(p)

-----------------------------------------------------------------------------
(* Requests.                                                               *)

LEMMA IdleType == Idle \in Request /\ NoRow \in Enrollment
  BY DEF Idle, Request, NoRow, Enrollment

\* A finished request is idle; every other is as it was.
LEMMA Finished ==
    ASSUME TypeOK, NEW p \in Proc, Finish(p)
    PROVE  /\ req' \in [Proc -> Request]
           /\ req'[p] = Idle /\ \A q \in Proc \ {p} : req'[q] = req[q]
  BY IdleType DEF TypeOK, Finish

\* Where a request may go.
Step == {"requires", "token", "user", "verify", "totp", "spend", "session",
         "load", "upsert", "confirm", "issue", "delete", "drop"}

LEMMA Going ==
    ASSUME TypeOK, NEW p \in Proc, NEW pc \in Step, Goto(p, pc)
    PROVE  /\ req' \in [Proc -> Request]
           /\ \A q \in Proc \ {p} : req'[q] = req[q]
           /\ req'[p].pc = pc /\ req'[p].op = req[p].op /\ req'[p].row = req[p].row
           /\ req'[p].kind = req[p].kind /\ req'[p].fresh = req[p].fresh
<1>1. [req[p] EXCEPT !.pc = pc] \in Request
  BY DEF TypeOK, Request, Step
<1> QED
  BY <1>1 DEF TypeOK, Request, Goto

LEMMA Beginning ==
    ASSUME TypeOK, NEW p \in Proc, NEW pc \in Step,
           NEW op \in {"login", "complete", "begin", "confirm", "regenerate", "remove"},
           Begin(p, op, pc)
    PROVE  /\ req' \in [Proc -> Request]
           /\ \A q \in Proc \ {p} : req'[q] = req[q]
           /\ req'[p].pc = pc /\ req'[p].op = op /\ req'[p].row = NoRow
           /\ req'[p].kind = "none" /\ req'[p].fresh
<1>1. [Idle EXCEPT !.op = op, !.pc = pc, !.fresh = TRUE] \in Request
  BY IdleType DEF Request, Step
<1> QED
  BY <1>1 DEF TypeOK, Begin, Idle

\* After a write the writer is where it went, and the others are overtaken.
LEMMA Writing ==
    ASSUME TypeOK, NEW p \in Proc, NEW r \in Request, Wrote(p, r)
    PROVE  /\ req' \in [Proc -> Request] /\ clean' \in BOOLEAN
           /\ req'[p] = r
           /\ \A q \in Proc \ {p} :
                /\ req'[q].pc = req[q].pc /\ req'[q].op = req[q].op
                /\ req'[q].row = req[q].row /\ req'[q].kind = req[q].kind
                /\ ~req'[q].fresh
           /\ clean' => clean /\ req[p].fresh
<1>1. \A q \in Proc : [req[q] EXCEPT !.fresh = FALSE] \in Request
  BY DEF TypeOK, Request
<1>2. req[p].fresh \in BOOLEAN /\ clean \in BOOLEAN
  BY DEF TypeOK, Request
<1>3. req' \in [Proc -> Request]
  BY <1>1 DEF Wrote, TypeOK
<1>4. \A q \in Proc \ {p} :
        /\ req'[q].pc = req[q].pc /\ req'[q].op = req[q].op
        /\ req'[q].row = req[q].row /\ req'[q].kind = req[q].kind
        /\ ~req'[q].fresh
  BY DEF Wrote, TypeOK, Request
<1> QED
  BY <1>2, <1>3, <1>4 DEF Wrote

LEMMA Advancing ==
    ASSUME NEW r \in Request, NEW pc \in Step
    PROVE  /\ [r EXCEPT !.pc = pc] \in Request
           /\ [r EXCEPT !.pc = pc].pc = pc /\ [r EXCEPT !.pc = pc].op = r.op
           /\ [r EXCEPT !.pc = pc].row = r.row /\ [r EXCEPT !.pc = pc].kind = r.kind
           /\ [r EXCEPT !.pc = pc].fresh = r.fresh
  BY DEF Request, Step

\* The moves of one request, step by step.
LEMMA Signing ==
    ASSUME TypeOK, NEW p \in Proc
    PROVE  /\ RereadUser(p) =>
                /\ req' \in [Proc -> Request] /\ \A q \in Proc \ {p} : req'[q] = req[q]
                /\ \/ req'[p] = Idle
                   \/ /\ req[p].pc = "user" /\ ~disabled
                      /\ req'[p].pc = "verify" /\ req'[p].op = req[p].op
                      /\ req'[p].row = req[p].row /\ req'[p].kind = req[p].kind
           /\ VerifyFactor(p) =>
                /\ req' \in [Proc -> Request] /\ \A q \in Proc \ {p} : req'[q] = req[q]
                /\ \/ req'[p] = Idle
                   \/ /\ req[p].pc = "verify" /\ factor.confirmed
                      /\ req'[p].op = req[p].op /\ req'[p].fresh = req[p].fresh
                      /\ \/ /\ req'[p].pc = "totp" /\ req'[p].kind = "totp"
                            /\ req'[p].row = factor
                         \/ /\ req'[p].pc = "spend" /\ req'[p].kind = "recovery_code"
                            /\ req'[p].row = req[p].row
<1>1. ASSUME req' = [req EXCEPT ![p].pc = "verify", ![p].fresh = TRUE]
      PROVE  /\ req' \in [Proc -> Request] /\ \A q \in Proc \ {p} : req'[q] = req[q]
             /\ req'[p].pc = "verify" /\ req'[p].op = req[p].op
             /\ req'[p].row = req[p].row /\ req'[p].kind = req[p].kind
  <2>1. [req[p] EXCEPT !.pc = "verify", !.fresh = TRUE] \in Request
    BY DEF TypeOK, Request
  <2>2. req' = [req EXCEPT ![p] = [req[p] EXCEPT !.pc = "verify", !.fresh = TRUE]]
    BY <1>1
  <2> QED
    BY <2>1, <2>2 DEF TypeOK, Request
<1>2. ASSUME req' = [req EXCEPT ![p].pc = "totp", ![p].kind = "totp", ![p].row = factor]
      PROVE  /\ req' \in [Proc -> Request] /\ \A q \in Proc \ {p} : req'[q] = req[q]
             /\ req'[p].op = req[p].op /\ req'[p].fresh = req[p].fresh
             /\ req'[p].pc = "totp" /\ req'[p].kind = "totp" /\ req'[p].row = factor
  <2>1. [req[p] EXCEPT !.pc = "totp", !.kind = "totp", !.row = factor] \in Request
    BY DEF TypeOK, Request
  <2>2. req' = [req EXCEPT ![p] = [req[p] EXCEPT !.pc = "totp", !.kind = "totp", !.row = factor]]
    BY <1>2
  <2> QED
    BY <2>1, <2>2 DEF TypeOK, Request
<1>3. ASSUME req' = [req EXCEPT ![p].pc = "spend", ![p].kind = "recovery_code"]
      PROVE  /\ req' \in [Proc -> Request] /\ \A q \in Proc \ {p} : req'[q] = req[q]
             /\ req'[p].op = req[p].op /\ req'[p].fresh = req[p].fresh
             /\ req'[p].pc = "spend" /\ req'[p].kind = "recovery_code"
             /\ req'[p].row = req[p].row
  <2>1. [req[p] EXCEPT !.pc = "spend", !.kind = "recovery_code"] \in Request
    BY DEF TypeOK, Request
  <2>2. req' = [req EXCEPT ![p] = [req[p] EXCEPT !.pc = "spend", !.kind = "recovery_code"]]
    BY <1>3
  <2> QED
    BY <2>1, <2>2 DEF TypeOK, Request
<1> QED
  BY <1>1, <1>2, <1>3, Finished DEF RereadUser, VerifyFactor, At

\* A write, after which the writer goes on or is done.
LEMMA Carrying ==
    ASSUME TypeOK, NEW p \in Proc, NEW pc \in Step,
           Wrote(p, [req[p] EXCEPT !.pc = pc]), UNCHANGED <<disabled, drawn>>
    PROVE  req' \in [Proc -> Request] /\ Bystanders(p) /\ Overtaking(p) /\ Onward(p, pc)
<1>1. req[p] \in Request
  BY DEF TypeOK
<1>2. [req[p] EXCEPT !.pc = pc] \in Request
  BY <1>1, Advancing
<1>3. req'[p] = [req[p] EXCEPT !.pc = pc]
  BY <1>2, Writing
<1>4. /\ req'[p].pc = pc /\ req'[p].row = req[p].row
      /\ req'[p].kind = req[p].kind /\ req'[p].fresh = req[p].fresh
  BY <1>1, <1>3, Advancing
<1> QED
  BY <1>2, <1>4, Writing DEF Bystanders, Overtaking, Onward

LEMMA Completing ==
    ASSUME TypeOK, NEW p \in Proc, Wrote(p, Idle), UNCHANGED <<disabled, drawn>>
    PROVE  req' \in [Proc -> Request] /\ Bystanders(p) /\ Overtaking(p) /\ req'[p] = Idle
  BY IdleType, Writing DEF Bystanders, Overtaking

\* Whoever neither writes nor stops another leaves the others as they were.
LEMMA Alone ==
    ASSUME NEW p \in Proc, Quiet, \A q \in Proc \ {p} : req'[q] = req[q]
    PROVE  Bystanders(p)
  BY DEF Bystanders, Quiet

LEMMA Stopping ==
    ASSUME TypeOK, NEW p \in Proc, Finish(p),
           UNCHANGED <<factor, recovery, disabled, now, drawn, used, proven>>,
           tokens' \subseteq Token,
           \/ clean' = FALSE
           \/ UNCHANGED clean /\ req[p].pc \notin {"issue", "drop"}
    PROVE  Outcome(p)
<1>1. clean' \in BOOLEAN /\ (clean' => clean)
  <2>1. clean \in BOOLEAN
    BY DEF TypeOK
  <2>2. CASE clean' = FALSE
    BY <2>1, <2>2
  <2>3. CASE UNCHANGED clean
    BY <2>1, <2>3
  <2> QED
    BY <2>2, <2>3
<1>2. Quiet
  BY <1>1 DEF Quiet
<1>3. Stops(p)
  BY <1>2, Finished DEF Stops
<1> QED
  BY <1>1, <1>2, <1>3, Alone, Finished DEF Outcome, Asks

LEMMA Starting ==
    ASSUME TypeOK, NEW p \in Proc, NEW pc \in {"requires", "user", "load", "delete"},
           NEW op \in {"login", "complete", "begin", "confirm", "regenerate", "remove"},
           Begin(p, op, pc),
           pc = "load" => op \in {"begin", "confirm", "regenerate", "remove"},
           pc = "requires" => ~disabled,
           UNCHANGED <<factor, recovery, disabled, now, drawn, used, proven, clean>>,
           tokens' \subseteq Token
    PROVE  Outcome(p)
<1>1. Quiet /\ clean' \in BOOLEAN
  BY DEF Quiet, TypeOK
<1>2. /\ req' \in [Proc -> Request]
      /\ \A q \in Proc \ {p} : req'[q] = req[q]
      /\ req'[p].pc = pc /\ req'[p].op = op /\ req'[p].row = NoRow
      /\ req'[p].kind = "none" /\ req'[p].fresh
  BY Beginning DEF Step
<1>3. Starts(p)
  BY <1>1, <1>2 DEF Starts, Begin, At
<1> QED
  BY <1>1, <1>2, <1>3, Alone DEF Outcome, Asks

LEMMA SigningIn == ASSUME TypeOK, NEW p \in Proc, SignIn(p) PROVE Outcome(p)
<1> USE DEF At
<1>1. CASE Login(p)
  BY <1>1, Starting DEF Login, TypeOK
<1>2. CASE RequiresSecondFactor(p)
  <2>1. /\ UNCHANGED <<factor, recovery, tokens, disabled, now, drawn, used, proven>>
        /\ req[p].pc = "requires"
        /\ clean \in BOOLEAN /\ factor.confirmed \in BOOLEAN
    BY <1>2 DEF RequiresSecondFactor, TypeOK, Enrollment
  <2>2. /\ \/ Goto(p, "token")
           \/ Goto(p, "session") /\ ~factor.confirmed
        /\ clean' = FALSE \/ clean' = clean
    <3>1. \/ Goto(p, IF factor.confirmed THEN "token" ELSE "session") /\ clean' = clean
          \/ Goto(p, "token") /\ clean' = FALSE
      BY <1>2 DEF RequiresSecondFactor
    <3>2. CASE factor.confirmed
      BY <3>1, <3>2
    <3>3. CASE ~factor.confirmed
      BY <3>1, <3>3
    <3> QED
      BY <3>2, <3>3
  <2>3. clean' \in BOOLEAN /\ (clean' => clean)
    <3>1. clean \in BOOLEAN
      BY <2>1
    <3>2. CASE clean' = FALSE
      BY <3>1, <3>2
    <3>3. CASE clean' = clean
      BY <3>1, <3>3
    <3> QED
      BY <2>2, <3>2, <3>3
  <2>4. /\ req' \in [Proc -> Request]
        /\ \A q \in Proc \ {p} : req'[q] = req[q]
        /\ \/ req'[p].pc = "token"
           \/ req'[p].pc = "session" /\ ~factor.confirmed
        /\ req'[p].row = req[p].row /\ req'[p].kind = req[p].kind
        /\ req'[p].fresh = req[p].fresh
    BY <2>2, Going DEF Step
  <2>5. Quiet
    BY <2>1, <2>3 DEF Quiet
  <2>6. SignsIn(p)
    BY <2>1, <2>4, <2>5 DEF SignsIn
  <2> QED
    BY <2>1, <2>3, <2>4, <2>5, <2>6, Alone DEF Outcome, Asks, TypeOK
<1>3. CASE IssueMFAToken(p)
  BY <1>3, Stopping DEF IssueMFAToken, TypeOK
<1>4. CASE ClaimMFAToken(p)
  BY <1>4, Starting DEF ClaimMFAToken, TypeOK
<1>5. CASE RereadUser(p)
  <2>1. /\ UNCHANGED <<factor, recovery, tokens, disabled, now, drawn, used, proven, clean>>
        /\ req[p].pc = "user"
    BY <1>5 DEF RereadUser
  <2>2. Quiet
    BY <2>1 DEF Quiet
  <2>3. /\ req' \in [Proc -> Request] /\ \A q \in Proc \ {p} : req'[q] = req[q]
        /\ \/ req'[p] = Idle
           \/ /\ ~disabled
              /\ req'[p].pc = "verify"
              /\ req'[p].row = req[p].row /\ req'[p].kind = req[p].kind
    BY <1>5, Signing
  <2>4. Stops(p) \/ SignsIn(p)
    BY <2>1, <2>2, <2>3 DEF Stops, SignsIn
  <2> QED
    BY <2>1, <2>2, <2>3, <2>4, Alone DEF Outcome, Asks, TypeOK
<1>6. CASE VerifyFactor(p)
  <2>1. /\ UNCHANGED <<factor, recovery, tokens, disabled, now, drawn, used, proven, clean>>
        /\ req[p].pc = "verify"
    BY <1>6 DEF VerifyFactor
  <2>2. Quiet
    BY <2>1 DEF Quiet
  <2>3. /\ req' \in [Proc -> Request] /\ \A q \in Proc \ {p} : req'[q] = req[q]
        /\ \/ req'[p] = Idle
           \/ /\ factor.confirmed
              /\ req'[p].fresh = req[p].fresh
              /\ \/ /\ req'[p].pc = "totp" /\ req'[p].kind = "totp"
                    /\ req'[p].row = factor
                 \/ /\ req'[p].pc = "spend" /\ req'[p].kind = "recovery_code"
                    /\ req'[p].row = req[p].row
    BY <1>6, Signing
  <2>4. Stops(p) \/ SignsIn(p)
    BY <2>1, <2>2, <2>3 DEF Stops, SignsIn
  <2> QED
    BY <2>1, <2>2, <2>3, <2>4, Alone DEF Outcome, Asks, TypeOK
<1>7. CASE VerifyTOTP(p)
  <2>1. /\ UNCHANGED <<recovery, tokens, disabled, now, drawn, proven>>
        /\ req[p].pc = "totp"
        /\ \/ /\ Wrote(p, [req[p] EXCEPT !.pc = "session"])
              /\ \E code \in AtHand : /\ Validates(req[p].row, code)
                                      /\ factor' = Advanced(factor, code.step)
                                      /\ used' = used \cup {code}
           \/ Finish(p) /\ UNCHANGED <<factor, used, clean>>
    BY <1>7 DEF VerifyTOTP
  <2>2. CASE Finish(p) /\ UNCHANGED <<factor, used, clean>>
    BY <2>1, <2>2, Stopping DEF TypeOK
  <2>3. CASE Wrote(p, [req[p] EXCEPT !.pc = "session"])
             /\ \E code \in AtHand : /\ Validates(req[p].row, code)
                                     /\ factor' = Advanced(factor, code.step)
                                     /\ used' = used \cup {code}
    <3>1. req' \in [Proc -> Request] /\ Bystanders(p) /\ Overtaking(p) /\ Onward(p, "session")
      BY <2>1, <2>3, Carrying DEF Step
    <3> QED
      BY <2>1, <2>3, <3>1 DEF Outcome, Writes, Accepts, TypeOK, Overtaking
  <2> QED
    BY <2>1, <2>2, <2>3
<1>8. CASE SpendRecoveryCode(p)
  <2>1. /\ UNCHANGED <<factor, tokens, disabled, now, drawn, used, proven>>
        /\ req[p].pc = "spend"
        /\ \/ /\ Wrote(p, [req[p] EXCEPT !.pc = "session"])
              /\ \E left \in BOOLEAN : recovery' = [recovery EXCEPT !.left = left]
           \/ Finish(p) /\ UNCHANGED <<recovery, clean>>
    BY <1>8 DEF SpendRecoveryCode
  <2>2. CASE Finish(p) /\ UNCHANGED <<recovery, clean>>
    BY <2>1, <2>2, Stopping DEF TypeOK
  <2>3. CASE Wrote(p, [req[p] EXCEPT !.pc = "session"])
             /\ \E left \in BOOLEAN : recovery' = [recovery EXCEPT !.left = left]
    <3>1. req' \in [Proc -> Request] /\ Bystanders(p) /\ Overtaking(p) /\ Onward(p, "session")
      BY <2>1, <2>3, Carrying DEF Step
    <3> QED
      BY <2>1, <2>3, <3>1 DEF Outcome, Writes, Spends, TypeOK, Overtaking
  <2> QED
    BY <2>1, <2>2, <2>3
<1>9. CASE InsertSession(p)
  BY <1>9, Stopping DEF InsertSession, TypeOK
<1> QED
  BY <1>1, <1>2, <1>3, <1>4, <1>5, <1>6, <1>7, <1>8, <1>9 DEF SignIn

LEMMA Taking ==
    ASSUME TypeOK, NEW p \in Proc, NEW pc \in Step, NEW row \in Enrollment,
           req' = [req EXCEPT ![p].pc = pc, ![p].row = row]
    PROVE  /\ req' \in [Proc -> Request] /\ \A q \in Proc \ {p} : req'[q] = req[q]
           /\ req'[p].pc = pc /\ req'[p].row = row
           /\ req'[p].kind = req[p].kind /\ req'[p].fresh = req[p].fresh
<1>1. [req[p] EXCEPT !.pc = pc, !.row = row] \in Request
  BY DEF TypeOK, Request, Step
<1>2. req' = [req EXCEPT ![p] = [req[p] EXCEPT !.pc = pc, !.row = row]]
  OBVIOUS
<1> QED
  BY <1>1, <1>2 DEF TypeOK, Request

LEMMA Managing == ASSUME TypeOK, Shape, NEW p \in Proc, Manage(p) PROVE Outcome(p)
<1> USE DEF At
<1>1. CASE BeginRequest(p)
  BY <1>1, Starting DEF BeginRequest, TypeOK
<1>2. CASE ClearFactorFor(p)
  BY <1>2, Starting DEF ClearFactorFor, TypeOK
<1>3. CASE LoadFactor(p)
  <2>1. /\ UNCHANGED <<factor, recovery, tokens, disabled, now, used, proven, clean>>
        /\ req[p].pc = "load"
        /\ req[p].op \in {"begin", "confirm", "regenerate", "remove"}
    BY <1>3 DEF LoadFactor, Shape, ShapeOf
  <2>2. Quiet
    BY <2>1 DEF Quiet
  <2>3. CASE Finish(p) /\ UNCHANGED drawn
    BY <2>1, <2>3, Stopping DEF TypeOK
  <2>4. CASE /\ ~Refused(req[p].op, factor) /\ req[p].op = "begin"
             /\ \E secret \in Secret \ drawn :
                  /\ drawn' = drawn \cup {secret}
                  /\ req' = [req EXCEPT ![p].pc = "upsert", ![p].row = Pending(secret)]
    <3>1. ~factor.confirmed
      BY <2>4 DEF Refused
    <3>2. PICK secret \in Secret \ drawn :
                  /\ drawn' = drawn \cup {secret}
                  /\ req' = [req EXCEPT ![p].pc = "upsert", ![p].row = Pending(secret)]
      BY <2>4
    <3>3. Pending(secret) \in Enrollment
      BY DEF Pending, Enrollment
    <3>4. /\ req' \in [Proc -> Request] /\ \A q \in Proc \ {p} : req'[q] = req[q]
          /\ req'[p].pc = "upsert" /\ req'[p].row = Pending(secret)
          /\ req'[p].kind = req[p].kind /\ req'[p].fresh = req[p].fresh
      BY <3>2, <3>3, Taking DEF Step
    <3>5. Loads(p)
      BY <2>1, <2>2, <3>1, <3>2, <3>4 DEF Loads
    <3> QED
      BY <2>1, <2>2, <3>4, <3>5, Alone DEF Outcome, Asks, TypeOK
  <2>5. CASE /\ ~Refused(req[p].op, factor) /\ req[p].op # "begin"
             /\ req' = [req EXCEPT ![p].pc = NextPc(req[p].op), ![p].row = factor]
             /\ UNCHANGED drawn
    <3>1. \/ NextPc(req[p].op) = "confirm" /\ factor.secret # NoSecret
          \/ NextPc(req[p].op) = "issue" /\ factor.confirmed
          \/ NextPc(req[p].op) = "delete"
      BY <2>1, <2>5 DEF Refused, NextPc
    <3>2. NextPc(req[p].op) \in Step /\ factor \in Enrollment
      BY <3>1 DEF Step, TypeOK
    <3>3. /\ req' \in [Proc -> Request] /\ \A q \in Proc \ {p} : req'[q] = req[q]
          /\ req'[p].pc = NextPc(req[p].op) /\ req'[p].row = factor
          /\ req'[p].kind = req[p].kind /\ req'[p].fresh = req[p].fresh
      BY <2>5, <3>2, Taking
    <3>4. Loads(p)
      BY <2>1, <2>2, <2>5, <3>1, <3>3 DEF Loads
    <3> QED
      BY <2>1, <2>2, <3>3, <3>4, Alone DEF Outcome, Asks, TypeOK
  <2> QED
    BY <1>3, <2>3, <2>4, <2>5 DEF LoadFactor
<1>4. CASE UpsertTOTP(p)
  <2>1. /\ UNCHANGED <<recovery, tokens, disabled, now, drawn, used, proven>>
        /\ req[p].pc = "upsert" /\ factor' = req[p].row /\ Wrote(p, Idle)
    BY <1>4 DEF UpsertTOTP
  <2>2. req' \in [Proc -> Request] /\ Bystanders(p) /\ Overtaking(p) /\ req'[p] = Idle
    BY <2>1, Completing
  <2> QED
    BY <2>1, <2>2 DEF Outcome, Writes, Stores, TypeOK, Overtaking
<1>5. CASE ConfirmTOTP(p)
  <2>1. /\ UNCHANGED <<recovery, tokens, disabled, now, drawn>>
        /\ req[p].pc = "confirm"
        /\ \/ /\ Wrote(p, [req[p] EXCEPT !.pc = "issue"])
              /\ \E code \in AtHand :
                   /\ Validates(req[p].row, code)
                   /\ factor' = IF factor.secret = NoSecret THEN factor
                                ELSE [factor EXCEPT !.confirmed = TRUE, !.last = code.step]
                   /\ used' = used \cup {code} /\ proven' = proven \cup {code.secret}
           \/ Finish(p) /\ UNCHANGED <<factor, used, proven, clean>>
    BY <1>5 DEF ConfirmTOTP
  <2>2. CASE Finish(p) /\ UNCHANGED <<factor, used, proven, clean>>
    BY <2>1, <2>2, Stopping DEF TypeOK
  <2>3. CASE Wrote(p, [req[p] EXCEPT !.pc = "issue"])
    <3>1. req' \in [Proc -> Request] /\ Bystanders(p) /\ Overtaking(p) /\ Onward(p, "issue")
      BY <2>1, <2>3, Carrying DEF Step
    <3>2. CASE \E code \in AtHand :
                 /\ Validates(req[p].row, code)
                 /\ factor' = IF factor.secret = NoSecret THEN factor
                              ELSE [factor EXCEPT !.confirmed = TRUE, !.last = code.step]
                 /\ used' = used \cup {code} /\ proven' = proven \cup {code.secret}
      BY <2>1, <3>1, <3>2 DEF Outcome, Writes, Confirms, TypeOK, Overtaking
    <3> QED
      BY <2>1, <2>2, <3>2
  <2> QED
    BY <2>1, <2>2, <2>3
<1>6. CASE IssueRecoveryCodes(p)
  <2>1. /\ UNCHANGED <<factor, tokens, disabled, now, drawn, used, proven>>
        /\ req[p].pc = "issue" /\ Wrote(p, Idle)
        /\ recovery' = [with |-> req[p].row.secret, left |-> TRUE]
    BY <1>6 DEF IssueRecoveryCodes
  <2>2. req' \in [Proc -> Request] /\ Bystanders(p) /\ Overtaking(p) /\ req'[p] = Idle
    BY <2>1, Completing
  <2> QED
    BY <2>1, <2>2 DEF Outcome, Writes, Issues, TypeOK, Overtaking
<1>7. CASE DeleteTOTP(p)
  <2>1. /\ UNCHANGED <<recovery, tokens, disabled, now, drawn, used, proven>>
        /\ req[p].pc = "delete" /\ factor' = NoRow
        /\ Wrote(p, [req[p] EXCEPT !.pc = "drop"])
    BY <1>7 DEF DeleteTOTP
  <2>2. req' \in [Proc -> Request] /\ Bystanders(p) /\ Overtaking(p) /\ Onward(p, "drop")
    BY <2>1, Carrying DEF Step
  <2> QED
    BY <2>1, <2>2 DEF Outcome, Writes, Deletes, TypeOK, Overtaking
<1>8. CASE DropRecoveryCodes(p)
  <2>1. /\ UNCHANGED <<factor, tokens, disabled, now, drawn, used, proven>>
        /\ req[p].pc = "drop" /\ Wrote(p, Idle) /\ recovery' = NoCodes
    BY <1>8 DEF DropRecoveryCodes
  <2>2. req' \in [Proc -> Request] /\ Bystanders(p) /\ Overtaking(p) /\ req'[p] = Idle
    BY <2>1, Completing
  <2> QED
    BY <2>1, <2>2 DEF Outcome, Writes, Drops, TypeOK, Overtaking
<1> QED
  BY <1>1, <1>2, <1>3, <1>4, <1>5, <1>6, <1>7, <1>8 DEF Manage

LEMMA Erring == ASSUME TypeOK, NEW p \in Proc, StoreError(p) PROVE Outcome(p)
  BY Stopping DEF StoreError, TypeOK

\* Every step is one request's, or the account's, or the world's.
LEMMA Moving ==
    ASSUME TypeOK, Shape, [Next]_vars
    PROVE  \/ \E p \in Proc : Outcome(p)
           \/ Suspended
           \/ /\ UNCHANGED <<factor, recovery, disabled, req, drawn, used, proven, clean>>
              /\ tokens' \subseteq Token /\ now' \in Nat
<1>1. CASE Suspended
  BY <1>1
<1>2. CASE TokenExpires \/ Tick \/ UNCHANGED vars
  BY <1>2 DEF TokenExpires, Tick, vars, TypeOK
<1> QED
  BY <1>1, <1>2, SigningIn, Managing, Erring DEF Next

-----------------------------------------------------------------------------
(* Every step keeps the invariant, one conjunct at a time.                 *)

\* A code at hand is of a secret drawn before.
LEMMA Codes ==
    ASSUME TypeOK, NEW code \in AtHand
    PROVE  /\ code \in Code /\ code.secret \in drawn /\ code.secret \in Secret
           /\ code.step \in Nat /\ code.secret # NoSecret
  BY SecondFactorAssumption DEF AtHand, Code, TypeOK, TOTPSkew

\* Recording a step changes only the last step, and never moves it backwards.
LEMMA AdvancedRow ==
    ASSUME NEW row \in Enrollment, NEW step \in Nat
    PROVE  /\ Advanced(row, step) \in Enrollment
           /\ Advanced(row, step).secret = row.secret
           /\ Advanced(row, step).confirmed = row.confirmed
           /\ Advanced(row, step).last >= row.last
           /\ row.secret # NoSecret => Advanced(row, step).last >= step
<1>1. [row EXCEPT !.last = step] \in Enrollment
  BY DEF Enrollment
<1>2. /\ [row EXCEPT !.last = step].secret = row.secret
      /\ [row EXCEPT !.last = step].confirmed = row.confirmed
      /\ [row EXCEPT !.last = step].last = step
  BY DEF Enrollment
<1>3. row.last \in Nat
  BY DEF Enrollment
<1>4. CASE row.secret # NoSecret /\ step > row.last
  BY <1>1, <1>2, <1>3, <1>4 DEF Advanced
<1>5. CASE ~(row.secret # NoSecret /\ step > row.last)
  BY <1>3, <1>5 DEF Advanced
<1> QED
  BY <1>4, <1>5

\* What a confirmation leaves of the row.
LEMMA Activated ==
    ASSUME NEW row \in Enrollment, NEW step \in Nat
    PROVE  /\ [row EXCEPT !.confirmed = TRUE, !.last = step] \in Enrollment
           /\ [row EXCEPT !.confirmed = TRUE, !.last = step].secret = row.secret
           /\ [row EXCEPT !.confirmed = TRUE, !.last = step].confirmed
           /\ [row EXCEPT !.confirmed = TRUE, !.last = step].last = step
  BY DEF Enrollment

\* What becomes of the stored rows.
LEMMA Rows ==
    ASSUME TypeOK, NEW p \in Proc, Outcome(p)
    PROVE  /\ factor' \in Enrollment /\ recovery' \in Recovery
           /\ drawn' \subseteq Secret /\ proven' \subseteq Secret /\ used' \subseteq Code
<1>1. /\ factor \in Enrollment /\ recovery \in Recovery /\ req[p].row \in Enrollment
      /\ drawn \subseteq Secret /\ proven \subseteq Secret /\ used \subseteq Code
  BY DEF TypeOK, Request
<1>2. CASE Asks(p)
  BY <1>1, <1>2 DEF Asks, Stops, Starts, SignsIn, Loads, Quiet
<1>3. CASE Accepts(p)
  <2>1. PICK code \in AtHand : /\ factor' = Advanced(factor, code.step)
                               /\ used' = used \cup {code}
    BY <1>3 DEF Accepts
  <2> QED
    BY <1>1, <1>3, <2>1, Codes, AdvancedRow DEF Accepts, Overtaking
<1>4. CASE Spends(p)
  <2>1. PICK left \in BOOLEAN : recovery' = [recovery EXCEPT !.left = left]
    BY <1>4 DEF Spends
  <2>2. recovery' \in Recovery
    BY <1>1, <2>1 DEF Recovery
  <2> QED
    BY <1>1, <1>4, <2>2 DEF Spends, Overtaking
<1>5. CASE Stores(p)
  BY <1>1, <1>5 DEF Stores, Overtaking
<1>6. CASE Confirms(p)
  <2>1. PICK code \in AtHand :
          /\ factor' = IF factor.secret = NoSecret THEN factor
                       ELSE [factor EXCEPT !.confirmed = TRUE, !.last = code.step]
          /\ used' = used \cup {code} /\ proven' = proven \cup {code.secret}
    BY <1>6 DEF Confirms
  <2>2. code \in Code /\ code.secret \in Secret /\ code.step \in Nat
    BY Codes
  <2>3. factor' \in Enrollment
    BY <1>1, <2>1, <2>2, Activated
  <2> QED
    BY <1>1, <1>6, <2>1, <2>2, <2>3 DEF Confirms, Overtaking
<1>7. CASE Issues(p)
  <2>1. recovery' \in Recovery
    BY <1>1, <1>7 DEF Issues, Recovery, Enrollment
  <2> QED
    BY <1>1, <1>7, <2>1 DEF Issues, Overtaking
<1>8. CASE Deletes(p)
  BY <1>1, <1>8, IdleType DEF Deletes, Overtaking
<1>9. CASE Drops(p)
  <2>1. recovery' \in Recovery
    BY <1>9 DEF Drops, NoCodes, Recovery
  <2> QED
    BY <1>1, <1>9, <2>1 DEF Drops, Overtaking
<1> QED
  BY <1>2, <1>3, <1>4, <1>5, <1>6, <1>7, <1>8, <1>9 DEF Outcome, Writes

LEMMA Suspending ==
    ASSUME TypeOK, Suspended
    PROVE  /\ UNCHANGED <<factor, recovery, tokens, now, drawn, used, proven, clean>>
           /\ disabled' \in BOOLEAN /\ req' \in [Proc -> Request]
           /\ \A p \in Proc :
                /\ req'[p].pc = req[p].pc /\ req'[p].op = req[p].op
                /\ req'[p].row = req[p].row /\ req'[p].kind = req[p].kind
                /\ ~req'[p].fresh
<1>1. \A p \in Proc : [req[p] EXCEPT !.fresh = FALSE] \in Request
  BY DEF TypeOK, Request
<1>2. \A p \in Proc :
        /\ req'[p].pc = req[p].pc /\ req'[p].op = req[p].op
        /\ req'[p].row = req[p].row /\ req'[p].kind = req[p].kind
        /\ ~req'[p].fresh
  BY DEF TypeOK, Request, Suspended
<1>3. req' \in [Proc -> Request]
  BY <1>1 DEF Suspended
<1> QED
  BY <1>2, <1>3 DEF Suspended, TypeOK

LEMMA TypeStep == ASSUME TypeOK, Shape, [Next]_vars PROVE TypeOK'
<1>1. CASE \E p \in Proc : Outcome(p)
  <2>1. PICK p \in Proc : Outcome(p)
    BY <1>1
  <2>2. /\ req' \in [Proc -> Request] /\ tokens' \subseteq Token /\ now' \in Nat
        /\ clean' \in BOOLEAN
    BY <2>1 DEF Outcome, TypeOK
  <2>3. disabled' = disabled /\ disabled \in BOOLEAN
    BY <2>1 DEF Outcome, TypeOK, Asks, Stops, Starts, SignsIn, Loads, Quiet, Writes,
        Accepts, Spends, Stores, Confirms, Issues, Deletes, Drops, Overtaking
  <2> QED
    BY <2>1, <2>2, <2>3, Rows DEF TypeOK
<1>2. CASE Suspended
  BY <1>2, Suspending DEF TypeOK
<1>3. CASE /\ UNCHANGED <<factor, recovery, disabled, req, drawn, used, proven, clean>>
           /\ tokens' \subseteq Token /\ now' \in Nat
  BY <1>3 DEF TypeOK
<1> QED
  BY <1>1, <1>2, <1>3, Moving

LEMMA ShapeStep == ASSUME TypeOK, Shape, [Next]_vars PROVE Shape'
<1>1. ASSUME NEW p \in Proc, Outcome(p)
      PROVE  Shape'
  <2>1. ShapeOf(req[p])
    BY DEF Shape
  <2>2. ShapeOf(req[p])'
    <3>1. CASE Asks(p)
      BY <2>1, <3>1 DEF ShapeOf, Asks, Stops, Starts, SignsIn, Loads, Idle
    <3>2. CASE Writes(p)
      <4>1. CASE Accepts(p) \/ Spends(p) \/ Confirms(p) \/ Deletes(p)
        <5>1. req'[p].pc \in {"session", "issue", "drop"}
          BY <4>1 DEF Accepts, Spends, Confirms, Deletes, Onward
        <5> QED
          BY <5>1 DEF ShapeOf
      <4>2. CASE Stores(p) \/ Issues(p) \/ Drops(p)
        <5>1. req'[p].pc = "idle"
          BY <4>2 DEF Stores, Issues, Drops, Idle
        <5> QED
          BY <5>1 DEF ShapeOf
      <4> QED
        BY <3>2, <4>1, <4>2 DEF Writes
    <3> QED
      BY <1>1, <3>1, <3>2 DEF Outcome
  <2>3. \A q \in Proc \ {p} : ShapeOf(req[q])'
    BY <1>1 DEF Outcome, Bystanders, Shape, ShapeOf
  <2> QED
    BY <2>2, <2>3 DEF Shape
<1>2. CASE Suspended
  BY <1>2, Suspending DEF Shape, ShapeOf
<1>3. CASE UNCHANGED req
  BY <1>3 DEF Shape, ShapeOf
<1> QED
  BY <1>1, <1>2, <1>3, Moving

\* What the mover finds next is what it has just loaded, or written itself.
LEMMA LoadedByMover ==
    ASSUME TypeOK, Shape, NEW p \in Proc, LoadedOf(req[p]), Outcome(p)
    PROVE  LoadedOf(req[p])'
<1>1. req[p] \in Request /\ factor \in Enrollment
  BY DEF TypeOK
<1>2. CASE Stops(p)
  BY <1>2 DEF Stops, LoadedOf, Idle
<1>3. CASE Starts(p)
  BY <1>3 DEF Starts, LoadedOf, Quiet
<1>4. CASE SignsIn(p)
  <2>1. ShapeOf(req[p])
    BY DEF Shape
  <2> QED
    BY <1>4, <2>1 DEF SignsIn, LoadedOf, ShapeOf, Quiet
<1>5. CASE Loads(p)
  <2>1. UNCHANGED <<factor, disabled>>
    BY <1>5 DEF Loads, Quiet
  <2>2. \/ req'[p].pc = "upsert" /\ ~factor.confirmed
        \/ /\ req'[p].pc \in {"confirm", "issue", "delete"}
           /\ req'[p].pc = "confirm" => factor.secret # NoSecret
           /\ req'[p].pc = "issue" => factor.confirmed
           /\ req'[p].row = factor
    BY <1>5 DEF Loads
  <2> QED
    BY <2>1, <2>2 DEF LoadedOf
<1>6. CASE Accepts(p)
  <2>1. PICK code \in AtHand : factor' = Advanced(factor, code.step)
    BY <1>6 DEF Accepts
  <2>2. factor'.secret = factor.secret /\ factor'.confirmed = factor.confirmed
    BY <1>1, <2>1, Codes, AdvancedRow
  <2>3. /\ req[p].pc = "totp" /\ req'[p].pc = "session" /\ UNCHANGED disabled
        /\ req'[p].row = req[p].row /\ req'[p].kind = req[p].kind
        /\ req'[p].fresh = req[p].fresh
    BY <1>6 DEF Accepts, Onward, Overtaking
  <2> QED
    BY <2>2, <2>3 DEF LoadedOf
<1>7. CASE Spends(p)
  <2>1. /\ req[p].pc = "spend" /\ req'[p].pc = "session" /\ UNCHANGED <<factor, disabled>>
        /\ req'[p].row = req[p].row /\ req'[p].kind = req[p].kind
        /\ req'[p].fresh = req[p].fresh
    BY <1>7 DEF Spends, Onward, Overtaking
  <2> QED
    BY <2>1 DEF LoadedOf
<1>8. CASE Stores(p) \/ Issues(p) \/ Drops(p)
  BY <1>8 DEF Stores, Issues, Drops, LoadedOf, Idle
<1>9. CASE Confirms(p)
  <2>1. PICK code \in AtHand :
          factor' = IF factor.secret = NoSecret THEN factor
                    ELSE [factor EXCEPT !.confirmed = TRUE, !.last = code.step]
    BY <1>9 DEF Confirms
  <2>2. /\ req[p].pc = "confirm" /\ req'[p].pc = "issue"
        /\ req'[p].row = req[p].row /\ req'[p].fresh = req[p].fresh
    BY <1>9 DEF Confirms, Onward
  <2>3. factor.secret # NoSecret => factor'.confirmed /\ factor'.secret = factor.secret
    BY <1>1, <2>1, Codes, Activated
  <2> QED
    BY <2>2, <2>3 DEF LoadedOf
<1>10. CASE Deletes(p)
  <2>1. req'[p].pc = "drop" /\ factor' = NoRow
    BY <1>10 DEF Deletes, Onward
  <2> QED
    BY <2>1 DEF LoadedOf
<1> QED
  BY <1>2, <1>3, <1>4, <1>5, <1>6, <1>7, <1>8, <1>9, <1>10 DEF Outcome, Asks, Writes

LEMMA LoadedStep ==
    ASSUME TypeOK, Shape, Loaded, [Next]_vars
    PROVE  Loaded'
<1>1. ASSUME NEW p \in Proc, Outcome(p)
      PROVE  Loaded'
  <2>1. LoadedOf(req[p])'
    BY <1>1, LoadedByMover DEF Loaded
  <2>2. \A q \in Proc \ {p} : LoadedOf(req[q])'
    BY <1>1 DEF Outcome, Bystanders, Loaded, LoadedOf
  <2> QED
    BY <2>1, <2>2 DEF Loaded
<1>2. CASE Suspended
  BY <1>2, Suspending DEF Loaded, LoadedOf
<1>3. CASE UNCHANGED <<factor, disabled, req>>
  BY <1>3 DEF Loaded, LoadedOf
<1> QED
  BY <1>1, <1>2, <1>3, Moving

\* Where a secret can come from: the stored row and the rows loaded so far, except
\* that an enrolment draws one never drawn before.
Drawing(p) ==
    /\ req'[p].pc = "upsert" /\ UNCHANGED <<factor, used>>
    /\ \E secret \in Secret \ drawn :
         req'[p].row = Pending(secret) /\ drawn' = drawn \cup {secret}

Sources(p) ==
    /\ \/ factor'.secret \in {factor.secret, NoSecret}
       \/ req[p].pc = "upsert" /\ factor'.secret = req[p].row.secret
    /\ \/ /\ req'[p].pc # "upsert" /\ UNCHANGED drawn
          /\ req'[p].row.secret \in {req[p].row.secret, factor.secret, NoSecret}
       \/ Drawing(p)
    /\ \A code \in used' :
         \/ code \in used
         \/ /\ req[p].pc \in {"totp", "confirm"}
            /\ code.secret = req[p].row.secret /\ code.secret \in drawn

LEMMA SecretsFlow == ASSUME TypeOK, NEW p \in Proc, Outcome(p) PROVE Sources(p)
<1>1. /\ req[p] \in Request /\ factor \in Enrollment /\ req[p].row \in Enrollment
      /\ Idle.row.secret = NoSecret /\ Idle.pc = "idle" /\ NoRow.secret = NoSecret
  BY DEF TypeOK, Request, Idle, NoRow
<1>2. CASE Stops(p)
  BY <1>1, <1>2 DEF Stops, Quiet, Sources
<1>3. CASE Starts(p)
  BY <1>1, <1>3 DEF Starts, Quiet, Sources
<1>4. CASE SignsIn(p)
  BY <1>1, <1>4 DEF SignsIn, Quiet, Sources
<1>5. CASE Loads(p)
  <2>1. UNCHANGED <<factor, used>>
    BY <1>5 DEF Loads, Quiet
  <2>2. \/ req'[p].pc = "upsert" /\ Drawing(p)
        \/ req'[p].pc # "upsert" /\ req'[p].row = factor /\ UNCHANGED drawn
    BY <1>5, <2>1 DEF Loads, Drawing
  <2> QED
    BY <2>1, <2>2 DEF Sources
<1>6. CASE Accepts(p)
  <2>1. PICK code \in AtHand : /\ Validates(req[p].row, code)
                               /\ factor' = Advanced(factor, code.step)
                               /\ used' = used \cup {code}
    BY <1>6 DEF Accepts
  <2>2. factor'.secret = factor.secret
    BY <1>1, <2>1, Codes, AdvancedRow
  <2>3. code.secret = req[p].row.secret /\ code.secret \in drawn
    BY <2>1, Codes DEF Validates
  <2>4. /\ req[p].pc = "totp" /\ req'[p].pc # "upsert" /\ UNCHANGED drawn
        /\ req'[p].row = req[p].row
    BY <1>6 DEF Accepts, Overtaking, Onward
  <2> QED
    BY <2>1, <2>2, <2>3, <2>4 DEF Sources
<1>7. CASE Spends(p)
  <2>1. /\ req'[p].pc # "upsert" /\ req'[p].row = req[p].row
        /\ UNCHANGED <<factor, used, drawn>>
    BY <1>7 DEF Spends, Overtaking, Onward
  <2> QED
    BY <2>1 DEF Sources
<1>8. CASE Stores(p)
  BY <1>1, <1>8 DEF Stores, Overtaking, Sources
<1>9. CASE Confirms(p)
  <2>1. PICK code \in AtHand :
          /\ Validates(req[p].row, code)
          /\ factor' = IF factor.secret = NoSecret THEN factor
                       ELSE [factor EXCEPT !.confirmed = TRUE, !.last = code.step]
          /\ used' = used \cup {code}
    BY <1>9 DEF Confirms
  <2>2. factor'.secret = factor.secret
    BY <1>1, <2>1, Codes, Activated
  <2>3. code.secret = req[p].row.secret /\ code.secret \in drawn
    BY <2>1, Codes DEF Validates
  <2>4. /\ req[p].pc = "confirm" /\ req'[p].pc # "upsert" /\ UNCHANGED drawn
        /\ req'[p].row = req[p].row
    BY <1>9 DEF Confirms, Overtaking, Onward
  <2> QED
    BY <2>1, <2>2, <2>3, <2>4 DEF Sources
<1>10. CASE Issues(p) \/ Drops(p)
  <2>1. req'[p] = Idle /\ UNCHANGED <<factor, used, drawn>>
    BY <1>10 DEF Issues, Drops, Overtaking
  <2> QED
    BY <1>1, <2>1 DEF Sources
<1>11. CASE Deletes(p)
  <2>1. /\ req'[p].pc # "upsert" /\ req'[p].row = req[p].row
        /\ UNCHANGED <<used, drawn>> /\ factor' = NoRow
    BY <1>11 DEF Deletes, Overtaking, Onward
  <2> QED
    BY <1>1, <2>1 DEF Sources
<1> QED
  BY <1>2, <1>3, <1>4, <1>5, <1>6, <1>7, <1>8, <1>9, <1>10, <1>11
     DEF Outcome, Asks, Writes

LEMMA SecretsStep ==
    ASSUME TypeOK, Shape, SecretsDrawn, [Next]_vars
    PROVE  SecretsDrawn'
<1>1. ASSUME NEW p \in Proc, Outcome(p)
      PROVE  SecretsDrawn'
  <2>1. Sources(p) /\ \A q \in Proc \ {p} : req'[q].pc = req[q].pc /\ req'[q].row = req[q].row
    BY <1>1, SecretsFlow DEF Outcome, Bystanders
  <2>2. /\ Known(factor.secret) /\ Known(req[p].row.secret)
        /\ \A q \in Proc \ {p} : Known(req[q].row.secret)
        /\ \A code \in used : code.secret \in drawn
    BY DEF SecretsDrawn
  <2>3. drawn \subseteq drawn'
    BY <2>1 DEF Sources, Drawing
  <2>4. Known(factor.secret)' /\ \A code \in used' : code.secret \in drawn'
    BY <2>1, <2>2, <2>3 DEF Sources, Known
  <2>5. Known(req[p].row.secret)'
    <3>1. CASE req'[p].row.secret \in {req[p].row.secret, factor.secret, NoSecret}
      BY <2>2, <2>3, <3>1 DEF Known
    <3>2. CASE Drawing(p)
      BY <3>2 DEF Drawing, Known, Pending
    <3> QED
      BY <2>1, <3>1, <3>2 DEF Sources
  <2>6. \A q \in Proc \ {p} : Known(req[q].row.secret)'
    BY <2>1, <2>2, <2>3 DEF Known
  <2>7. ASSUME NEW q \in Proc \ {p}, req'[q].pc = "upsert"
        PROVE  ~req'[q].row.confirmed /\ NewTo(q, req[q].row.secret)'
    <3>1. ~req[q].row.confirmed /\ NewTo(q, req[q].row.secret) /\ req'[q].row = req[q].row
      BY <2>1, <2>7 DEF SecretsDrawn
    <3> DEFINE secret == req[q].row.secret
    <3>2. /\ secret # NoSecret /\ factor.secret # secret /\ req[p].row.secret # secret
          /\ secret \in drawn
          /\ \A r \in Proc \ {q} : req[r].row.secret # secret
          /\ \A code \in used : code.secret # secret
      BY <2>2, <3>1 DEF NewTo, Known
    <3>3. req'[q].row.secret = secret
      BY <3>1
    <3> HIDE DEF secret
    <3>4. factor'.secret # secret /\ \A code \in used' : code.secret # secret
      BY <2>1, <3>2 DEF Sources
    <3>5. req'[p].row.secret # secret
      <4>1. CASE req'[p].row.secret \in {req[p].row.secret, factor.secret, NoSecret}
        BY <3>2, <4>1
      <4>2. CASE Drawing(p)
        BY <3>2, <4>2 DEF Drawing, Pending
      <4> QED
        BY <2>1, <4>1, <4>2 DEF Sources
    <3>6. \A r \in Proc \ {q} : req'[r].row.secret # secret
      BY <2>1, <3>2, <3>5
    <3> QED
      BY <3>1, <3>2, <3>3, <3>4, <3>6 DEF NewTo
  <2>8. ASSUME req'[p].pc = "upsert"
        PROVE  ~req'[p].row.confirmed /\ NewTo(p, req[p].row.secret)'
    <3>1. Drawing(p)
      BY <2>1, <2>8 DEF Sources
    <3>2. PICK secret \in Secret \ drawn : req'[p].row = Pending(secret)
      BY <3>1 DEF Drawing
    <3>3. req'[p].row.secret = secret /\ ~req'[p].row.confirmed
      BY <3>2 DEF Pending
    <3>4. UNCHANGED <<factor, used>>
      BY <3>1 DEF Drawing
    <3>5. secret # NoSecret /\ secret \notin drawn
      BY SecondFactorAssumption
    <3>6. factor'.secret # secret /\ \A code \in used' : code.secret # secret
      BY <2>2, <3>4, <3>5 DEF Known
    <3>7. \A q \in Proc \ {p} : req'[q].row.secret # secret
      BY <2>1, <2>2, <3>5 DEF Known
    <3> QED
      BY <3>3, <3>5, <3>6, <3>7 DEF NewTo
  <2> QED
    BY <2>4, <2>5, <2>6, <2>7, <2>8 DEF SecretsDrawn
<1>2. CASE Suspended
  <2>1. /\ UNCHANGED <<factor, drawn, used>>
        /\ \A p \in Proc : req'[p].pc = req[p].pc /\ req'[p].row = req[p].row
    BY <1>2, Suspending
  <2> QED
    BY <2>1 DEF SecretsDrawn, Known, NewTo
<1>3. CASE UNCHANGED <<factor, req, drawn, used>>
  BY <1>3 DEF SecretsDrawn, Known, NewTo
<1> QED
  BY <1>1, <1>2, <1>3, Moving

\* In a run that stays clean whoever writes was not overtaken, so that the row it
\* loaded is the one stored.
LEMMA CleanWrites ==
    ASSUME NEW p \in Proc, Outcome(p), clean'
    PROVE  clean /\ (Writes(p) => req[p].fresh)
  BY DEF Outcome, Asks, Stops, Starts, SignsIn, Loads, Quiet, Writes, Accepts,
      Spends, Stores, Confirms, Issues, Deletes, Drops, Overtaking

LEMMA StepsStep ==
    ASSUME TypeOK, Shape, Loaded, SecretsDrawn, StepsRecorded, [Next]_vars
    PROVE  StepsRecorded'
<1>1. ASSUME NEW p \in Proc, Outcome(p), clean'
      PROVE  \A code \in used' : code.secret = factor'.secret => code.step <= factor'.last
  <2>1. /\ factor \in Enrollment /\ factor.last \in Nat /\ used \subseteq Code
        /\ \A code \in used : code.step \in Nat /\ code.secret \in Secret
    BY DEF TypeOK, Enrollment, Code
  <2>2. clean /\ (Writes(p) => req[p].fresh)
    BY <1>1, CleanWrites
  <2>3. \A code \in used : code.secret = factor.secret => code.step <= factor.last
    BY <2>2 DEF StepsRecorded
  <2>4. Writes(p) => LoadedOf(req[p]) /\ req[p].fresh
    BY <2>2 DEF Loaded
  <2>5. CASE UNCHANGED <<factor, used>>
    BY <2>3, <2>5
  <2>6. CASE Accepts(p)
    <3>1. PICK code \in AtHand : /\ Validates(req[p].row, code)
                                 /\ factor' = Advanced(factor, code.step)
                                 /\ used' = used \cup {code}
      BY <2>6 DEF Accepts
    <3>2. req[p].row = factor
      BY <2>4, <2>6 DEF LoadedOf, Writes, Accepts
    <3>3. /\ code.secret = factor.secret /\ code.step \in Nat /\ factor.secret # NoSecret
      BY <3>1, <3>2, Codes DEF Validates
    <3>4. /\ factor'.secret = factor.secret /\ factor'.last \in Nat
          /\ factor'.last >= factor.last /\ factor'.last >= code.step
      BY <2>1, <3>1, <3>3, AdvancedRow DEF Enrollment
    <3> QED
      BY <2>1, <2>3, <3>1, <3>3, <3>4
  <2>7. CASE Confirms(p)
    <3>1. PICK code \in AtHand :
            /\ Validates(req[p].row, code)
            /\ factor' = IF factor.secret = NoSecret THEN factor
                         ELSE [factor EXCEPT !.confirmed = TRUE, !.last = code.step]
            /\ used' = used \cup {code}
      BY <2>7 DEF Confirms
    <3>2. req[p].row = factor /\ factor.secret # NoSecret
      BY <2>4, <2>7 DEF LoadedOf, Writes, Confirms
    <3>3. /\ code.secret = factor.secret /\ code.step \in Nat /\ code.step > factor.last
      BY <3>1, <3>2, Codes DEF Validates
    <3>4. factor'.secret = factor.secret /\ factor'.last = code.step
      BY <2>1, <3>1, <3>2, <3>3, Activated
    <3> QED
      BY <2>1, <2>3, <3>1, <3>3, <3>4
  <2>8. CASE Stores(p)
    <3>1. NewTo(p, req[p].row.secret) /\ factor' = req[p].row /\ UNCHANGED used
      BY <2>8 DEF Stores, SecretsDrawn
    <3> QED
      BY <3>1 DEF NewTo
  <2>9. CASE Deletes(p)
    <3>1. factor'.secret = NoSecret /\ UNCHANGED used
      BY <2>9 DEF Deletes, NoRow
    <3> QED
      BY <2>1, <3>1, SecondFactorAssumption
  <2> QED
    BY <1>1, <2>5, <2>6, <2>7, <2>8, <2>9
       DEF Outcome, Asks, Stops, Starts, SignsIn, Loads, Quiet, Writes, Spends, Issues, Drops
<1>2. CASE Suspended
  BY <1>2, Suspending DEF StepsRecorded
<1>3. CASE UNCHANGED <<factor, used, clean>>
  BY <1>3 DEF StepsRecorded
<1> QED
  BY <1>1, <1>2, <1>3, Moving DEF StepsRecorded

LEMMA ProvenStep ==
    ASSUME TypeOK, Shape, Loaded, SecretsDrawn, ActiveWasProven, [Next]_vars
    PROVE  ActiveWasProven'
<1>1. ASSUME NEW p \in Proc, Outcome(p), clean', factor'.confirmed
      PROVE  factor'.secret \in proven'
  <2>1. factor \in Enrollment
    BY DEF TypeOK
  <2>2. clean /\ (Writes(p) => req[p].fresh)
    BY <1>1, CleanWrites
  <2>3. factor.confirmed => factor.secret \in proven
    BY <2>2 DEF ActiveWasProven
  <2>4. CASE UNCHANGED <<factor, proven>>
    BY <1>1, <2>3, <2>4
  <2>5. CASE Accepts(p)
    <3>1. PICK code \in AtHand : factor' = Advanced(factor, code.step)
      BY <2>5 DEF Accepts
    <3>2. factor'.secret = factor.secret /\ factor'.confirmed = factor.confirmed
      BY <2>1, <3>1, Codes, AdvancedRow
    <3> QED
      BY <1>1, <2>3, <2>5, <3>2 DEF Accepts
  <2>6. CASE Confirms(p)
    <3>1. PICK code \in AtHand :
            /\ Validates(req[p].row, code)
            /\ factor' = IF factor.secret = NoSecret THEN factor
                         ELSE [factor EXCEPT !.confirmed = TRUE, !.last = code.step]
            /\ proven' = proven \cup {code.secret}
      BY <2>6 DEF Confirms
    <3>2. req[p].row = factor /\ factor.secret # NoSecret
      BY <2>2, <2>6 DEF Loaded, LoadedOf, Writes, Confirms
    <3>3. factor'.secret = factor.secret /\ code.secret = factor.secret
      BY <2>1, <3>1, <3>2, Codes, Activated DEF Validates
    <3> QED
      BY <3>1, <3>3
  <2>7. CASE Stores(p)
    BY <1>1, <2>7 DEF Stores, SecretsDrawn
  <2>8. CASE Deletes(p)
    BY <1>1, <2>8 DEF Deletes, NoRow
  <2> QED
    BY <1>1, <2>4, <2>5, <2>6, <2>7, <2>8
       DEF Outcome, Asks, Stops, Starts, SignsIn, Loads, Quiet, Writes, Spends, Issues, Drops
<1>2. CASE Suspended
  <2>1. UNCHANGED <<factor, proven, clean>>
    BY <1>2 DEF Suspended
  <2> QED
    BY <2>1 DEF ActiveWasProven
<1>3. CASE UNCHANGED <<factor, proven, clean>>
  BY <1>3 DEF ActiveWasProven
<1> QED
  BY <1>1, <1>2, <1>3, Moving DEF ActiveWasProven

\* Whoever confirmed or removed a factor has the codes still to issue or to drop.
LEMMA CodesStep ==
    ASSUME TypeOK, Shape, Loaded, SecretsDrawn, CodesFollowFactor, [Next]_vars
    PROVE  CodesFollowFactor'
<1> DEFINE Fits == recovery.with = IF factor.confirmed THEN factor.secret ELSE NoSecret
           Busy(q) == req[q].pc \in {"issue", "drop"}
<1>1. /\ CodesFollowFactor <=> (clean => Fits \/ \E q \in Proc : Busy(q))
      /\ CodesFollowFactor' <=> (clean' => Fits' \/ \E q \in Proc : Busy(q)')
  BY DEF CodesFollowFactor, UnderWay
<1>2. ASSUME NEW p \in Proc, Outcome(p), clean'
      PROVE  Fits' \/ \E q \in Proc : Busy(q)'
  <2>1. clean /\ (Writes(p) => req[p].fresh)
    BY <1>2, CleanWrites
  <2>2. Fits \/ \E q \in Proc : Busy(q)
    BY <1>1, <2>1
  <2>3. \A q \in Proc \ {p} : Busy(q) => Busy(q)'
    BY <1>2 DEF Outcome, Bystanders
  <2>4. /\ factor \in Enrollment /\ recovery \in Recovery /\ req[p].row \in Enrollment
        /\ Writes(p) => LoadedOf(req[p]) /\ req[p].fresh
    BY <2>1 DEF Loaded, TypeOK, Request
  <2>5. CASE UNCHANGED Fits /\ ~Busy(p)
    BY <2>2, <2>3, <2>5
  <2>6. CASE Asks(p)
    <3>1. UNCHANGED <<factor, recovery>>
      BY <2>6 DEF Asks, Stops, Starts, SignsIn, Loads, Quiet
    <3>2. ~Busy(p)
      BY <1>2, <2>6 DEF Asks, Stops, Starts, SignsIn, Loads
    <3> QED
      BY <2>5, <3>1, <3>2
  <2>7. CASE Accepts(p)
    <3>1. PICK code \in AtHand : factor' = Advanced(factor, code.step)
      BY <2>7 DEF Accepts
    <3>2. /\ factor'.secret = factor.secret /\ factor'.confirmed = factor.confirmed
          /\ UNCHANGED recovery /\ ~Busy(p)
      BY <2>4, <2>7, <3>1, Codes, AdvancedRow DEF Accepts
    <3> QED
      BY <2>5, <3>2
  <2>8. CASE Spends(p)
    <3>1. PICK left \in BOOLEAN : recovery' = [recovery EXCEPT !.left = left]
      BY <2>8 DEF Spends
    <3>2. recovery'.with = recovery.with /\ UNCHANGED factor /\ ~Busy(p)
      BY <2>4, <2>8, <3>1 DEF Spends, Recovery
    <3> QED
      BY <2>5, <3>2
  <2>9. CASE Stores(p)
    <3>1. ~factor.confirmed /\ ~factor'.confirmed /\ UNCHANGED recovery /\ ~Busy(p)
      BY <2>4, <2>9 DEF Stores, SecretsDrawn, LoadedOf, Writes
    <3> QED
      BY <2>5, <3>1
  <2>10. CASE Confirms(p) \/ Deletes(p)
    BY <2>10 DEF Confirms, Deletes, Onward
  <2>11. CASE Issues(p)
    <3>1. factor.confirmed /\ req[p].row.secret = factor.secret
      BY <2>4, <2>11 DEF Issues, LoadedOf, Writes
    <3> QED
      BY <2>11, <3>1 DEF Issues
  <2>12. CASE Drops(p)
    <3>1. factor = NoRow
      BY <2>4, <2>12 DEF Drops, LoadedOf, Writes
    <3> QED
      BY <2>12, <3>1 DEF Drops, NoRow, NoCodes
  <2> QED
    BY <1>2, <2>6, <2>7, <2>8, <2>9, <2>10, <2>11, <2>12 DEF Outcome, Writes
<1>3. CASE Suspended
  <2>1. /\ UNCHANGED <<factor, recovery, clean>>
        /\ \A q \in Proc : req'[q].pc = req[q].pc
    BY <1>3, Suspending
  <2> QED
    BY <1>1, <2>1
<1>4. CASE UNCHANGED <<factor, recovery, req, clean>>
  BY <1>1, <1>4
<1> QED
  BY <1>1, <1>2, <1>3, <1>4, Moving

-----------------------------------------------------------------------------
(* The theorems.                                                           *)

LEMMA InitInv == Init => IInv
<1> SUFFICES ASSUME Init PROVE IInv
  OBVIOUS
<1> USE DEF Init, NoRow, NoCodes, Idle
<1>1. TypeOK
  <2>1. req \in [Proc -> Request]
    BY IdleType
  <2> QED
    BY <2>1, IdleType DEF TypeOK, Enrollment, Recovery, Code
<1>2. Shape /\ Loaded
  BY DEF Shape, ShapeOf, Loaded, LoadedOf
<1>3. SecretsDrawn
  BY DEF SecretsDrawn, Known
<1>4. StepsRecorded /\ ActiveWasProven /\ CodesFollowFactor
  BY DEF StepsRecorded, ActiveWasProven, CodesFollowFactor
<1> QED
  BY <1>1, <1>2, <1>3, <1>4 DEF IInv

LEMMA NextInv == IInv /\ [Next]_vars => IInv'
  BY TypeStep, ShapeStep, LoadedStep, SecretsStep, StepsStep, ProvenStep, CodesStep
     DEF IInv

LEMMA Invariance == Spec => []IInv
  BY InitInv, NextInv, PTL DEF Spec

\* The rows, the requests and the histories are always well-formed; which step an
\* enrolment goes to next depends on what it was started for.
THEOREM TypeCorrect == Spec => []TypeOK
<1>1. IInv => TypeOK
  BY DEF IInv
<1> QED
  BY <1>1, Invariance, PTL

\* Login and CompleteMFA: at the moment a session is about to be opened, by a
\* request no write overtook, the account is enabled, and its active factor, if
\* there is one, was used.
THEOREM SessionsAlwaysEarned == Spec => []SessionsEarned
<1>1. IInv => SessionsEarned
  BY DEF IInv, Loaded, LoadedOf, SessionsEarned, At
<1> QED
  BY <1>1, Invariance, PTL

\* ConfirmEnrollment: in a clean run the active factor's secret is one a code was
\* shown of.
THEOREM ActiveAlwaysProven == Spec => []ActiveWasProven
<1>1. IInv => ActiveWasProven
  BY DEF IInv
<1> QED
  BY <1>1, Invariance, PTL

\* ConfirmEnrollment and Disable: in a clean run the recovery codes come with the
\* factor and go with it, but for the moment between the two writes.
THEOREM CodesAlwaysFollow == Spec => []CodesFollowFactor
<1>1. IInv => CodesFollowFactor
  BY DEF IInv
<1> QED
  BY <1>1, Invariance, PTL

\* VerifyFactor: in a clean run the code that completes a login was not used before.
THEOREM CodesAlwaysWorkOnce == Spec => CodesWorkOnce
<1> DEFINE Once == \A p \in Proc :
               At(p, "totp") /\ req'[p].pc = "session" /\ clean' => used' # used
<1>1. IInv /\ [Next]_vars => [Once]_vars
  <2> SUFFICES ASSUME IInv, [Next]_vars, NEW p \in Proc,
                      req[p].pc = "totp", req'[p].pc = "session", clean'
               PROVE  used' # used
    BY DEF At
  <2>1. TypeOK /\ Shape /\ Loaded /\ StepsRecorded
    BY DEF IInv
  <2>2. Outcome(p)
    <3>1. \A q \in Proc \ {p} : ~Outcome(q)
      BY DEF Outcome, Bystanders
    <3>2. ~Suspended
      BY <2>1, Suspending
    <3> QED
      BY <2>1, <3>1, <3>2, Moving
  <2>3. Accepts(p)
    <3>1. ~Asks(p)
      BY DEF Asks, Stops, Starts, SignsIn, Loads, Idle
    <3>2. ~Spends(p) /\ ~Stores(p) /\ ~Confirms(p) /\ ~Issues(p) /\ ~Deletes(p) /\ ~Drops(p)
      BY DEF Spends, Stores, Confirms, Issues, Deletes, Drops
    <3> QED
      BY <2>2, <3>1, <3>2 DEF Outcome, Writes
  <2>4. PICK code \in AtHand : Validates(req[p].row, code) /\ used' = used \cup {code}
    BY <2>3 DEF Accepts
  <2>5. clean /\ req[p].row = factor
    BY <2>1, <2>2, <2>3, CleanWrites DEF Writes, Loaded, LoadedOf
  <2>6. code.secret = factor.secret /\ code.step > factor.last
    BY <2>4, <2>5 DEF Validates
  <2>7. code.step \in Nat /\ factor.last \in Nat
    BY <2>1, Codes DEF TypeOK, Enrollment
  <2>8. code \notin used
    BY <2>1, <2>5, <2>6, <2>7 DEF StepsRecorded
  <2> QED
    BY <2>4, <2>8
<1> QED
  BY <1>1, Invariance, PTL DEF Spec, CodesWorkOnce

\* BeginEnrollment: only a request that somebody else's write overtook replaces an
\* active factor by another.
THEOREM ActiveAlwaysStays == Spec => ActiveFactorStays
<1> DEFINE Stays == factor.confirmed =>
               \/ factor'.confirmed /\ factor'.secret = factor.secret
               \/ factor' = NoRow
               \/ \E p \in Proc : req'[p].pc # req[p].pc /\ ~req[p].fresh
<1>1. IInv /\ [Next]_vars => [Stays]_vars
  <2> SUFFICES ASSUME IInv, [Next]_vars, factor.confirmed
               PROVE  Stays
    OBVIOUS
  <2>1. TypeOK /\ Shape /\ Loaded /\ factor \in Enrollment
    BY DEF IInv, TypeOK
  <2>2. CASE UNCHANGED factor
    BY <2>2
  <2>3. ASSUME NEW p \in Proc, Outcome(p)
        PROVE  Stays
    <3>1. CASE Asks(p) \/ Spends(p) \/ Issues(p) \/ Drops(p)
      BY <2>2, <3>1 DEF Asks, Stops, Starts, SignsIn, Loads, Quiet, Spends, Issues, Drops
    <3>2. CASE Accepts(p)
      <4>1. PICK code \in AtHand : factor' = Advanced(factor, code.step)
        BY <3>2 DEF Accepts
      <4> QED
        BY <2>1, <4>1, Codes, AdvancedRow
    <3>3. CASE Stores(p)
      <4>1. ~req[p].fresh
        BY <2>1, <3>3 DEF Stores, Loaded, LoadedOf
      <4>2. req'[p].pc # req[p].pc
        BY <3>3 DEF Stores, Idle
      <4> QED
        BY <4>1, <4>2
    <3>4. CASE Confirms(p)
      <4>1. PICK code \in AtHand :
              factor' = IF factor.secret = NoSecret THEN factor
                        ELSE [factor EXCEPT !.confirmed = TRUE, !.last = code.step]
        BY <3>4 DEF Confirms
      <4> QED
        BY <2>1, <4>1, Codes, Activated
    <3>5. CASE Deletes(p)
      BY <3>5 DEF Deletes
    <3> QED
      BY <2>3, <3>1, <3>2, <3>3, <3>4, <3>5 DEF Outcome, Writes
  <2>4. CASE Suspended
    BY <2>2, <2>4 DEF Suspended
  <2> QED
    BY <2>1, <2>2, <2>3, <2>4, Moving
<1> QED
  BY <1>1, Invariance, PTL DEF Spec, ActiveFactorStays

=============================================================================
