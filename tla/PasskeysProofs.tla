---------------------------- MODULE PasskeysProofs ----------------------------
(***************************************************************************)
(* The theorems of the security-key ceremonies, for any accounts, keys,    *)
(* challenges and counters, any number of concurrent requests and any      *)
(* store call failing; among them that they implement OneTimeSecret.       *)
(***************************************************************************)
EXTENDS Passkeys, TLAPS

-----------------------------------------------------------------------------
(* The inductive invariant.                                                *)

\* A begin call holds no challenge, and knows an account unless the ceremony is
\* passwordless; a finish call always has one.
ShapeOf(r) ==
    /\ r.pc \in {"idle", "begin", "challenge"} => r.challenge = {}
    /\ r.pc \in {"begin", "challenge"} => (r.user = NoUser <=> r.op = "passwordless")
    /\ r.pc \notin {"idle", "begin", "challenge"} => r.user # NoUser

Shape ==
    /\ \A p \in Proc : ShapeOf(req[p])
    /\ \A c \in Challenge : challenges[c].phase # "unissued" =>
         (challenges[c].user = NoUser <=> challenges[c].purpose = "passwordless")

\* A finish call holds the one challenge it claimed, which nobody else can hold
\* and which was issued for what it does and to its account or to nobody.
HoldsOf(r) ==
    /\ \A c, d \in r.challenge : c = d
    /\ \A c \in r.challenge :
         /\ challenges[c].phase = "taken" /\ challenges[c].purpose = r.op
         /\ challenges[c].user \in {r.user, NoUser}

Held ==
    /\ \A p \in Proc : HoldsOf(req[p])
    /\ \A p, q \in Proc : (\E c \in req[p].challenge : c \in req[q].challenge) => p = q

\* What the verifier saw is so until the request is overtaken.
SawOf(r) ==
    /\ \A k, l \in r.key : k = l
    /\ r.fresh /\ r.pc \in {"touch", "user", "session", "stamp"} =>
         \A k \in r.key :
           /\ creds[k].status = "live" /\ creds[k].owner = r.user
           /\ r.op = "passwordless" => creds[k].pin
           /\ r.pc = "touch" => creds[k].count = r.row
    /\ r.fresh /\ r.pc = "session" => r.user \notin disabled

Saw == \A p \in Proc : SawOf(req[p])

\* No counter recorded in order is above the stored one, and a key that never was
\* registered has recorded none.
Counted ==
    \A k \in Key :
      /\ \A n \in seen[k] : n # 0 /\ n <= creds[k].count
      /\ creds[k].status = "none" => seen[k] = {} /\ k \notin repeated

IInv == TypeOK /\ Shape /\ Held /\ Saw /\ Counted /\ ClonesNoticed

-----------------------------------------------------------------------------
(* Types.                                                                  *)

LEMMA IdleType == Idle \in Request
  BY PasskeysAssumption DEF Idle, Request, Purpose, Count

LEMMA NewType ==
    /\ NoCredential \in Credential
    /\ \A u \in User \cup {NoUser}, pin \in BOOLEAN : New(u, pin) \in Credential
  BY PasskeysAssumption DEF NoCredential, New, Credential, Count

LEMMA InitType == Init => TypeOK
<1> SUFFICES ASSUME Init PROVE TypeOK
  OBVIOUS
<1>1. creds \in [Key -> Credential]
  BY NewType DEF Init
<1>2. NoCeremony \in Ceremony
  BY DEF NoCeremony, Ceremony, Purpose
<1>3. seen \in [Key -> SUBSET Count]
  BY DEF Init
<1> QED
  BY <1>1, <1>2, <1>3, IdleType DEF Init, TypeOK

\* A finished request is idle; every other is as it was.
LEMMA Finished ==
    ASSUME TypeOK, NEW p \in Proc, Finish(p), NEW q \in Proc
    PROVE  req'[q] = IF q = p THEN Idle ELSE req[q]
  BY DEF TypeOK, Finish

LEMMA FinishType ==
    ASSUME TypeOK, NEW p \in Proc, Finish(p)
    PROVE  req' \in [Proc -> Request]
  BY IdleType DEF TypeOK, Finish

\* Recording a use, revoking a key or disabling an account overtakes the requests
\* that looked before; it moves nobody.
LEMMA OvertakenProperties ==
    ASSUME TypeOK, NEW ps
    PROVE  /\ Overtaken(ps) \in [Proc -> Request]
           /\ \A p \in Proc :
                /\ Overtaken(ps)[p].pc = req[p].pc /\ Overtaken(ps)[p].op = req[p].op
                /\ Overtaken(ps)[p].user = req[p].user
                /\ Overtaken(ps)[p].challenge = req[p].challenge
                /\ Overtaken(ps)[p].key = req[p].key
                /\ Overtaken(ps)[p].count = req[p].count
                /\ Overtaken(ps)[p].row = req[p].row
                /\ Overtaken(ps)[p].fresh => req[p].fresh /\ p \notin ps
<1>1. ASSUME NEW p \in Proc PROVE Overtaken(ps)[p] \in Request
  <2>1. req[p] \in Request
    BY DEF TypeOK
  <2>2. [req[p] EXCEPT !.fresh = FALSE] \in Request
    BY <2>1 DEF Request
  <2> QED
    BY <2>1, <2>2 DEF Overtaken
<1>2. ASSUME NEW p \in Proc
      PROVE  /\ p \in ps => Overtaken(ps)[p] = [req[p] EXCEPT !.fresh = FALSE]
             /\ p \notin ps => Overtaken(ps)[p] = req[p]
  BY DEF Overtaken
<1>3. ASSUME NEW p \in Proc
      PROVE  /\ Overtaken(ps)[p].pc = req[p].pc /\ Overtaken(ps)[p].op = req[p].op
             /\ Overtaken(ps)[p].user = req[p].user
             /\ Overtaken(ps)[p].challenge = req[p].challenge
             /\ Overtaken(ps)[p].key = req[p].key
             /\ Overtaken(ps)[p].count = req[p].count
             /\ Overtaken(ps)[p].row = req[p].row
             /\ Overtaken(ps)[p].fresh => req[p].fresh /\ p \notin ps
  <2>1. req[p] \in Request
    BY DEF TypeOK
  <2> QED
    BY <2>1, <1>2 DEF Request
<1>4. Overtaken(ps) \in [Proc -> Request]
  BY <1>1 DEF Overtaken
<1> QED
  BY <1>3, <1>4

\* A request that goes on is as it was, at its next step.
LEMMA Going ==
    ASSUME TypeOK, NEW p \in Proc, NEW pc \in {"challenge", "session"}, Goto(p, pc)
    PROVE  /\ req' \in [Proc -> Request]
           /\ \A q \in Proc \ {p} : req'[q] = req[q]
           /\ req'[p].pc = pc /\ req'[p].op = req[p].op /\ req'[p].user = req[p].user
           /\ req'[p].challenge = req[p].challenge /\ req'[p].key = req[p].key
           /\ req'[p].fresh = req[p].fresh
<1>1. [req[p] EXCEPT !.pc = pc] \in Request
  BY DEF TypeOK, Request
<1> QED
  BY <1>1 DEF TypeOK, Request, Goto

-----------------------------------------------------------------------------
(* What each step does to the requests.                                    *)

LEMMA Beginning ==
    ASSUME TypeOK, NEW p \in Proc, Begin(p)
    PROVE  /\ req' \in [Proc -> Request]
           /\ \A q \in Proc \ {p} : req'[q] = req[q]
           /\ req'[p].challenge = {} /\ req'[p].key = {} /\ ~req'[p].fresh
           /\ \/ /\ req'[p].pc = "begin" /\ req'[p].op # "passwordless"
                 /\ req'[p].user # NoUser
              \/ /\ req'[p].pc = "challenge" /\ req'[p].op = "passwordless"
                 /\ req'[p].user = NoUser
<1>1. ASSUME NEW u \in User, NEW op \in Purpose \ {"passwordless"},
             req' = [req EXCEPT ![p] = [Idle EXCEPT !.pc = "begin", !.op = op, !.user = u]]
      PROVE  /\ req' \in [Proc -> Request]
             /\ \A q \in Proc \ {p} : req'[q] = req[q]
             /\ req'[p].challenge = {} /\ req'[p].key = {} /\ ~req'[p].fresh
             /\ req'[p].pc = "begin" /\ req'[p].op # "passwordless" /\ req'[p].user # NoUser
  <2>1. [Idle EXCEPT !.pc = "begin", !.op = op, !.user = u] \in Request
    BY IdleType DEF Request
  <2> QED
    BY <1>1, <2>1, PasskeysAssumption DEF TypeOK, Idle
<1>2. ASSUME req' = [req EXCEPT ![p] = [Idle EXCEPT !.pc = "challenge", !.op = "passwordless"]]
      PROVE  /\ req' \in [Proc -> Request]
             /\ \A q \in Proc \ {p} : req'[q] = req[q]
             /\ req'[p].challenge = {} /\ req'[p].key = {} /\ ~req'[p].fresh
             /\ req'[p].pc = "challenge" /\ req'[p].op = "passwordless" /\ req'[p].user = NoUser
  <2>1. [Idle EXCEPT !.pc = "challenge", !.op = "passwordless"] \in Request
    BY IdleType DEF Request, Purpose
  <2> QED
    BY <1>2, <2>1 DEF TypeOK, Idle
<1> QED
  BY <1>1, <1>2 DEF Begin

LEMMA Claiming ==
    ASSUME TypeOK, Shape, NEW p \in Proc, Claim(p)
    PROVE  /\ req' \in [Proc -> Request]
           /\ \A q \in Proc \ {p} : req'[q] = req[q]
           /\ req'[p].pc \in {"insert", "load"} /\ req'[p].user \in User /\ ~req'[p].fresh
           /\ \E k \in Key : req'[p].key = {k}
           /\ \E c \in Challenge :
                /\ req'[p].challenge = {c}
                /\ challenges[c].phase = "open"
                /\ challenges' = [challenges EXCEPT ![c].phase = "taken"]
                /\ challenges[c].purpose = req'[p].op
                /\ challenges[c].user \in {req'[p].user, NoUser}
<1>1. PICK c \in Challenge, op \in Purpose, actor \in User, k \in Key, n \in Count :
         /\ Claimable(c, op, actor)
         /\ challenges' = [challenges EXCEPT ![c].phase = "taken"]
         /\ req' = [req EXCEPT ![p] =
                [Idle EXCEPT !.pc = IF op = "registration" THEN "insert" ELSE "load",
                             !.op = op, !.user = AccountOf(c, op, actor),
                             !.challenge = {c}, !.key = {k}, !.count = n]]
  BY DEF Claim
<1> DEFINE r == [Idle EXCEPT !.pc = IF op = "registration" THEN "insert" ELSE "load",
                             !.op = op, !.user = AccountOf(c, op, actor),
                             !.challenge = {c}, !.key = {k}, !.count = n]
<1>2. /\ challenges[c].phase = "open" /\ challenges[c].purpose = op
      /\ AccountOf(c, op, actor) \in User
      /\ challenges[c].user \in {AccountOf(c, op, actor), NoUser}
  <2>1. challenges[c].phase = "open" /\ challenges[c].purpose = op
    BY <1>1 DEF Claimable
  <2>2. challenges[c].user \in User \cup {NoUser}
    BY DEF TypeOK, Ceremony
  <2>3. challenges[c].user = NoUser <=> op = "passwordless"
    BY <2>1 DEF Shape
  <2> QED
    BY <1>1, <2>1, <2>2, <2>3 DEF Claimable, AccountOf, Purpose
<1>3. r \in Request
  BY <1>2, IdleType DEF Request
<1>4. /\ r.pc \in {"insert", "load"} /\ r.op = op /\ r.user = AccountOf(c, op, actor)
      /\ r.challenge = {c} /\ r.key = {k} /\ ~r.fresh
  BY DEF Idle
<1>5. req' = [req EXCEPT ![p] = r]
  BY <1>1
<1> HIDE DEF r
<1> QED
  BY <1>1, <1>2, <1>3, <1>4, <1>5 DEF TypeOK

LEMMA Validating ==
    ASSUME TypeOK, NEW p \in Proc, Validate(p)
    PROVE  /\ req' \in [Proc -> Request]
           /\ \A q \in Proc \ {p} : req'[q] = req[q]
           /\ \/ req'[p] = Idle
              \/ /\ req[p].pc = "load"
                 /\ req'[p].pc = "touch" /\ req'[p].op = req[p].op /\ req'[p].user = req[p].user
                 /\ req'[p].challenge = req[p].challenge /\ req'[p].key = req[p].key
                 /\ \E k \in req[p].key : /\ Accepted(k, req[p].user, req[p].op)
                                          /\ req'[p].row = creds[k].count
<1>1. CASE Finish(p)
  BY <1>1, Finished, FinishType
<1>2. ASSUME NEW k \in req[p].key,
             req' = [req EXCEPT ![p].pc = "touch", ![p].row = creds[k].count, ![p].fresh = TRUE]
      PROVE  /\ req' \in [Proc -> Request]
             /\ \A q \in Proc \ {p} : req'[q] = req[q]
             /\ req'[p].pc = "touch" /\ req'[p].op = req[p].op /\ req'[p].user = req[p].user
             /\ req'[p].challenge = req[p].challenge /\ req'[p].key = req[p].key
             /\ req'[p].row = creds[k].count
  <2>1. creds[k].count \in Count
    BY DEF TypeOK, Request, Credential
  <2>2. [req[p] EXCEPT !.pc = "touch", !.row = creds[k].count, !.fresh = TRUE] \in Request
    BY <2>1 DEF TypeOK, Request
  <2>3. req' = [req EXCEPT ![p] = [req[p] EXCEPT !.pc = "touch", !.row = creds[k].count, !.fresh = TRUE]]
    BY <1>2
  <2> QED
    BY <2>2, <2>3 DEF TypeOK, Request
<1> QED
  BY <1>1, <1>2 DEF Validate, At

\* A use is recorded on the one row, and overtakes the other requests with the key.
LEMMA Touching ==
    ASSUME TypeOK, NEW p \in Proc, TouchCredential(p)
    PROVE  /\ req' \in [Proc -> Request]
           /\ \A q \in Proc :
                /\ req'[q].op = req[q].op /\ req'[q].user = req[q].user
                /\ req'[q].challenge = req[q].challenge /\ req'[q].key = req[q].key
                /\ req'[q].row = req[q].row
                /\ req'[q].fresh => req[q].fresh
                /\ q # p => req'[q].pc = req[q].pc
           /\ req'[p].pc \in {"stamp", "user"}
           /\ \E k \in req[p].key :
                /\ creds' = IF creds[k].status = "live"
                            THEN [creds EXCEPT ![k] = Recorded(@, req[p])] ELSE creds
                /\ repeated' = IF req[p].fresh /\ req[p].count \in seen[k]
                               THEN repeated \cup {k} ELSE repeated
                /\ seen' = [seen EXCEPT ![k] = IF req[p].fresh THEN (@ \cup {req[p].count}) \ {0} ELSE {}]
                /\ \A q \in Proc \ {p} : k \in req[q].key => ~req'[q].fresh
<1>1. PICK k \in req[p].key :
         /\ creds' = IF creds[k].status = "live"
                     THEN [creds EXCEPT ![k] = Recorded(@, req[p])] ELSE creds
         /\ repeated' = IF req[p].fresh /\ req[p].count \in seen[k]
                        THEN repeated \cup {k} ELSE repeated
         /\ seen' = [seen EXCEPT ![k] = IF req[p].fresh THEN (@ \cup {req[p].count}) \ {0} ELSE {}]
         /\ req' = [Overtaken({q \in Proc \ {p} : k \in req[q].key})
                      EXCEPT ![p].pc = AfterTouch(req[p].op)]
  BY DEF TouchCredential
<1> DEFINE ps == {q \in Proc \ {p} : k \in req[q].key}
<1> DEFINE o == Overtaken(ps)
<1>2. /\ o \in [Proc -> Request]
      /\ \A q \in Proc :
           /\ o[q].pc = req[q].pc /\ o[q].op = req[q].op /\ o[q].user = req[q].user
           /\ o[q].challenge = req[q].challenge /\ o[q].key = req[q].key
           /\ o[q].row = req[q].row
           /\ o[q].fresh => req[q].fresh /\ q \notin ps
  <2> HIDE DEF ps
  <2> QED
    BY OvertakenProperties
<1>3. AfterTouch(req[p].op) \in {"stamp", "user"}
  BY DEF AfterTouch
<1>4. req' = [o EXCEPT ![p].pc = AfterTouch(req[p].op)]
  BY <1>1
<1> HIDE DEF o
<1>5. [o[p] EXCEPT !.pc = AfterTouch(req[p].op)] \in Request
  BY <1>2, <1>3 DEF Request
<1>6. req' \in [Proc -> Request]
  BY <1>2, <1>4, <1>5
<1>7. \A q \in Proc :
        /\ req'[q].op = o[q].op /\ req'[q].user = o[q].user
        /\ req'[q].challenge = o[q].challenge /\ req'[q].key = o[q].key
        /\ req'[q].row = o[q].row /\ req'[q].fresh = o[q].fresh
        /\ q # p => req'[q].pc = o[q].pc
  BY <1>2, <1>4 DEF Request
<1>8. req'[p].pc \in {"stamp", "user"}
  BY <1>2, <1>3, <1>4 DEF Request
<1>9. \A q \in Proc \ {p} : k \in req[q].key => ~req'[q].fresh
  BY <1>2, <1>7
<1> HIDE DEF ps
<1>10. \A q \in Proc :
         /\ req'[q].op = req[q].op /\ req'[q].user = req[q].user
         /\ req'[q].challenge = req[q].challenge /\ req'[q].key = req[q].key
         /\ req'[q].row = req[q].row
         /\ req'[q].fresh => req[q].fresh
         /\ q # p => req'[q].pc = req[q].pc
  BY <1>2, <1>7
<1> QED
  BY <1>1, <1>6, <1>8, <1>9, <1>10

\* Revoking and suspending move nobody.
LEMMA Overtaking ==
    ASSUME TypeOK, Revoked \/ Suspended
    PROVE  /\ req' \in [Proc -> Request]
           /\ \A q \in Proc :
                /\ req'[q].pc = req[q].pc /\ req'[q].op = req[q].op
                /\ req'[q].user = req[q].user
                /\ req'[q].challenge = req[q].challenge /\ req'[q].key = req[q].key
                /\ req'[q].row = req[q].row
                /\ req'[q].fresh => req[q].fresh
<1>1. \E ps : req' = Overtaken(ps)
  BY DEF Revoked, Suspended
<1> QED
  BY <1>1, OvertakenProperties

-----------------------------------------------------------------------------
(* Types and shapes.                                                       *)

\* The credential as the verifier left it is a credential of the same account.
LEMMA RecordedProperties ==
    ASSUME NEW row \in Credential, NEW r \in Request
    PROVE  /\ Recorded(row, r) \in Credential
           /\ Recorded(row, r).status = row.status /\ Recorded(row, r).owner = row.owner
           /\ Recorded(row, r).pin = row.pin
           /\ Recorded(row, r).count = IF Suspicious(r.count, r.row) THEN r.row ELSE r.count
           /\ Recorded(row, r).warned <=> row.warned \/ Suspicious(r.count, r.row)
<1>1. Suspicious(r.count, r.row) \in BOOLEAN
  BY DEF Suspicious
<1>2. r.count \in Count /\ r.row \in Count /\ row.warned \in BOOLEAN
  BY DEF Request, Credential
<1> QED
  BY <1>1, <1>2 DEF Recorded, Credential

\* The row of a registered key stays registered to its account, and warned if it
\* was; the only other thing that can happen to it is its revocation.
RowKept(k) ==
    /\ creds'[k].owner = creds[k].owner /\ creds'[k].pin = creds[k].pin
    /\ creds[k].warned => creds'[k].warned
    /\ creds'[k].status = creds[k].status \/ (creds[k].status = "live" /\ Revoked)
    /\ creds'[k].status # "none"

LEMMA RowsKept ==
    ASSUME TypeOK, [Next]_vars, NEW k \in Key, creds[k].status # "none"
    PROVE  RowKept(k)
<1>1. ASSUME creds'[k] = creds[k] PROVE RowKept(k)
  BY <1>1 DEF RowKept
<1>2. ASSUME NEW p \in Proc, TouchCredential(p) PROVE RowKept(k)
  <2>1. req[p] \in Request /\ creds[k] \in Credential
    BY DEF TypeOK
  <2>2. creds'[k] = creds[k] \/ creds'[k] = Recorded(creds[k], req[p])
    BY <1>2, Touching DEF TypeOK
  <2> QED
    BY <1>1, <2>1, <2>2, RecordedProperties DEF RowKept
<1>3. ASSUME NEW p \in Proc, InsertCredential(p) PROVE RowKept(k)
  <2>1. creds'[k] = creds[k]
    BY <1>3 DEF InsertCredential, TypeOK
  <2> QED
    BY <1>1, <2>1
<1>4. CASE Revoked
  <2>1. creds[k] \in Credential
    BY DEF TypeOK
  <2>2. \/ creds'[k] = creds[k]
        \/ creds[k].status = "live" /\ creds'[k] = [creds[k] EXCEPT !.status = "revoked"]
    BY <1>4 DEF Revoked, TypeOK
  <2> QED
    BY <1>1, <1>4, <2>1, <2>2 DEF RowKept, Credential
<1>5. CASE UNCHANGED creds
  BY <1>1, <1>5
<1> QED
  BY <1>2, <1>3, <1>4, <1>5
  DEF Next, vars, Begin, UserFor, StoreCeremony, Claim, Validate, RereadUser, Complete,
      StoreError, Expires, Suspended

LEMMA GivesType ==
    ASSUME TypeOK, Shape, NEW p \in Proc, Gives(p)
    PROVE  granted' \subseteq [id : Challenge, purpose : Purpose, to : User]
<1>1. req[p].challenge \subseteq Challenge /\ req[p].op \in Purpose
  BY DEF TypeOK, Request
<1>2. req[p].challenge # {} => req[p].user \in User
  BY DEF TypeOK, Request, Shape, ShapeOf
<1> QED
  BY <1>1, <1>2 DEF Gives, TypeOK

LEMMA TypeStep == TypeOK /\ Shape /\ [Next]_vars => TypeOK'
<1> SUFFICES ASSUME TypeOK, Shape, [Next]_vars PROVE TypeOK'
  OBVIOUS
<1>1. req' \in [Proc -> Request]
  <2>1. ASSUME NEW p \in Proc, UserFor(p) PROVE req' \in [Proc -> Request]
    BY <2>1, Going, FinishType DEF UserFor
  <2>2. ASSUME NEW p \in Proc, RereadUser(p) PROVE req' \in [Proc -> Request]
    BY <2>2, Going, FinishType DEF RereadUser
  <2>3. ASSUME NEW p \in Proc,
               StoreCeremony(p) \/ Complete(p) \/ InsertCredential(p) \/ StoreError(p)
        PROVE  req' \in [Proc -> Request]
    BY <2>3, FinishType DEF StoreCeremony, Complete, InsertCredential, StoreError
  <2>4. CASE UNCHANGED req
    BY <2>4 DEF TypeOK
  <2> QED
    BY <2>1, <2>2, <2>3, <2>4, Beginning, Claiming, Validating, Touching, Overtaking
    DEF Next, vars, Expires
<1>2. creds' \in [Key -> Credential]
  <2>1. ASSUME NEW p \in Proc, TouchCredential(p) PROVE creds' \in [Key -> Credential]
    <3>1. \A k \in Key : Recorded(creds[k], req[p]) \in Credential
      BY RecordedProperties DEF TypeOK
    <3>2. req[p].key \subseteq Key
      BY DEF TypeOK, Request
    <3> QED
      BY <2>1, <3>1, <3>2 DEF TouchCredential, TypeOK
  <2>2. ASSUME NEW p \in Proc, InsertCredential(p) PROVE creds' \in [Key -> Credential]
    <3>1. req[p].user \in User \cup {NoUser}
      BY DEF TypeOK, Request
    <3> QED
      BY <2>2, <3>1, NewType DEF InsertCredential, TypeOK
  <2>3. CASE Revoked
    <3>1. \A k \in Key : [creds[k] EXCEPT !.status = "revoked"] \in Credential
      BY DEF TypeOK, Credential
    <3> QED
      BY <2>3, <3>1 DEF Revoked, TypeOK
  <2>4. CASE UNCHANGED creds
    BY <2>4 DEF TypeOK
  <2> QED
    BY <2>1, <2>2, <2>3, <2>4
    DEF Next, vars, Begin, UserFor, StoreCeremony, Claim, Validate, RereadUser, Complete,
        StoreError, Expires, Suspended
<1>3. challenges' \in [Challenge -> Ceremony]
  <2>1. \A c \in Challenge : [challenges[c] EXCEPT !.phase = "taken"] \in Ceremony
    BY DEF TypeOK, Ceremony
  <2>2. ASSUME NEW p \in Proc, StoreCeremony(p) PROVE challenges' \in [Challenge -> Ceremony]
    <3>1. [phase |-> "open", purpose |-> req[p].op, user |-> req[p].user] \in Ceremony
      BY DEF TypeOK, Request, Ceremony
    <3> QED
      BY <2>2, <3>1 DEF StoreCeremony, TypeOK
  <2>3. ASSUME NEW p \in Proc, Claim(p) PROVE challenges' \in [Challenge -> Ceremony]
    BY <2>1, <2>3 DEF Claim, TypeOK
  <2>4. CASE Expires
    BY <2>1, <2>4 DEF Expires, TypeOK
  <2>5. CASE UNCHANGED challenges
    BY <2>5 DEF TypeOK
  <2> QED
    BY <2>2, <2>3, <2>4, <2>5
    DEF Next, vars, Begin, UserFor, Validate, TouchCredential, RereadUser, Complete,
        InsertCredential, StoreError, Revoked, Suspended
<1>4. disabled' \subseteq User
  BY DEF TypeOK, Next, vars, Begin, UserFor, StoreCeremony, Claim, Validate, TouchCredential,
         RereadUser, Complete, InsertCredential, StoreError, Expires, Revoked, Suspended
<1>5. granted' \subseteq [id : Challenge, purpose : Purpose, to : User]
  <2>1. ASSUME NEW p \in Proc, Complete(p) \/ InsertCredential(p)
        PROVE  granted' \subseteq [id : Challenge, purpose : Purpose, to : User]
    BY <2>1, GivesType DEF Complete, InsertCredential, TypeOK
  <2>2. CASE UNCHANGED granted
    BY <2>2 DEF TypeOK
  <2> QED
    BY <2>1, <2>2
    DEF Next, vars, Begin, UserFor, StoreCeremony, Claim, Validate, TouchCredential, RereadUser,
        StoreError, Expires, Revoked, Suspended
<1>6. seen' \in [Key -> SUBSET Count] /\ repeated' \subseteq Key
  <2>1. ASSUME NEW p \in Proc, TouchCredential(p)
        PROVE  seen' \in [Key -> SUBSET Count] /\ repeated' \subseteq Key
    <3>1. req[p].count \in Count /\ req[p].key \subseteq Key
      BY DEF TypeOK, Request
    <3> QED
      BY <2>1, <3>1 DEF TouchCredential, TypeOK
  <2>2. CASE UNCHANGED <<seen, repeated>>
    BY <2>2 DEF TypeOK
  <2> QED
    BY <2>1, <2>2
    DEF Next, vars, Begin, UserFor, StoreCeremony, Claim, Validate, RereadUser, Complete,
        InsertCredential, StoreError, Expires, Revoked, Suspended
<1> QED
  BY <1>1, <1>2, <1>3, <1>4, <1>5, <1>6 DEF TypeOK

\* A challenge, once issued, keeps its purpose and its account, and one that was
\* taken stays taken.
LEMMA CeremoniesKept ==
    ASSUME TypeOK, [Next]_vars, NEW c \in Challenge, challenges[c].phase # "unissued"
    PROVE  /\ challenges'[c].purpose = challenges[c].purpose
           /\ challenges'[c].user = challenges[c].user
           /\ challenges'[c].phase # "unissued"
           /\ challenges[c].phase = "taken" => challenges'[c].phase = "taken"
<1>1. ASSUME NEW p \in Proc, StoreCeremony(p) PROVE challenges'[c] = challenges[c]
  BY <1>1 DEF StoreCeremony, TypeOK
<1>2. ASSUME NEW d \in Challenge, challenges' = [challenges EXCEPT ![d].phase = "taken"]
      PROVE  /\ challenges'[c].purpose = challenges[c].purpose
             /\ challenges'[c].user = challenges[c].user
             /\ challenges'[c].phase \in {challenges[c].phase, "taken"}
  BY <1>2 DEF TypeOK, Ceremony
<1>3. CASE UNCHANGED challenges
  BY <1>3
<1>4. ASSUME NEW p \in Proc, Claim(p)
      PROVE  \E d \in Challenge : challenges' = [challenges EXCEPT ![d].phase = "taken"]
  BY <1>4 DEF Claim
<1>5. ASSUME Expires
      PROVE  \E d \in Challenge : challenges' = [challenges EXCEPT ![d].phase = "taken"]
  BY <1>5 DEF Expires
<1>6. ASSUME NEW p \in Proc,
             \/ Begin(p) \/ UserFor(p) \/ Validate(p) \/ TouchCredential(p)
             \/ RereadUser(p) \/ Complete(p) \/ InsertCredential(p) \/ StoreError(p)
      PROVE  UNCHANGED challenges
  BY <1>6 DEF Begin, UserFor, Validate, TouchCredential, RereadUser, Complete,
              InsertCredential, StoreError
<1>7. Revoked \/ Suspended => UNCHANGED challenges
  BY DEF Revoked, Suspended
<1> QED
  BY <1>1, <1>2, <1>3, <1>4, <1>5, <1>6, <1>7 DEF Next, vars

LEMMA ShapeStep == TypeOK /\ Shape /\ [Next]_vars => Shape'
<1> SUFFICES ASSUME TypeOK, Shape, [Next]_vars PROVE Shape'
  OBVIOUS
<1>1. ASSUME NEW q \in Proc PROVE ShapeOf(req[q])'
  <2>1. ASSUME req'[q] = Idle PROVE ShapeOf(req[q])'
    BY <2>1 DEF ShapeOf, Idle
  <2>2. ShapeOf(req[q])
    BY DEF Shape
  <2>3. ASSUME req'[q] = req[q] PROVE ShapeOf(req[q])'
    BY <2>2, <2>3 DEF ShapeOf
  <2>4. ASSUME NEW p \in Proc, Begin(p) PROVE ShapeOf(req[q])'
    BY <2>3, <2>4, Beginning DEF ShapeOf
  <2>5. ASSUME NEW p \in Proc, UserFor(p) PROVE ShapeOf(req[q])'
    <3>1. CASE Finish(p)
      BY <2>1, <2>3, <3>1, Finished
    <3>2. CASE Goto(p, "challenge")
      BY <2>2, <2>3, <2>5, <3>2, Going DEF ShapeOf, UserFor, At
    <3> QED
      BY <2>5, <3>1, <3>2 DEF UserFor
  <2>6. ASSUME NEW p \in Proc, Claim(p) PROVE ShapeOf(req[q])'
    BY <2>3, <2>6, Claiming, PasskeysAssumption DEF ShapeOf
  <2>7. ASSUME NEW p \in Proc, Validate(p) PROVE ShapeOf(req[q])'
    <3>1. CASE q = p
      BY <2>1, <2>2, <2>7, <3>1, Validating DEF ShapeOf
    <3> QED
      BY <2>3, <2>7, <3>1, Validating
  <2>8. ASSUME NEW p \in Proc, TouchCredential(p) PROVE ShapeOf(req[q])'
    <3>1. req[p].pc = "touch"
      BY <2>8 DEF TouchCredential, At
    <3> QED
      BY <2>2, <2>8, <3>1, Touching DEF ShapeOf
  <2>9. ASSUME NEW p \in Proc, RereadUser(p) PROVE ShapeOf(req[q])'
    <3>1. CASE Finish(p)
      BY <2>1, <2>3, <3>1, Finished
    <3>2. CASE Goto(p, "session")
      BY <2>2, <2>3, <2>9, <3>2, Going DEF ShapeOf, RereadUser, At
    <3> QED
      BY <2>9, <3>1, <3>2 DEF RereadUser
  <2>10. ASSUME NEW p \in Proc,
                StoreCeremony(p) \/ Complete(p) \/ InsertCredential(p) \/ StoreError(p)
         PROVE  ShapeOf(req[q])'
    <3>1. Finish(p)
      BY <2>10 DEF StoreCeremony, Complete, InsertCredential, StoreError
    <3> QED
      BY <2>1, <2>3, <3>1, Finished
  <2>11. CASE Revoked \/ Suspended
    BY <2>2, <2>11, Overtaking DEF ShapeOf
  <2>12. CASE UNCHANGED req
    BY <2>3, <2>12
  <2> QED
    BY <2>4, <2>5, <2>6, <2>7, <2>8, <2>9, <2>10, <2>11, <2>12 DEF Next, vars, Expires
<1>2. ASSUME NEW c \in Challenge, challenges'[c].phase # "unissued"
      PROVE  challenges'[c].user = NoUser <=> challenges'[c].purpose = "passwordless"
  <2>1. CASE challenges[c].phase # "unissued"
    BY <2>1, CeremoniesKept DEF Shape
  <2>2. ASSUME NEW p \in Proc, StoreCeremony(p), challenges[c].phase = "unissued"
        PROVE  challenges'[c].user = NoUser <=> challenges'[c].purpose = "passwordless"
    <3>1. /\ challenges'[c].user = req[p].user /\ challenges'[c].purpose = req[p].op
          /\ req[p].pc = "challenge"
      BY <1>2, <2>2 DEF StoreCeremony, TypeOK, At
    <3> QED
      BY <3>1 DEF Shape, ShapeOf
  <2>3. ASSUME challenges[c].phase = "unissued", \A p \in Proc : ~StoreCeremony(p)
        PROVE  challenges'[c] = challenges[c]
    <3>1. ASSUME NEW p \in Proc, Claim(p) PROVE challenges'[c] = challenges[c]
      BY <2>3, <3>1 DEF Claim, Claimable, TypeOK
    <3>2. CASE Expires
      BY <2>3, <3>2 DEF Expires, TypeOK
    <3>3. CASE UNCHANGED challenges
      BY <3>3
    <3> QED
      BY <2>3, <3>1, <3>2, <3>3
      DEF Next, vars, Begin, UserFor, Validate, TouchCredential, RereadUser, Complete,
          InsertCredential, StoreError, Revoked, Suspended
  <2> QED
    BY <1>2, <2>1, <2>2, <2>3
<1> QED
  BY <1>1, <1>2 DEF Shape

-----------------------------------------------------------------------------
(* Who holds what.                                                         *)

\* Only a claim gives a request a challenge, and whoever keeps one keeps what it
\* does and for whom.
LEMMA ChallengesKept ==
    ASSUME TypeOK, Shape, [Next]_vars, NEW q \in Proc
    PROVE  \/ Claim(q)
           \/ req'[q].challenge = {}
           \/ /\ req'[q].challenge = req[q].challenge
              /\ req'[q].op = req[q].op /\ req'[q].user = req[q].user
<1> DEFINE Same == /\ req'[q].challenge = req[q].challenge
                   /\ req'[q].op = req[q].op /\ req'[q].user = req[q].user
<1>1. ASSUME req'[q] = Idle PROVE req'[q].challenge = {}
  BY <1>1 DEF Idle
<1>2. ASSUME NEW p \in Proc, Begin(p) PROVE Same \/ req'[q].challenge = {}
  BY <1>2, Beginning
<1>3. ASSUME NEW p \in Proc, UserFor(p) \/ RereadUser(p) PROVE Same \/ req'[q].challenge = {}
  BY <1>1, <1>3, Going, Finished DEF UserFor, RereadUser
<1>4. ASSUME NEW p \in Proc, Claim(p), p # q PROVE Same
  BY <1>4, Claiming
<1>5. ASSUME NEW p \in Proc, Validate(p) PROVE Same \/ req'[q].challenge = {}
  BY <1>1, <1>5, Validating
<1>6. ASSUME NEW p \in Proc, TouchCredential(p) PROVE Same
  BY <1>6, Touching
<1>7. ASSUME NEW p \in Proc,
             StoreCeremony(p) \/ Complete(p) \/ InsertCredential(p) \/ StoreError(p)
      PROVE  Same \/ req'[q].challenge = {}
  BY <1>1, <1>7, Finished DEF StoreCeremony, Complete, InsertCredential, StoreError
<1>8. CASE Revoked \/ Suspended
  BY <1>8, Overtaking
<1>9. CASE UNCHANGED req
  BY <1>9
<1> QED
  BY <1>2, <1>3, <1>4, <1>5, <1>6, <1>7, <1>8, <1>9 DEF Next, vars, Expires

LEMMA HeldStep == TypeOK /\ Shape /\ Held /\ [Next]_vars => Held'
<1> SUFFICES ASSUME TypeOK, Shape, Held, [Next]_vars PROVE Held'
  OBVIOUS
<1> DEFINE Fine(q) == HoldsOf(req[q])'
<1> DEFINE Alone == \A q, r \in Proc : (\E c \in req'[q].challenge : c \in req'[r].challenge) => q = r
<1>1. \A q \in Proc : req[q].challenge \subseteq Challenge /\ HoldsOf(req[q])
  BY DEF TypeOK, Request, Held
<1>2. ASSUME NEW q \in Proc, req'[q].challenge = req[q].challenge,
             req'[q].op = req[q].op, req'[q].user = req[q].user
      PROVE  Fine(q)
  <2>1. \A c \in req[q].challenge :
          /\ challenges'[c].phase = "taken" /\ challenges'[c].purpose = req[q].op
          /\ challenges'[c].user \in {req[q].user, NoUser}
    BY <1>1, CeremoniesKept DEF HoldsOf
  <2> QED
    BY <1>1, <1>2, <2>1 DEF HoldsOf
<1>3. ASSUME NEW q \in Proc, req'[q].challenge = {} PROVE Fine(q)
  BY <1>3 DEF HoldsOf
<1>4. ASSUME NEW p \in Proc, Claim(p) PROVE Fine(p) /\ Alone
  <2>1. PICK c \in Challenge :
          /\ req'[p].challenge = {c}
          /\ challenges[c].phase = "open"
          /\ challenges' = [challenges EXCEPT ![c].phase = "taken"]
          /\ challenges[c].purpose = req'[p].op
          /\ challenges[c].user \in {req'[p].user, NoUser}
    BY <1>4, Claiming
  <2>2. /\ challenges'[c].phase = "taken" /\ challenges'[c].purpose = req'[p].op
        /\ challenges'[c].user \in {req'[p].user, NoUser}
    BY <2>1 DEF TypeOK, Ceremony
  <2>3. \A q \in Proc : c \notin req[q].challenge
    BY <1>1, <2>1 DEF HoldsOf
  <2>4. \A q \in Proc \ {p} : req'[q] = req[q]
    BY <1>4, Claiming
  <2>5. Alone
    BY <2>1, <2>3, <2>4 DEF Held
  <2> QED
    BY <2>1, <2>2, <2>5 DEF HoldsOf
<1>5. \A q \in Proc : Fine(q)
  BY <1>2, <1>3, <1>4, ChallengesKept
<1>6. ASSUME \A p \in Proc : ~Claim(p) PROVE Alone
  <2>1. \A q \in Proc : req'[q].challenge = {} \/ req'[q].challenge = req[q].challenge
    BY <1>6, ChallengesKept
  <2> QED
    BY <2>1 DEF Held
<1> QED
  BY <1>4, <1>5, <1>6 DEF Held

-----------------------------------------------------------------------------
(* What was seen, and what was recorded.                                   *)

\* A request that is left alone, and so are its keys while it is not overtaken.
LEMMA SawKept ==
    ASSUME NEW q \in Proc, SawOf(req[q]),
           req'[q].pc = req[q].pc, req'[q].op = req[q].op, req'[q].user = req[q].user,
           req'[q].key = req[q].key, req'[q].row = req[q].row,
           req'[q].fresh =>
               /\ req[q].fresh
               /\ \A k \in req[q].key : creds[k].status = "live" => creds'[k] = creds[k]
               /\ req[q].user \notin disabled => req[q].user \notin disabled'
    PROVE  SawOf(req[q])'
  BY DEF SawOf

LEMMA SawStep == TypeOK /\ Shape /\ Saw /\ [Next]_vars => Saw'
<1> SUFFICES ASSUME TypeOK, Shape, Saw, [Next]_vars, NEW q \in Proc
             PROVE  SawOf(req[q])'
  BY DEF Saw
<1>1. SawOf(req[q])
  BY DEF Saw
<1>2. ASSUME req'[q] = Idle PROVE SawOf(req[q])'
  BY <1>2 DEF SawOf, Idle
<1>3. ASSUME req'[q] = req[q], UNCHANGED <<creds, disabled>> PROVE SawOf(req[q])'
  BY <1>1, <1>3 DEF SawOf
<1>4. ASSUME NEW p \in Proc, Begin(p) PROVE SawOf(req[q])'
  <2>1. UNCHANGED <<creds, disabled>>
    BY <1>4 DEF Begin
  <2> QED
    BY <1>3, <1>4, <2>1, Beginning DEF SawOf
<1>5. ASSUME NEW p \in Proc, UserFor(p) PROVE SawOf(req[q])'
  <2>1. UNCHANGED <<creds, disabled>>
    BY <1>5 DEF UserFor
  <2>2. CASE Finish(p)
    BY <1>2, <1>3, <2>1, <2>2, Finished
  <2>3. CASE Goto(p, "challenge")
    BY <1>1, <1>3, <2>1, <2>3, Going DEF SawOf
  <2> QED
    BY <1>5, <2>2, <2>3 DEF UserFor
<1>6. ASSUME NEW p \in Proc, Claim(p) PROVE SawOf(req[q])'
  <2>1. UNCHANGED <<creds, disabled>>
    BY <1>6 DEF Claim
  <2> QED
    BY <1>3, <1>6, <2>1, Claiming DEF SawOf
<1>7. ASSUME NEW p \in Proc, Validate(p) PROVE SawOf(req[q])'
  <2>1. UNCHANGED <<creds, disabled>>
    BY <1>7 DEF Validate
  <2>2. CASE q = p
    <3>1. ASSUME NEW k \in req[p].key, Accepted(k, req[p].user, req[p].op)
          PROVE  /\ creds[k].status = "live" /\ creds[k].owner = req[p].user
                 /\ req[p].op = "passwordless" => creds[k].pin
      BY <3>1 DEF Accepted, KeysOf
    <3> QED
      BY <1>1, <1>2, <1>7, <2>1, <2>2, <3>1, Validating DEF SawOf
  <2> QED
    BY <1>3, <1>7, <2>1, <2>2, Validating
<1>8. ASSUME NEW p \in Proc, TouchCredential(p) PROVE SawOf(req[q])'
  <2>1. PICK k \in req[p].key :
          /\ creds' = IF creds[k].status = "live"
                      THEN [creds EXCEPT ![k] = Recorded(@, req[p])] ELSE creds
          /\ \A r \in Proc \ {p} : k \in req[r].key => ~req'[r].fresh
    BY <1>8, Touching
  <2>2. disabled' = disabled
    BY <1>8 DEF TouchCredential
  <2>3. /\ req'[q].op = req[q].op /\ req'[q].user = req[q].user
        /\ req'[q].key = req[q].key /\ req'[q].row = req[q].row
        /\ req'[q].fresh => req[q].fresh
        /\ q # p => req'[q].pc = req[q].pc
        /\ q = p => req'[q].pc \in {"stamp", "user"}
    BY <1>8, Touching
  <2>4. CASE q = p
    <3>1. \A l \in Key : /\ creds'[l].status = creds[l].status /\ creds'[l].owner = creds[l].owner
                         /\ creds'[l].pin = creds[l].pin
      <4>1. req[p] \in Request /\ \A l \in Key : creds[l] \in Credential
        BY DEF TypeOK
      <4>2. \A l \in Key : creds'[l] = creds[l] \/ creds'[l] = Recorded(creds[l], req[p])
        BY <2>1 DEF TypeOK
      <4> QED
        BY <4>1, <4>2, RecordedProperties
    <3>2. req[p].key \subseteq Key /\ req[p].pc = "touch"
      BY <1>8 DEF TypeOK, Request, TouchCredential, At
    <3> QED
      BY <1>1, <2>3, <2>4, <3>1, <3>2 DEF SawOf
  <2>5. CASE q # p
    <3>1. req'[q].fresh => \A l \in req[q].key : creds'[l] = creds[l]
      <4>1. req[q].key \subseteq Key
        BY DEF TypeOK, Request
      <4> QED
        BY <2>1, <2>5, <4>1 DEF TypeOK
    <3> QED
      BY <1>1, <2>2, <2>3, <2>5, <3>1, SawKept
  <2> QED
    BY <2>4, <2>5
<1>9. ASSUME NEW p \in Proc, RereadUser(p) PROVE SawOf(req[q])'
  <2>1. UNCHANGED <<creds, disabled>> /\ req[p].pc = "user"
    BY <1>9 DEF RereadUser, At
  <2>2. CASE Finish(p)
    BY <1>2, <1>3, <2>1, <2>2, Finished
  <2>3. CASE Goto(p, "session") /\ req[p].user \notin disabled
    BY <1>1, <1>3, <2>1, <2>3, Going DEF SawOf
  <2> QED
    BY <1>9, <2>2, <2>3 DEF RereadUser
<1>10. ASSUME NEW p \in Proc, InsertCredential(p) PROVE SawOf(req[q])'
  <2>1. Finish(p) /\ disabled' = disabled
    BY <1>10 DEF InsertCredential
  <2>2. \A k \in Key : creds[k].status = "live" => creds'[k] = creds[k]
    BY <1>10 DEF InsertCredential, TypeOK
  <2>3. req[q].key \subseteq Key
    BY DEF TypeOK, Request
  <2> QED
    BY <1>1, <1>2, <2>1, <2>2, <2>3, Finished, SawKept
<1>11. ASSUME NEW p \in Proc, StoreCeremony(p) \/ Complete(p) \/ StoreError(p)
       PROVE  SawOf(req[q])'
  <2>1. Finish(p) /\ UNCHANGED <<creds, disabled>>
    BY <1>11 DEF StoreCeremony, Complete, StoreError
  <2> QED
    BY <1>2, <1>3, <2>1, Finished
<1>12. CASE Revoked
  <2>1. PICK k \in Key :
          /\ creds' = [creds EXCEPT ![k].status = "revoked"]
          /\ req' = Overtaken({p \in Proc : k \in req[p].key})
    BY <1>12 DEF Revoked
  <2>2. req'[q].fresh => k \notin req[q].key
    BY <2>1, OvertakenProperties
  <2>3. req[q].key \subseteq Key /\ \A l \in Key \ {k} : creds'[l] = creds[l]
    BY <2>1 DEF TypeOK, Request
  <2>4. disabled' = disabled
    BY <1>12 DEF Revoked
  <2> QED
    BY <1>1, <1>12, <2>2, <2>3, <2>4, Overtaking, SawKept
<1>13. CASE Suspended
  <2>1. PICK u \in User :
          /\ disabled' = (disabled \ {u}) \cup ({u} \ disabled)
          /\ req' = Overtaken({p \in Proc : req[p].user = u})
    BY <1>13 DEF Suspended
  <2>2. req'[q].fresh => req[q].user # u
    BY <2>1, OvertakenProperties
  <2>3. creds' = creds
    BY <1>13 DEF Suspended
  <2> QED
    BY <1>1, <1>13, <2>1, <2>2, <2>3, Overtaking, SawKept
<1>14. CASE UNCHANGED <<req, creds, disabled>>
  BY <1>3, <1>14
<1> QED
  BY <1>4, <1>5, <1>6, <1>7, <1>8, <1>9, <1>10, <1>11, <1>12, <1>13, <1>14 DEF Next, vars, Expires

\* A use recorded in order: nothing recorded so far is above the stored counter,
\* so one that came up before is suspicious.
LEMMA CountedStep ==
    TypeOK /\ Shape /\ Saw /\ Counted /\ ClonesNoticed /\ [Next]_vars => Counted' /\ ClonesNoticed'
<1> DEFINE Good(k) == /\ \A n \in seen'[k] : n # 0 /\ n <= creds'[k].count
                      /\ creds'[k].status = "none" => seen'[k] = {} /\ k \notin repeated'
                      /\ k \in repeated' /\ creds'[k].status = "live" => creds'[k].warned
<1> SUFFICES ASSUME TypeOK, Shape, Saw, Counted, ClonesNoticed, [Next]_vars, NEW k \in Key
             PROVE  Good(k)
  BY TypeStep DEF TypeOK, Counted, ClonesNoticed
<1>1. /\ \A n \in seen[k] : n # 0 /\ n <= creds[k].count
      /\ creds[k].status = "none" => seen[k] = {} /\ k \notin repeated
      /\ k \in repeated /\ creds[k].status = "live" => creds[k].warned
  BY DEF Counted, ClonesNoticed
<1>2. creds[k] \in Credential /\ seen[k] \subseteq Count
  BY DEF TypeOK
<1>3. ASSUME creds'[k] = creds[k], seen'[k] = seen[k], k \in repeated' <=> k \in repeated
      PROVE  Good(k)
  BY <1>1, <1>3
<1>4. ASSUME NEW p \in Proc, TouchCredential(p) PROVE Good(k)
  <2>1. PICK l \in req[p].key :
          /\ creds' = IF creds[l].status = "live"
                      THEN [creds EXCEPT ![l] = Recorded(@, req[p])] ELSE creds
          /\ repeated' = IF req[p].fresh /\ req[p].count \in seen[l]
                         THEN repeated \cup {l} ELSE repeated
          /\ seen' = [seen EXCEPT ![l] = IF req[p].fresh THEN (@ \cup {req[p].count}) \ {0} ELSE {}]
    BY <1>4 DEF TouchCredential
  <2>2. req[p] \in Request /\ req[p].pc = "touch"
    BY <1>4 DEF TypeOK, TouchCredential, At
  <2>3. CASE k # l
    BY <1>3, <2>1, <2>3 DEF TypeOK
  <2>4. CASE k = l /\ ~req[p].fresh
    <3>1. seen'[k] = {} /\ repeated' = repeated
      BY <2>1, <2>4 DEF TypeOK
    <3>2. creds'[k] = creds[k] \/ creds'[k] = Recorded(creds[k], req[p])
      BY <2>1, <2>4 DEF TypeOK
    <3> QED
      BY <1>1, <1>2, <2>2, <3>1, <3>2, RecordedProperties
  <2>5. CASE k = l /\ req[p].fresh
    <3>1. creds[k].status = "live" /\ creds[k].count = req[p].row
      BY <2>1, <2>2, <2>5 DEF Saw, SawOf
    <3>2. creds'[k] = Recorded(creds[k], req[p])
      BY <2>1, <2>5, <3>1 DEF TypeOK
    <3>3. req[p].count \in Count /\ req[p].row \in Count /\ Count \subseteq Int
      BY <2>2 DEF Request, Count
    <3>4. /\ creds'[k].status = "live"
          /\ creds'[k].count = IF Suspicious(req[p].count, req[p].row) THEN req[p].row
                               ELSE req[p].count
          /\ creds'[k].warned <=> creds[k].warned \/ Suspicious(req[p].count, req[p].row)
      BY <1>2, <2>2, <3>1, <3>2, RecordedProperties
    <3>5. seen'[k] = (seen[k] \cup {req[p].count}) \ {0}
      BY <2>1, <2>5 DEF TypeOK
    <3>6. \A n \in seen[k] : n \in Int /\ n <= req[p].row
      BY <1>1, <1>2, <3>1, <3>3
    <3>7. ASSUME NEW n \in seen'[k] PROVE n # 0 /\ n <= creds'[k].count
      <4>1. n \in Int /\ n # 0 /\ (n <= req[p].row \/ n = req[p].count)
        BY <3>3, <3>5, <3>6
      <4>2. req[p].count \in Nat /\ req[p].row \in Nat
        BY <3>3, PasskeysAssumption DEF Count
      <4>3. CASE Suspicious(req[p].count, req[p].row)
        BY <3>4, <4>1, <4>2, <4>3 DEF Suspicious
      <4>4. CASE ~Suspicious(req[p].count, req[p].row)
        <5>1. req[p].row <= req[p].count
          BY <4>2, <4>4 DEF Suspicious
        <5> QED
          BY <3>4, <4>1, <4>2, <4>4, <5>1
      <4> QED
        BY <4>3, <4>4
    <3>8. ASSUME k \in repeated' PROVE creds'[k].warned
      <4>1. CASE k \in repeated
        BY <1>1, <3>1, <3>4, <4>1
      <4>2. CASE k \notin repeated
        <5>1. req[p].count \in seen[k]
          BY <2>1, <2>5, <3>8, <4>2
        <5>2. req[p].count # 0 /\ req[p].count <= req[p].row
          BY <1>1, <3>6, <5>1
        <5> QED
          BY <3>3, <3>4, <5>2 DEF Suspicious
      <4> QED
        BY <4>1, <4>2
    <3> QED
      BY <3>4, <3>7, <3>8
  <2> QED
    BY <2>3, <2>4, <2>5
<1>5. ASSUME NEW p \in Proc, InsertCredential(p) PROVE Good(k)
  <2>1. seen' = seen /\ repeated' = repeated
    BY <1>5 DEF InsertCredential
  <2>2. creds'[k] = creds[k] \/ creds[k].status = "none"
    BY <1>5 DEF InsertCredential, TypeOK
  <2>3. CASE creds[k].status = "none"
    BY <1>1, <2>1, <2>3
  <2> QED
    BY <1>3, <2>1, <2>2, <2>3
<1>6. CASE Revoked
  <2>1. seen' = seen /\ repeated' = repeated
    BY <1>6 DEF Revoked
  <2>2. \/ creds'[k] = creds[k]
        \/ creds'[k] = [creds[k] EXCEPT !.status = "revoked"]
    BY <1>6 DEF Revoked, TypeOK
  <2>3. CASE creds'[k] = [creds[k] EXCEPT !.status = "revoked"]
    <3>1. creds'[k].status = "revoked" /\ creds'[k].count = creds[k].count
      BY <1>2, <2>3 DEF Credential
    <3> QED
      BY <1>1, <2>1, <3>1
  <2> QED
    BY <1>3, <2>1, <2>2, <2>3
<1>7. CASE UNCHANGED <<creds, seen, repeated>>
  BY <1>3, <1>7
<1> QED
  BY <1>4, <1>5, <1>6, <1>7
  DEF Next, vars, Begin, UserFor, StoreCeremony, Claim, Validate, RereadUser, Complete,
      StoreError, Expires, Suspended

-----------------------------------------------------------------------------
(* Keys and their owners.                                                  *)

LEMMA Invariance == Spec => []IInv
<1>1. Init => IInv
  <2> SUFFICES ASSUME Init PROVE IInv
    OBVIOUS
  <2>1. \A p \in Proc : req[p] = Idle
    BY DEF Init
  <2>2. \A c \in Challenge : challenges[c].phase = "unissued"
    BY DEF Init, NoCeremony
  <2>3. Shape
    BY <2>1, <2>2 DEF Shape, ShapeOf, Idle
  <2>4. Held
    BY <2>1 DEF Held, HoldsOf, Idle
  <2>5. Saw
    BY <2>1 DEF Saw, SawOf, Idle
  <2>6. Counted /\ ClonesNoticed
    BY DEF Init, Counted, ClonesNoticed
  <2> QED
    BY InitType, <2>3, <2>4, <2>5, <2>6 DEF IInv
<1>2. IInv /\ [Next]_vars => IInv'
  BY TypeStep, ShapeStep, HeldStep, SawStep, CountedStep DEF IInv
<1> QED
  BY <1>1, <1>2, PTL DEF Spec

\* The state is always of its types; what a ceremony gives, it gives to an account.
THEOREM TypeCorrect == Spec => []TypeOK
<1>1. IInv => TypeOK
  BY DEF IInv
<1> QED
  BY <1>1, Invariance, PTL

\* Whoever is about to get a session or a stamp owns the key that signed, is not
\* disabled, and without a password the key was unlocked, unless overtaken.
THEOREM AlwaysKeyOwnersOnly == Spec => []KeyOwnersOnly
<1>1. IInv => KeyOwnersOnly
  <2> SUFFICES ASSUME IInv, NEW p \in Proc, At(p, "session") \/ At(p, "stamp"), req[p].fresh
               PROVE  /\ req[p].key \subseteq KeysOf(req[p].user)
                      /\ At(p, "session") => req[p].user \notin disabled
                      /\ req[p].op = "passwordless" => \A k \in req[p].key : creds[k].pin
    BY DEF KeyOwnersOnly
  <2>1. SawOf(req[p]) /\ req[p].key \subseteq Key
    BY DEF IInv, Saw, TypeOK, Request
  <2> QED
    BY <2>1 DEF SawOf, At, KeysOf
<1> QED
  BY <1>1, Invariance, PTL

\* A counter that came up twice, recorded in order, has raised the warning.
THEOREM AlwaysClonesNoticed == Spec => []ClonesNoticed
<1>1. IInv => ClonesNoticed
  BY DEF IInv
<1> QED
  BY <1>1, Invariance, PTL

-----------------------------------------------------------------------------
(* The refinement: every ceremony is a one-time secret.                    *)

HeldBySome(c) == \E p \in Proc : c \in req[p].challenge

\* The abstract secret of a challenge.
SecretOf(c) == [phase |-> PhaseOf(c), purpose |-> challenges[c].purpose,
                owner |-> challenges[c].user]

LEMMA SecretKept ==
    ASSUME NEW c \in Challenge, challenges'[c] = challenges[c], HeldBySome(c)' <=> HeldBySome(c)
    PROVE  SecretOf(c)' = SecretOf(c)
  BY DEF SecretOf, PhaseOf, HeldBySome

LEMMA Stutters ==
    ASSUME \A c \in Challenge : SecretOf(c)' = SecretOf(c), UNCHANGED granted
    PROVE  UNCHANGED OneTime!vars
  BY DEF OneTime!vars, SecretOf

\* What ends a request spends the challenge it held, and no other.
LEMMA EndsWith ==
    ASSUME TypeOK, Held, NEW p \in Proc, UNCHANGED challenges,
           req'[p].challenge = {}, \A q \in Proc \ {p} : req'[q] = req[q]
    PROVE  \/ req[p].challenge = {} /\ \A c \in Challenge : SecretOf(c)' = SecretOf(c)
           \/ \E c \in Challenge :
                /\ req[p].challenge = {c}
                /\ PhaseOf(c) = "claimed" /\ PhaseOf(c)' = "spent"
                /\ \A d \in Challenge \ {c} : SecretOf(d)' = SecretOf(d)
<1>1. \A d \in Challenge : d \notin req[p].challenge => (HeldBySome(d)' <=> HeldBySome(d))
  BY DEF HeldBySome
<1>2. \A d \in Challenge : d \notin req[p].challenge => SecretOf(d)' = SecretOf(d)
  BY <1>1, SecretKept
<1>3. CASE req[p].challenge = {}
  BY <1>2, <1>3
<1>4. ASSUME NEW c \in req[p].challenge
      PROVE  /\ c \in Challenge /\ req[p].challenge = {c}
             /\ PhaseOf(c) = "claimed" /\ PhaseOf(c)' = "spent"
             /\ \A d \in Challenge \ {c} : SecretOf(d)' = SecretOf(d)
  <2>1. c \in Challenge /\ req[p].challenge = {c} /\ challenges[c].phase = "taken"
    BY <1>4 DEF TypeOK, Request, Held, HoldsOf
  <2>2. \A q \in Proc : c \in req[q].challenge => q = p
    BY <1>4 DEF Held
  <2>3. ~HeldBySome(c)'
    BY <2>2 DEF HeldBySome
  <2>4. PhaseOf(c) = "claimed"
    BY <1>4, <2>1 DEF PhaseOf
  <2>5. PhaseOf(c)' = "spent"
    BY <2>1, <2>3 DEF PhaseOf, HeldBySome
  <2> QED
    BY <1>2, <2>1, <2>4, <2>5
<1> QED
  BY <1>3, <1>4

\* One challenge moves on, its purpose and its account as they were.
LEMMA Moves ==
    ASSUME NEW c \in Challenge, \A d \in Challenge \ {c} : SecretOf(d)' = SecretOf(d),
           challenges'[c].purpose = challenges[c].purpose,
           challenges'[c].user = challenges[c].user, UNCHANGED granted
    PROVE  /\ PhaseOf(c) = "open" /\ PhaseOf(c)' = "claimed" => OneTime!Next
           /\ PhaseOf(c) \in {"open", "claimed"} /\ PhaseOf(c)' = "spent" => OneTime!Next
  BY DEF OneTime!Next, OneTime!Claim, OneTime!Lapse, SecretOf

LEMMA StepRefines == IInv /\ [Next]_vars => [OneTime!Next]_(OneTime!vars)
<1> SUFFICES ASSUME IInv, [Next]_vars PROVE OneTime!Next \/ UNCHANGED OneTime!vars
  OBVIOUS
<1> USE DEF IInv
<1>1. ASSUME NEW p \in Proc, UNCHANGED <<challenges, granted>>,
             req'[p].challenge = {}, \A q \in Proc \ {p} : req'[q] = req[q]
      PROVE  OneTime!Next \/ UNCHANGED OneTime!vars
  BY <1>1, EndsWith, Moves, Stutters
<1>2. ASSUME \A q \in Proc : req'[q].challenge = req[q].challenge, UNCHANGED <<challenges, granted>>
      PROVE  UNCHANGED OneTime!vars
  <2>1. \A c \in Challenge : HeldBySome(c)' <=> HeldBySome(c)
    BY <1>2 DEF HeldBySome
  <2> QED
    BY <1>2, <2>1, SecretKept, Stutters
<1>3. ASSUME NEW p \in Proc, Finish(p), UNCHANGED <<challenges, granted>>
      PROVE  OneTime!Next \/ UNCHANGED OneTime!vars
  BY <1>1, <1>3, Finished DEF Idle
<1>4. ASSUME NEW p \in Proc, Begin(p) PROVE OneTime!Next \/ UNCHANGED OneTime!vars
  BY <1>1, <1>4, Beginning DEF Begin
<1>5. ASSUME NEW p \in Proc, UserFor(p) PROVE OneTime!Next \/ UNCHANGED OneTime!vars
  BY <1>2, <1>3, <1>5, Going DEF UserFor
<1>6. ASSUME NEW p \in Proc, StoreCeremony(p) PROVE OneTime!Next
  <2>1. PICK c \in Challenge :
          /\ challenges[c].phase = "unissued"
          /\ challenges' = [challenges EXCEPT ![c] =
                [phase |-> "open", purpose |-> req[p].op, user |-> req[p].user]]
    BY <1>6 DEF StoreCeremony
  <2>2. req[p].challenge = {}
    BY <1>6 DEF StoreCeremony, At, Shape, ShapeOf
  <2>3. \A q \in Proc : req'[q].challenge = req[q].challenge
    <3>1. Finish(p)
      BY <1>6 DEF StoreCeremony
    <3> QED
      BY <2>2, <3>1, Finished DEF Idle
  <2>4. \A d \in Challenge \ {c} : SecretOf(d)' = SecretOf(d)
    BY <2>1, <2>3, SecretKept DEF TypeOK, HeldBySome
  <2>5. challenges'[c] = [phase |-> "open", purpose |-> req[p].op, user |-> req[p].user]
    BY <2>1 DEF TypeOK
  <2>6. /\ PhaseOf(c) = "unissued"
        /\ SecretOf(c)' = [phase |-> "open", purpose |-> req[p].op, owner |-> req[p].user]
    BY <2>1, <2>5 DEF PhaseOf, SecretOf
  <2>7. req[p].op \in Purpose /\ req[p].user \in User \cup {NoUser} /\ granted' = granted
    BY <1>6 DEF TypeOK, Request, StoreCeremony
  <2>8. [d \in Challenge |-> SecretOf(d)]' =
          [[d \in Challenge |-> SecretOf(d)] EXCEPT ![c] =
             [phase |-> "open", purpose |-> req[p].op, owner |-> req[p].user]]
    BY <2>4, <2>6
  <2>9. OneTime!Issue(c)
    <3>1. SecretOf(c).phase = "unissued"
      BY <2>6 DEF SecretOf
    <3> QED
      BY <2>7, <2>8, <3>1 DEF OneTime!Issue, SecretOf
  <2> QED
    BY <2>9 DEF OneTime!Next
<1>7. ASSUME NEW p \in Proc, Claim(p) PROVE OneTime!Next
  <2>1. PICK c \in Challenge :
          /\ challenges[c].phase = "open"
          /\ challenges' = [challenges EXCEPT ![c].phase = "taken"]
          /\ req'[p].challenge = {c}
    BY <1>7, Claiming
  <2>2. \A q \in Proc \ {p} : req'[q] = req[q]
    BY <1>7, Claiming
  <2>3. req[p].challenge = {}
    BY <1>7 DEF Claim, At, Shape, ShapeOf
  <2>4. \A d \in Challenge \ {c} : SecretOf(d)' = SecretOf(d)
    <3>1. \A d \in Challenge \ {c} : HeldBySome(d)' <=> HeldBySome(d)
      BY <2>1, <2>2, <2>3 DEF HeldBySome
    <3> QED
      BY <2>1, <3>1, SecretKept DEF TypeOK
  <2>5. /\ challenges'[c].phase = "taken"
        /\ challenges'[c].purpose = challenges[c].purpose
        /\ challenges'[c].user = challenges[c].user
    BY <2>1 DEF TypeOK, Ceremony
  <2>6. PhaseOf(c) = "open" /\ PhaseOf(c)' = "claimed"
    BY <2>1, <2>5 DEF PhaseOf
  <2> QED
    BY <1>7, <2>4, <2>5, <2>6, Moves DEF Claim
<1>8. ASSUME NEW p \in Proc, Validate(p) PROVE OneTime!Next \/ UNCHANGED OneTime!vars
  <2>1. UNCHANGED <<challenges, granted>>
    BY <1>8 DEF Validate
  <2>2. CASE req'[p] = Idle
    BY <1>1, <1>8, <2>1, <2>2, Validating DEF Idle
  <2>3. CASE req'[p].challenge = req[p].challenge
    BY <1>2, <1>8, <2>1, <2>3, Validating
  <2> QED
    BY <1>8, <2>2, <2>3, Validating
<1>9. ASSUME NEW p \in Proc, TouchCredential(p) PROVE UNCHANGED OneTime!vars
  BY <1>2, <1>9, Touching DEF TouchCredential
<1>10. ASSUME NEW p \in Proc, RereadUser(p) PROVE OneTime!Next \/ UNCHANGED OneTime!vars
  BY <1>2, <1>3, <1>10, Going DEF RereadUser
<1>11. ASSUME NEW p \in Proc, Finish(p), UNCHANGED challenges, Gives(p)
       PROVE  OneTime!Next \/ UNCHANGED OneTime!vars
  <2>1. req'[p].challenge = {} /\ \A q \in Proc \ {p} : req'[q] = req[q]
    BY <1>11, Finished DEF Idle
  <2>2. CASE req[p].challenge = {} /\ \A c \in Challenge : SecretOf(c)' = SecretOf(c)
    BY <1>11, <2>2, Stutters DEF Gives
  <2>3. ASSUME NEW c \in Challenge, req[p].challenge = {c},
               PhaseOf(c) = "claimed", PhaseOf(c)' = "spent",
               \A d \in Challenge \ {c} : SecretOf(d)' = SecretOf(d)
        PROVE  OneTime!Complete(c)
    <3>1. req[p].user \in User
      BY <2>3 DEF TypeOK, Request, Shape, ShapeOf
    <3>2. challenges[c].purpose = req[p].op /\ challenges[c].user \in {req[p].user, NoUser}
      BY <2>3 DEF Held, HoldsOf
    <3>3. granted' = granted \cup
             {[id |-> c, purpose |-> challenges[c].purpose, to |-> req[p].user]}
      BY <1>11, <2>3, <3>2 DEF Gives
    <3>4. /\ challenges'[c].purpose = challenges[c].purpose
          /\ challenges'[c].user = challenges[c].user
      BY <1>11
    <3> QED
      BY <2>3, <3>1, <3>2, <3>3, <3>4 DEF OneTime!Complete, SecretOf
  <2> QED
    BY <1>11, <2>1, <2>2, <2>3, EndsWith DEF OneTime!Next
<1>12. ASSUME NEW p \in Proc, Complete(p) PROVE OneTime!Next \/ UNCHANGED OneTime!vars
  BY <1>11, <1>12 DEF Complete
<1>13. ASSUME NEW p \in Proc, InsertCredential(p) PROVE OneTime!Next \/ UNCHANGED OneTime!vars
  BY <1>3, <1>11, <1>13 DEF InsertCredential
<1>14. ASSUME NEW p \in Proc, StoreError(p) PROVE OneTime!Next \/ UNCHANGED OneTime!vars
  BY <1>3, <1>14 DEF StoreError
<1>15. CASE Expires
  <2>1. PICK c \in Challenge :
          challenges[c].phase = "open" /\ challenges' = [challenges EXCEPT ![c].phase = "taken"]
    BY <1>15 DEF Expires
  <2>2. \A d \in Challenge \ {c} : SecretOf(d)' = SecretOf(d)
    BY <1>15, <2>1, SecretKept DEF Expires, TypeOK, HeldBySome
  <2>3. \A p \in Proc : c \notin req'[p].challenge
    BY <1>15, <2>1 DEF Held, HoldsOf, Expires
  <2>4. /\ challenges'[c].phase = "taken"
        /\ challenges'[c].purpose = challenges[c].purpose
        /\ challenges'[c].user = challenges[c].user
    BY <2>1 DEF TypeOK, Ceremony
  <2>5. PhaseOf(c) = "open" /\ PhaseOf(c)' = "spent"
    BY <2>1, <2>3, <2>4 DEF PhaseOf
  <2> QED
    BY <1>15, <2>2, <2>4, <2>5, Moves DEF Expires
<1>16. CASE Revoked \/ Suspended
  BY <1>2, <1>16, Overtaking DEF Revoked, Suspended
<1>17. CASE UNCHANGED vars
  BY <1>2, <1>17 DEF vars
<1> QED
  BY <1>4, <1>5, <1>6, <1>7, <1>8, <1>9, <1>10, <1>12, <1>13, <1>14, <1>15, <1>16, <1>17 DEF Next

\* However requests interleave and fail, a challenge is good for one ceremony, of the
\* purpose and for the account it was issued for: the ceremonies implement
\* OneTimeSecret.
THEOREM CeremoniesAlwaysOneTime == Spec => CeremoniesAreOneTime
<1>1. Init => OneTime!Init
  <2> SUFFICES ASSUME Init PROVE OneTime!Init
    OBVIOUS
  <2>1. \A c \in Challenge : SecretOf(c) = [phase |-> "unissued", purpose |-> "registration", owner |-> NoUser]
    BY DEF Init, NoCeremony, PhaseOf, SecretOf
  <2>2. [c \in Challenge |-> SecretOf(c)] \in [Challenge -> OneTime!Secret]
    BY <2>1 DEF OneTime!Secret, Purpose
  <2> QED
    BY <2>1, <2>2 DEF Init, OneTime!Init, SecretOf
<1> QED
  BY <1>1, StepRefines, Invariance, PTL DEF Spec, CeremoniesAreOneTime, OneTime!Spec

=============================================================================
