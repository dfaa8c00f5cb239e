---------------------------- MODULE GoogleSSOProofs ----------------------------
(***************************************************************************)
(* The theorems of Google sign-in, for any accounts, subjects and states,  *)
(* any number of concurrent callbacks and any store call failing; among    *)
(* them that it implements OneTimeSecret.                                  *)
(***************************************************************************)
EXTENDS GoogleSSO, TLAPS

-----------------------------------------------------------------------------
(* The inductive invariant.                                                *)

\* A callback holds the one state it claimed, which nobody else can hold.
HoldsOne(r) == \A c, d \in r.state : c = d

Held ==
    /\ \A p \in Proc : /\ HoldsOne(req[p])
                       /\ \A c \in req[p].state : challenges[c] = "taken"
                       /\ At(p, "idle") => req[p].state = {}
    /\ \A p, q \in Proc : req[p].state \cap req[q].state # {} => p = q

\* A link was vouched for, and so is whatever a callback may still link or sign
\* in on the strength of its one token.
VouchedFor(r) ==
    /\ \A t, u \in r.token : t = u
    /\ \A t \in r.token :
         /\ r.pc \in {"subject", "email"} /\ t.verified => <<t.subject, t.email>> \in vouched
         /\ r.pc = "email" => t.verified
         /\ r.pc \in {"link", "user", "session"} => <<t.subject, r.user>> \in vouched

Vouched ==
    /\ \A s \in Subject : links[s] # NoUser => <<s, links[s]>> \in vouched
    /\ \A p \in Proc : VouchedFor(req[p])

\* What a callback has looked up is so until it is overtaken: no link yet, and
\* an account there to be linked; then the link.
UpToDate(r) ==
    r.fresh =>
        /\ r.pc \in {"email", "link"} => \A t \in r.token : links[t.subject] = NoUser
        /\ r.pc = "link" => users[r.user] = "live"
        /\ r.pc \in {"user", "session"} => \A t \in r.token : links[t.subject] = r.user
        /\ r.pc = "session" => r.user \notin disabled

LookedUp == \A p \in Proc : UpToDate(req[p])

IInv == TypeOK /\ Held /\ Vouched /\ LookedUp

-----------------------------------------------------------------------------
(* Types.                                                                  *)

LEMMA IdleType == Idle \in Request
  BY DEF Idle, Request

LEMMA InitType == Init => TypeOK
<1> SUFFICES ASSUME Init PROVE TypeOK
  OBVIOUS
<1>1. users \in [User -> {"unused", "live", "deleted"}]
  BY DEF Init
<1>2. \A p \in Proc : req[p].pc = "idle"
  BY DEF Init, Idle
<1> QED
  BY <1>1, <1>2, IdleType DEF Init, TypeOK

\* A finished request is idle; every other is as it was.
LEMMA Finished ==
    ASSUME TypeOK, NEW p \in Proc, Finish(p), NEW q \in Proc
    PROVE  req'[q] = IF q = p THEN Idle ELSE req[q]
  BY DEF TypeOK, Finish

LEMMA FinishType ==
    ASSUME TypeOK, NEW p \in Proc, Finish(p)
    PROVE  /\ req' \in [Proc -> Request]
           /\ \A q \in Proc : req'[q].pc \in {"link", "user", "session"} => req'[q].user # NoUser
<1>1. req' \in [Proc -> Request]
  BY IdleType DEF TypeOK, Finish
<1>2. Idle.pc = "idle"
  BY DEF Idle
<1> QED
  BY <1>1, <1>2, Finished DEF TypeOK

\* Writing the links, or an account, overtakes whoever looked before; it moves
\* nobody.
LEMMA OvertakenProperties ==
    ASSUME NEW r \in [Proc -> Request], NEW ps
    PROVE  /\ Overtaken(r, ps) \in [Proc -> Request]
           /\ \A p \in Proc :
                /\ Overtaken(r, ps)[p].pc = r[p].pc
                /\ Overtaken(r, ps)[p].state = r[p].state
                /\ Overtaken(r, ps)[p].token = r[p].token
                /\ Overtaken(r, ps)[p].user = r[p].user
                /\ Overtaken(r, ps)[p].fresh => r[p].fresh /\ p \notin ps
  BY DEF Overtaken, Request

LEMMA Linking ==
    ASSUME TypeOK, NEW p \in Proc, LinkGoogleAccount(p)
    PROVE  /\ req' \in [Proc -> Request]
           /\ \A q \in Proc :
                /\ req'[q].pc = IF q = p THEN "user" ELSE req[q].pc
                /\ req'[q].state = req[q].state
                /\ req'[q].token = req[q].token
                /\ req'[q].user = req[q].user
                /\ req'[q].fresh => req[q].fresh /\ q = p
<1> DEFINE r == [req EXCEPT ![p].pc = "user"]
<1>1. [req[p] EXCEPT !.pc = "user"] \in Request
  BY DEF TypeOK, Request
<1>2. r \in [Proc -> Request]
  BY <1>1 DEF TypeOK
<1>3. \A q \in Proc : /\ r[q].pc = IF q = p THEN "user" ELSE req[q].pc
                     /\ r[q].state = req[q].state /\ r[q].token = req[q].token
                     /\ r[q].user = req[q].user /\ r[q].fresh = req[q].fresh
  BY DEF TypeOK, Request
<1>4. req' = Overtaken(r, Proc \ {p})
  BY DEF LinkGoogleAccount
<1> HIDE DEF r
<1> QED
  BY <1>2, <1>3, <1>4, OvertakenProperties

LEMMA TypeStep == TypeOK /\ [Next]_vars => TypeOK'
<1> SUFFICES ASSUME TypeOK, [Next]_vars PROVE TypeOK'
  OBVIOUS
<1> USE DEF TypeOK
<1>1. ASSUME NEW p \in Proc, ClaimGoogleChallenge(p) PROVE TypeOK'
  <2>1. \A c \in State : [Idle EXCEPT !.pc = "exchange", !.state = {c}] \in Request
    BY DEF Idle, Request
  <2>2. \A c \in State : [Idle EXCEPT !.pc = "exchange", !.state = {c}].pc = "exchange"
    BY DEF Idle
  <2> QED
    BY <1>1, <2>1, <2>2 DEF ClaimGoogleChallenge
<1>2. ASSUME NEW p \in Proc, Exchange(p) PROVE TypeOK'
  <2>1. \A t \in Token : [req[p] EXCEPT !.pc = "subject", !.token = {t}] \in Request
    BY DEF Request
  <2>2. \A t \in Token : <<t.subject, t.email>> \in Subject \X User
    BY DEF Token
  <2>3. vouched' \subseteq Subject \X User
    BY <1>2, <2>2 DEF Exchange
  <2>4. CASE Finish(p)
    BY <1>2, <2>3, <2>4, FinishType DEF Exchange
  <2>5. ASSUME NEW t \in Token, req' = [req EXCEPT ![p].pc = "subject", ![p].token = {t}]
        PROVE  TypeOK'
    <3>1. req' = [req EXCEPT ![p] = [req[p] EXCEPT !.pc = "subject", !.token = {t}]]
      BY <2>5
    <3> QED
      BY <1>2, <2>1, <2>3, <3>1 DEF Exchange, Request
  <2> QED
    BY <1>2, <2>4, <2>5 DEF Exchange
<1>3. ASSUME NEW p \in Proc, UserByGoogleSubject(p) PROVE TypeOK'
  <2>1. req[p].token \subseteq Token
    BY DEF Request
  <2>2. CASE Finish(p)
    BY <1>3, <2>2, FinishType DEF UserByGoogleSubject
  <2>3. ASSUME NEW t \in Token, Linked(t) # NoUser,
               req' = [req EXCEPT ![p].pc = "user", ![p].user = Linked(t), ![p].fresh = TRUE]
        PROVE  TypeOK'
    <3>1. Linked(t) \in User
      BY <2>3 DEF Linked, Token
    <3>2. [req[p] EXCEPT !.pc = "user", !.user = Linked(t), !.fresh = TRUE] \in Request
      BY <3>1 DEF Request
    <3> QED
      BY <1>3, <2>3, <3>2 DEF UserByGoogleSubject, Request
  <2>4. ASSUME req' = [req EXCEPT ![p].pc = "email", ![p].fresh = TRUE]
        PROVE  TypeOK'
    <3>1. [req[p] EXCEPT !.pc = "email", !.fresh = TRUE] \in Request
      BY DEF Request
    <3> QED
      BY <1>3, <2>4, <3>1 DEF UserByGoogleSubject, Request
  <2> QED
    BY <1>3, <2>1, <2>2, <2>3, <2>4 DEF UserByGoogleSubject
<1>4. ASSUME NEW p \in Proc, UserByEmail(p) PROVE TypeOK'
  <2>1. req[p].token \subseteq Token
    BY DEF Request
  <2>2. CASE Finish(p)
    BY <1>4, <2>2, FinishType DEF UserByEmail
  <2>3. ASSUME NEW t \in Token, req' = [req EXCEPT ![p].pc = "link", ![p].user = t.email]
        PROVE  TypeOK'
    <3>1. t.email \in User /\ t.email # NoUser
      BY GoogleSSOAssumption DEF Token
    <3>2. [req[p] EXCEPT !.pc = "link", !.user = t.email] \in Request
      BY <3>1 DEF Request
    <3> QED
      BY <1>4, <2>3, <3>1, <3>2 DEF UserByEmail, Request
  <2> QED
    BY <1>4, <2>1, <2>2, <2>3 DEF UserByEmail
<1>5. ASSUME NEW p \in Proc, LinkGoogleAccount(p) PROVE TypeOK'
  <2>1. req[p].user \in User /\ req[p].user # NoUser
    BY <1>5 DEF LinkGoogleAccount, At, Request
  <2>2. /\ req' \in [Proc -> Request]
        /\ \A q \in Proc : req'[q].pc \in {"link", "user", "session"} => req'[q].user # NoUser
    BY <1>5, <2>1, Linking
  <2>3. links' \in [Subject -> User \cup {NoUser}]
    BY <1>5, <2>1 DEF LinkGoogleAccount
  <2> QED
    BY <1>5, <2>2, <2>3 DEF LinkGoogleAccount
<1>6. ASSUME NEW p \in Proc, RereadUser(p) PROVE TypeOK'
  <2>1. CASE Finish(p)
    BY <1>6, <2>1, FinishType DEF RereadUser
  <2>2. CASE Goto(p, "session")
    <3>1. [req[p] EXCEPT !.pc = "session"] \in Request
      BY DEF Request
    <3>2. req[p].user # NoUser
      BY <1>6 DEF RereadUser, At
    <3> QED
      BY <1>6, <2>2, <3>1, <3>2 DEF RereadUser, Goto, Request
  <2> QED
    BY <1>6, <2>1, <2>2 DEF RereadUser
<1>7. ASSUME NEW p \in Proc, InsertSession(p) PROVE TypeOK'
  <2>1. req[p].user \in User /\ req[p].state \subseteq State
    BY <1>7 DEF InsertSession, At, Request
  <2> QED
    BY <1>7, <2>1, FinishType DEF InsertSession
<1>8. ASSUME NEW p \in Proc, StoreError(p) PROVE TypeOK'
  BY <1>8, FinishType DEF StoreError
<1>9. CASE BeginLogin
  BY <1>9 DEF BeginLogin
<1>10. CASE Expires
  BY <1>10 DEF Expires
<1>11. CASE UserChanges
  <2>1. /\ req' \in [Proc -> Request]
        /\ \A q \in Proc : req'[q].pc \in {"link", "user", "session"} => req'[q].user # NoUser
    BY <1>11, OvertakenProperties DEF UserChanges
  <2>2. /\ users' \in [User -> {"unused", "live", "deleted"}]
        /\ disabled' \subseteq User
        /\ links' \in [Subject -> User \cup {NoUser}]
    BY <1>11 DEF UserChanges
  <2> QED
    BY <1>11, <2>1, <2>2 DEF UserChanges
<1>12. CASE UNCHANGED vars
  BY <1>12 DEF vars
<1> QED
  BY <1>1, <1>2, <1>3, <1>4, <1>5, <1>6, <1>7, <1>8, <1>9, <1>10, <1>11, <1>12 DEF Next

\* The state is always of its types, and a callback past its look-up has an account.
THEOREM TypeCorrect == Spec => []TypeOK
  BY InitType, TypeStep, PTL DEF Spec

-----------------------------------------------------------------------------
(* What each step does to the requests.                                    *)

LEMMA Claiming ==
    ASSUME TypeOK, NEW p \in Proc, ClaimGoogleChallenge(p)
    PROVE  /\ \A q \in Proc \ {p} : req'[q] = req[q]
           /\ \E c \in State :
                /\ challenges[c] = "open"
                /\ challenges' = [challenges EXCEPT ![c] = "taken"]
                /\ req'[p].state = {c}
           /\ req'[p].pc = "exchange" /\ req'[p].token = {} /\ ~req'[p].fresh
<1>1. PICK c \in State :
         /\ challenges[c] = "open"
         /\ challenges' = [challenges EXCEPT ![c] = "taken"]
         /\ req' = [req EXCEPT ![p] = [Idle EXCEPT !.pc = "exchange", !.state = {c}]]
  BY DEF ClaimGoogleChallenge
<1>2. /\ \A q \in Proc \ {p} : req'[q] = req[q]
      /\ req'[p].pc = "exchange" /\ req'[p].state = {c}
      /\ req'[p].token = {} /\ ~req'[p].fresh
  BY <1>1 DEF TypeOK, Idle
<1> QED
  BY <1>1, <1>2

LEMMA Exchanging ==
    ASSUME TypeOK, NEW p \in Proc, Exchange(p)
    PROVE  /\ \A q \in Proc \ {p} : req'[q] = req[q]
           /\ \/ req'[p] = Idle /\ UNCHANGED vouched
              \/ \E t \in Token :
                   /\ req'[p].pc = "subject" /\ req'[p].token = {t}
                   /\ req'[p].state = req[p].state
                   /\ vouched' = IF t.verified THEN vouched \cup {<<t.subject, t.email>>} ELSE vouched
<1>1. CASE Finish(p) /\ UNCHANGED vouched
  BY <1>1, Finished
<1>2. ASSUME NEW t \in Token, req' = [req EXCEPT ![p].pc = "subject", ![p].token = {t}]
      PROVE  /\ \A q \in Proc \ {p} : req'[q] = req[q]
             /\ req'[p].pc = "subject" /\ req'[p].token = {t}
             /\ req'[p].state = req[p].state
  BY <1>2 DEF TypeOK, Request
<1> QED
  BY <1>1, <1>2 DEF Exchange

LEMMA LookingUp ==
    ASSUME TypeOK, NEW p \in Proc, UserByGoogleSubject(p)
    PROVE  /\ \A q \in Proc \ {p} : req'[q] = req[q]
           /\ \/ req'[p] = Idle
              \/ \E t \in req[p].token :
                   /\ req'[p].token = req[p].token /\ req'[p].state = req[p].state
                   /\ \/ /\ req'[p].pc = "user" /\ req'[p].user = links[t.subject]
                         /\ links[t.subject] # NoUser
                      \/ req'[p].pc = "email" /\ links[t.subject] = NoUser /\ t.verified
<1>1. CASE Finish(p)
  BY <1>1, Finished
<1>2. ASSUME NEW t \in req[p].token,
             req' = [req EXCEPT ![p].pc = "user", ![p].user = Linked(t), ![p].fresh = TRUE]
      PROVE  /\ \A q \in Proc \ {p} : req'[q] = req[q]
             /\ req'[p].token = req[p].token /\ req'[p].state = req[p].state
             /\ req'[p].pc = "user" /\ req'[p].user = links[t.subject]
  BY <1>2 DEF TypeOK, Request, Linked
<1>3. ASSUME req' = [req EXCEPT ![p].pc = "email", ![p].fresh = TRUE]
      PROVE  /\ \A q \in Proc \ {p} : req'[q] = req[q]
             /\ req'[p].token = req[p].token /\ req'[p].state = req[p].state
             /\ req'[p].pc = "email"
  BY <1>3 DEF TypeOK, Request
<1> QED
  BY <1>1, <1>2, <1>3 DEF UserByGoogleSubject, Linked, MayMatchEmail

LEMMA Matching ==
    ASSUME TypeOK, NEW p \in Proc, UserByEmail(p)
    PROVE  /\ \A q \in Proc \ {p} : req'[q] = req[q]
           /\ \/ req'[p] = Idle
              \/ \E t \in req[p].token :
                   /\ req'[p].token = req[p].token /\ req'[p].state = req[p].state
                   /\ req'[p].pc = "link" /\ req'[p].user = t.email
                   /\ users[t.email] = "live" /\ req'[p].fresh = req[p].fresh
<1>1. CASE Finish(p)
  BY <1>1, Finished
<1>2. ASSUME NEW t \in req[p].token, req' = [req EXCEPT ![p].pc = "link", ![p].user = t.email]
      PROVE  /\ \A q \in Proc \ {p} : req'[q] = req[q]
             /\ req'[p].token = req[p].token /\ req'[p].state = req[p].state
             /\ req'[p].pc = "link" /\ req'[p].user = t.email
             /\ req'[p].fresh = req[p].fresh
  BY <1>2 DEF TypeOK, Request
<1> QED
  BY <1>1, <1>2 DEF UserByEmail

LEMMA Rereading ==
    ASSUME TypeOK, NEW p \in Proc, RereadUser(p)
    PROVE  /\ \A q \in Proc \ {p} : req'[q] = req[q]
           /\ \/ req'[p] = Idle
              \/ /\ req'[p].token = req[p].token /\ req'[p].state = req[p].state
                 /\ req'[p].user = req[p].user /\ req'[p].fresh = req[p].fresh
                 /\ req'[p].pc = "session" /\ req[p].user \notin disabled
<1>1. CASE Finish(p)
  BY <1>1, Finished
<1>2. CASE Goto(p, "session") /\ req[p].user \notin disabled
  BY <1>2 DEF TypeOK, Request, Goto
<1> QED
  BY <1>1, <1>2 DEF RereadUser

\* Somebody changed an account: everybody under way is overtaken.
LEMMA Changing ==
    ASSUME TypeOK, UserChanges, NEW q \in Proc
    PROVE  /\ req'[q].pc = req[q].pc /\ req'[q].state = req[q].state
           /\ req'[q].token = req[q].token /\ req'[q].user = req[q].user
           /\ ~req'[q].fresh
<1>1. req \in [Proc -> Request] /\ req' = Overtaken(req, Proc)
  BY DEF TypeOK, UserChanges
<1>2. (Overtaken(req, Proc)[q].fresh) => q \notin Proc
  BY <1>1, OvertakenProperties
<1> QED
  BY <1>1, <1>2, OvertakenProperties

\* Only a claim gives a callback a state, and a step gives up at most the one it
\* ends with.
LEMMA StatesKept ==
    ASSUME TypeOK, [Next]_vars, NEW q \in Proc
    PROVE  \/ ClaimGoogleChallenge(q)
           \/ req'[q] = Idle
           \/ req'[q].state = req[q].state /\ (req'[q].pc = "idle" => req[q].pc = "idle")
<1>1. ASSUME NEW p \in Proc, ClaimGoogleChallenge(p), p # q
      PROVE  req'[q] = req[q]
  BY <1>1, Claiming
<1>2. ASSUME NEW p \in Proc, Exchange(p) \/ UserByGoogleSubject(p) \/ UserByEmail(p) \/ RereadUser(p)
      PROVE  req'[q] = Idle \/ req'[q] = req[q] \/ (req'[q].state = req[q].state /\ req'[q].pc # "idle")
  BY <1>2, Exchanging, LookingUp, Matching, Rereading
<1>3. ASSUME NEW p \in Proc, LinkGoogleAccount(p)
      PROVE  req'[q].state = req[q].state /\ (req'[q].pc = "idle" => req[q].pc = "idle")
  BY <1>3, Linking
<1>4. ASSUME NEW p \in Proc, InsertSession(p) \/ StoreError(p)
      PROVE  req'[q] = Idle \/ req'[q] = req[q]
  BY <1>4, Finished DEF InsertSession, StoreError
<1>5. CASE UserChanges
  BY <1>5, Changing
<1>6. CASE UNCHANGED req
  BY <1>6
<1> QED
  BY <1>1, <1>2, <1>3, <1>4, <1>5, <1>6 DEF Next, BeginLogin, Expires, vars

-----------------------------------------------------------------------------
(* The parts of the invariant, one after the other.                        *)

\* A state that was taken stays taken.
LEMMA TakenStays ==
    ASSUME TypeOK, [Next]_vars, NEW c \in State, challenges[c] = "taken"
    PROVE  challenges'[c] = "taken"
  BY DEF TypeOK, Next, vars, ClaimGoogleChallenge, Exchange, UserByGoogleSubject, UserByEmail,
         LinkGoogleAccount, RereadUser, InsertSession, StoreError, BeginLogin, Expires, UserChanges

LEMMA HeldStep == TypeOK /\ Held /\ [Next]_vars => Held'
<1> SUFFICES ASSUME TypeOK, Held, [Next]_vars PROVE Held'
  OBVIOUS
<1>1. \A q \in Proc : req[q].state \subseteq State
  BY DEF TypeOK, Request
<1>2. /\ \A q \in Proc : /\ HoldsOne(req[q])
                         /\ \A c \in req[q].state : challenges[c] = "taken"
                         /\ req[q].pc = "idle" => req[q].state = {}
      /\ \A q, r \in Proc, c \in State : c \in req[q].state /\ c \in req[r].state => q = r
  BY DEF Held, At
<1>3. SUFFICES /\ \A q \in Proc : /\ \A c, d \in req'[q].state : c = d
                                  /\ \A c \in req'[q].state : challenges'[c] = "taken"
                                  /\ req'[q].pc = "idle" => req'[q].state = {}
               /\ \A q, r \in Proc : (\E c \in req'[q].state : c \in req'[r].state) => q = r
  BY DEF Held, At, HoldsOne
<1>4. ASSUME NEW p \in Proc, ClaimGoogleChallenge(p)
      PROVE  /\ \A q \in Proc : /\ \A c, d \in req'[q].state : c = d
                                /\ \A c \in req'[q].state : challenges'[c] = "taken"
                                /\ req'[q].pc = "idle" => req'[q].state = {}
             /\ \A q, r \in Proc : (\E c \in req'[q].state : c \in req'[r].state) => q = r
  <2>1. PICK d \in State :
          /\ challenges[d] = "open" /\ challenges' = [challenges EXCEPT ![d] = "taken"]
          /\ req'[p].state = {d} /\ req'[p].pc = "exchange"
          /\ \A q \in Proc \ {p} : req'[q] = req[q]
    BY <1>4, Claiming
  <2>2. \A q \in Proc : d \notin req[q].state
    BY <1>2, <2>1
  <2>3. \A c \in State : challenges[c] = "taken" => challenges'[c] = "taken"
    BY TakenStays
  <2>4. challenges'[d] = "taken"
    BY <2>1 DEF TypeOK
  <2> QED
    BY <1>1, <1>2, <2>1, <2>2, <2>3, <2>4 DEF HoldsOne
<1>5. CASE \A p \in Proc : ~ClaimGoogleChallenge(p)
  <2>1. \A q \in Proc : \/ req'[q].state = {}
                        \/ req'[q].state = req[q].state /\ (req'[q].pc = "idle" => req[q].pc = "idle")
    BY <1>5, StatesKept DEF Idle
  <2>2. \A c \in State : challenges[c] = "taken" => challenges'[c] = "taken"
    BY TakenStays
  <2> QED
    BY <1>1, <1>2, <2>1, <2>2 DEF HoldsOne
<1> QED
  BY <1>4, <1>5

\* What was vouched for stays so, and with it a callback that is left alone.
LEMMA VouchedKept ==
    ASSUME TypeOK, Vouched, [Next]_vars, NEW q \in Proc,
           req'[q].pc = req[q].pc, req'[q].token = req[q].token, req'[q].user = req[q].user
    PROVE  VouchedFor(req[q])'
<1>1. vouched \subseteq vouched'
  BY DEF Next, vars, ClaimGoogleChallenge, Exchange, UserByGoogleSubject, UserByEmail,
         LinkGoogleAccount, RereadUser, InsertSession, StoreError, BeginLogin, Expires, UserChanges
<1>2. VouchedFor(req[q])
  BY DEF Vouched
<1> QED
  BY <1>1, <1>2 DEF VouchedFor

LEMMA VouchedStep == TypeOK /\ Vouched /\ [Next]_vars => Vouched'
<1> SUFFICES ASSUME TypeOK, Vouched, [Next]_vars PROVE Vouched'
  OBVIOUS
<1>1. vouched \subseteq vouched'
  BY DEF Next, vars, ClaimGoogleChallenge, Exchange, UserByGoogleSubject, UserByEmail,
         LinkGoogleAccount, RereadUser, InsertSession, StoreError, BeginLogin, Expires, UserChanges
<1>2. ASSUME NEW s \in Subject, links'[s] # NoUser PROVE <<s, links'[s]>> \in vouched'
  <2>1. ASSUME NEW p \in Proc, LinkGoogleAccount(p) PROVE <<s, links'[s]>> \in vouched'
    <3>1. CASE links'[s] = links[s]
      BY <1>1, <1>2, <3>1 DEF Vouched
    <3>2. CASE links'[s] # links[s]
      <4>1. PICK t \in req[p].token : t.subject = s /\ links'[s] = req[p].user
        BY <2>1, <3>2 DEF LinkGoogleAccount, TypeOK
      <4> QED
        BY <1>1, <2>1, <4>1 DEF Vouched, VouchedFor, LinkGoogleAccount, At
    <3> QED
      BY <3>1, <3>2
  <2>2. CASE UserChanges
    <3>1. links'[s] = links[s]
      BY <1>2, <2>2 DEF UserChanges, TypeOK
    <3> QED
      BY <1>1, <1>2, <3>1 DEF Vouched
  <2>3. CASE UNCHANGED links
    BY <1>1, <1>2, <2>3 DEF Vouched
  <2> QED
    BY <2>1, <2>2, <2>3
    DEF Next, vars, ClaimGoogleChallenge, Exchange, UserByGoogleSubject, UserByEmail,
        RereadUser, InsertSession, StoreError, BeginLogin, Expires
<1>3. ASSUME NEW q \in Proc PROVE VouchedFor(req[q])'
  <2>1. ASSUME req'[q] = Idle PROVE VouchedFor(req[q])'
    BY <2>1 DEF VouchedFor, Idle
  <2>2. VouchedFor(req[q])
    BY DEF Vouched
  <2>3. ASSUME NEW p \in Proc, ClaimGoogleChallenge(p) PROVE VouchedFor(req[q])'
    <3>1. CASE q = p
      BY <2>3, <3>1, Claiming DEF VouchedFor
    <3> QED
      BY <2>3, <3>1, Claiming, VouchedKept
  <2>4. ASSUME NEW p \in Proc, Exchange(p) PROVE VouchedFor(req[q])'
    <3>1. CASE q = p
      BY <2>1, <2>4, <3>1, Exchanging DEF VouchedFor
    <3> QED
      BY <2>4, <3>1, Exchanging, VouchedKept
  <2>5. ASSUME NEW p \in Proc, UserByGoogleSubject(p) PROVE VouchedFor(req[q])'
    <3>1. CASE q = p
      <4>1. req[q].token \subseteq Token /\ req[q].pc = "subject"
        BY <2>5, <3>1 DEF TypeOK, Request, UserByGoogleSubject, At
      <4>2. \A t \in req[q].token : t.subject \in Subject
        BY <4>1 DEF Token
      <4>3. \A t \in req[q].token : links[t.subject] # NoUser => <<t.subject, links[t.subject]>> \in vouched'
        BY <1>1, <4>2 DEF Vouched
      <4> QED
        BY <1>1, <2>1, <2>2, <2>5, <3>1, <4>1, <4>3, LookingUp DEF VouchedFor
    <3> QED
      BY <2>5, <3>1, LookingUp, VouchedKept
  <2>6. ASSUME NEW p \in Proc, UserByEmail(p) PROVE VouchedFor(req[q])'
    <3>1. CASE q = p
      <4>1. req[q].pc = "email"
        BY <2>6, <3>1 DEF UserByEmail, At
      <4> QED
        BY <1>1, <2>1, <2>2, <2>6, <3>1, <4>1, Matching DEF VouchedFor
    <3> QED
      BY <2>6, <3>1, Matching, VouchedKept
  <2>7. ASSUME NEW p \in Proc, LinkGoogleAccount(p) PROVE VouchedFor(req[q])'
    <3>1. CASE q = p
      <4>1. req[q].pc = "link"
        BY <2>7, <3>1 DEF LinkGoogleAccount, At
      <4> QED
        BY <1>1, <2>2, <2>7, <3>1, <4>1, Linking DEF VouchedFor
    <3> QED
      BY <2>7, <3>1, Linking, VouchedKept
  <2>8. ASSUME NEW p \in Proc, RereadUser(p) PROVE VouchedFor(req[q])'
    <3>1. CASE q = p
      <4>1. req[q].pc = "user"
        BY <2>8, <3>1 DEF RereadUser, At
      <4> QED
        BY <1>1, <2>1, <2>2, <2>8, <3>1, <4>1, Rereading DEF VouchedFor
    <3> QED
      BY <2>8, <3>1, Rereading, VouchedKept
  <2>9. ASSUME NEW p \in Proc, InsertSession(p) \/ StoreError(p) PROVE VouchedFor(req[q])'
    BY <2>1, <2>9, Finished, VouchedKept DEF InsertSession, StoreError
  <2>10. CASE UserChanges
    BY <2>10, Changing, VouchedKept
  <2>11. CASE UNCHANGED req
    BY <2>11, VouchedKept
  <2> QED
    BY <2>3, <2>4, <2>5, <2>6, <2>7, <2>8, <2>9, <2>10, <2>11 DEF Next, BeginLogin, Expires, vars
<1> QED
  BY <1>2, <1>3 DEF Vouched

LEMMA LookedUpStep == TypeOK /\ Vouched /\ LookedUp /\ [Next]_vars => LookedUp'
<1> SUFFICES ASSUME TypeOK, Vouched, LookedUp, [Next]_vars, NEW q \in Proc
             PROVE  UpToDate(req[q])'
  BY DEF LookedUp
<1>1. ASSUME req'[q] = Idle \/ ~req'[q].fresh PROVE UpToDate(req[q])'
  BY <1>1 DEF UpToDate, Idle
<1>2. UpToDate(req[q]) /\ VouchedFor(req[q])
  BY DEF LookedUp, Vouched
<1>3. ASSUME req'[q] = req[q], UNCHANGED <<links, users, disabled>> PROVE UpToDate(req[q])'
  BY <1>2, <1>3 DEF UpToDate
<1>4. ASSUME NEW p \in Proc, ClaimGoogleChallenge(p) PROVE UpToDate(req[q])'
  <2>1. CASE q = p
    BY <1>1, <1>4, <2>1, Claiming
  <2> QED
    BY <1>3, <1>4, <2>1, Claiming DEF ClaimGoogleChallenge
<1>5. ASSUME NEW p \in Proc, Exchange(p) PROVE UpToDate(req[q])'
  <2>1. CASE q = p
    BY <1>1, <1>5, <2>1, Exchanging DEF UpToDate
  <2> QED
    BY <1>3, <1>5, <2>1, Exchanging DEF Exchange
<1>6. ASSUME NEW p \in Proc, UserByGoogleSubject(p) PROVE UpToDate(req[q])'
  <2>1. CASE q = p
    <3>1. UNCHANGED <<links, users, disabled>>
      BY <1>6 DEF UserByGoogleSubject
    <3>2. \A t, u \in req[q].token : t = u
      BY <1>2 DEF VouchedFor
    <3>3. \/ req'[q] = Idle
          \/ \E t \in req[q].token :
               /\ req'[q].token = req[q].token
               /\ \/ req'[q].pc = "user" /\ req'[q].user = links[t.subject]
                  \/ req'[q].pc = "email" /\ links[t.subject] = NoUser
      BY <1>6, <2>1, LookingUp
    <3> QED
      BY <1>1, <3>1, <3>2, <3>3 DEF UpToDate
  <2> QED
    BY <1>3, <1>6, <2>1, LookingUp DEF UserByGoogleSubject
<1>7. ASSUME NEW p \in Proc, UserByEmail(p) PROVE UpToDate(req[q])'
  <2>1. CASE q = p
    <3>1. req[q].pc = "email" /\ UNCHANGED <<links, users, disabled>>
      BY <1>7, <2>1 DEF UserByEmail, At
    <3> QED
      BY <1>1, <1>2, <1>7, <2>1, <3>1, Matching DEF UpToDate
  <2> QED
    BY <1>3, <1>7, <2>1, Matching DEF UserByEmail
<1>8. ASSUME NEW p \in Proc, LinkGoogleAccount(p) PROVE UpToDate(req[q])'
  <2>1. CASE q = p
    <3>1. /\ req'[q].pc = "user" /\ req'[q].user = req[q].user
          /\ req'[q].token = req[q].token /\ (req'[q].fresh => req[q].fresh)
      BY <1>8, <2>1, Linking
    <3>2. \A t \in req[q].token : t.subject \in Subject
      <4>1. req[q].token \subseteq Token
        BY DEF TypeOK, Request
      <4> QED
        BY <4>1 DEF Token
    <3>3. req[q].fresh => \A t \in req[q].token : links'[t.subject] = req[q].user
      BY <1>2, <1>8, <2>1, <3>2 DEF UpToDate, LinkGoogleAccount, At
    <3> QED
      BY <3>1, <3>3 DEF UpToDate
  <2> QED
    BY <1>1, <1>8, <2>1, Linking
<1>9. ASSUME NEW p \in Proc, RereadUser(p) PROVE UpToDate(req[q])'
  <2>1. CASE q = p
    <3>1. req[q].pc = "user" /\ UNCHANGED <<links, users, disabled>>
      BY <1>9, <2>1 DEF RereadUser, At
    <3> QED
      BY <1>1, <1>2, <1>9, <2>1, <3>1, Rereading DEF UpToDate
  <2> QED
    BY <1>3, <1>9, <2>1, Rereading DEF RereadUser
<1>10. ASSUME NEW p \in Proc, InsertSession(p) \/ StoreError(p) PROVE UpToDate(req[q])'
  BY <1>1, <1>3, <1>10, Finished DEF InsertSession, StoreError
<1>11. CASE UserChanges
  BY <1>1, <1>11, Changing
<1>12. CASE UNCHANGED <<req, links, users, disabled>>
  BY <1>3, <1>12
<1> QED
  BY <1>4, <1>5, <1>6, <1>7, <1>8, <1>9, <1>10, <1>11, <1>12 DEF Next, BeginLogin, Expires, vars

LEMMA Invariance == Spec => []IInv
<1>1. Init => IInv
  <2> SUFFICES ASSUME Init PROVE IInv
    OBVIOUS
  <2>1. \A p \in Proc : req[p] = Idle
    BY DEF Init
  <2>2. Held
    BY <2>1 DEF Held, HoldsOne, Idle
  <2>3. Vouched
    BY <2>1 DEF Init, Vouched, VouchedFor, Idle
  <2>4. LookedUp
    BY <2>1 DEF LookedUp, UpToDate, Idle
  <2> QED
    BY InitType, <2>2, <2>3, <2>4 DEF IInv
<1>2. IInv /\ [Next]_vars => IInv'
  BY TypeStep, HeldStep, VouchedStep, LookedUpStep DEF IInv
<1> QED
  BY <1>1, <1>2, PTL DEF Spec

-----------------------------------------------------------------------------
(* Links and sessions.                                                     *)

\* Every link, and every session about to be given, is to an account whose address
\* Google vouched for to that subject; unless overtaken, to the one linked, enabled.
THEOREM SessionsAlwaysVouched == Spec => []SessionsVouched
<1>1. IInv => SessionsVouched
  BY DEF IInv, Vouched, VouchedFor, LookedUp, UpToDate, SessionsVouched, At
<1> QED
  BY <1>1, Invariance, PTL

\* A step moves a subject from its account only when that is deleted, or when it
\* links on the strength of a look-up that was overtaken: one that was not had found
\* the subject without a link, and finds it so still.
THEOREM SubjectAlwaysKeeps == Spec => SubjectKeepsAccount
<1> DEFINE Keeps(s) ==
      \/ links[s] = NoUser \/ links'[s] = links[s]
      \/ users'[links[s]] = "deleted"
      \/ \E p \in Proc : At(p, "link") /\ ~req[p].fresh /\ req'[p].pc = "user"
<1>1. IInv /\ [Next]_vars => [\A s \in Subject : Keeps(s)]_vars
  <2> SUFFICES ASSUME IInv, [Next]_vars, NEW s \in Subject PROVE Keeps(s)
    OBVIOUS
  <2> USE DEF IInv
  <2>1. ASSUME NEW p \in Proc, LinkGoogleAccount(p) PROVE Keeps(s)
    <3>1. At(p, "link") /\ req'[p].pc = "user"
      BY <2>1, Linking DEF LinkGoogleAccount
    <3>2. CASE ~req[p].fresh
      BY <3>1, <3>2
    <3>3. CASE req[p].fresh
      <4>1. \A t \in req[p].token : links[t.subject] = NoUser
        BY <3>1, <3>3 DEF LookedUp, UpToDate, At
      <4> QED
        BY <2>1, <4>1 DEF LinkGoogleAccount
    <3> QED
      BY <3>2, <3>3
  <2>2. CASE UserChanges
    BY <2>2 DEF UserChanges, TypeOK
  <2>3. CASE UNCHANGED links
    BY <2>3
  <2> QED
    BY <2>1, <2>2, <2>3
    DEF Next, vars, ClaimGoogleChallenge, Exchange, UserByGoogleSubject, UserByEmail,
        RereadUser, InsertSession, StoreError, BeginLogin, Expires
<1> QED
  BY <1>1, Invariance, PTL DEF Spec, SubjectKeepsAccount

-----------------------------------------------------------------------------
(* The refinement: every state is a one-time secret.                       *)

HeldBySome(c) == \E p \in Proc : c \in req[p].state

\* The abstract secrets change with the phases.
LEMMA PhaseKept ==
    ASSUME NEW c \in State, challenges'[c] = challenges[c], HeldBySome(c)' <=> HeldBySome(c)
    PROVE  PhaseOf(c)' = PhaseOf(c)
  BY DEF PhaseOf, HeldBySome

LEMMA Stutters ==
    ASSUME \A c \in State : PhaseOf(c)' = PhaseOf(c), UNCHANGED granted
    PROVE  UNCHANGED OneTime!vars
  BY DEF OneTime!vars

\* What ends a callback spends the state it held, and no other.
LEMMA EndsWith ==
    ASSUME TypeOK, Held, NEW p \in Proc, UNCHANGED challenges,
           req'[p] = Idle, \A q \in Proc \ {p} : req'[q] = req[q]
    PROVE  \/ req[p].state = {} /\ \A c \in State : PhaseOf(c)' = PhaseOf(c)
           \/ \E c \in State : /\ req[p].state = {c}
                               /\ PhaseOf(c) = "claimed" /\ PhaseOf(c)' = "spent"
                               /\ \A d \in State \ {c} : PhaseOf(d)' = PhaseOf(d)
<1>1. \A q \in Proc : req'[q].state = IF q = p THEN {} ELSE req[q].state
  BY DEF Idle
<1>2. \A d \in State : d \notin req[p].state => (HeldBySome(d)' <=> HeldBySome(d))
  BY <1>1 DEF HeldBySome
<1>3. \A d \in State : d \notin req[p].state => PhaseOf(d)' = PhaseOf(d)
  BY <1>2, PhaseKept
<1>4. CASE req[p].state = {}
  BY <1>3, <1>4
<1>5. ASSUME NEW c \in req[p].state
      PROVE  /\ c \in State /\ req[p].state = {c}
             /\ PhaseOf(c) = "claimed" /\ PhaseOf(c)' = "spent"
             /\ \A d \in State \ {c} : PhaseOf(d)' = PhaseOf(d)
  <2>1. c \in State /\ req[p].state = {c} /\ challenges[c] = "taken"
    BY <1>5 DEF TypeOK, Request, Held, HoldsOne
  <2>2. \A q \in Proc : c \in req[q].state => q = p
    BY <1>5 DEF Held
  <2>3. ~HeldBySome(c)'
    BY <1>1, <2>2 DEF HeldBySome
  <2>4. PhaseOf(c) = "claimed"
    BY <2>1 DEF PhaseOf
  <2>5. PhaseOf(c)' = "spent"
    BY <2>1, <2>3 DEF PhaseOf, HeldBySome
  <2> QED
    BY <1>3, <2>1, <2>4, <2>5
<1> QED
  BY <1>4, <1>5

\* The phase of a secret that moves, alone.
LEMMA Moves ==
    ASSUME NEW c \in State, \A d \in State \ {c} : PhaseOf(d)' = PhaseOf(d), UNCHANGED granted
    PROVE  /\ PhaseOf(c) = "unissued" /\ PhaseOf(c)' = "open" => OneTime!Next
           /\ PhaseOf(c) = "open" /\ PhaseOf(c)' = "claimed" => OneTime!Next
           /\ PhaseOf(c) \in {"open", "claimed"} /\ PhaseOf(c)' = "spent" => OneTime!Next
  BY DEF OneTime!Next, OneTime!Issue, OneTime!Claim, OneTime!Lapse

LEMMA StepRefines == IInv /\ [Next]_vars => [OneTime!Next]_(OneTime!vars)
<1> SUFFICES ASSUME IInv, [Next]_vars PROVE OneTime!Next \/ UNCHANGED OneTime!vars
  OBVIOUS
<1> USE DEF IInv
<1>1. ASSUME NEW p \in Proc, UNCHANGED <<challenges, granted>>,
             req'[p] = Idle, \A q \in Proc \ {p} : req'[q] = req[q]
      PROVE  OneTime!Next \/ UNCHANGED OneTime!vars
  BY <1>1, EndsWith, Moves, Stutters
<1>2. ASSUME \A q \in Proc : req'[q].state = req[q].state, UNCHANGED <<challenges, granted>>
      PROVE  UNCHANGED OneTime!vars
  <2>1. \A c \in State : HeldBySome(c)' <=> HeldBySome(c)
    BY <1>2 DEF HeldBySome
  <2> QED
    BY <1>2, <2>1, PhaseKept, Stutters
<1>3. ASSUME NEW p \in Proc, ClaimGoogleChallenge(p) PROVE OneTime!Next
  <2>1. PICK c \in State :
          /\ challenges[c] = "open" /\ challenges' = [challenges EXCEPT ![c] = "taken"]
          /\ req'[p].state = {c}
          /\ \A q \in Proc \ {p} : req'[q] = req[q]
    BY <1>3, Claiming
  <2>2. req[p].state = {}
    BY <1>3 DEF Held, ClaimGoogleChallenge
  <2>3. \A d \in State \ {c} : PhaseOf(d)' = PhaseOf(d)
    <3>1. \A d \in State \ {c} : HeldBySome(d)' <=> HeldBySome(d)
      BY <2>1, <2>2 DEF HeldBySome
    <3> QED
      BY <2>1, <3>1, PhaseKept DEF TypeOK
  <2>4. PhaseOf(c) = "open"
    BY <2>1 DEF PhaseOf
  <2>5. challenges'[c] = "taken" /\ c \in req'[p].state
    BY <2>1 DEF TypeOK
  <2>6. PhaseOf(c)' = "claimed"
    BY <2>5 DEF PhaseOf
  <2> QED
    BY <1>3, <2>3, <2>4, <2>6, Moves DEF ClaimGoogleChallenge
<1>4. ASSUME NEW p \in Proc, Exchange(p) PROVE OneTime!Next \/ UNCHANGED OneTime!vars
  BY <1>1, <1>2, <1>4, Exchanging DEF Exchange
<1>5. ASSUME NEW p \in Proc, UserByGoogleSubject(p) PROVE OneTime!Next \/ UNCHANGED OneTime!vars
  BY <1>1, <1>2, <1>5, LookingUp DEF UserByGoogleSubject
<1>6. ASSUME NEW p \in Proc, UserByEmail(p) PROVE OneTime!Next \/ UNCHANGED OneTime!vars
  BY <1>1, <1>2, <1>6, Matching DEF UserByEmail
<1>7. ASSUME NEW p \in Proc, LinkGoogleAccount(p) PROVE UNCHANGED OneTime!vars
  BY <1>2, <1>7, Linking DEF LinkGoogleAccount
<1>8. ASSUME NEW p \in Proc, RereadUser(p) PROVE OneTime!Next \/ UNCHANGED OneTime!vars
  BY <1>1, <1>2, <1>8, Rereading DEF RereadUser
<1>9. ASSUME NEW p \in Proc, InsertSession(p) PROVE OneTime!Next \/ UNCHANGED OneTime!vars
  <2>1. CASE req[p].state = {} /\ \A c \in State : PhaseOf(c)' = PhaseOf(c)
    BY <1>9, <2>1, Stutters DEF InsertSession
  <2>2. ASSUME NEW c \in State, req[p].state = {c},
               PhaseOf(c) = "claimed", PhaseOf(c)' = "spent",
               \A d \in State \ {c} : PhaseOf(d)' = PhaseOf(d)
        PROVE  OneTime!Complete(c)
    <3>1. req[p].user \in User
      BY <1>9 DEF TypeOK, Request, InsertSession, At
    <3>2. granted' = granted \cup {[id |-> c, purpose |-> "google", to |-> req[p].user]}
      BY <1>9, <2>2 DEF InsertSession
    <3> QED
      BY <2>2, <3>1, <3>2 DEF OneTime!Complete
  <2> QED
    BY <1>9, <2>1, <2>2, EndsWith, Finished DEF InsertSession, OneTime!Next
<1>10. ASSUME NEW p \in Proc, StoreError(p) PROVE OneTime!Next \/ UNCHANGED OneTime!vars
  BY <1>1, <1>10, Finished DEF StoreError
<1>11. CASE BeginLogin
  <2>1. PICK c \in State :
          challenges[c] = "unissued" /\ challenges' = [challenges EXCEPT ![c] = "open"]
    BY <1>11 DEF BeginLogin
  <2>2. \A d \in State \ {c} : PhaseOf(d)' = PhaseOf(d)
    BY <1>11, <2>1, PhaseKept DEF BeginLogin, TypeOK, HeldBySome
  <2>3. PhaseOf(c) = "unissued" /\ PhaseOf(c)' = "open"
    BY <2>1 DEF PhaseOf, TypeOK
  <2> QED
    BY <1>11, <2>2, <2>3, Moves DEF BeginLogin
<1>12. CASE Expires
  <2>1. PICK c \in State :
          challenges[c] = "open" /\ challenges' = [challenges EXCEPT ![c] = "taken"]
    BY <1>12 DEF Expires
  <2>2. \A d \in State \ {c} : PhaseOf(d)' = PhaseOf(d)
    BY <1>12, <2>1, PhaseKept DEF Expires, TypeOK, HeldBySome
  <2>3. \A p \in Proc : c \notin req'[p].state
    BY <1>12, <2>1 DEF Held, Expires
  <2>4. challenges'[c] = "taken"
    BY <2>1 DEF TypeOK
  <2>5. PhaseOf(c) = "open" /\ PhaseOf(c)' = "spent"
    BY <2>1, <2>3, <2>4 DEF PhaseOf
  <2> QED
    BY <1>12, <2>2, <2>5, Moves DEF Expires
<1>13. CASE UserChanges
  BY <1>2, <1>13, Changing DEF UserChanges
<1>14. CASE UNCHANGED vars
  BY <1>2, <1>14 DEF vars
<1> QED
  BY <1>3, <1>4, <1>5, <1>6, <1>7, <1>8, <1>9, <1>10, <1>11, <1>12, <1>13, <1>14 DEF Next

\* However callbacks interleave and fail, a state is good for one of them, and what
\* it grants it grants once: Google sign-in implements OneTimeSecret.
THEOREM StatesAlwaysOneTime == Spec => StatesAreOneTime
<1>1. Init => OneTime!Init
  <2> SUFFICES ASSUME Init PROVE OneTime!Init
    OBVIOUS
  <2>1. \A c \in State : PhaseOf(c) = "unissued"
    BY DEF Init, PhaseOf
  <2> QED
    BY <2>1 DEF Init, OneTime!Init, OneTime!Secret
<1> QED
  BY <1>1, StepRefines, Invariance, PTL DEF Spec, StatesAreOneTime, OneTime!Spec

=============================================================================
