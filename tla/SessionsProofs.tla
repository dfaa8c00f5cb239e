----------------------------- MODULE SessionsProofs -----------------------------
(***************************************************************************)
(* The sessions' theorems, for any lifetime rule, any number of sessions   *)
(* and of concurrent requests, and any store call failing.                 *)
(***************************************************************************)
EXTENDS Sessions, TLAPS

-----------------------------------------------------------------------------
(* The inductive invariant.                                                *)

\* Only a session that was issued is named by a request or by the histories.
IssuedOf(r) == \A s \in r.session : sessions[s].issued

Known ==
    /\ \A p \in Proc : IssuedOf(req[p])
    /\ \A s \in current \cup out : sessions[s].issued

\* What a request is about to write would keep the windows: a sign-in's own two,
\* a touch's against what its session was granted and the role it was read for.
KeepsWindows(r) ==
    /\ r.pc = "insert" => r.idle <= r.absolute
    /\ r.pc = "touch" => \A s \in r.session : r.idle <= due[s]
    /\ r.pc \in {"insert", "touch"} /\ r.fresh => r.idle <= Lifetimes(role).idle

ToWrite == \A p \in Proc : KeepsWindows(req[p])

\* A session that logged out is revoked, or nothing is left that could extend it.
OutForGood == \A s \in out : Over(s) /\ (sessions[s].revoked \/ ~TouchUnderWay(s))

IInv == TypeOK /\ Known /\ ToWrite /\ WindowsHold /\ OutForGood

-----------------------------------------------------------------------------
(* Lifetimes and types.                                                    *)

\* sessionLifetimes never answers a ceiling below the idle window.
LEMMA LifetimesProperties ==
    ASSUME NEW r \in Role
    PROVE  /\ Lifetimes(r).idle \in Nat /\ Lifetimes(r).absolute \in Nat
           /\ Lifetimes(r).idle <= Lifetimes(r).absolute
<1>1. Rule[r].idle \in Int /\ Rule[r].absolute \in Int
  BY SessionsAssumption
<1> QED
  BY <1>1, SessionsAssumption DEF Lifetimes, Positive, AtLeast

\* Time passes to zero and never below.
LEMMA LessProperties ==
    /\ \A n \in Nat : Less(n) \in Nat /\ Less(n) <= n
    /\ \A m, n \in Nat : m <= n => Less(m) <= Less(n)
    /\ Less(0) = 0
  BY DEF Less

LEMMA IdleType == Idle \in Request
  BY DEF Idle, Request

\* What a step starts from the idle request is a request.
LEMMA BegunType ==
    ASSUME NEW ss \in SUBSET Session, NEW i \in Nat, NEW a \in Nat
    PROVE  /\ [Idle EXCEPT !.pc = "insert", !.idle = i, !.absolute = a] \in Request
           /\ [Idle EXCEPT !.pc = "touch", !.session = ss, !.idle = i] \in Request
           /\ [Idle EXCEPT !.pc = "revoke", !.session = ss] \in Request
  BY DEF Idle, Request

LEMMA BeginType ==
    ASSUME TypeOK, NEW p \in Proc, NEW r \in Request, Begin(p, r)
    PROVE  req' \in [Proc -> Request]
<1>1. [r EXCEPT !.fresh = TRUE] \in Request
  BY DEF Request
<1> QED
  BY <1>1 DEF Begin, TypeOK

\* The type invariant.
LEMMA TypeStep == TypeOK /\ [Next]_vars => TypeOK'
<1> SUFFICES ASSUME TypeOK, [Next]_vars PROVE TypeOK'
  OBVIOUS
<1> USE DEF TypeOK
<1>1. ASSUME NEW p \in Proc, SignIn(p) PROVE TypeOK'
  <2>1. req' \in [Proc -> Request]
    BY <1>1, BegunType, BeginType, LifetimesProperties DEF SignIn
  <2> QED
    BY <1>1, <2>1 DEF SignIn
<1>2. ASSUME NEW p \in Proc, InsertSession(p) PROVE TypeOK'
  <2>1. req[p].idle \in Nat /\ req[p].absolute \in Nat
    BY DEF Request
  <2> QED
    BY <1>2, <2>1, IdleType DEF InsertSession, Finish, Row
<1>3. ASSUME NEW p \in Proc, LookUp(p) PROVE TypeOK'
  <2>1. PICK s \in Session :
          /\ Begin(p, [Idle EXCEPT !.pc = "touch", !.session = {s}, !.idle = TouchWindow(role)])
          /\ due' = [due EXCEPT ![s] = AtLeast(due[s], Lifetimes(role).idle)]
    BY <1>3 DEF LookUp
  <2>2. req' \in [Proc -> Request]
    <3>1. [Idle EXCEPT !.pc = "touch", !.session = {s}, !.idle = Lifetimes(role).idle] \in Request
      BY BegunType, LifetimesProperties
    <3> QED
      BY <2>1, <3>1, BeginType DEF TouchWindow
  <2>3. due' \in [Session -> Nat]
    BY <2>1, LifetimesProperties DEF AtLeast
  <2> QED
    BY <1>3, <2>2, <2>3 DEF LookUp
<1>4. ASSUME NEW p \in Proc, TouchSession(p) PROVE TypeOK'
  <2>1. req[p].idle \in Nat /\ req[p].session \subseteq Session
    BY DEF Request
  <2>2. \A s \in Session : Touched(sessions[s], req[p]) \in Row
    BY <2>1 DEF Touched, AtMost, Row
  <2>3. sessions' \in [Session -> Row] /\ current' \subseteq Session
    BY <1>4, <2>1, <2>2 DEF TouchSession
  <2> QED
    BY <1>4, <2>3, IdleType DEF TouchSession, Finish
<1>5. ASSUME NEW p \in Proc, Logout(p) PROVE TypeOK'
  <2>1. req' \in [Proc -> Request]
    BY <1>5, BegunType, BeginType DEF Logout
  <2> QED
    BY <1>5, <2>1 DEF Logout
<1>6. ASSUME NEW p \in Proc, RevokeSession(p) PROVE TypeOK'
  <2>1. req[p].session \subseteq Session
    BY DEF Request
  <2>2. sessions' \in [Session -> Row]
    <3>1. \A s \in Session : [sessions[s] EXCEPT !.revoked = TRUE] \in Row
      BY DEF Row
    <3> QED
      BY <1>6, <3>1 DEF RevokeSession
  <2> QED
    BY <1>6, <2>1, <2>2, IdleType DEF RevokeSession, Finish
<1>7. ASSUME NEW p \in Proc, StoreError(p) PROVE TypeOK'
  BY <1>7, IdleType DEF StoreError, Finish
<1>8. CASE RevokeSessionsByUser
  BY <1>8 DEF RevokeSessionsByUser, Row
<1>9. CASE SetRole
  BY <1>9 DEF SetRole, Request
<1>10. CASE Suspended
  BY <1>10 DEF Suspended
<1>11. CASE Tick
  <2>1. \A s \in Session :
          [sessions[s] EXCEPT !.idle = Less(@), !.absolute = Less(@)] \in Row
    BY LessProperties DEF Row
  <2>2. \A p \in Proc : [req[p] EXCEPT !.idle = Less(@), !.absolute = Less(@)] \in Request
    BY LessProperties DEF Request
  <2>3. \A s \in Session : Less(due[s]) \in Nat
    BY LessProperties
  <2> QED
    BY <1>11, <2>1, <2>2, <2>3 DEF Tick
<1>12. CASE UNCHANGED vars
  BY <1>12 DEF vars
<1> QED
  BY <1>1, <1>2, <1>3, <1>4, <1>5, <1>6, <1>7, <1>8, <1>9, <1>10, <1>11, <1>12 DEF Next

LEMMA InitType == Init => TypeOK
<1> SUFFICES ASSUME Init PROVE TypeOK
  OBVIOUS
<1>1. NoRow \in Row
  BY DEF NoRow, Row
<1>2. disabled \in BOOLEAN
  BY DEF Init
<1>3. due \in [Session -> Nat]
  BY DEF Init
<1> QED
  BY <1>1, <1>2, <1>3, IdleType DEF Init, TypeOK

\* The state is always of its types.
THEOREM TypeCorrect == Spec => []TypeOK
  BY InitType, TypeStep, PTL DEF Spec

-----------------------------------------------------------------------------
(* What each step does to the rows and to the requests.                    *)

\* A row that was issued stays issued, and one that was revoked stays revoked.
Kept(s) ==
    /\ sessions'[s].issued = sessions[s].issued
    /\ sessions[s].revoked => sessions'[s].revoked

LEMMA RowsKept ==
    ASSUME TypeOK, [Next]_vars, NEW s \in Session, sessions[s].issued
    PROVE  Kept(s)
<1> USE DEF TypeOK, Kept
<1>1. ASSUME NEW p \in Proc, InsertSession(p) PROVE Kept(s)
  BY <1>1 DEF InsertSession
<1>2. ASSUME NEW p \in Proc, TouchSession(p) PROVE Kept(s)
  <2>1. req[p].session \subseteq Session
    BY DEF Request
  <2>2. \A t \in Session : /\ Touched(sessions[t], req[p]).issued = sessions[t].issued
                           /\ Touched(sessions[t], req[p]).revoked = sessions[t].revoked
    BY DEF Touched, Row
  <2> QED
    BY <1>2, <2>1, <2>2 DEF TouchSession
<1>3. ASSUME NEW p \in Proc, RevokeSession(p) PROVE Kept(s)
  BY <1>3 DEF RevokeSession, Row
<1>4. CASE RevokeSessionsByUser
  BY <1>4 DEF RevokeSessionsByUser, Row
<1>5. CASE Tick
  BY <1>5 DEF Tick, Row
<1>6. CASE UNCHANGED sessions
  BY <1>6
<1> QED
  BY <1>1, <1>2, <1>3, <1>4, <1>5, <1>6
  DEF Next, vars, SignIn, LookUp, Logout, StoreError, SetRole, Suspended

\* A finished request names no session; a begun one is what it was begun as.
LEMMA Finished ==
    ASSUME TypeOK, NEW p \in Proc, Finish(p), NEW q \in Proc
    PROVE  req'[q] = IF q = p THEN Idle ELSE req[q]
  BY DEF TypeOK, Finish

LEMMA SignInBegins ==
    ASSUME TypeOK, NEW p \in Proc, SignIn(p)
    PROVE  /\ \A q \in Proc \ {p} : req'[q] = req[q]
           /\ req'[p].pc = "insert" /\ req'[p].session = {}
           /\ req'[p].idle = Lifetimes(role).idle
           /\ req'[p].absolute = Lifetimes(role).absolute
  BY DEF TypeOK, SignIn, Begin, Idle

LEMMA LookUpBegins ==
    ASSUME TypeOK, NEW p \in Proc, LookUp(p)
    PROVE  /\ \A q \in Proc \ {p} : req'[q] = req[q]
           /\ \E s \in Session :
                /\ Found(s)
                /\ due' = [due EXCEPT ![s] = AtLeast(due[s], Lifetimes(role).idle)]
                /\ req'[p].pc = "touch" /\ req'[p].session = {s}
                /\ req'[p].idle = Lifetimes(role).idle
<1>1. PICK s \in Session :
        /\ Found(s)
        /\ Begin(p, [Idle EXCEPT !.pc = "touch", !.session = {s}, !.idle = TouchWindow(role)])
        /\ due' = [due EXCEPT ![s] = AtLeast(due[s], Lifetimes(role).idle)]
  BY DEF LookUp
<1>2. /\ req'[p].pc = "touch" /\ req'[p].session = {s}
      /\ req'[p].idle = Lifetimes(role).idle
  BY <1>1 DEF TypeOK, Begin, Idle, TouchWindow
<1>3. \A q \in Proc \ {p} : req'[q] = req[q]
  BY <1>1 DEF TypeOK, Begin
<1> QED
  BY <1>1, <1>2, <1>3

LEMMA LogoutBegins ==
    ASSUME TypeOK, NEW p \in Proc, Logout(p)
    PROVE  /\ \A q \in Proc \ {p} : req'[q] = req[q]
           /\ \E s \in Session :
                /\ sessions[s].issued
                /\ \/ UNCHANGED out /\ req'[p].pc = "revoke" /\ req'[p].session = {s}
                   \/ /\ ~Found(s)
                      /\ out' = IF disabled \/ TouchUnderWay(s) THEN out ELSE out \cup {s}
                      /\ UNCHANGED req
<1>1. ASSUME NEW s \in Session,
             Begin(p, [Idle EXCEPT !.pc = "revoke", !.session = {s}])
      PROVE  /\ \A q \in Proc \ {p} : req'[q] = req[q]
             /\ req'[p].pc = "revoke" /\ req'[p].session = {s}
  BY <1>1 DEF TypeOK, Begin, Idle
<1> QED
  BY <1>1 DEF Logout

\* A touch comes under way only of a session that was found.
LEMMA TouchesFound ==
    ASSUME TypeOK, [Next]_vars, NEW s \in Session, TouchUnderWay(s)'
    PROVE  TouchUnderWay(s) \/ Found(s)
<1>1. PICK q \in Proc : req'[q].pc = "touch" /\ s \in req'[q].session
  BY DEF TouchUnderWay, At
<1>2. ASSUME req[q].pc = req'[q].pc, req[q].session = req'[q].session PROVE TouchUnderWay(s)
  BY <1>1, <1>2 DEF TouchUnderWay, At
<1>3. ASSUME NEW p \in Proc, Finish(p) PROVE TouchUnderWay(s)
  BY <1>1, <1>2, <1>3, Finished DEF Idle
<1>4. ASSUME NEW p \in Proc, SignIn(p) PROVE TouchUnderWay(s)
  <2>1. q # p
    BY <1>1, <1>4, SignInBegins
  <2> QED
    BY <1>2, <1>4, <2>1, SignInBegins
<1>5. ASSUME NEW p \in Proc, LookUp(p) PROVE TouchUnderWay(s) \/ Found(s)
  <2>1. CASE q = p
    BY <1>1, <1>5, <2>1, LookUpBegins
  <2>2. CASE q # p
    BY <1>2, <1>5, <2>2, LookUpBegins
  <2> QED
    BY <2>1, <2>2
<1>6. ASSUME NEW p \in Proc, Logout(p) PROVE TouchUnderWay(s)
  <2>1. CASE UNCHANGED req
    BY <1>2, <2>1
  <2>2. CASE req'[q] = req[q]
    BY <1>2, <2>2
  <2> QED
    BY <1>1, <1>6, <2>1, <2>2, LogoutBegins
<1>7. CASE SetRole \/ Tick
  <2>1. req[q].pc = req'[q].pc /\ req[q].session = req'[q].session
    BY <1>7 DEF SetRole, Tick, TypeOK, Request
  <2> QED
    BY <1>2, <2>1
<1>8. CASE UNCHANGED req
  BY <1>2, <1>8
<1> QED
  BY <1>3, <1>4, <1>5, <1>6, <1>7, <1>8
  DEF Next, vars, InsertSession, TouchSession, RevokeSession, StoreError,
      RevokeSessionsByUser, Suspended

-----------------------------------------------------------------------------
(* The parts of the invariant, one after the other.                        *)

\* A session that is over stays over: no step but an insert or a touch gives a
\* row time, an insert takes an id never issued, and no touch is under way.
LEMMA OverStays ==
    ASSUME TypeOK, [Next]_vars, NEW s \in Session, Over(s),
           sessions[s].revoked \/ ~TouchUnderWay(s)
    PROVE  Over(s)'
<1> USE DEF TypeOK, Over
<1>1. Kept(s)
  BY RowsKept
<1>2. CASE sessions[s].revoked
  BY <1>1, <1>2 DEF Kept
<1>3. ASSUME sessions'[s].idle = 0 \/ sessions'[s].absolute = 0 PROVE Over(s)'
  BY <1>1, <1>3 DEF Kept
<1>4. ASSUME ~sessions[s].revoked, NEW p \in Proc, InsertSession(p) PROVE Over(s)'
  BY <1>4 DEF InsertSession
<1>5. ASSUME ~sessions[s].revoked, NEW p \in Proc, TouchSession(p) PROVE Over(s)'
  <2>1. s \notin req[p].session
    BY <1>5 DEF TouchSession, TouchUnderWay
  <2>2. sessions'[s] = sessions[s]
    BY <1>5, <2>1 DEF TouchSession
  <2> QED
    BY <2>2
<1>6. ASSUME NEW p \in Proc, RevokeSession(p) PROVE Over(s)'
  <2>1. sessions'[s] = sessions[s] \/ sessions'[s] = [sessions[s] EXCEPT !.revoked = TRUE]
    BY <1>6 DEF RevokeSession
  <2> QED
    BY <2>1 DEF Row
<1>7. CASE RevokeSessionsByUser
  BY <1>7 DEF RevokeSessionsByUser, Row
<1>8. CASE Tick
  <2>1. sessions'[s].idle = Less(sessions[s].idle) /\ sessions'[s].absolute = Less(sessions[s].absolute)
    BY <1>8 DEF Tick, Row
  <2> QED
    BY <1>2, <1>3, <2>1, LessProperties
<1>9. CASE UNCHANGED sessions
  BY <1>9
<1> QED
  BY <1>2, <1>4, <1>5, <1>6, <1>7, <1>8, <1>9
  DEF Next, vars, SignIn, LookUp, Logout, StoreError, SetRole, Suspended

LEMMA KnownStep == TypeOK /\ Known /\ [Next]_vars => Known'
<1> SUFFICES ASSUME TypeOK, Known, [Next]_vars PROVE Known'
  OBVIOUS
<1> USE DEF TypeOK, Known, IssuedOf
<1>1. \A s \in Session : sessions[s].issued => sessions'[s].issued
  BY RowsKept DEF Kept
<1>2. \A p \in Proc : req[p].session \subseteq Session
  BY DEF Request
<1>3. \A p \in Proc : (\A s \in req[p].session : sessions'[s].issued)
  BY <1>1, <1>2
<1>4. \A s \in current \cup out : sessions'[s].issued
  BY <1>1
<1>5. ASSUME NEW p \in Proc, SignIn(p) PROVE Known'
  BY <1>3, <1>4, <1>5, SignInBegins DEF SignIn
<1>6. ASSUME NEW p \in Proc, InsertSession(p) PROVE Known'
  <2>1. \A q \in Proc : req'[q] = IF q = p THEN Idle ELSE req[q]
    BY <1>6, Finished DEF InsertSession
  <2>2. \A s \in current' : sessions'[s].issued
    BY <1>4, <1>6 DEF InsertSession
  <2> QED
    BY <1>3, <1>4, <1>6, <2>1, <2>2 DEF InsertSession, Idle
<1>7. ASSUME NEW p \in Proc, LookUp(p) PROVE Known'
  <2>1. \A t \in req'[p].session : sessions'[t].issued
    BY <1>1, <1>7, LookUpBegins DEF Found
  <2>2. \A q \in Proc \ {p} : req'[q] = req[q]
    BY <1>7, LookUpBegins
  <2> QED
    BY <1>3, <1>4, <1>7, <2>1, <2>2 DEF LookUp
<1>8. ASSUME NEW p \in Proc, TouchSession(p) PROVE Known'
  <2>1. \A q \in Proc : req'[q] = IF q = p THEN Idle ELSE req[q]
    BY <1>8, Finished DEF TouchSession
  <2>2. \A s \in current' : sessions'[s].issued
    BY <1>3, <1>4, <1>8 DEF TouchSession
  <2> QED
    BY <1>3, <1>4, <1>8, <2>1, <2>2 DEF TouchSession, Idle
<1>9. ASSUME NEW p \in Proc, Logout(p) PROVE Known'
  BY <1>1, <1>3, <1>4, <1>9, LogoutBegins DEF Logout
<1>10. ASSUME NEW p \in Proc, RevokeSession(p) PROVE Known'
  <2>1. \A q \in Proc : req'[q] = IF q = p THEN Idle ELSE req[q]
    BY <1>10, Finished DEF RevokeSession
  <2> QED
    BY <1>3, <1>4, <1>10, <2>1 DEF RevokeSession, Idle
<1>11. ASSUME NEW p \in Proc, StoreError(p) PROVE Known'
  <2>1. \A q \in Proc : req'[q] = IF q = p THEN Idle ELSE req[q]
    BY <1>11, Finished DEF StoreError
  <2> QED
    BY <1>3, <1>4, <1>11, <2>1 DEF StoreError, Idle
<1>12. CASE SetRole \/ Tick
  <2>1. \A q \in Proc : req'[q].session = req[q].session
    <3>1. CASE SetRole
      BY <3>1 DEF SetRole, Request
    <3>2. CASE Tick
      BY <3>2 DEF Tick, Request
    <3> QED
      BY <1>12, <3>1, <3>2
  <2>2. current' \subseteq current /\ out' = out
    BY <1>12 DEF SetRole, Tick
  <2> QED
    BY <1>3, <1>4, <2>1, <2>2
<1>13. CASE UNCHANGED <<req, current, out>>
  BY <1>3, <1>4, <1>13
<1> QED
  BY <1>5, <1>6, <1>7, <1>8, <1>9, <1>10, <1>11, <1>12, <1>13
  DEF Next, vars, RevokeSessionsByUser, Suspended

\* A request that is left alone keeps the windows while its session's grant does
\* not shrink and the role is the same.
LEMMA LeftAlone ==
    ASSUME TypeOK, TypeOK', NEW q \in Proc, KeepsWindows(req[q]),
           req'[q] = req[q], role' = role,
           \A s \in req[q].session : due[s] <= due'[s]
    PROVE  KeepsWindows(req[q])'
<1>1. /\ req[q].session \subseteq Session
      /\ req[q].idle \in Nat
      /\ \A s \in Session : due[s] \in Nat /\ due'[s] \in Nat
  BY DEF TypeOK, Request
<1>2. ASSUME req[q].pc = "touch", NEW s \in req[q].session PROVE req[q].idle <= due'[s]
  BY <1>1, <1>2 DEF KeepsWindows
<1> QED
  BY <1>2 DEF KeepsWindows, Lifetimes

LEMMA ToWriteStep == TypeOK /\ Known /\ ToWrite /\ [Next]_vars => ToWrite'
<1> SUFFICES ASSUME TypeOK, Known, ToWrite, [Next]_vars, NEW q \in Proc
             PROVE  KeepsWindows(req[q])'
  BY DEF ToWrite
<1>1. TypeOK'
  BY TypeStep
<1>2. /\ req[q].session \subseteq Session
      /\ req[q].idle \in Nat /\ req[q].absolute \in Nat
      /\ \A s \in Session : due[s] \in Nat
  BY DEF TypeOK, Request
<1>3. KeepsWindows(req[q])
  BY DEF ToWrite
<1>4. ASSUME req'[q] = req[q], role' = role, due' = due PROVE KeepsWindows(req[q])'
  BY <1>1, <1>2, <1>3, <1>4, LeftAlone
<1>5. ASSUME req'[q] = Idle PROVE KeepsWindows(req[q])'
  BY <1>5 DEF KeepsWindows, Idle
<1>6. ASSUME NEW p \in Proc, SignIn(p) PROVE KeepsWindows(req[q])'
  <2>1. role' = role /\ due' = due
    BY <1>6 DEF SignIn
  <2>2. CASE q = p
    BY <1>6, <2>1, <2>2, SignInBegins, LifetimesProperties DEF KeepsWindows, TypeOK
  <2>3. CASE q # p
    BY <1>4, <1>6, <2>1, <2>3, SignInBegins
  <2> QED
    BY <2>2, <2>3
<1>7. ASSUME NEW p \in Proc, InsertSession(p) PROVE KeepsWindows(req[q])'
  <2>1. CASE q = p
    BY <1>5, <1>7, <2>1, Finished DEF InsertSession
  <2>2. CASE q # p
    <3>1. req'[q] = req[q] /\ role' = role
      BY <1>7, <2>2, Finished DEF InsertSession
    <3>2. ASSUME NEW s \in req[q].session PROVE due'[s] = due[s]
      BY <1>2, <1>7, <3>2 DEF InsertSession, Known, IssuedOf, TypeOK
    <3> QED
      BY <1>1, <1>2, <1>3, <3>1, <3>2, LeftAlone
  <2> QED
    BY <2>1, <2>2
<1>8. ASSUME NEW p \in Proc, LookUp(p) PROVE KeepsWindows(req[q])'
  <2>1. PICK s \in Session :
          /\ due' = [due EXCEPT ![s] = AtLeast(due[s], Lifetimes(role).idle)]
          /\ req'[p].pc = "touch" /\ req'[p].session = {s}
          /\ req'[p].idle = Lifetimes(role).idle
    BY <1>8, LookUpBegins
  <2>2. role' = role /\ Lifetimes(role).idle \in Nat
    BY <1>8, LifetimesProperties DEF LookUp, TypeOK
  <2>3. \A t \in Session : due[t] <= due'[t]
    BY <1>2, <2>1, <2>2 DEF TypeOK, AtLeast
  <2>4. due'[s] >= Lifetimes(role).idle
    BY <1>2, <2>1, <2>2 DEF TypeOK, AtLeast
  <2>5. CASE q = p
    BY <2>1, <2>2, <2>4, <2>5 DEF KeepsWindows
  <2>6. CASE q # p
    <3>1. req'[q] = req[q]
      BY <1>8, <2>6, LookUpBegins
    <3> QED
      BY <1>1, <1>2, <1>3, <2>2, <2>3, <3>1, LeftAlone
  <2> QED
    BY <2>5, <2>6
<1>9. ASSUME NEW p \in Proc, Logout(p) PROVE KeepsWindows(req[q])'
  <2>1. role' = role /\ due' = due
    BY <1>9 DEF Logout
  <2>2. CASE req'[q] = req[q]
    BY <1>4, <2>1, <2>2
  <2>3. CASE req'[q].pc = "revoke"
    BY <2>3 DEF KeepsWindows
  <2> QED
    BY <1>9, <2>2, <2>3, LogoutBegins
<1>10. ASSUME NEW p \in Proc, TouchSession(p) \/ RevokeSession(p) \/ StoreError(p)
       PROVE  KeepsWindows(req[q])'
  <2>1. Finish(p) /\ role' = role /\ due' = due
    BY <1>10 DEF TouchSession, RevokeSession, StoreError
  <2> QED
    BY <1>4, <1>5, <2>1, Finished
<1>11. CASE SetRole
  <2>1. req'[q].pc = req[q].pc /\ req'[q].session = req[q].session
        /\ req'[q].idle = req[q].idle /\ req'[q].absolute = req[q].absolute
        /\ req'[q].fresh = FALSE
    BY <1>11 DEF SetRole, TypeOK, Request
  <2> QED
    BY <1>3, <1>11, <2>1 DEF SetRole, KeepsWindows
<1>12. CASE Tick
  <2>1. /\ req'[q].pc = req[q].pc /\ req'[q].session = req[q].session
        /\ req'[q].fresh = req[q].fresh
        /\ req'[q].idle = Less(req[q].idle) /\ req'[q].absolute = Less(req[q].absolute)
    BY <1>12 DEF Tick, TypeOK, Request
  <2>2. role' = role /\ \A s \in Session : due'[s] = Less(due[s])
    BY <1>12 DEF Tick, TypeOK
  <2>3. Lifetimes(role).idle \in Nat
    BY LifetimesProperties DEF TypeOK
  <2>4. req[q].pc = "insert" => req'[q].idle <= req'[q].absolute
    BY <1>2, <1>3, <2>1, LessProperties DEF KeepsWindows
  <2>5. ASSUME req[q].pc = "touch", NEW s \in req[q].session PROVE req'[q].idle <= due'[s]
    BY <1>2, <1>3, <2>1, <2>2, <2>5, LessProperties DEF KeepsWindows
  <2>6. Less(req[q].idle) \in Nat /\ Less(req[q].idle) <= req[q].idle
    BY <1>2, LessProperties
  <2>7. ASSUME req[q].pc \in {"insert", "touch"}, req[q].fresh
        PROVE  req'[q].idle <= Lifetimes(role).idle
    BY <1>2, <1>3, <2>1, <2>3, <2>6, <2>7 DEF KeepsWindows
  <2> QED
    BY <2>1, <2>2, <2>4, <2>5, <2>7 DEF KeepsWindows
<1>13. CASE UNCHANGED <<req, role, due>>
  BY <1>4, <1>13
<1> QED
  BY <1>6, <1>7, <1>8, <1>9, <1>10, <1>11, <1>12, <1>13
  DEF Next, vars, RevokeSessionsByUser, Suspended

LEMMA WindowsStep ==
    TypeOK /\ Known /\ ToWrite /\ WindowsHold /\ [Next]_vars => WindowsHold'
<1> SUFFICES ASSUME TypeOK, Known, ToWrite, WindowsHold, [Next]_vars
             PROVE  WindowsHold'
  OBVIOUS
<1> DEFINE Holds(s) == /\ sessions[s].idle <= sessions[s].absolute
                       /\ sessions[s].idle <= due[s]
                       /\ s \in current => sessions[s].idle <= Lifetimes(role).idle
<1>1. \A s \in Session : Holds(s)
  BY DEF WindowsHold, WithinCeiling, Granted, RoleTakesEffect
<1>2. current' \subseteq Session
  BY TypeStep DEF TypeOK
<1>3. SUFFICES ASSUME NEW s \in Session PROVE Holds(s)'
  BY <1>2 DEF WindowsHold, WithinCeiling, Granted, RoleTakesEffect
<1>4. /\ sessions[s].idle \in Nat /\ sessions[s].absolute \in Nat /\ due[s] \in Nat
      /\ Lifetimes(role).idle \in Nat
  BY LifetimesProperties DEF TypeOK, Row
<1>5. ASSUME sessions'[s].idle = sessions[s].idle, sessions'[s].absolute = sessions[s].absolute,
             due'[s] = due[s], role' = role, s \in current' => s \in current
      PROVE  Holds(s)'
  BY <1>1, <1>5 DEF Lifetimes
<1>6. ASSUME NEW p \in Proc, InsertSession(p) PROVE Holds(s)'
  <2>1. CASE sessions'[s] = sessions[s] /\ due'[s] = due[s] /\ (s \in current' => s \in current)
    BY <1>5, <1>6, <2>1 DEF InsertSession
  <2>2. CASE /\ sessions'[s].idle = req[p].idle /\ sessions'[s].absolute = req[p].absolute
             /\ due'[s] = req[p].idle /\ ~sessions[s].issued
             /\ req[p].fresh \/ current' = current
    <3>1. req[p].idle \in Nat /\ role' = role /\ req[p].pc = "insert"
      BY <1>6 DEF InsertSession, TypeOK, Request, At
    <3>2. req[p].idle <= req[p].absolute /\ (req[p].fresh => req[p].idle <= Lifetimes(role).idle)
      BY <3>1 DEF ToWrite, KeepsWindows
    <3>3. s \notin current
      BY <2>2 DEF Known
    <3> QED
      BY <2>2, <3>1, <3>2, <3>3
  <2> QED
    BY <1>6, <2>1, <2>2 DEF InsertSession, TypeOK
<1>7. ASSUME NEW p \in Proc, LookUp(p) PROVE Holds(s)'
  <2>1. UNCHANGED <<sessions, role, current>>
    BY <1>7 DEF LookUp
  <2>2. due'[s] \in Nat /\ due[s] <= due'[s]
    BY <1>4, <1>7, LookUpBegins DEF TypeOK, AtLeast
  <2> QED
    BY <1>1, <1>4, <2>1, <2>2 DEF Lifetimes
<1>8. ASSUME NEW p \in Proc, TouchSession(p) PROVE Holds(s)'
  <2>1. CASE sessions'[s] = sessions[s] /\ (s \in current' => s \in current)
    BY <1>5, <1>8, <2>1 DEF TouchSession
  <2>2. CASE /\ s \in req[p].session /\ sessions'[s] = Touched(sessions[s], req[p])
             /\ req[p].fresh \/ s \notin current'
    <3>1. /\ req[p].pc = "touch" /\ req[p].idle \in Nat
          /\ role' = role /\ due' = due
      BY <1>8 DEF TouchSession, TypeOK, Request, At
    <3>2. req[p].idle <= due[s] /\ (req[p].fresh => req[p].idle <= Lifetimes(role).idle)
      BY <2>2, <3>1 DEF ToWrite, KeepsWindows
    <3>3. /\ sessions'[s].idle = AtMost(req[p].idle, sessions[s].absolute)
          /\ sessions'[s].absolute = sessions[s].absolute
      BY <2>2 DEF Touched, TypeOK, Row
    <3>4. /\ sessions'[s].idle <= sessions[s].absolute /\ sessions'[s].idle <= req[p].idle
          /\ sessions'[s].idle \in Nat
      BY <1>4, <3>1, <3>3 DEF AtMost
    <3>5. sessions'[s].idle <= due'[s]
      BY <1>4, <3>1, <3>2, <3>4
    <3>6. s \in current' => sessions'[s].idle <= Lifetimes(role).idle
      BY <1>4, <2>2, <3>1, <3>2, <3>4
    <3> QED
      BY <3>1, <3>3, <3>4, <3>5, <3>6 DEF Lifetimes
  <2>3. req[p].session \subseteq Session
    BY DEF TypeOK, Request
  <2> QED
    BY <1>8, <2>1, <2>2, <2>3 DEF TouchSession, TypeOK
<1>9. ASSUME NEW p \in Proc, RevokeSession(p) PROVE Holds(s)'
  <2>1. sessions'[s].idle = sessions[s].idle /\ sessions'[s].absolute = sessions[s].absolute
    BY <1>9 DEF RevokeSession, TypeOK, Row
  <2> QED
    BY <1>5, <1>9, <2>1 DEF RevokeSession
<1>10. CASE RevokeSessionsByUser
  <2>1. sessions'[s].idle = sessions[s].idle /\ sessions'[s].absolute = sessions[s].absolute
    BY <1>10 DEF RevokeSessionsByUser, TypeOK, Row
  <2> QED
    BY <1>5, <1>10, <2>1 DEF RevokeSessionsByUser
<1>11. CASE SetRole
  BY <1>1, <1>11 DEF SetRole
<1>12. CASE Tick
  <2>1. /\ sessions'[s].idle = Less(sessions[s].idle)
        /\ sessions'[s].absolute = Less(sessions[s].absolute)
        /\ due'[s] = Less(due[s])
    BY <1>12 DEF Tick, TypeOK, Row
  <2>2. role' = role /\ current' = current
    BY <1>12 DEF Tick
  <2>3. Less(sessions[s].idle) \in Nat /\ Less(sessions[s].idle) <= sessions[s].idle
    BY <1>4, LessProperties
  <2> QED
    BY <1>1, <1>4, <2>1, <2>2, <2>3, LessProperties DEF Lifetimes
<1>13. CASE UNCHANGED <<sessions, role, due, current>>
  BY <1>5, <1>13
<1> QED
  BY <1>6, <1>7, <1>8, <1>9, <1>10, <1>11, <1>12, <1>13
  DEF Next, vars, SignIn, Logout, StoreError, Suspended

LEMMA OutStep == TypeOK /\ Known /\ OutForGood /\ [Next]_vars => OutForGood'
<1> SUFFICES ASSUME TypeOK, Known, OutForGood, [Next]_vars, NEW s \in out'
             PROVE  Over(s)' /\ (sessions[s].revoked \/ ~TouchUnderWay(s))'
  BY DEF OutForGood
<1>1. s \in Session
  BY TypeStep DEF TypeOK
<1>2. ASSUME s \in out PROVE Over(s)' /\ (sessions[s].revoked \/ ~TouchUnderWay(s))'
  <2>1. Over(s) /\ (sessions[s].revoked \/ ~TouchUnderWay(s)) /\ Kept(s)
    BY <1>1, <1>2, RowsKept DEF OutForGood, Over
  <2>2. Over(s)'
    BY <1>1, <2>1, OverStays
  <2>3. CASE sessions[s].revoked
    BY <2>1, <2>2, <2>3 DEF Kept
  <2>4. CASE ~TouchUnderWay(s)
    BY <1>1, <2>1, <2>2, <2>4, TouchesFound DEF Found
  <2> QED
    BY <2>1, <2>3, <2>4
<1>3. ASSUME s \notin out, NEW p \in Proc, Logout(p)
      PROVE  Over(s)' /\ (sessions[s].revoked \/ ~TouchUnderWay(s))'
  <2>1. /\ sessions[s].issued /\ ~Found(s) /\ ~disabled /\ ~TouchUnderWay(s)
        /\ UNCHANGED <<sessions, req>>
    BY <1>3, LogoutBegins DEF Logout
  <2> QED
    BY <2>1 DEF Found, Over, TouchUnderWay, At
<1>4. ASSUME s \notin out, NEW p \in Proc, RevokeSession(p)
      PROVE  Over(s)' /\ sessions'[s].revoked
  <2>1. s \in req[p].session /\ sessions[s].issued
    BY <1>3, <1>4 DEF RevokeSession, Known, IssuedOf
  <2>2. sessions'[s] = [sessions[s] EXCEPT !.revoked = TRUE]
    BY <1>1, <1>4, <2>1 DEF RevokeSession
  <2> QED
    BY <1>1, <2>1, <2>2 DEF TypeOK, Row, Over
<1>5. out' = out \/ \E p \in Proc : Logout(p) \/ RevokeSession(p)
  BY DEF Next, vars, SignIn, InsertSession, LookUp, TouchSession, StoreError,
         RevokeSessionsByUser, SetRole, Suspended, Tick
<1> QED
  BY <1>2, <1>3, <1>4, <1>5

-----------------------------------------------------------------------------
(* The theorems.                                                           *)

LEMMA Invariance == Spec => []IInv
<1>1. Init => IInv
  <2> SUFFICES ASSUME Init PROVE IInv
    OBVIOUS
  <2>1. TypeOK
    BY InitType
  <2>2. \A p \in Proc : req[p].session = {} /\ req[p].pc = "idle"
    BY DEF Init, Idle
  <2>3. Known /\ ToWrite /\ OutForGood
    BY <2>2 DEF Init, Known, IssuedOf, ToWrite, KeepsWindows, OutForGood
  <2>4. WindowsHold
    BY DEF Init, NoRow, WindowsHold, WithinCeiling, Granted, RoleTakesEffect
  <2> QED
    BY <2>1, <2>3, <2>4 DEF IInv
<1>2. IInv /\ [Next]_vars => IInv'
  BY TypeStep, KnownStep, ToWriteStep, WindowsStep, OutStep DEF IInv
<1> QED
  BY <1>1, <1>2, PTL DEF Spec

\* The idle window never reaches past the ceiling, past what a request was
\* granted, or, when last written for the role the account has, past its window.
THEOREM WindowsAlwaysHold == Spec => []WindowsHold
<1>1. IInv => WindowsHold
  BY DEF IInv
<1> QED
  BY <1>1, Invariance, PTL

\* A session Logout has answered for never works again.
THEOREM LogoutAlwaysFinal == Spec => []LogoutIsFinal
<1>1. IInv => LogoutIsFinal
  BY DEF IInv, OutForGood, LogoutIsFinal
<1> QED
  BY <1>1, Invariance, PTL

\* A session that ended, with no touch of it under way, never comes back: a step
\* can neither give it time nor find it.
THEOREM EndedForGood == Spec => OverForGood
<1>1. TypeOK /\ [Next]_vars => [\A s \in Session : Ended(s) => Ended(s)']_vars
  <2> SUFFICES ASSUME TypeOK, [Next]_vars, NEW s \in Session, Ended(s) PROVE Ended(s)'
    OBVIOUS
  <2>1. Over(s) /\ ~TouchUnderWay(s)
    BY DEF Ended
  <2>2. Over(s)'
    BY <2>1, OverStays
  <2>3. ~TouchUnderWay(s)'
    BY <2>1, TouchesFound DEF Found
  <2> QED
    BY <2>2, <2>3 DEF Ended
<1> QED
  BY <1>1, TypeCorrect, PTL DEF Spec, OverForGood

-----------------------------------------------------------------------------
(* What EverySessionEnds rests on beside the passing of time: the ceiling. *)

\* The end of a session is fixed when it is issued: no step moves it away, and
\* every tick that is left brings it nearer.
CeilingOnlyFalls ==
    [][\A s \in Session : sessions[s].issued =>
          /\ sessions'[s].issued
          /\ sessions'[s].absolute <= sessions[s].absolute
          /\ Tick /\ sessions[s].absolute > 0 => sessions'[s].absolute < sessions[s].absolute]_vars

\* A session past its ceiling.
PastCeiling(s) == sessions[s].issued /\ sessions[s].absolute = 0

LEMMA CeilingKept ==
    ASSUME TypeOK, [Next]_vars, NEW s \in Session, sessions[s].issued
    PROVE  /\ sessions'[s].absolute \in Nat
           /\ sessions'[s].absolute <= sessions[s].absolute
<1> DEFINE Falls == sessions'[s].absolute \in Nat /\ sessions'[s].absolute <= sessions[s].absolute
<1>1. sessions[s] \in Row /\ sessions[s].absolute \in Nat
  BY DEF TypeOK, Row
<1>2. ASSUME sessions'[s].absolute = sessions[s].absolute PROVE Falls
  BY <1>1, <1>2
<1>3. ASSUME NEW p \in Proc, InsertSession(p) PROVE Falls
  BY <1>2, <1>3 DEF InsertSession, TypeOK
<1>4. ASSUME NEW p \in Proc, TouchSession(p) PROVE Falls
  <2>1. req[p].session \subseteq Session
    BY DEF TypeOK, Request
  <2>2. Touched(sessions[s], req[p]).absolute = sessions[s].absolute
    BY <1>1 DEF Touched, Row
  <2> QED
    BY <1>2, <1>4, <2>1, <2>2 DEF TouchSession, TypeOK
<1>5. ASSUME NEW p \in Proc, RevokeSession(p) PROVE Falls
  BY <1>1, <1>2, <1>5 DEF RevokeSession, Row
<1>6. CASE RevokeSessionsByUser
  BY <1>1, <1>2, <1>6 DEF RevokeSessionsByUser, Row
<1>7. CASE Tick
  <2>1. sessions'[s].absolute = Less(sessions[s].absolute)
    BY <1>1, <1>7 DEF Tick, Row
  <2> QED
    BY <1>1, <2>1, LessProperties
<1>8. CASE UNCHANGED sessions
  BY <1>2, <1>8
<1> QED
  BY <1>3, <1>4, <1>5, <1>6, <1>7, <1>8
  DEF Next, vars, SignIn, LookUp, Logout, StoreError, SetRole, Suspended

\* The end of a session only comes nearer.
THEOREM CeilingAlwaysFalls == Spec => CeilingOnlyFalls
<1> DEFINE Nearer == \A s \in Session : sessions[s].issued =>
          /\ sessions'[s].issued
          /\ sessions'[s].absolute <= sessions[s].absolute
          /\ Tick /\ sessions[s].absolute > 0 => sessions'[s].absolute < sessions[s].absolute
<1>1. TypeOK /\ [Next]_vars => [Nearer]_vars
  <2> SUFFICES ASSUME TypeOK, [Next]_vars, NEW s \in Session, sessions[s].issued
               PROVE  /\ sessions'[s].issued
                      /\ sessions'[s].absolute <= sessions[s].absolute
                      /\ Tick /\ sessions[s].absolute > 0
                           => sessions'[s].absolute < sessions[s].absolute
    OBVIOUS
  <2>1. sessions'[s].issued
    BY RowsKept DEF Kept
  <2>2. sessions[s] \in Row /\ sessions[s].absolute \in Nat
    BY DEF TypeOK, Row
  <2>3. Tick => sessions'[s] = [sessions[s] EXCEPT !.idle = Less(@), !.absolute = Less(@)]
    BY DEF Tick
  <2>4. Tick => sessions'[s].absolute = Less(sessions[s].absolute)
    BY <2>2, <2>3 DEF Row
  <2> QED
    BY <2>1, <2>2, <2>4, CeilingKept DEF Less
<1> QED
  BY <1>1, TypeCorrect, PTL DEF Spec, CeilingOnlyFalls

\* What EverySessionEnds says of its goal: a session past its ceiling is over, and
\* stays over whatever is still under way.
THEOREM PastCeilingStaysOver ==
    ASSUME NEW s \in Session
    PROVE  Spec => [](PastCeiling(s) => []Over(s))
<1>1. TypeOK /\ PastCeiling(s) /\ [Next]_vars => PastCeiling(s)'
  BY RowsKept, CeilingKept DEF PastCeiling, Kept, TypeOK, Row
<1>2. PastCeiling(s) => Over(s)
  BY DEF PastCeiling, Over
<1> QED
  BY <1>1, <1>2, TypeCorrect, PTL DEF Spec

=============================================================================
