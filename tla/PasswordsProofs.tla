---------------------------- MODULE PasswordsProofs ----------------------------
(***************************************************************************)
(* The account's theorems, for any passwords, any number of concurrent     *)
(* requests, any history depth and any store call failing.                 *)
(***************************************************************************)
EXTENDS Passwords, SequenceTheorems, TLAPS

-----------------------------------------------------------------------------
(* The inductive invariant.                                                *)

\* What a request at each step was started for.
ShapeOf(r) ==
    /\ r.pc \in {"rehash", "session"} => r.op = "login" /\ r.row \in Password
    /\ r.pc = "reuse" => r.op \in {"change", "reset"} /\ r.next \in Password
    /\ r.pc \in {"set", "record", "revoke", "clear"} => r.op # "login"
    /\ r.pc = "set" => r.next \in Password
    /\ r.op # "change" => r.own = {}

Shape == \A p \in Proc : ShapeOf(req[p])

\* A password, once set, is never taken away; without one nothing was replaced.
Unset ==
    hash.pw = NoPassword =>
        /\ stamp = "never" /\ used = <<>>
        /\ \A p \in Proc : req[p].pc \notin {"record", "revoke", "clear"}

\* What a request loaded is so for as long as no other overtakes it.
LoadedOf(r) ==
    /\ r.fresh /\ r.pc \in {"rehash", "session", "reuse", "set"} => r.row = hash.pw
    /\ r.fresh /\ r.pc \in {"rehash", "session"} /\ r.held => stamp = "old"
    /\ r.op = "initial" /\ r.pc = "set" => r.row = NoPassword

Loaded == \A p \in Proc : LoadedOf(req[p])

\* In a clean run the history a change is about to file completes the filed
\* one, unless another change, overtaken, has still to file its own.
Pending ==
    \A p \in Proc : req[p].pc = "record" /\ req[p].fresh =>
        \/ used = Newest(Push(req[p].row, history), Depth)
        \/ \E q \in Proc : req[q].pc = "record" /\ ~req[q].fresh

\* In a clean run every change follows the organization's policy.
OnPolicy ==
    \A p \in Proc :
        /\ req[p].pc \in {"set", "record"} => req[p].depth = Depth
        /\ req[p].pc = "set" /\ req[p].fresh =>
              req[p].next \notin Filed(used, Depth) \/ ChangeUnderWay({"record"})

\* In a clean run a first password has met no session but its own.
FirstPassword ==
    \A p \in Proc : req[p].pc = "record" /\ req[p].op = "initial" /\ req[p].fresh =>
        /\ stamp = "never"
        /\ \A s \in sessions : s.proof = hash.pw /\ ~s.held

\* Whoever is in the session a change was asked for in has given the password it
\* set, for as long as no other request overtakes it.
OwnProven ==
    \A p \in Proc : req[p].pc \in {"record", "revoke"} /\ req[p].fresh =>
        \A s \in sessions : s.id \in req[p].own => s.proof = hash.pw

\* And what the runs check is true of it, in the steps where it may not be yet.
StampTrue == stamp = "old" => due \/ ChangeUnderWay({"record"})
HistoryTrue == history = used \/ ChangeUnderWay({"record"})
SessionsTrue == (\A s \in sessions : s.proof = hash.pw) \/ ChangeUnderWay({"record", "revoke"})
HoldsTrue == \A s \in sessions :
    s.held => due \/ ChangeUnderWay({"record", "revoke"}) \/ ToBeLifted(s)

CleanInv ==
    clean => /\ Pending /\ OnPolicy /\ FirstPassword /\ OwnProven
             /\ StampTrue /\ HistoryTrue /\ SessionsTrue /\ HoldsTrue

IInv == TypeOK /\ Shape /\ Unset /\ Loaded /\ CleanInv

-----------------------------------------------------------------------------
(* Types.                                                                  *)

LEMMA NewestType ==
    ASSUME NEW s \in Seq(Password), NEW n \in Nat
    PROVE  Newest(s, n) \in Seq(Password)
<1> DEFINE m == IF n < Len(s) THEN n ELSE Len(s)
<1>1. m \in Int /\ m <= Len(s)
  BY LenProperties
<1>2. \A i \in 1 .. m : s[i] \in Password
  BY <1>1, ElementOfSeq
<1> HIDE DEF m
<1>3. SubSeq(s, 1, m) \in Seq(Password)
  BY <1>1, <1>2, SubSeqProperties
<1> QED
  BY <1>3 DEF Newest, m

LEMMA PushType ==
    ASSUME NEW pw \in Password \cup {NoPassword}, NEW s \in Seq(Password)
    PROVE  Push(pw, s) \in Seq(Password)
<1>1. CASE pw \in Password
  <2>1. <<pw>> \in Seq(Password)
    BY <1>1
  <2> QED
    BY <1>1, <2>1, ConcatProperties, PasswordsAssumption DEF Push
<1> QED
  BY <1>1 DEF Push

LEMMA IdleType == Idle \in Request
  BY DEF Idle, Request

LEMMA DepthType == PolicyDepths \subseteq {0, Depth, DefaultDepth}
  BY DEF PolicyDepths

LEMMA SetType ==
    ASSUME NEW r \in Request, NEW depth \in {0, Depth, DefaultDepth}
    PROVE  [r EXCEPT !.pc = "set", !.depth = depth] \in Request
  BY DEF Request

\* A write keeps every request a request.
LEMMA WroteType ==
    ASSUME TypeOK, NEW p \in Proc, NEW r \in Request, Wrote(p, r)
    PROVE  /\ req' \in [Proc -> Request]
           /\ clean' \in BOOLEAN
<1>1. \A q \in Proc : [req[q] EXCEPT !.fresh = FALSE] \in Request
  BY DEF TypeOK, Request
<1>2. req[p].fresh \in BOOLEAN
  BY DEF TypeOK, Request
<1> QED
  BY <1>1, <1>2 DEF Wrote, TypeOK

LEMMA BeginType ==
    ASSUME TypeOK, NEW p \in Proc, NEW r \in Request, Begin(p, r)
    PROVE  req' \in [Proc -> Request]
<1>1. [r EXCEPT !.row = hash.pw, !.fresh = TRUE] \in Request
  BY DEF TypeOK, Request, Hash
<1> QED
  BY <1>1 DEF Begin, TypeOK

LEMMA InitType == Init => TypeOK
<1> SUFFICES ASSUME Init PROVE TypeOK
  OBVIOUS
<1>1. req \in [Proc -> Request]
  BY IdleType DEF Init
<1>2. hash \in Hash
  <2>1. CASE hash \in [pw : Password, old : BOOLEAN]
    BY <2>1 DEF Hash
  <2>2. CASE hash = [pw |-> NoPassword, old |-> FALSE]
    BY <2>2 DEF Hash
  <2> QED
    BY <2>1, <2>2 DEF Init
<1> QED
  BY <1>1, <1>2 DEF Init, TypeOK

\* The session a sign-in opens was proven by a password.
LEMMA InsertType ==
    ASSUME TypeOK, Shape, NEW p \in Proc, InsertSession(p)
    PROVE  sessions' \subseteq Session /\ clean' \in BOOLEAN
<1>1. req[p].row \in Password
  BY DEF Shape, ShapeOf, InsertSession, At
<1>2. req[p].held \in BOOLEAN /\ req[p].fresh \in BOOLEAN
  BY DEF TypeOK, Request
<1>3. PICK id \in SessionId, held \in BOOLEAN :
        /\ sessions' = sessions \cup {[id |-> id, proof |-> req[p].row, held |-> held]}
        /\ clean' = (clean /\ req[p].fresh) \/ clean' = FALSE
  BY DEF InsertSession
<1>4. [id |-> id, proof |-> req[p].row, held |-> held] \in Session
  BY <1>1 DEF Session
<1> QED
  BY <1>2, <1>3, <1>4 DEF TypeOK

\* A change and a reset begin alike, but that a reset is in no session.
LEMMA AsksAs ==
    ASSUME TypeOK, NEW p \in Proc, Change(p) \/ Reset(p)
    PROVE  \E next \in Password, op \in {"change", "reset"}, own \in SUBSET SessionId :
              /\ Begin(p, [Idle EXCEPT !.pc = "reuse", !.op = op, !.next = next, !.own = own])
              /\ op = "reset" => own = {}
              /\ UNCHANGED clean
<1>1. CASE Change(p)
  <2>1. PICK next \in Password, own \in {{}} \cup {{s.id} : s \in sessions} :
          /\ Begin(p, [Idle EXCEPT !.pc = "reuse", !.op = "change", !.next = next, !.own = own])
          /\ UNCHANGED clean
    BY <1>1 DEF Change
  <2>2. own \in SUBSET SessionId
    BY DEF TypeOK, Session
  <2> QED
    BY <2>1, <2>2
<1>2. CASE Reset(p)
  BY <1>2 DEF Reset
<1> QED
  BY <1>1, <1>2

LEMMA NextType == TypeOK /\ Shape /\ [Next]_vars => TypeOK'
<1> SUFFICES ASSUME TypeOK, Shape, [Next]_vars PROVE TypeOK'
  OBVIOUS
<1> USE PasswordsAssumption DEF TypeOK
<1>1. ASSUME NEW p \in Proc, Login(p) PROVE TypeOK'
  <2> DEFINE r == [Idle EXCEPT !.pc = IF hash.old THEN "rehash" ELSE "session",
                               !.held = (stamp = "old")]
  <2>1. r \in Request
    BY DEF Idle, Request
  <2>2. Begin(p, r) /\ UNCHANGED clean
    BY <1>1 DEF Login
  <2>3. req' \in [Proc -> Request]
    BY <2>1, <2>2, BeginType
  <2> QED
    BY <2>2, <2>3 DEF Begin
<1>2. ASSUME NEW p \in Proc, Rehash(p) PROVE TypeOK'
  <2> DEFINE r == [req[p] EXCEPT !.pc = "session"]
  <2>1. r \in Request
    BY ZenonT(30) DEF Request
  <2>2. req[p].row \in Password \cup {NoPassword}
    BY DEF Request
  <2>3. CASE hash' = [pw |-> req[p].row, old |-> FALSE] /\ Wrote(p, r)
    <3>1. req' \in [Proc -> Request] /\ clean' \in BOOLEAN
      BY <2>1, <2>3, WroteType
    <3> QED
      BY <1>2, <2>2, <2>3, <3>1 DEF Rehash, Hash
  <2>4. CASE req' = [req EXCEPT ![p] = r] /\ clean' = FALSE /\ UNCHANGED hash
    BY <1>2, <2>1, <2>4 DEF Rehash
  <2> QED
    BY <1>2, <2>3, <2>4 DEF Rehash
<1>3. ASSUME NEW p \in Proc, InsertSession(p) PROVE TypeOK'
  <2>1. sessions' \subseteq Session /\ clean' \in BOOLEAN
    BY <1>3, InsertType
  <2> QED
    BY <1>3, <2>1, IdleType DEF InsertSession, Finish
<1>4. ASSUME NEW p \in Proc, Change(p) \/ Reset(p) PROVE TypeOK'
  <2>1. PICK next \in Password, op \in {"change", "reset"}, own \in SUBSET SessionId :
          /\ Begin(p, [Idle EXCEPT !.pc = "reuse", !.op = op, !.next = next, !.own = own])
          /\ UNCHANGED clean
    BY <1>4, AsksAs
  <2>2. [Idle EXCEPT !.pc = "reuse", !.op = op, !.next = next, !.own = own] \in Request
    BY DEF Idle, Request
  <2>3. req' \in [Proc -> Request]
    BY <2>1, <2>2, BeginType
  <2> QED
    BY <2>1, <2>3 DEF Begin
<1>5. ASSUME NEW p \in Proc, Redeem(p) PROVE TypeOK'
  <2>1. PICK next \in Password, depth \in PolicyDepths :
          /\ Begin(p, [Idle EXCEPT !.pc = "set", !.op = "initial", !.next = next,
                                   !.depth = depth])
          /\ clean' = (clean /\ depth = Depth)
    BY <1>5 DEF Redeem
  <2>2. [Idle EXCEPT !.pc = "set", !.op = "initial", !.next = next, !.depth = depth]
          \in Request
    BY DepthType DEF Idle, Request
  <2>3. req' \in [Proc -> Request]
    BY <2>1, <2>2, BeginType
  <2> QED
    BY <2>1, <2>3 DEF Begin
<1>6. ASSUME NEW p \in Proc, CheckReuse(p) PROVE TypeOK'
  <2>1. PICK depth \in PolicyDepths :
          /\ \/ Finish(p)
             \/ req' = [req EXCEPT ![p].pc = "set", ![p].depth = depth]
          /\ clean' = (clean /\ depth = Depth)
    BY <1>6 DEF CheckReuse
  <2>2. [req[p] EXCEPT !.pc = "set", !.depth = depth] \in Request
    BY DepthType, SetType
  <2>3. req' \in [Proc -> Request]
    BY <2>1, <2>2, IdleType DEF Finish
  <2> QED
    BY <1>6, <2>1, <2>3 DEF CheckReuse
<1>7. ASSUME NEW p \in Proc, SetHash(p) PROVE TypeOK'
  <2>1. [req[p] EXCEPT !.pc = "record"] \in Request
    BY ZenonT(30) DEF Request
  <2>2. req' \in [Proc -> Request] /\ clean' \in BOOLEAN
    BY <1>7, <2>1, WroteType DEF SetHash
  <2>3. req[p].next \in Password
    BY <1>7 DEF SetHash, Shape, ShapeOf, At
  <2>4. hash' \in Hash /\ hash.pw \in Password \cup {NoPassword}
    BY <1>7, <2>3 DEF SetHash, Hash
  <2>5. used' \in Seq(Password)
    BY <1>7, <2>4, PushType, NewestType DEF SetHash
  <2>6. sessions' \subseteq Session
    BY <1>7, <2>3, ZenonT(30) DEF SetHash, Given, Session
  <2> QED
    BY <1>7, <2>2, <2>4, <2>5, <2>6 DEF SetHash
<1>8. ASSUME NEW p \in Proc, Record(p) PROVE TypeOK'
  <2>1. [req[p] EXCEPT !.pc = "revoke"] \in Request
    BY ZenonT(30) DEF Request
  <2>2. req' \in [Proc -> Request] /\ clean' \in BOOLEAN
    BY <1>8, <2>1, IdleType, WroteType DEF Record
  <2>3. req[p].row \in Password \cup {NoPassword} /\ req[p].depth \in Nat
    BY DEF Request
  <2>4. history' \in Seq(Password)
    BY <1>8, <2>3, PushType, NewestType DEF Record
  <2> QED
    BY <1>8, <2>2, <2>4 DEF Record
<1>9. ASSUME NEW p \in Proc, Revoke(p) PROVE TypeOK'
  <2>1. [req[p] EXCEPT !.pc = "clear"] \in Request
    BY ZenonT(30) DEF Request
  <2>2. req' \in [Proc -> Request] /\ clean' \in BOOLEAN
    BY <1>9, <2>1, IdleType, WroteType DEF Revoke
  <2> QED
    BY <1>9, <2>2 DEF Revoke
<1>10. ASSUME NEW p \in Proc, ClearHold(p) PROVE TypeOK'
  <2>1. \A s \in sessions : [s EXCEPT !.held = FALSE] \in Session
    BY DEF Session
  <2> QED
    BY <1>10, <2>1, IdleType DEF ClearHold, Finish
<1>11. ASSUME NEW p \in Proc, StoreError(p) PROVE TypeOK'
  BY <1>11, IdleType DEF StoreError, Finish
<1>12. CASE SessionEnds
  BY <1>12 DEF SessionEnds
<1>13. CASE Ages
  BY <1>13 DEF Ages
<1>14. CASE UNCHANGED vars
  BY <1>14 DEF vars
<1> QED
  BY <1>1, <1>2, <1>3, <1>4, <1>5, <1>6, <1>7, <1>8, <1>9, <1>10, <1>11, <1>12,
     <1>13, <1>14 DEF Next

-----------------------------------------------------------------------------
(* The parts of the invariant that say what a request is about.            *)

\* What a step of p does to the requests: none to the others, or it overtakes
\* them; and p itself goes on as the same request.
Alone(p) == \A q \in Proc \ {p} : req'[q] = req[q]

Overtakes(p) ==
    /\ \A q \in Proc \ {p} :
          /\ req'[q].pc = req[q].pc /\ req'[q].op = req[q].op
          /\ req'[q].row = req[q].row /\ req'[q].next = req[q].next
          /\ req'[q].depth = req[q].depth /\ req'[q].held = req[q].held
          /\ req'[q].own = req[q].own
          /\ ~req'[q].fresh
    /\ clean' = (clean /\ req[p].fresh)

GoesOn(p, pc) ==
    /\ req'[p].pc = pc
    /\ req'[p].op = req[p].op /\ req'[p].row = req[p].row /\ req'[p].next = req[p].next
    /\ req'[p].held = req[p].held /\ req'[p].own = req[p].own
    /\ req'[p].fresh = req[p].fresh

Ends(p) ==
    req'[p].pc = "idle" /\ ~req'[p].fresh /\ req'[p].op = "login" /\ req'[p].own = {}

LEMMA WroteReq ==
    ASSUME TypeOK, NEW p \in Proc, NEW r, Wrote(p, r)
    PROVE  req'[p] = r /\ Overtakes(p)
<1>1. \A q \in Proc : req[q] \in Request
  BY DEF TypeOK
<1> QED
  BY <1>1 DEF Wrote, Request, Overtakes

LEMMA OwnReq ==
    ASSUME TypeOK, NEW p \in Proc, NEW r, req' = [req EXCEPT ![p] = r]
    PROVE  req'[p] = r /\ Alone(p)
  BY DEF TypeOK, Alone

LEMMA LoginReq ==
    ASSUME TypeOK, NEW p \in Proc, Login(p)
    PROVE  /\ Alone(p)
           /\ req'[p].pc \in {"rehash", "session"} /\ req'[p].op = "login"
           /\ req'[p].row = hash.pw /\ req'[p].row \in Password /\ req'[p].fresh
           /\ req'[p].held = (stamp = "old") /\ req'[p].own = {}
<1>1. hash.pw \in Password
  BY DEF Login, TypeOK, Hash
<1> QED
  BY <1>1 DEF TypeOK, Login, Begin, Idle, Alone

LEMMA ChangeReq ==
    ASSUME TypeOK, NEW p \in Proc, Change(p) \/ Reset(p)
    PROVE  /\ Alone(p)
           /\ req'[p].pc = "reuse" /\ req'[p].op \in {"change", "reset"}
           /\ req'[p].row = hash.pw /\ req'[p].next \in Password /\ req'[p].fresh
           /\ req'[p].op = "reset" => req'[p].own = {}
<1>1. PICK next \in Password, op \in {"change", "reset"}, own \in SUBSET SessionId :
        /\ Begin(p, [Idle EXCEPT !.pc = "reuse", !.op = op, !.next = next, !.own = own])
        /\ op = "reset" => own = {}
  BY AsksAs
<1>2. req' = [req EXCEPT ![p] = [Idle EXCEPT !.pc = "reuse", !.op = op, !.next = next,
                                           !.own = own, !.row = hash.pw, !.fresh = TRUE]]
  BY <1>1 DEF Begin, Idle
<1> QED
  BY <1>1, <1>2 DEF TypeOK, Idle, Alone

LEMMA RedeemReq ==
    ASSUME TypeOK, NEW p \in Proc, Redeem(p)
    PROVE  /\ Alone(p)
           /\ req'[p].pc = "set" /\ req'[p].op = "initial" /\ hash.pw = NoPassword
           /\ req'[p].row = NoPassword /\ req'[p].next \in Password /\ req'[p].fresh
           /\ req'[p].own = {}
           /\ clean' => clean /\ req'[p].depth = Depth
<1>1. PICK next \in Password, depth \in PolicyDepths :
        /\ hash.pw = NoPassword
        /\ Begin(p, [Idle EXCEPT !.pc = "set", !.op = "initial", !.next = next,
                                 !.depth = depth])
        /\ clean' = (clean /\ depth = Depth)
  BY DEF Redeem
<1>2. req' = [req EXCEPT ![p] = [Idle EXCEPT !.pc = "set", !.op = "initial", !.next = next,
                                           !.depth = depth, !.row = hash.pw, !.fresh = TRUE]]
  BY <1>1 DEF Begin, Idle
<1> QED
  BY <1>1, <1>2 DEF TypeOK, Idle, Alone

LEMMA RehashReq ==
    ASSUME TypeOK, NEW p \in Proc, Rehash(p)
    PROVE  /\ req[p].pc = "rehash" /\ GoesOn(p, "session")
           /\ \/ Overtakes(p) /\ hash'.pw = req[p].row
              \/ Alone(p) /\ ~clean' /\ UNCHANGED hash
<1>0. req[p].pc = "rehash"
  BY DEF Rehash, At
<1> DEFINE r == [req[p] EXCEPT !.pc = "session"]
<1>1. /\ r.pc = "session" /\ r.op = req[p].op /\ r.row = req[p].row /\ r.next = req[p].next
      /\ r.held = req[p].held /\ r.own = req[p].own /\ r.fresh = req[p].fresh
  BY DEF TypeOK, Request
<1> HIDE DEF r
<1>2. CASE Wrote(p, r) /\ hash' = [pw |-> req[p].row, old |-> FALSE]
  BY <1>0, <1>1, <1>2, WroteReq DEF GoesOn
<1>3. CASE req' = [req EXCEPT ![p] = r] /\ clean' = FALSE /\ UNCHANGED hash
  BY <1>0, <1>1, <1>3, OwnReq DEF GoesOn
<1> QED
  BY <1>2, <1>3 DEF Rehash, r

LEMMA CheckReuseReq ==
    ASSUME TypeOK, NEW p \in Proc, CheckReuse(p)
    PROVE  /\ req[p].pc = "reuse" /\ Alone(p)
           /\ \/ Ends(p)
              \/ /\ GoesOn(p, "set")
                 /\ clean' => /\ req'[p].depth = Depth
                              /\ req[p].next \notin Filed(history, Depth)
           /\ clean' => clean
<1>0. req[p].pc = "reuse"
  BY DEF CheckReuse, At
<1>1. PICK depth \in PolicyDepths :
          /\ \/ req[p].next \in Filed(history, depth) /\ Finish(p)
             \/ /\ req[p].next \notin Filed(history, depth)
                /\ req' = [req EXCEPT ![p].pc = "set", ![p].depth = depth]
          /\ clean' = (clean /\ depth = Depth)
  BY DEF CheckReuse
<1>2. clean' => clean /\ depth = Depth
  BY <1>1 DEF TypeOK
<1>3. CASE Finish(p)
  <2>1. Alone(p) /\ req'[p] = Idle
    BY <1>3, OwnReq DEF Finish
  <2>2. Ends(p)
    BY <2>1 DEF Idle, Ends
  <2> QED
    BY <1>0, <1>2, <2>1, <2>2
<1>4. CASE /\ req[p].next \notin Filed(history, depth)
           /\ req' = [req EXCEPT ![p].pc = "set", ![p].depth = depth]
  <2>1. Alone(p) /\ GoesOn(p, "set") /\ req'[p].depth = depth
    BY <1>4 DEF TypeOK, Request, Alone, GoesOn
  <2> QED
    BY <1>0, <1>2, <1>4, <2>1
<1> QED
  BY <1>1, <1>3, <1>4

LEMMA SetHashReq ==
    ASSUME TypeOK, NEW p \in Proc, SetHash(p)
    PROVE  req[p].pc = "set" /\ Overtakes(p) /\ GoesOn(p, "record") /\ req'[p].depth = req[p].depth
<1>1. Wrote(p, [req[p] EXCEPT !.pc = "record"]) /\ req[p] \in Request
  BY DEF SetHash, TypeOK
<1> QED
  BY <1>1, WroteReq DEF SetHash, At, GoesOn, Request

LEMMA RecordReq ==
    ASSUME TypeOK, NEW p \in Proc, Record(p)
    PROVE  /\ req[p].pc = "record" /\ Overtakes(p)
           /\ IF req[p].op = "initial" THEN Ends(p) ELSE GoesOn(p, "revoke")
<1>0. req[p].pc = "record"
  BY DEF Record, At
<1>1. req[p] \in Request
  BY DEF TypeOK
<1>2. CASE req[p].op = "initial"
  BY <1>0, <1>2, WroteReq DEF Record, Ends, Idle
<1>3. CASE req[p].op # "initial"
  BY <1>0, <1>1, <1>3, WroteReq DEF Record, GoesOn, Request
<1> QED
  BY <1>2, <1>3

LEMMA RevokeReq ==
    ASSUME TypeOK, NEW p \in Proc, Revoke(p)
    PROVE  /\ req[p].pc = "revoke" /\ Overtakes(p)
           /\ IF req[p].op = "reset" THEN Ends(p) ELSE GoesOn(p, "clear")
<1>0. req[p].pc = "revoke"
  BY DEF Revoke, At
<1>1. req[p] \in Request
  BY DEF TypeOK
<1>2. CASE req[p].op = "reset"
  BY <1>0, <1>2, WroteReq DEF Revoke, Ends, Idle
<1>3. CASE req[p].op # "reset"
  BY <1>0, <1>1, <1>3, WroteReq DEF Revoke, GoesOn, Request
<1> QED
  BY <1>2, <1>3

LEMMA LastReq ==
    ASSUME TypeOK, NEW p \in Proc, InsertSession(p) \/ ClearHold(p) \/ StoreError(p)
    PROVE  Alone(p) /\ Ends(p)
  BY OwnReq DEF InsertSession, ClearHold, StoreError, Finish, Idle, Ends

\* The requests p leaves alone, or only overtakes, keep their shape.
LEMMA OthersShape ==
    ASSUME Shape, NEW p \in Proc, Alone(p) \/ Overtakes(p), ShapeOf(req'[p])
    PROVE  Shape'
<1>1. ASSUME NEW q \in Proc \ {p} PROVE ShapeOf(req'[q])
  BY <1>1 DEF Shape, ShapeOf, Alone, Overtakes
<1> QED
  BY <1>1 DEF Shape

\* They keep what they loaded, as the row is left alone unless they are overtaken.
LEMMA OthersLoaded ==
    ASSUME Loaded, NEW p \in Proc, LoadedOf(req[p])',
           \/ Overtakes(p)
           \/ Alone(p) /\ UNCHANGED <<hash, stamp>>
    PROVE  Loaded'
<1>1. ASSUME NEW q \in Proc \ {p} PROVE LoadedOf(req[q])'
  BY <1>1 DEF Loaded, LoadedOf, Alone, Overtakes
<1> QED
  BY <1>1 DEF Loaded

\* Every request does the steps it was started for.
LEMMA ShapeKept ==
    ASSUME TypeOK, Shape, [Next]_vars
    PROVE  Shape'
<1>1. ASSUME NEW p \in Proc, Login(p) PROVE Shape'
  <2>1. (Alone(p) \/ Overtakes(p)) /\ ShapeOf(req'[p])
    BY <1>1, LoginReq DEF Shape, ShapeOf, GoesOn, Ends
  <2> QED
    BY <2>1, OthersShape
<1>2. ASSUME NEW p \in Proc, Rehash(p) PROVE Shape'
  <2>1. (Alone(p) \/ Overtakes(p)) /\ ShapeOf(req'[p])
    BY <1>2, RehashReq DEF Shape, ShapeOf, GoesOn, Ends
  <2> QED
    BY <2>1, OthersShape
<1>3. ASSUME NEW p \in Proc, Change(p) \/ Reset(p) PROVE Shape'
  <2>1. (Alone(p) \/ Overtakes(p)) /\ ShapeOf(req'[p])
    BY <1>3, ChangeReq DEF Shape, ShapeOf, GoesOn, Ends
  <2> QED
    BY <2>1, OthersShape
<1>4. ASSUME NEW p \in Proc, Redeem(p) PROVE Shape'
  <2>1. (Alone(p) \/ Overtakes(p)) /\ ShapeOf(req'[p])
    BY <1>4, RedeemReq DEF Shape, ShapeOf, GoesOn, Ends
  <2> QED
    BY <2>1, OthersShape
<1>5. ASSUME NEW p \in Proc, CheckReuse(p) PROVE Shape'
  <2>1. (Alone(p) \/ Overtakes(p)) /\ ShapeOf(req'[p])
    BY <1>5, CheckReuseReq DEF Shape, ShapeOf, GoesOn, Ends
  <2> QED
    BY <2>1, OthersShape
<1>6. ASSUME NEW p \in Proc, SetHash(p) PROVE Shape'
  <2>1. (Alone(p) \/ Overtakes(p)) /\ ShapeOf(req'[p])
    BY <1>6, SetHashReq DEF Shape, ShapeOf, GoesOn, Ends
  <2> QED
    BY <2>1, OthersShape
<1>7. ASSUME NEW p \in Proc, Record(p) PROVE Shape'
  <2>1. (Alone(p) \/ Overtakes(p)) /\ ShapeOf(req'[p])
    BY <1>7, RecordReq DEF Shape, ShapeOf, GoesOn, Ends
  <2> QED
    BY <2>1, OthersShape
<1>8. ASSUME NEW p \in Proc, Revoke(p) PROVE Shape'
  <2>1. (Alone(p) \/ Overtakes(p)) /\ ShapeOf(req'[p])
    BY <1>8, RevokeReq DEF Shape, ShapeOf, GoesOn, Ends
  <2> QED
    BY <2>1, OthersShape
<1>9. ASSUME NEW p \in Proc, InsertSession(p) \/ ClearHold(p) \/ StoreError(p) PROVE Shape'
  <2>1. (Alone(p) \/ Overtakes(p)) /\ ShapeOf(req'[p])
    BY <1>9, LastReq DEF Shape, ShapeOf, GoesOn, Ends
  <2> QED
    BY <2>1, OthersShape
<1>10. CASE SessionEnds
  BY <1>10 DEF Shape, SessionEnds
<1>11. CASE Ages
  BY <1>11 DEF Shape, Ages
<1>12. CASE UNCHANGED vars
  BY <1>12 DEF Shape, vars
<1> QED
  BY <1>1, <1>2, <1>3, <1>4, <1>5, <1>6, <1>7, <1>8, <1>9, <1>10, <1>11, <1>12 DEF Next

\* The empty hash is only ever replaced, and by nobody who is done with it.
LEMMA UnsetKept ==
    ASSUME TypeOK, Shape, Unset, [Next]_vars
    PROVE  Unset'
<1> USE PasswordsAssumption
<1>1. ASSUME NEW p \in Proc, Login(p) PROVE Unset'
  BY <1>1, LoginReq DEF Login, Begin, Unset, Alone, Overtakes, GoesOn, Ends, Shape, ShapeOf
<1>2. ASSUME NEW p \in Proc, Rehash(p) PROVE Unset'
  <2>1. CASE hash'.pw = req[p].row
    BY <1>2, <2>1, RehashReq DEF Unset, Shape, ShapeOf
  <2>2. CASE Alone(p) /\ UNCHANGED hash
    BY <1>2, <2>2, RehashReq DEF Rehash, Unset, Alone, GoesOn
  <2> QED
    BY <1>2, <2>1, <2>2, RehashReq
<1>3. ASSUME NEW p \in Proc, Change(p) \/ Reset(p) PROVE Unset'
  BY <1>3, ChangeReq DEF Change, Reset, Begin, Unset, Alone, Overtakes, GoesOn, Ends, Shape, ShapeOf
<1>4. ASSUME NEW p \in Proc, Redeem(p) PROVE Unset'
  BY <1>4, RedeemReq DEF Redeem, Begin, Unset, Alone, Overtakes, GoesOn, Ends, Shape, ShapeOf
<1>5. ASSUME NEW p \in Proc, CheckReuse(p) PROVE Unset'
  BY <1>5, CheckReuseReq DEF CheckReuse, Unset, Alone, Overtakes, GoesOn, Ends, Shape, ShapeOf
<1>6. ASSUME NEW p \in Proc, SetHash(p) PROVE Unset'
  BY <1>6, SetHashReq DEF SetHash, Unset, Alone, Overtakes, GoesOn, Ends, Shape, ShapeOf
<1>7. ASSUME NEW p \in Proc, Record(p) PROVE Unset'
  BY <1>7, RecordReq DEF Record, Unset, Alone, Overtakes, GoesOn, Ends, Shape, ShapeOf
<1>8. ASSUME NEW p \in Proc, Revoke(p) PROVE Unset'
  BY <1>8, RevokeReq DEF Revoke, Unset, Alone, Overtakes, GoesOn, Ends, Shape, ShapeOf
<1>9. ASSUME NEW p \in Proc, InsertSession(p) \/ ClearHold(p) \/ StoreError(p) PROVE Unset'
  BY <1>9, LastReq DEF InsertSession, ClearHold, StoreError, Unset, Alone, Overtakes, GoesOn, Ends, Shape, ShapeOf
<1>10. CASE SessionEnds
  BY <1>10 DEF Unset, SessionEnds
<1>11. CASE Ages
  BY <1>11 DEF Unset, Ages
<1>12. CASE UNCHANGED vars
  BY <1>12 DEF Unset, vars
<1> QED
  BY <1>1, <1>2, <1>3, <1>4, <1>5, <1>6, <1>7, <1>8, <1>9, <1>10, <1>11, <1>12 DEF Next

\* A row changes under a request only by overtaking it.
LEMMA LoadedKept ==
    ASSUME TypeOK, Shape, Loaded, [Next]_vars
    PROVE  Loaded'
<1>1. ASSUME NEW p \in Proc, Login(p) PROVE Loaded'
  <2>1. LoadedOf(req[p])'
    BY <1>1, LoginReq DEF Login, Begin, Loaded, LoadedOf, Shape, ShapeOf, GoesOn, Ends
  <2>2. Overtakes(p) \/ (Alone(p) /\ UNCHANGED <<hash, stamp>>)
    BY <1>1, LoginReq DEF Login, Begin
  <2> QED
    BY <2>1, <2>2, OthersLoaded
<1>2. ASSUME NEW p \in Proc, Rehash(p) PROVE Loaded'
  <2>1. LoadedOf(req[p])'
    BY <1>2, RehashReq, ZenonT(30) DEF Rehash, Loaded, LoadedOf, Shape, ShapeOf, GoesOn, Ends
  <2>2. Overtakes(p) \/ (Alone(p) /\ UNCHANGED <<hash, stamp>>)
    BY <1>2, RehashReq DEF Rehash
  <2> QED
    BY <2>1, <2>2, OthersLoaded
<1>3. ASSUME NEW p \in Proc, Change(p) \/ Reset(p) PROVE Loaded'
  <2>1. LoadedOf(req[p])'
    BY <1>3, ChangeReq DEF Change, Reset, Begin, Loaded, LoadedOf, Shape, ShapeOf, GoesOn, Ends
  <2>2. Overtakes(p) \/ (Alone(p) /\ UNCHANGED <<hash, stamp>>)
    BY <1>3, ChangeReq DEF Change, Reset, Begin
  <2> QED
    BY <2>1, <2>2, OthersLoaded
<1>4. ASSUME NEW p \in Proc, Redeem(p) PROVE Loaded'
  <2>1. LoadedOf(req[p])'
    BY <1>4, RedeemReq DEF Redeem, Begin, Loaded, LoadedOf, Shape, ShapeOf, GoesOn, Ends
  <2>2. Overtakes(p) \/ (Alone(p) /\ UNCHANGED <<hash, stamp>>)
    BY <1>4, RedeemReq DEF Redeem, Begin
  <2> QED
    BY <2>1, <2>2, OthersLoaded
<1>5. ASSUME NEW p \in Proc, CheckReuse(p) PROVE Loaded'
  <2>1. LoadedOf(req[p])'
    BY <1>5, CheckReuseReq DEF CheckReuse, Loaded, LoadedOf, Shape, ShapeOf, GoesOn, Ends
  <2>2. Overtakes(p) \/ (Alone(p) /\ UNCHANGED <<hash, stamp>>)
    BY <1>5, CheckReuseReq DEF CheckReuse
  <2> QED
    BY <2>1, <2>2, OthersLoaded
<1>6. ASSUME NEW p \in Proc, SetHash(p) PROVE Loaded'
  <2>1. LoadedOf(req[p])'
    BY <1>6, SetHashReq DEF SetHash, Loaded, LoadedOf, Shape, ShapeOf, GoesOn, Ends
  <2>2. Overtakes(p) \/ (Alone(p) /\ UNCHANGED <<hash, stamp>>)
    BY <1>6, SetHashReq DEF SetHash
  <2> QED
    BY <2>1, <2>2, OthersLoaded
<1>7. ASSUME NEW p \in Proc, Record(p) PROVE Loaded'
  <2>1. LoadedOf(req[p])'
    BY <1>7, RecordReq DEF Record, Loaded, LoadedOf, Shape, ShapeOf, GoesOn, Ends
  <2>2. Overtakes(p) \/ (Alone(p) /\ UNCHANGED <<hash, stamp>>)
    BY <1>7, RecordReq DEF Record
  <2> QED
    BY <2>1, <2>2, OthersLoaded
<1>8. ASSUME NEW p \in Proc, Revoke(p) PROVE Loaded'
  <2>1. LoadedOf(req[p])'
    BY <1>8, RevokeReq DEF Revoke, Loaded, LoadedOf, Shape, ShapeOf, GoesOn, Ends
  <2>2. Overtakes(p) \/ (Alone(p) /\ UNCHANGED <<hash, stamp>>)
    BY <1>8, RevokeReq DEF Revoke
  <2> QED
    BY <2>1, <2>2, OthersLoaded
<1>9. ASSUME NEW p \in Proc, InsertSession(p) \/ ClearHold(p) \/ StoreError(p) PROVE Loaded'
  <2>1. LoadedOf(req[p])'
    BY <1>9, LastReq DEF InsertSession, ClearHold, StoreError, Loaded, LoadedOf, Shape, ShapeOf, GoesOn, Ends
  <2>2. Overtakes(p) \/ (Alone(p) /\ UNCHANGED <<hash, stamp>>)
    BY <1>9, LastReq DEF InsertSession, ClearHold, StoreError
  <2> QED
    BY <2>1, <2>2, OthersLoaded
<1>10. CASE SessionEnds
  BY <1>10 DEF Loaded, LoadedOf, SessionEnds
<1>11. CASE Ages
  BY <1>11 DEF Loaded, LoadedOf, Ages
<1>12. CASE UNCHANGED vars
  BY <1>12 DEF Loaded, LoadedOf, vars
<1> QED
  BY <1>1, <1>2, <1>3, <1>4, <1>5, <1>6, <1>7, <1>8, <1>9, <1>10, <1>11, <1>12 DEF Next

-----------------------------------------------------------------------------
(* A clean run.                                                            *)

\* A change under way stays so, but by a step of its own.
LEMMA StaysUnderWay ==
    ASSUME NEW pcs, NEW p \in Proc, Alone(p) \/ Overtakes(p), ChangeUnderWay(pcs),
           \/ req[p].pc \notin pcs
           \/ req'[p].pc \in pcs /\ req'[p].op # "login"
    PROVE  ChangeUnderWay(pcs)'
<1>1. PICK q \in Proc : req[q].op # "login" /\ req[q].pc \in pcs
  BY DEF ChangeUnderWay
<1>2. req'[q].op # "login" /\ req'[q].pc \in pcs
  BY <1>1 DEF Alone, Overtakes
<1> QED
  BY <1>2 DEF ChangeUnderWay

\* A step that leaves the row and the history alone, and takes its request
\* nowhere near them.
LEMMA QuietStep ==
    ASSUME TypeOK, Shape, Loaded, CleanInv, clean', clean,
           NEW p \in Proc, Alone(p) \/ Overtakes(p),
           hash'.pw = hash.pw, UNCHANGED <<stamp, history, used, due>>,
           req[p].pc \notin {"record", "revoke"}, req'[p].pc \notin {"record", "revoke"},
           req'[p].pc = "set" =>
               /\ req'[p].depth = Depth
               /\ req'[p].fresh => req'[p].next \notin Filed(used, Depth)
                                     \/ ChangeUnderWay({"record"}),
           req[p].pc # "clear" \/ (\A s \in sessions' : ~s.held),
           \A s \in sessions' :
               \/ s.proof = hash.pw /\ (s.held => stamp = "old")
               \/ \E t \in sessions :
                     s.id = t.id /\ s.proof = t.proof /\ (s.held => t.held)
    PROVE  CleanInv'
<1> USE DEF CleanInv
<1>1. /\ ChangeUnderWay({"record"}) => ChangeUnderWay({"record"})'
      /\ ChangeUnderWay({"record", "revoke"}) => ChangeUnderWay({"record", "revoke"})'
  BY StaysUnderWay
<1>2. Pending'
  BY DEF Pending, Alone, Overtakes
<1>3. OnPolicy'
  BY <1>1, ZenonT(30) DEF OnPolicy, Alone, Overtakes
<1>4. FirstPassword'
  BY DEF FirstPassword, Alone, Overtakes
<1>5. StampTrue' /\ HistoryTrue'
  BY <1>1 DEF StampTrue, HistoryTrue
<1>6. SessionsTrue'
  BY <1>1 DEF SessionsTrue
<1>7. HoldsTrue'
  <2>1. ASSUME NEW s, ToBeLifted(s), req[p].pc # "clear" PROVE ToBeLifted(s)'
    BY <2>1 DEF ToBeLifted, At, Alone, Overtakes
  <2>2. ASSUME NEW s \in sessions', s.held, req[p].pc # "clear"
        PROVE  due \/ ChangeUnderWay({"record", "revoke"}) \/ ToBeLifted(s)
    <3>1. CASE stamp = "old"
      BY <3>1 DEF StampTrue, ChangeUnderWay
    <3>2. CASE \E t \in sessions : s.id = t.id /\ t.held
      BY <3>2 DEF HoldsTrue, ToBeLifted
    <3> QED
      BY <2>2, <3>1, <3>2
  <2> QED
    BY <1>1, <2>1, <2>2 DEF HoldsTrue
<1>8. OwnProven'
  BY DEF OwnProven, Alone, Overtakes
<1> QED
  BY <1>2, <1>3, <1>4, <1>5, <1>6, <1>7, <1>8

LEMMA CleanQuiet ==
    ASSUME TypeOK, Shape, Unset, Loaded, CleanInv, NEW p \in Proc,
           \/ Login(p) \/ Rehash(p) \/ Change(p) \/ Reset(p) \/ Redeem(p)
           \/ CheckReuse(p) \/ InsertSession(p) \/ ClearHold(p) \/ StoreError(p)
    PROVE  CleanInv'
<1> SUFFICES ASSUME clean' PROVE CleanInv'
  BY DEF CleanInv
<1>0. \A s \in sessions :
        \E t \in sessions : s.id = t.id /\ s.proof = t.proof /\ (s.held => t.held)
  OBVIOUS
<1>1. CASE Login(p)
  <2>1. UNCHANGED <<hash, stamp, history, sessions, used, due, clean>> /\ req[p].pc = "idle"
    BY <1>1 DEF Login, Begin, At
  <2>2. req'[p].pc \in {"rehash", "session"}
    BY <1>1, LoginReq
  <2> QED
    BY <1>0, <1>1, <2>1, <2>2, LoginReq, QuietStep
<1>2. CASE Rehash(p)
  <2>1. /\ UNCHANGED <<stamp, history, sessions, used, due>>
        /\ clean /\ req[p].fresh /\ Overtakes(p) /\ hash'.pw = req[p].row
    BY <1>2, RehashReq DEF Rehash, Overtakes
  <2>2. req[p].row = hash.pw
    BY <1>2, <2>1, RehashReq DEF Loaded, LoadedOf
  <2> QED
    BY <1>0, <1>2, <2>1, <2>2, RehashReq, QuietStep DEF GoesOn
<1>3. CASE Change(p) \/ Reset(p)
  <2>1. UNCHANGED <<hash, stamp, history, sessions, used, due, clean>> /\ req[p].pc = "idle"
    BY <1>3 DEF Change, Reset, Begin, At
  <2> QED
    BY <1>0, <1>3, <2>1, ChangeReq, QuietStep
<1>4. CASE Redeem(p)
  <2>1. UNCHANGED <<hash, stamp, history, sessions, used, due>> /\ req[p].pc = "idle"
    BY <1>4 DEF Redeem, Begin, At
  <2>2. Filed(used, Depth) = {}
    BY <1>4, RedeemReq DEF Unset, Filed
  <2> QED
    BY <1>0, <1>4, <2>1, <2>2, RedeemReq, QuietStep
<1>5. CASE CheckReuse(p)
  <2>1. UNCHANGED <<hash, stamp, history, sessions, used, due>>
    BY <1>5 DEF CheckReuse
  <2>2. clean
    BY <1>5, CheckReuseReq
  <2>3. history = used \/ ChangeUnderWay({"record"})
    BY <2>2 DEF CleanInv, HistoryTrue
  <2>4. CASE Ends(p)
    BY <1>0, <1>5, <2>1, <2>2, <2>4, CheckReuseReq, QuietStep DEF Ends
  <2>5. CASE /\ GoesOn(p, "set")
             /\ req'[p].depth = Depth /\ req[p].next \notin Filed(history, Depth)
    BY <1>0, <1>5, <2>1, <2>2, <2>3, <2>5, CheckReuseReq, QuietStep DEF GoesOn
  <2> QED
    BY <1>5, <2>4, <2>5, CheckReuseReq
<1>6. CASE InsertSession(p)
  <2>1. PICK id \in SessionId :
        /\ UNCHANGED <<hash, stamp, history, used, due>> /\ req[p].pc = "session"
        /\ clean /\ req[p].fresh
        /\ sessions' = sessions \cup {[id |-> id, proof |-> req[p].row,
                                       held |-> req[p].held]}
    BY <1>6 DEF InsertSession, At
  <2>2. req[p].row = hash.pw /\ (req[p].held => stamp = "old")
    BY <2>1 DEF Loaded, LoadedOf
  <2> QED
    BY <1>0, <1>6, <2>1, <2>2, LastReq, QuietStep DEF Ends
<1>7. CASE ClearHold(p)
  <2>1. /\ UNCHANGED <<hash, stamp, history, used, due, clean>> /\ req[p].pc = "clear"
        /\ sessions' = {[s EXCEPT !.held = FALSE] : s \in sessions}
    BY <1>7 DEF ClearHold, At
  <2>2. \A s \in sessions' :
          /\ ~s.held
          /\ \E t \in sessions : s.id = t.id /\ s.proof = t.proof /\ (s.held => t.held)
    BY <2>1 DEF TypeOK, Session
  <2> QED
    BY <1>7, <2>1, <2>2, LastReq, QuietStep DEF Ends
<1>8. CASE StoreError(p)
  BY <1>8 DEF StoreError
<1> QED
  BY <1>1, <1>2, <1>3, <1>4, <1>5, <1>6, <1>7, <1>8

\* A new hash: the request that set it has its history still to file.
LEMMA CleanSetHash ==
    ASSUME TypeOK, Shape, Unset, Loaded, CleanInv, NEW p \in Proc, SetHash(p)
    PROVE  CleanInv'
<1> SUFFICES ASSUME clean' PROVE CleanInv'
  BY DEF CleanInv
<1>1. clean /\ req[p].fresh /\ Overtakes(p) /\ GoesOn(p, "record") /\ req[p].pc = "set"
  BY SetHashReq DEF Overtakes
<1>2. req[p].row = hash.pw /\ req'[p].row = hash.pw /\ req'[p].depth = req[p].depth
  BY <1>1, SetHashReq DEF Loaded, LoadedOf, GoesOn
<1>3. ChangeUnderWay({"record"})' /\ ChangeUnderWay({"record", "revoke"})'
  BY <1>1 DEF ChangeUnderWay, Shape, ShapeOf, GoesOn
<1>4. Pending'
  <2>1. used' = Newest(Push(req'[p].row, history'), Depth)
          \/ \E q \in Proc : req'[q].pc = "record" /\ ~req'[q].fresh
    <3>1. CASE history = used
      BY <1>2, <3>1 DEF SetHash
    <3>2. CASE ChangeUnderWay({"record"})
      <4>1. PICK q \in Proc : req[q].pc = "record"
        BY <3>2 DEF ChangeUnderWay
      <4> QED
        BY <1>1, <4>1 DEF Overtakes
    <3> QED
      BY <1>1, <3>1, <3>2 DEF CleanInv, HistoryTrue
  <2> QED
    BY <1>1, <2>1 DEF Pending, Overtakes
<1>5. OnPolicy'
  BY <1>1, <1>2 DEF CleanInv, OnPolicy, Overtakes, GoesOn
<1>6. FirstPassword'
  <2>1. CASE req[p].op = "initial"
    <3>1. hash.pw = NoPassword
      BY <1>1, <1>2, <2>1 DEF Loaded, LoadedOf
    <3>2. stamp = "never" /\ ~ChangeUnderWay({"record", "revoke"})
      BY <3>1 DEF Unset, ChangeUnderWay
    <3>3. sessions = {}
      BY <1>1, <3>1, <3>2, PasswordsAssumption DEF CleanInv, SessionsTrue, TypeOK, Session
    <3>4. sessions' = {}
      BY <3>3 DEF SetHash, Given
    <3> QED
      BY <1>1, <3>2, <3>4 DEF FirstPassword, Overtakes, SetHash
  <2>2. CASE req[p].op # "initial"
    BY <1>1, <2>2 DEF FirstPassword, Overtakes, GoesOn
  <2> QED
    BY <2>1, <2>2
<1>7. OwnProven'
  <2>1. ASSUME NEW s \in sessions', s.id \in req[p].own PROVE s.proof = hash'.pw
    BY <2>1 DEF SetHash, Given, TypeOK, Session
  <2> QED
    BY <1>1, <2>1 DEF OwnProven, Overtakes, GoesOn
<1> QED
  BY <1>3, <1>4, <1>5, <1>6, <1>7 DEF CleanInv, StampTrue, HistoryTrue, SessionsTrue, HoldsTrue

\* The history filed: a request not overtaken files exactly what is missing.
LEMMA CleanRecord ==
    ASSUME TypeOK, Shape, Unset, Loaded, CleanInv, NEW p \in Proc, Record(p)
    PROVE  CleanInv'
<1> SUFFICES ASSUME clean' PROVE CleanInv'
  BY DEF CleanInv
<1>1. clean /\ req[p].fresh /\ Overtakes(p) /\ req[p].pc = "record"
  BY RecordReq DEF Overtakes
<1>2. IF req[p].op = "initial" THEN Ends(p) ELSE GoesOn(p, "revoke")
  BY RecordReq
<1>3. req'[p].pc # "record" /\ req'[p].pc # "set"
  BY <1>2 DEF Ends, GoesOn
<1>4. Pending' /\ FirstPassword'
  BY <1>1, <1>3 DEF Pending, FirstPassword, Overtakes
<1>5. OnPolicy'
  BY <1>1, <1>3 DEF CleanInv, OnPolicy, Overtakes
<1>6. StampTrue'
  BY DEF StampTrue, Record
<1>7. HistoryTrue'
  <2>1. CASE used = Newest(Push(req[p].row, history), Depth)
    BY <1>1, <2>1 DEF CleanInv, OnPolicy, HistoryTrue, Record
  <2>2. CASE \E q \in Proc : req[q].pc = "record" /\ ~req[q].fresh
    <3>1. PICK q \in Proc : req[q].pc = "record" /\ ~req[q].fresh
      BY <2>2
    <3>2. req'[q].pc = "record" /\ req'[q].op # "login"
      BY <1>1, <3>1 DEF Overtakes, Shape, ShapeOf
    <3> QED
      BY <3>2 DEF HistoryTrue, ChangeUnderWay
  <2> QED
    BY <1>1, <2>1, <2>2 DEF CleanInv, Pending
<1>8. SessionsTrue' /\ HoldsTrue'
  <2>1. CASE req[p].op = "initial"
    <3>1. \A s \in sessions : s.proof = hash.pw /\ ~s.held
      BY <1>1, <2>1 DEF CleanInv, FirstPassword
    <3> QED
      BY <3>1 DEF SessionsTrue, HoldsTrue, Record
  <2>2. CASE req[p].op # "initial"
    <3>1. req'[p].pc = "revoke" /\ req'[p].op # "login"
      BY <1>1, <1>2, <2>2 DEF GoesOn, Shape, ShapeOf
    <3> QED
      BY <3>1 DEF SessionsTrue, HoldsTrue, ChangeUnderWay
  <2> QED
    BY <2>1, <2>2
<1>9. OwnProven'
  <2>1. \A s \in sessions : s.id \in req[p].own => s.proof = hash.pw
    BY <1>1 DEF CleanInv, OwnProven
  <2>2. UNCHANGED <<hash, sessions>> /\ (req'[p].pc = "revoke" => req'[p].own = req[p].own)
    BY <1>2 DEF Record, Ends, GoesOn
  <2>3. \A q \in Proc \ {p} : ~req'[q].fresh
    BY <1>1 DEF Overtakes
  <2> QED
    BY <1>3, <2>1, <2>2, <2>3 DEF OwnProven
<1> QED
  BY <1>4, <1>5, <1>6, <1>7, <1>8, <1>9 DEF CleanInv

\* The revocation leaves at most the session of its change, whose hold is still to
\* be lifted.
LEMMA CleanRevoke ==
    ASSUME TypeOK, Shape, Unset, Loaded, CleanInv, NEW p \in Proc, Revoke(p)
    PROVE  CleanInv'
<1> SUFFICES ASSUME clean' PROVE CleanInv'
  BY DEF CleanInv
<1>1. /\ clean /\ req[p].fresh /\ Overtakes(p) /\ req[p].pc = "revoke"
      /\ UNCHANGED <<hash, stamp, history, used, due>>
      /\ \A s \in sessions' : s \in sessions /\ s.id \in req[p].own
  BY RevokeReq DEF Overtakes, Revoke
<1>2. req'[p].pc \notin {"record", "set"}
  BY RevokeReq DEF Ends, GoesOn
<1>3. ChangeUnderWay({"record"}) => ChangeUnderWay({"record"})'
  BY <1>1, StaysUnderWay
<1>4. Pending' /\ FirstPassword' /\ OwnProven'
  BY <1>1, <1>2, RevokeReq DEF Pending, FirstPassword, OwnProven, Overtakes, Ends, GoesOn
<1>7. SessionsTrue'
  BY <1>1 DEF CleanInv, OwnProven, SessionsTrue
<1>8. HoldsTrue'
  <2>1. CASE req[p].op = "change"
    <3>1. req'[p].pc = "clear" /\ req'[p].own = req[p].own
      BY <2>1, RevokeReq DEF GoesOn
    <3> QED
      BY <1>1, <3>1 DEF HoldsTrue, ToBeLifted, At
  <2>2. CASE req[p].op # "change"
    BY <1>1, <2>2 DEF HoldsTrue, Shape, ShapeOf
  <2> QED
    BY <2>1, <2>2
<1>5. OnPolicy'
  BY <1>1, <1>2 DEF OnPolicy, Overtakes, CleanInv
<1>6. StampTrue' /\ HistoryTrue'
  BY <1>1, <1>3 DEF StampTrue, HistoryTrue, CleanInv
<1> QED
  BY <1>4, <1>5, <1>6, <1>7, <1>8 DEF CleanInv

LEMMA CleanKept ==
    ASSUME TypeOK, Shape, Unset, Loaded, CleanInv, [Next]_vars
    PROVE  CleanInv'
<1>1. CASE SessionEnds
  <2>1. UNCHANGED <<hash, stamp, history, req, used, due, clean>> /\ sessions' \subseteq sessions
    BY <1>1 DEF SessionEnds
  <2> QED
    BY <2>1 DEF CleanInv, Pending, OnPolicy, FirstPassword, StampTrue, HistoryTrue,
                OwnProven, SessionsTrue, HoldsTrue, ToBeLifted, At, ChangeUnderWay
<1>2. CASE Ages
  <2>1. /\ UNCHANGED <<hash, history, sessions, req, used, clean>> /\ due'
        /\ \A p \in Proc : req[p].pc # "record"
    BY <1>2 DEF Ages
  <2> QED
    BY <2>1 DEF CleanInv, Pending, OnPolicy, FirstPassword, StampTrue, HistoryTrue,
                OwnProven, SessionsTrue, HoldsTrue, ToBeLifted, At, ChangeUnderWay
<1>3. CASE UNCHANGED vars
  BY <1>3 DEF vars, CleanInv, Pending, OnPolicy, FirstPassword, StampTrue, HistoryTrue,
              OwnProven, SessionsTrue, HoldsTrue, ToBeLifted, At, ChangeUnderWay
<1> QED
  BY <1>1, <1>2, <1>3, CleanQuiet, CleanSetHash, CleanRecord, CleanRevoke DEF Next

-----------------------------------------------------------------------------
(* The theorems.                                                           *)

LEMMA InitIInv == Init => IInv
<1> SUFFICES ASSUME Init PROVE IInv
  OBVIOUS
<1>1. \A p \in Proc : /\ req[p].pc = "idle" /\ req[p].op = "login"
                     /\ ~req[p].fresh /\ req[p].own = {}
  BY DEF Init, Idle
<1>2. Shape /\ Loaded
  BY <1>1 DEF Shape, ShapeOf, Loaded, LoadedOf
<1>3. Unset
  BY <1>1 DEF Unset, Init
<1>4. Pending /\ OnPolicy /\ FirstPassword /\ OwnProven
  BY <1>1 DEF Pending, OnPolicy, FirstPassword, OwnProven
<1>5. StampTrue /\ HistoryTrue /\ SessionsTrue /\ HoldsTrue
  BY DEF Init, StampTrue, HistoryTrue, SessionsTrue, HoldsTrue
<1> QED
  BY <1>2, <1>3, <1>4, <1>5, InitType DEF IInv, CleanInv

LEMMA NextIInv == IInv /\ [Next]_vars => IInv'
  BY NextType, ShapeKept, UnsetKept, LoadedKept, CleanKept DEF IInv

LEMMA Invariance == Spec => []IInv
  BY InitIInv, NextIInv, PTL DEF Spec

\* TypeOK, for any constants.
THEOREM TypeCorrect == Spec => []TypeOK
<1>1. IInv => TypeOK
  BY DEF IInv
<1> QED
  BY <1>1, Invariance, PTL

\* SessionsFollowPassword, for any number of requests and sessions: while no call
\* failed and no overtaken request wrote, and outside the steps between a new hash
\* and its revocation, no session outlives the password last given in it, whether
\* the store spares the session that asked for the change or not.
THEOREM NoSessionOutlives == Spec => []SessionsFollowPassword
<1>1. IInv => SessionsFollowPassword
  BY DEF IInv, CleanInv, SessionsTrue, SessionsFollowPassword
<1> QED
  BY <1>1, Invariance, PTL

\* HistoryComplete, for any depth: while no call failed and no overtaken request
\* wrote, and no change has still to file its own, the filed hashes are the
\* replaced ones.
THEOREM HistoryIsTrue == Spec => []HistoryComplete
<1>1. IInv => HistoryComplete
  BY DEF IInv, CleanInv, HistoryTrue, HistoryComplete
<1> QED
  BY <1>1, Invariance, PTL

\* HoldsEndWithChange: while no call failed and no overtaken request wrote, a
\* session is held for a password that has not reached its age only during a
\* change, and when it survives the revocation only until ClearHold.
THEOREM HoldsEnd == Spec => []HoldsEndWithChange
<1>1. IInv => HoldsEndWithChange
  BY DEF IInv, CleanInv, HoldsTrue, HoldsEndWithChange
<1> QED
  BY <1>1, Invariance, PTL

\* Only these two steps write the hash.
LEMMA Replacing ==
    ASSUME TypeOK, [Next]_vars, Replaced
    PROVE  \E p \in Proc : Rehash(p) \/ SetHash(p)
  BY DEF Next, vars, Replaced, Login, InsertSession, Change, Reset, Redeem, Begin, CheckReuse,
         Record, Revoke, ClearHold, StoreError, SessionEnds, Ages

\* ReplacedByRight: a request that was not overtaken replaces only the
\* password it may.
THEOREM RightfullyReplaced == Spec => ReplacedByRight
<1> DEFINE Right(p) == \/ req[p].op = "reset"
                       \/ req[p].op = "change" /\ req[p].row = hash.pw
                       \/ req[p].op = "initial" /\ hash.pw = NoPassword
<1>1. ASSUME IInv, [Next]_vars, Replaced
      PROVE  \E p \in Proc : Moved(p) /\ (req[p].fresh => Right(p))
  <2>1. PICK p \in Proc : Rehash(p) \/ SetHash(p)
    BY <1>1, Replacing DEF IInv
  <2>2. req[p].op \in {"login", "change", "reset", "initial"}
    BY <1>1 DEF IInv, TypeOK, Request
  <2>3. CASE Rehash(p)
    <3>1. Moved(p)
      BY <1>1, <2>3, RehashReq DEF IInv, Moved, GoesOn
    <3>2. ~req[p].fresh
      BY <1>1, <2>3, RehashReq DEF IInv, Loaded, LoadedOf, Replaced
    <3> QED
      BY <3>1, <3>2
  <2>4. CASE SetHash(p)
    <3>1. Moved(p) /\ req[p].op # "login"
      BY <1>1, <2>4, SetHashReq DEF IInv, Moved, GoesOn, Shape, ShapeOf
    <3>2. req[p].fresh => Right(p)
      BY <1>1, <2>2, <2>4, <3>1, SetHashReq DEF IInv, Loaded, LoadedOf
    <3> QED
      BY <3>1, <3>2
  <2> QED
    BY <2>1, <2>3, <2>4
<1>2. IInv /\ [Next]_vars =>
        [Replaced => \E p \in Proc :
            /\ Moved(p)
            /\ req[p].fresh => \/ req[p].op = "reset"
                               \/ req[p].op = "change" /\ req[p].row = hash.pw
                               \/ req[p].op = "initial" /\ hash.pw = NoPassword]_vars
  BY <1>1
<1> QED
  BY <1>2, Invariance, PTL DEF Spec, ReplacedByRight

\* NoneComesBack: while no call failed and no overtaken request wrote, and unless
\* another change has still to file its own, none of the last Depth passwords is
\* set again.
THEOREM NoneIsSetAgain == Spec => NoneComesBack
<1>1. ASSUME IInv, [Next]_vars, clean', Replaced, ~ChangeUnderWay({"record"})
      PROVE  hash'.pw \notin Filed(used, Depth)
  <2>1. PICK p \in Proc : Rehash(p) \/ SetHash(p)
    BY <1>1, Replacing DEF IInv
  <2>2. CASE Rehash(p)
    BY <1>1, <2>2, RehashReq, ZenonT(30) DEF IInv, Loaded, LoadedOf, Replaced, Overtakes
  <2>3. CASE SetHash(p)
    <3>1. clean /\ req[p].fresh /\ req[p].pc = "set" /\ hash'.pw = req[p].next
      BY <1>1, <2>3, SetHashReq DEF IInv, Overtakes, SetHash
    <3> QED
      BY <1>1, <3>1 DEF IInv, CleanInv, OnPolicy
  <2> QED
    BY <2>1, <2>2, <2>3
<1>2. IInv /\ [Next]_vars =>
        [clean' /\ Replaced /\ ~ChangeUnderWay({"record"}) =>
            hash'.pw \notin Filed(used, Depth)]_vars
  BY <1>1
<1> QED
  BY <1>2, Invariance, PTL DEF Spec, NoneComesBack

=============================================================================
