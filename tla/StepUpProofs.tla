--------------------------- MODULE StepUpProofs ---------------------------
(***************************************************************************)
(* The theorems of step-up, for any sessions and keys, any window, any     *)
(* number of concurrent requests and any store call failing.               *)
(***************************************************************************)
EXTENDS StepUp, FiniteSetTheorems, TLAPS

-----------------------------------------------------------------------------
(* The inductive invariant.                                                *)

\* A revocation is one key's, in one session.
ShapeOf(r) ==
    /\ r.pc \in {"list", "revoke"} => r.op = "revoke"
    /\ r.op = "revoke" => r.session # {} /\ \E k \in Key : r.key = {k}

Shape == \A p \in Proc : ShapeOf(req[p])

\* What a request learned of the account's factors is so until they change. A
\* request about to revoke a key leaves another factor, or was shown a proof.
FoundOf(r) ==
    r.fresh =>
        /\ r.pc = "app" => keys = {}
        /\ r.pc = "password" => ~HasFactor
        /\ r.pc = "list" /\ r.other => app
        /\ r.pc = "revoke" => r.shown \/ app \/ keys \ r.key # {}

Found == \A p \in Proc : FoundOf(req[p])

\* No identity says more of its session than the proofs given there.
IdentityOf(r) == \A s \in r.session : r.stamp <= proven[s]

Identity == \A p \in Proc : IdentityOf(req[p])

IInv == TypeOK /\ Shape /\ Found /\ OwnProof /\ Identity

-----------------------------------------------------------------------------
(* Requests.                                                               *)

LEMMA IdleType == Idle \in Request
  BY StepUpAssumption DEF Idle, Request, Window

LEMMA Finished ==
    ASSUME TypeOK, NEW p \in Proc, Finish(p)
    PROVE  /\ req' \in [Proc -> Request]
           /\ req'[p] = Idle /\ \A q \in Proc \ {p} : req'[q] = req[q]
  BY IdleType DEF TypeOK, Finish

\* Where a request may go.
Step == {"other", "verify", "keys", "app", "password", "ceremony", "stamp", "list", "revoke"}

\* A request that goes on is the same request, of the same session.
Onward(p, pc) ==
    /\ req'[p].pc = pc /\ req'[p].op = req[p].op /\ req'[p].session = req[p].session
    /\ req'[p].stamp = req[p].stamp /\ req'[p].key = req[p].key
    /\ req'[p].fresh = req[p].fresh

LEMMA Going ==
    ASSUME TypeOK, NEW p \in Proc, NEW pc \in Step, Goto(p, pc)
    PROVE  /\ req' \in [Proc -> Request] /\ \A q \in Proc \ {p} : req'[q] = req[q]
           /\ Onward(p, pc)
<1>1. [req[p] EXCEPT !.pc = pc] \in Request
  BY DEF TypeOK, Request, Step
<1>2. req' = [req EXCEPT ![p] = [req[p] EXCEPT !.pc = pc]]
  BY DEF Goto
<1>3. req'[p] = [req[p] EXCEPT !.pc = pc]
  BY <1>2 DEF TypeOK
<1>4. Onward(p, pc)
  BY <1>3 DEF TypeOK, Request, Onward
<1> QED
  BY <1>1, <1>2, <1>4 DEF TypeOK

LEMMA Placing ==
    ASSUME TypeOK, NEW p \in Proc, NEW r \in Request, req' = [req EXCEPT ![p] = r]
    PROVE  req' \in [Proc -> Request] /\ req'[p] = r /\ \A q \in Proc \ {p} : req'[q] = req[q]
  BY DEF TypeOK

\* After a change of the factors no request has an up-to-date view of them.
LEMMA Refreshing ==
    ASSUME NEW r \in [Proc -> Request], req' = Overtaken(r)
    PROVE  /\ req' \in [Proc -> Request]
           /\ \A q \in Proc :
                /\ req'[q].pc = r[q].pc /\ req'[q].op = r[q].op /\ ~req'[q].fresh
                /\ req'[q].session = r[q].session /\ req'[q].stamp = r[q].stamp
                /\ req'[q].key = r[q].key
<1>1. ASSUME NEW q \in Proc
      PROVE  /\ [r[q] EXCEPT !.fresh = FALSE] \in Request
             /\ [r[q] EXCEPT !.fresh = FALSE].pc = r[q].pc
             /\ [r[q] EXCEPT !.fresh = FALSE].op = r[q].op
             /\ ~[r[q] EXCEPT !.fresh = FALSE].fresh
             /\ [r[q] EXCEPT !.fresh = FALSE].session = r[q].session
             /\ [r[q] EXCEPT !.fresh = FALSE].stamp = r[q].stamp
             /\ [r[q] EXCEPT !.fresh = FALSE].key = r[q].key
  <2>1. r[q] \in Request
    OBVIOUS
  <2> QED
    BY <2>1 DEF Request
<1>2. \A q \in Proc : req'[q] = [r[q] EXCEPT !.fresh = FALSE]
  BY DEF Overtaken
<1>3. req' \in [Proc -> Request]
  BY <1>1 DEF Overtaken
<1> QED
  BY <1>1, <1>2, <1>3

\* A question that falls back to no is never answered yes wrongly, one that falls
\* back to yes never no.
LEMMA Answers ==
    ASSUME NEW truth \in BOOLEAN
    PROVE  /\ \A yes \in Answer(truth, FALSE) : yes \in BOOLEAN /\ (yes => truth)
           /\ \A yes \in Answer(truth, TRUE) : yes \in BOOLEAN /\ (truth => yes)
<1>1. CASE truth = TRUE
  BY <1>1 DEF Answer
<1>2. CASE truth = FALSE
  BY <1>2 DEF Answer
<1> QED
  BY <1>1, <1>2

LEMMA Lesser ==
    ASSUME NEW n \in Window
    PROVE  Less(n) \in Window /\ \A m \in Window : n <= m => Less(n) <= Less(m)
  BY StepUpAssumption DEF Window, Less

\* At most one key outside a singleton, or some key beside it.
LEMMA SpareKey ==
    ASSUME NEW k, ~(Cardinality(keys) <= 1)
    PROVE  keys \ {k} # {}
<1>1. SUFFICES ASSUME keys \ {k} = {} PROVE FALSE
  OBVIOUS
<1>2. keys = {} \/ keys = {k}
  BY <1>1
<1>3. Cardinality({}) = 0 /\ Cardinality({k}) = 1
  BY FS_EmptySet, FS_Singleton
<1> QED
  BY <1>2, <1>3

-----------------------------------------------------------------------------
(* What a step comes to.                                                   *)

Others(p) == \A q \in Proc \ {p} : req'[q] = req[q]

Stops(p) == req'[p] = Idle

Starts(p) ==
    /\ req'[p].pc \in {"other", "ceremony"}
    /\ req'[p].op = "revoke" => \E k \in Key : req'[p].key = {k}
    /\ \E s \in Session : req'[p].session = {s} /\ req'[p].stamp = stamp[s]

Learns(p) ==
    \/ \E pc \in {"verify", "keys", "stamp"} : Onward(p, pc)
    \/ Onward(p, "app") /\ keys = {}
    \/ Onward(p, "password") /\ req[p].pc = "app" /\ ~app
    \/ Onward(p, "list") /\ req[p].op = "revoke" /\ (req'[p].other => app)
    \/ /\ Onward(p, "revoke") /\ req[p].pc = "list"
       /\ ~Guarded(req[p])
       /\ req'[p].shown <=> \E s \in req[p].session : proven[s] > 0

\* A step that neither stamps a session nor changes the factors.
Looks(p) ==
    /\ req' \in [Proc -> Request] /\ Others(p)
    /\ UNCHANGED <<app, keys, lost, stamp, proven>>
    /\ Stops(p) \/ Starts(p) \/ Learns(p)

Stamps(p) ==
    /\ req' \in [Proc -> Request] /\ Others(p) /\ Stops(p)
    /\ UNCHANGED <<app, keys, lost>>
    /\ stamp' = [s \in Session |-> IF s \in req[p].session THEN StepUpWindow ELSE stamp[s]]
    /\ proven' = [s \in Session |-> IF s \in req[p].session THEN StepUpWindow ELSE proven[s]]

\* A change of the factors; whoever made it is done.
Disturbs ==
    /\ req' \in [Proc -> Request]
    /\ app' \in BOOLEAN /\ keys' \subseteq Key /\ lost' \subseteq Key
    /\ UNCHANGED <<stamp, proven>>
    /\ \A q \in Proc :
         /\ ~req'[q].fresh
         /\ \/ /\ req'[q].pc = req[q].pc /\ req'[q].op = req[q].op
               /\ req'[q].session = req[q].session /\ req'[q].stamp = req[q].stamp
               /\ req'[q].key = req[q].key
            \/ req'[q].pc = "idle" /\ req'[q].op = "secret" /\ req'[q].session = {}

Ages ==
    /\ req' \in [Proc -> Request]
    /\ UNCHANGED <<app, keys, lost>>
    /\ stamp' = [s \in Session |-> Less(stamp[s])]
    /\ proven' = [s \in Session |-> Less(proven[s])]
    /\ \A q \in Proc :
         /\ req'[q].pc = req[q].pc /\ req'[q].op = req[q].op /\ req'[q].key = req[q].key
         /\ req'[q].session = req[q].session /\ req'[q].stamp = Less(req[q].stamp)
         /\ req'[q].other = req[q].other /\ req'[q].shown = req[q].shown
         /\ req'[q].fresh = req[q].fresh

LEMMA Stopping ==
    ASSUME TypeOK, NEW p \in Proc, Finish(p), UNCHANGED <<app, keys, lost, stamp, proven>>
    PROVE  Looks(p)
  BY Finished DEF Looks, Others, Stops

LEMMA Leading ==
    ASSUME TypeOK, NEW p \in Proc, NEW pc \in {"verify", "keys", "stamp"}, Goto(p, pc),
           UNCHANGED <<app, keys, lost, stamp, proven>>
    PROVE  Looks(p)
  BY Going DEF Step, Looks, Others, Learns

LEMMA Begins == ASSUME TypeOK, NEW p \in Proc, Begin(p) \/ BeginRevoke(p) PROVE Looks(p)
<1>1. CASE Begin(p)
  <2>1. PICK s \in Session, op \in {"secret", "method", "passkey"} :
          req' = [req EXCEPT ![p] = [Idle EXCEPT !.pc = FirstPc(op), !.op = op,
                                     !.session = {s}, !.stamp = stamp[s], !.fresh = TRUE]]
    BY <1>1 DEF Begin
  <2> DEFINE r == [Idle EXCEPT !.pc = FirstPc(op), !.op = op,
                               !.session = {s}, !.stamp = stamp[s], !.fresh = TRUE]
  <2>2. stamp[s] \in Window /\ FirstPc(op) \in {"other", "ceremony"}
    BY DEF TypeOK, FirstPc
  <2>3. r \in Request
    BY <2>2, IdleType DEF Request
  <2>4. /\ r.pc \in {"other", "ceremony"} /\ r.op # "revoke"
        /\ r.session = {s} /\ r.stamp = stamp[s]
    BY <2>2 DEF Idle
  <2>5. req' = [req EXCEPT ![p] = r] /\ UNCHANGED <<app, keys, lost, stamp, proven>>
    BY <1>1, <2>1 DEF Begin
  <2> HIDE DEF r
  <2>6. req' \in [Proc -> Request] /\ req'[p] = r /\ Others(p)
    BY <2>3, <2>5, Placing DEF Others
  <2>7. Starts(p)
    BY <2>4, <2>6 DEF Starts
  <2> QED
    BY <2>5, <2>6, <2>7 DEF Looks
<1>2. CASE BeginRevoke(p)
  <2>1. PICK s \in Session, k \in keys :
          req' = [req EXCEPT ![p] = [Idle EXCEPT !.pc = "other", !.op = "revoke", !.key = {k},
                                     !.session = {s}, !.stamp = stamp[s], !.fresh = TRUE]]
    BY <1>2 DEF BeginRevoke
  <2> DEFINE r == [Idle EXCEPT !.pc = "other", !.op = "revoke", !.key = {k},
                               !.session = {s}, !.stamp = stamp[s], !.fresh = TRUE]
  <2>2. stamp[s] \in Window /\ k \in Key
    BY DEF TypeOK
  <2>3. r \in Request
    BY <2>2, IdleType DEF Request
  <2>4. r.pc = "other" /\ r.session = {s} /\ r.stamp = stamp[s] /\ r.key = {k}
    BY DEF Idle
  <2>5. req' = [req EXCEPT ![p] = r] /\ UNCHANGED <<app, keys, lost, stamp, proven>>
    BY <1>2, <2>1 DEF BeginRevoke
  <2> HIDE DEF r
  <2>6. req' \in [Proc -> Request] /\ req'[p] = r /\ Others(p)
    BY <2>3, <2>5, Placing DEF Others
  <2>7. Starts(p)
    BY <2>2, <2>4, <2>6 DEF Starts
  <2> QED
    BY <2>5, <2>6, <2>7 DEF Looks
<1> QED
  BY <1>1, <1>2

LEMMA Asking ==
    ASSUME TypeOK, NEW p \in Proc,
           \/ HasAnyFactorOtherThanPasskeys(p) \/ HasCredentials(p) \/ RequiresSecondFactor(p)
    PROVE  Looks(p)
<1>0. app \in BOOLEAN /\ (keys # {}) \in BOOLEAN
  BY DEF TypeOK
<1>1. CASE HasAnyFactorOtherThanPasskeys(p)
  <2>1. PICK yes \in Answer(app, FALSE) :
          IF req[p].op = "revoke"
          THEN req' = [req EXCEPT ![p].pc = "list", ![p].other = yes]
          ELSE Goto(p, IF yes THEN "verify" ELSE "keys")
    BY <1>1 DEF HasAnyFactorOtherThanPasskeys
  <2>2. UNCHANGED <<app, keys, lost, stamp, proven>>
    BY <1>1 DEF HasAnyFactorOtherThanPasskeys
  <2>3. yes \in BOOLEAN /\ (yes => app)
    BY <1>0, Answers
  <2>4. CASE req[p].op = "revoke"
    <3> DEFINE r == [req[p] EXCEPT !.pc = "list", !.other = yes]
    <3>1. r \in Request
      BY <2>3 DEF TypeOK, Request
    <3>2. /\ r.pc = "list" /\ r.op = req[p].op /\ r.session = req[p].session
          /\ r.stamp = req[p].stamp /\ r.key = req[p].key /\ r.fresh = req[p].fresh
          /\ r.other = yes
      BY DEF TypeOK, Request
    <3>3. req' = [req EXCEPT ![p] = r]
      BY <2>1, <2>4
    <3> HIDE DEF r
    <3>4. req' \in [Proc -> Request] /\ req'[p] = r /\ Others(p)
      BY <3>1, <3>3, Placing DEF Others
    <3>5. Learns(p)
      BY <2>3, <2>4, <3>2, <3>4 DEF Learns, Onward
    <3> QED
      BY <2>2, <3>4, <3>5 DEF Looks
  <2>5. CASE req[p].op # "revoke"
    BY <2>1, <2>2, <2>5, Leading
  <2> QED
    BY <2>4, <2>5
<1>2. CASE HasCredentials(p)
  <2>1. PICK yes \in Answer(keys # {}, TRUE) : IF yes THEN Finish(p) ELSE Goto(p, "app")
    BY <1>2 DEF HasCredentials
  <2>2. UNCHANGED <<app, keys, lost, stamp, proven>>
    BY <1>2 DEF HasCredentials
  <2>3. yes \in BOOLEAN /\ (keys # {} => yes)
    BY <1>0, Answers
  <2>4. CASE yes
    BY <2>1, <2>2, <2>4, Stopping
  <2>5. CASE ~yes
    <3>1. Goto(p, "app") /\ keys = {}
      BY <2>1, <2>3, <2>5
    <3> QED
      BY <2>2, <3>1, Going DEF Step, Looks, Others, Learns
  <2> QED
    BY <2>4, <2>5
<1>3. CASE RequiresSecondFactor(p)
  <2>1. PICK yes \in Answer(app, TRUE) : IF yes THEN Finish(p) ELSE Goto(p, "password")
    BY <1>3 DEF RequiresSecondFactor
  <2>2. UNCHANGED <<app, keys, lost, stamp, proven>> /\ req[p].pc = "app"
    BY <1>3 DEF RequiresSecondFactor, At
  <2>3. yes \in BOOLEAN /\ (app => yes)
    BY <1>0, Answers
  <2>4. CASE yes
    BY <2>1, <2>2, <2>4, Stopping
  <2>5. CASE ~yes
    <3>1. Goto(p, "password") /\ ~app
      BY <2>1, <2>3, <2>5
    <3> QED
      BY <2>2, <3>1, Going DEF Step, Looks, Others, Learns
  <2> QED
    BY <2>4, <2>5
<1> QED
  BY <1>1, <1>2, <1>3

LEMMA Proving ==
    ASSUME TypeOK, NEW p \in Proc,
           VerifyFactor(p) \/ VerifyPasswordFor(p) \/ FinishStepUp(p) \/ StoreError(p)
    PROVE  Looks(p)
<1>1. UNCHANGED <<app, keys, lost, stamp, proven>> /\ (Finish(p) \/ Goto(p, "stamp"))
  BY DEF VerifyFactor, VerifyPasswordFor, FinishStepUp, StoreError
<1> QED
  BY <1>1, Stopping, Leading

LEMMA Listing == ASSUME TypeOK, NEW p \in Proc, ListCredentials(p) PROVE Looks(p)
<1>1. UNCHANGED <<app, keys, lost, stamp, proven>> /\ req[p].pc = "list"
  BY DEF ListCredentials, At
<1>2. CASE Finish(p)
  BY <1>1, <1>2, Stopping
<1>3. CASE /\ ~Guarded(req[p])
           /\ req' = [req EXCEPT ![p].pc = "revoke",
                        ![p].shown = \E s \in req[p].session : proven[s] > 0]
  <2> DEFINE yes == \E s \in req[p].session : proven[s] > 0
  <2>1. yes \in BOOLEAN
    OBVIOUS
  <2> DEFINE r == [req[p] EXCEPT !.pc = "revoke", !.shown = yes]
  <2>2. req' = [req EXCEPT ![p] = r]
    BY <1>3
  <2> HIDE DEF yes
  <2>3. r \in Request
    BY <2>1 DEF TypeOK, Request
  <2>4. /\ r.pc = "revoke" /\ r.op = req[p].op /\ r.session = req[p].session
        /\ r.stamp = req[p].stamp /\ r.key = req[p].key /\ r.fresh = req[p].fresh
        /\ r.shown = yes
    BY DEF TypeOK, Request
  <2> HIDE DEF r
  <2>5. req' \in [Proc -> Request] /\ req'[p] = r /\ Others(p)
    BY <2>2, <2>3, Placing DEF Others
  <2>6. Onward(p, "revoke") /\ req'[p].shown = yes
    BY <2>4, <2>5 DEF Onward
  <2>7. Learns(p)
    BY <1>1, <1>3, <2>6 DEF Learns, yes
  <2> QED
    BY <1>1, <2>5, <2>7 DEF Looks
<1> QED
  BY <1>2, <1>3 DEF ListCredentials

LEMMA Disturbing ==
    ASSUME TypeOK,
           \/ \E p \in Proc : RevokeCredential(p)
           \/ KeyRegistered \/ AppChanges \/ FactorsCleared
    PROVE  Disturbs
<1>1. app \in BOOLEAN /\ keys \subseteq Key /\ lost \subseteq Key /\ req \in [Proc -> Request]
  BY DEF TypeOK
<1>2. ASSUME NEW p \in Proc, RevokeCredential(p)
      PROVE  Disturbs
  <2> DEFINE r == [req EXCEPT ![p] = Idle]
  <2>1. /\ r \in [Proc -> Request] /\ r[p] = Idle /\ \A q \in Proc \ {p} : r[q] = req[q]
    BY <1>1, IdleType
  <2>2. /\ req' = Overtaken(r) /\ UNCHANGED <<app, stamp, proven>>
        /\ keys' = keys \ req[p].key /\ lost' = lost \cup req[p].key
    BY <1>2 DEF RevokeCredential
  <2> HIDE DEF r
  <2>3. req[p].key \subseteq Key
    BY <1>1 DEF Request
  <2>4. Idle.pc = "idle" /\ Idle.op = "secret" /\ Idle.session = {}
    BY DEF Idle
  <2>5. /\ req' \in [Proc -> Request]
        /\ \A q \in Proc :
             /\ req'[q].pc = r[q].pc /\ req'[q].op = r[q].op /\ ~req'[q].fresh
             /\ req'[q].session = r[q].session /\ req'[q].stamp = r[q].stamp
             /\ req'[q].key = r[q].key
    BY <2>1, <2>2, Refreshing
  <2> QED
    BY <1>1, <2>1, <2>2, <2>3, <2>4, <2>5 DEF Disturbs
<1>3. CASE KeyRegistered \/ AppChanges \/ FactorsCleared
  <2>1. /\ req' = Overtaken(req) /\ UNCHANGED <<stamp, proven>>
        /\ app' \in BOOLEAN /\ keys' \subseteq Key /\ lost' \subseteq Key
    BY <1>1, <1>3 DEF KeyRegistered, AppChanges, FactorsCleared
  <2> QED
    BY <1>1, <2>1, Refreshing DEF Disturbs
<1> QED
  BY <1>2, <1>3

LEMMA Aging == ASSUME TypeOK, Tick PROVE Ages
<1>1. ASSUME NEW q \in Proc
      PROVE  /\ [req[q] EXCEPT !.stamp = Less(req[q].stamp)] \in Request
             /\ req'[q] = [req[q] EXCEPT !.stamp = Less(req[q].stamp)]
  <2>1. req[q] \in Request /\ req[q].stamp \in Window
    BY DEF TypeOK, Request
  <2>2. Less(req[q].stamp) \in Window
    BY <2>1, Lesser
  <2>3. [req[q] EXCEPT !.stamp = Less(req[q].stamp)] \in Request
    BY <2>1, <2>2 DEF Request
  <2>4. req'[q] = [req[q] EXCEPT !.stamp = Less(req[q].stamp)]
    BY DEF Tick
  <2> QED
    BY <2>3, <2>4
<1>2. req' \in [Proc -> Request]
  BY <1>1 DEF Tick
<1>3. ASSUME NEW q \in Proc
      PROVE  /\ req'[q].pc = req[q].pc /\ req'[q].op = req[q].op
             /\ req'[q].key = req[q].key /\ req'[q].session = req[q].session
             /\ req'[q].stamp = Less(req[q].stamp)
             /\ req'[q].other = req[q].other /\ req'[q].shown = req[q].shown
             /\ req'[q].fresh = req[q].fresh
  <2>1. req[q] \in Request
    BY DEF TypeOK
  <2> QED
    BY <1>1, <2>1 DEF Request
<1> QED
  BY <1>2, <1>3 DEF Ages, Tick

LEMMA Stamping == ASSUME TypeOK, NEW p \in Proc, StampStepUp(p) PROVE Stamps(p)
  BY Finished DEF StampStepUp, Stamps, Others, Stops

\* Every step is one of these, or leaves everything as it was.
LEMMA Moving ==
    ASSUME TypeOK, [Next]_vars
    PROVE  \/ \E p \in Proc : Looks(p) \/ Stamps(p)
           \/ Disturbs \/ Ages \/ UNCHANGED vars
  BY Begins, Asking, Proving, Listing, Stamping, Disturbing, Aging DEF Next

-----------------------------------------------------------------------------
(* Every step keeps the invariant.                                         *)

LEMMA TypeStep == ASSUME TypeOK, [Next]_vars PROVE TypeOK'
<1>1. CASE \E p \in Proc : Looks(p)
  BY <1>1 DEF Looks, TypeOK
<1>2. ASSUME NEW p \in Proc, Stamps(p)
      PROVE  TypeOK'
  <2>1. StepUpWindow \in Window
    BY StepUpAssumption DEF Window
  <2> QED
    BY <1>2, <2>1 DEF Stamps, TypeOK
<1>3. CASE Disturbs
  BY <1>3 DEF Disturbs, TypeOK
<1>4. CASE Ages
  BY <1>4, Lesser DEF Ages, TypeOK
<1>5. CASE UNCHANGED vars
  BY <1>5 DEF vars, TypeOK
<1> QED
  BY <1>1, <1>2, <1>3, <1>4, <1>5, Moving

LEMMA ShapeStep == ASSUME TypeOK, Shape, [Next]_vars PROVE Shape'
<1>1. ASSUME NEW p \in Proc, Looks(p) \/ Stamps(p)
      PROVE  Shape'
  <2>1. \A q \in Proc : ShapeOf(req[q])
    BY DEF Shape
  <2>2. ShapeOf(req[p])'
    <3>1. CASE Stops(p)
      BY <3>1 DEF Stops, ShapeOf, Idle
    <3>2. CASE Starts(p)
      BY <3>2 DEF Starts, ShapeOf
    <3>3. CASE Learns(p)
      BY <2>1, <3>3 DEF Learns, Onward, ShapeOf
    <3> QED
      BY <1>1, <3>1, <3>2, <3>3 DEF Looks, Stamps
  <2>3. \A q \in Proc \ {p} : req'[q] = req[q]
    BY <1>1 DEF Looks, Stamps, Others
  <2> QED
    BY <2>1, <2>2, <2>3 DEF Shape, ShapeOf
<1>2. CASE Disturbs
  BY <1>2 DEF Disturbs, Shape, ShapeOf
<1>3. CASE Ages
  BY <1>3 DEF Ages, Shape, ShapeOf
<1>4. CASE UNCHANGED vars
  BY <1>4 DEF vars, Shape, ShapeOf
<1> QED
  BY <1>1, <1>2, <1>3, <1>4, Moving

\* A proof within the window stands behind every stamp.
LEMMA OwnProofStep == ASSUME TypeOK, OwnProof, [Next]_vars PROVE OwnProof'
<1>1. CASE UNCHANGED <<stamp, proven>>
  BY <1>1 DEF OwnProof
<1>2. ASSUME NEW p \in Proc, Stamps(p)
      PROVE  OwnProof'
  <2>1. StepUpWindow <= StepUpWindow
    BY StepUpAssumption
  <2> QED
    BY <1>2, <2>1 DEF Stamps, OwnProof
<1>3. CASE Ages
  <2>1. \A s \in Session : stamp[s] \in Window /\ proven[s] \in Window
    BY DEF TypeOK
  <2> QED
    BY <1>3, <2>1, Lesser DEF Ages, OwnProof
<1> QED
  BY <1>1, <1>2, <1>3, Moving DEF Looks, Disturbs, vars

LEMMA IdentityStep ==
    ASSUME TypeOK, OwnProof, Identity, [Next]_vars
    PROVE  Identity'
<1>1. /\ \A q \in Proc : IdentityOf(req[q])
      /\ \A s \in Session : stamp[s] \in Window /\ proven[s] \in Window
      /\ \A q \in Proc : req[q].stamp \in Window /\ req[q].session \subseteq Session
  BY DEF Identity, TypeOK, Request
<1>2. ASSUME NEW p \in Proc, Looks(p)
      PROVE  Identity'
  <2>1. IdentityOf(req[p])'
    <3>1. CASE Stops(p)
      BY <3>1 DEF Stops, IdentityOf, Idle
    <3>2. CASE Starts(p)
      <4>1. PICK s \in Session : req'[p].session = {s} /\ req'[p].stamp = stamp[s]
        BY <3>2 DEF Starts
      <4>2. stamp[s] <= proven[s] /\ proven' = proven
        BY <1>2 DEF OwnProof, Looks
      <4> QED
        BY <4>1, <4>2 DEF IdentityOf
    <3>3. CASE Learns(p)
      BY <1>1, <1>2, <3>3 DEF Looks, Learns, Onward, IdentityOf
    <3> QED
      BY <1>2, <3>1, <3>2, <3>3 DEF Looks
  <2>2. proven' = proven /\ \A q \in Proc \ {p} : req'[q] = req[q]
    BY <1>2 DEF Looks, Others
  <2> QED
    BY <1>1, <2>1, <2>2 DEF Identity, IdentityOf
<1>3. ASSUME NEW p \in Proc, Stamps(p)
      PROVE  Identity'
  <2>1. \A s \in Session : proven'[s] >= proven[s] /\ proven'[s] \in Window
    BY <1>1, <1>3, StepUpAssumption DEF Stamps, Window
  <2>2. IdentityOf(req[p])'
    BY <1>3 DEF Stamps, Stops, IdentityOf, Idle
  <2>3. ASSUME NEW q \in Proc \ {p}, NEW s \in req'[q].session
        PROVE  req'[q].stamp <= proven'[s]
    <3>1. req'[q] = req[q]
      BY <1>3 DEF Stamps, Others
    <3>2. s \in Session /\ req[q].stamp <= proven[s]
      BY <1>1, <2>3, <3>1 DEF IdentityOf
    <3> QED
      BY <1>1, <2>1, <3>1, <3>2 DEF Window
  <2> QED
    BY <2>2, <2>3 DEF Identity, IdentityOf
<1>4. CASE Disturbs
  BY <1>1, <1>4 DEF Disturbs, Identity, IdentityOf
<1>5. CASE Ages
  <2>1. ASSUME NEW q \in Proc, NEW s \in req'[q].session
        PROVE  req'[q].stamp <= proven'[s]
    <3>1. req'[q].session = req[q].session /\ req'[q].stamp = Less(req[q].stamp)
      BY <1>5 DEF Ages
    <3>2. s \in Session /\ req[q].stamp <= proven[s]
      BY <1>1, <2>1, <3>1 DEF IdentityOf
    <3>3. proven'[s] = Less(proven[s])
      BY <1>5, <3>2 DEF Ages
    <3> QED
      BY <1>1, <3>1, <3>2, <3>3, Lesser
  <2> QED
    BY <2>1 DEF Identity, IdentityOf
<1>6. CASE UNCHANGED vars
  BY <1>1, <1>6 DEF vars, Identity, IdentityOf
<1> QED
  BY <1>2, <1>3, <1>4, <1>5, <1>6, Moving

\* Who passes the guard of RevokeCredential leaves a factor, or was shown a proof.
LEMMA GuardPassed ==
    ASSUME TypeOK, NEW p \in Proc, ShapeOf(req[p]), FoundOf(req[p]), IdentityOf(req[p]),
           req[p].pc = "list", req[p].fresh, ~Guarded(req[p])
    PROVE  \/ \E s \in req[p].session : proven[s] > 0
           \/ app
           \/ keys \ req[p].key # {}
<1>1. req[p].session # {} /\ \E k \in Key : req[p].key = {k}
  BY DEF ShapeOf
<1>2. CASE ~(Cardinality(keys) <= 1)
  BY <1>1, <1>2, SpareKey
<1>3. CASE req[p].other
  BY <1>3 DEF FoundOf
<1>4. CASE SteppedUp(req[p])
  <2>1. PICK s \in req[p].session : TRUE
    BY <1>1
  <2>2. req[p].stamp \in Window /\ s \in Session /\ proven[s] \in Window
    BY DEF TypeOK, Request
  <2>3. req[p].stamp > 0 /\ req[p].stamp <= proven[s]
    BY <1>4 DEF SteppedUp, IdentityOf
  <2>4. proven[s] > 0
    BY <2>2, <2>3 DEF Window
  <2> QED
    BY <2>4
<1> QED
  BY <1>2, <1>3, <1>4 DEF Guarded

LEMMA FoundStep ==
    ASSUME TypeOK, Shape, Found, Identity, [Next]_vars
    PROVE  Found'
<1>1. \A q \in Proc : FoundOf(req[q]) /\ ShapeOf(req[q]) /\ IdentityOf(req[q])
  BY DEF Found, Shape, Identity
<1>2. ASSUME NEW p \in Proc, Looks(p) \/ Stamps(p)
      PROVE  Found'
  <2>1. UNCHANGED <<app, keys>> /\ \A q \in Proc \ {p} : req'[q] = req[q]
    BY <1>2 DEF Looks, Stamps, Others
  <2>2. FoundOf(req[p])'
    <3>1. CASE Stops(p)
      BY <3>1 DEF Stops, FoundOf, Idle
    <3>2. CASE Starts(p)
      BY <3>2 DEF Starts, FoundOf
    <3>3. CASE \E pc \in {"verify", "keys", "stamp"} : Onward(p, pc)
      BY <3>3 DEF Onward, FoundOf
    <3>4. CASE Onward(p, "app") /\ keys = {}
      BY <2>1, <3>4 DEF Onward, FoundOf
    <3>5. CASE Onward(p, "password") /\ req[p].pc = "app" /\ ~app
      BY <1>1, <2>1, <3>5 DEF Onward, FoundOf, HasFactor
    <3>6. CASE Onward(p, "list") /\ (req'[p].other => app)
      BY <2>1, <3>6 DEF Onward, FoundOf
    <3>7. CASE /\ Onward(p, "revoke") /\ req[p].pc = "list" /\ ~Guarded(req[p])
               /\ req'[p].shown <=> \E s \in req[p].session : proven[s] > 0
      <4>1. req[p].fresh =>
              \/ \E s \in req[p].session : proven[s] > 0
              \/ app
              \/ keys \ req[p].key # {}
        BY <1>1, <3>7, GuardPassed
      <4> QED
        BY <2>1, <3>7, <4>1 DEF Onward, FoundOf
    <3> QED
      BY <1>2, <3>1, <3>2, <3>3, <3>4, <3>5, <3>6, <3>7 DEF Looks, Stamps, Learns
  <2> QED
    BY <1>1, <2>1, <2>2 DEF Found, FoundOf, HasFactor
<1>3. CASE Disturbs
  BY <1>3 DEF Disturbs, Found, FoundOf
<1>4. CASE Ages
  BY <1>1, <1>4 DEF Ages, Found, FoundOf, HasFactor
<1>5. CASE UNCHANGED vars
  BY <1>1, <1>5 DEF vars, Found, FoundOf, HasFactor
<1> QED
  BY <1>2, <1>3, <1>4, <1>5, Moving

-----------------------------------------------------------------------------
(* The theorems.                                                           *)

LEMMA InitInv == Init => IInv
<1> SUFFICES ASSUME Init PROVE IInv
  OBVIOUS
<1>1. 0 \in Window
  BY StepUpAssumption DEF Window
<1>2. /\ app \in BOOLEAN /\ keys = {} /\ lost = {}
      /\ stamp = [s \in Session |-> 0] /\ proven = stamp
      /\ req \in [Proc -> Request] /\ \A p \in Proc : req[p] = Idle
  BY IdleType DEF Init
<1>3. TypeOK
  BY <1>1, <1>2 DEF TypeOK
<1>4. Idle.pc = "idle" /\ Idle.op = "secret" /\ Idle.session = {}
  BY DEF Idle
<1>5. Shape /\ Found /\ Identity
  BY <1>2, <1>4 DEF Shape, ShapeOf, Found, FoundOf, Identity, IdentityOf
<1>6. OwnProof
  BY <1>2 DEF OwnProof
<1> QED
  BY <1>3, <1>5, <1>6 DEF IInv

LEMMA NextInv == IInv /\ [Next]_vars => IInv'
  BY TypeStep, ShapeStep, FoundStep, OwnProofStep, IdentityStep DEF IInv

LEMMA Invariance == Spec => []IInv
  BY InitInv, NextInv, PTL DEF Spec

\* The factors, the stamps and the requests are always well-formed.
THEOREM TypeCorrect == Spec => []TypeOK
<1>1. IInv => TypeOK
  BY DEF IInv
<1> QED
  BY <1>1, Invariance, PTL

\* StampStepUp: a session is stepped up only for as long as a proof given in it
\* lasts.
THEOREM AlwaysOwnProof == Spec => []OwnProof
<1>1. IInv => OwnProof
  BY DEF IInv
<1> QED
  BY <1>1, Invariance, PTL

\* StepUp: an account with a factor is never asked for its password alone, whichever
\* reads of its factors fail, unless they changed since.
THEOREM NeverPasswordAlone == Spec => []PasswordNeverAlone
<1>1. IInv => PasswordNeverAlone
  BY DEF IInv, Found, FoundOf, PasswordNeverAlone, At
<1> QED
  BY <1>1, Invariance, PTL

\* RevokeCredential: the last factor goes only where a proof was given, unless the
\* factors changed since they were counted.
THEOREM LastFactorAlwaysOnPurpose == Spec => LastFactorOnPurpose
<1> DEFINE OnPurpose == \A p \in Proc :
        At(p, "revoke") /\ req[p].fresh /\ HasFactor /\ ~HasFactor' /\ At(p, "idle")'
            => req[p].shown
<1>1. IInv /\ [Next]_vars => [OnPurpose]_vars
  <2> SUFFICES ASSUME IInv, [Next]_vars, NEW p \in Proc,
                      req[p].pc = "revoke", req[p].fresh, HasFactor, ~HasFactor',
                      req'[p].pc = "idle"
               PROVE  req[p].shown
    BY DEF At
  <2>1. req[p].shown \/ app \/ keys \ req[p].key # {}
    BY DEF IInv, Found, FoundOf
  <2>2. RevokeCredential(p)
    <3>1. TypeOK /\ app' = FALSE /\ keys' = {}
      BY TypeStep DEF IInv, TypeOK, HasFactor
    <3>2. \A q \in Proc : ~Looks(q) /\ ~Stamps(q)
      BY DEF Looks, Stamps, HasFactor
    <3>3. ~Ages /\ ~UNCHANGED vars
      BY DEF Ages, vars, HasFactor
    <3>4. ~KeyRegistered /\ ~AppChanges /\ ~FactorsCleared
      <4>1. req'[p].pc = req[p].pc \/ ~(KeyRegistered \/ AppChanges \/ FactorsCleared)
        BY <3>1, Refreshing DEF TypeOK, KeyRegistered, AppChanges, FactorsCleared
      <4> QED
        BY <4>1
    <3>5. ASSUME NEW q \in Proc \ {p}
          PROVE  ~RevokeCredential(q)
      <4> SUFFICES ASSUME RevokeCredential(q) PROVE req'[p].pc = req[p].pc
        OBVIOUS
      <4> DEFINE r == [req EXCEPT ![q] = Idle]
      <4>1. r \in [Proc -> Request] /\ r[p] = req[p]
        BY <3>1, IdleType DEF TypeOK
      <4>2. req' = Overtaken(r)
        BY DEF RevokeCredential
      <4> HIDE DEF r
      <4> QED
        BY <4>1, <4>2, Refreshing
    <3>6. ~Tick
      BY <3>1, <3>3, Aging
    <3>7. \A q \in Proc :
            /\ ~Begin(q) /\ ~BeginRevoke(q) /\ ~HasAnyFactorOtherThanPasskeys(q)
            /\ ~HasCredentials(q) /\ ~RequiresSecondFactor(q) /\ ~VerifyFactor(q)
            /\ ~VerifyPasswordFor(q) /\ ~FinishStepUp(q) /\ ~StoreError(q)
            /\ ~ListCredentials(q) /\ ~StampStepUp(q)
      BY <3>1, <3>2, Begins, Asking, Proving, Listing, Stamping
    <3> QED
      BY <3>3, <3>4, <3>5, <3>6, <3>7 DEF Next
  <2>3. ~app /\ keys \ req[p].key = {}
    BY <2>2 DEF RevokeCredential, HasFactor
  <2> QED
    BY <2>1, <2>3
<1> QED
  BY <1>1, Invariance, PTL DEF Spec, LastFactorOnPurpose

=============================================================================
