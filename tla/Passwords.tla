------------------------------- MODULE Passwords -------------------------------
(***************************************************************************)
(* One account's password, its history, its rotation and the sessions it   *)
(* opened: Login of src/authenticator.go and ChangePassword, ResetPassword *)
(* and SetInitialPassword of src/admin.go, run by concurrent requests.     *)
(*                                                                         *)
(* As in Roster a process is one request and a step at most one store      *)
(* call. A request that is refused before its first write changes nothing, *)
(* so a use case begins here at the load its checks passed on. The account *)
(* is enabled, has no second factor, and the administrator who resets it   *)
(* may: those checks are Roster's. A hash is modelled by the password it   *)
(* verifies; every member of Password satisfies Policy.Check.              *)
(***************************************************************************)
EXTENDS Sequences, Naturals

CONSTANTS
    Password,
    NoPassword,     \* the empty hash of an invited account
    Proc,           \* concurrent requests
    SessionId,      \* sessions live at a time: a bound
    Depth,          \* HistoryDepth of the organization's policy
    DefaultDepth,   \* HistoryDepth of DefaultPolicy
    Faults          \* what may fail: the policy "read", a "store" call

ASSUME PasswordsAssumption ==
    /\ NoPassword \notin Password
    /\ Depth \in Nat /\ DefaultDepth \in Nat
    /\ Faults \subseteq {"read", "store"}

VARIABLES
    hash,       \* the users row's hash: what it verifies, and at an old cost?
    stamp,      \* its PasswordChangedAt: never set, recent, or past the maximum age
    history,    \* the filed hashes, newest first
    sessions,   \* the live sessions
    req,        \* req[p]: where request p is
    used,       \* history: the passwords truly replaced, newest first, Depth of them
    due,        \* history: has the password in force truly reached its maximum age
    clean       \* history: so far no store call failed, and no request wrote
                \* anything after being overtaken by another's write

vars == <<hash, stamp, history, sessions, req, used, due, clean>>

Hash == [pw : Password \cup {NoPassword}, old : BOOLEAN]

\* proof is history: the password last given in the session, at the sign-in that
\* opened it or as the new one of a change. held is PasswordExpired, the rotation
\* hold.
Session == [id : SessionId, proof : Password, held : BOOLEAN]

Request == [ pc    : {"idle", "rehash", "session", "reuse", "set", "record", "revoke", "clear"},
             op    : {"login", "change", "reset", "initial"},
             row   : Password \cup {NoPassword},    \* what the loaded hash verifies
             next  : Password \cup {NoPassword},    \* the password to set
             held  : BOOLEAN,                       \* passwordExpired of the loaded row
             own   : SUBSET SessionId,              \* the session its caller is in
             depth : {0, Depth, DefaultDepth},      \* HistoryDepth of the policy read
             fresh : BOOLEAN ]   \* history: no other request has written since the load

Idle == [pc |-> "idle", op |-> "login", row |-> NoPassword, next |-> NoPassword,
         held |-> FALSE, own |-> {}, depth |-> 0, fresh |-> FALSE]

TypeOK ==
    /\ hash \in Hash
    /\ stamp \in {"never", "recent", "old"}
    /\ history \in Seq(Password) /\ used \in Seq(Password)
    /\ sessions \subseteq Session
    /\ req \in [Proc -> Request]
    /\ due \in BOOLEAN /\ clean \in BOOLEAN

-----------------------------------------------------------------------------
Newest(s, n) == SubSeq(s, 1, IF n < Len(s) THEN n ELSE Len(s))
Filed(s, n) == {s[i] : i \in {j \in DOMAIN s : j <= n}}
\* Mutant: an account that had no password files the empty hash.
PushEmptyToo(pw, s) == <<pw>> \o s

Push(pw, s) == IF pw = NoPassword THEN s ELSE <<pw>> \o s

\* policyFor: the organization's policy, or the default when it cannot be read.
PolicyDepths == {Depth} \cup (IF "read" \in Faults THEN {DefaultDepth} ELSE {})

Init ==
    /\ hash \in [pw : Password, old : BOOLEAN] \cup {[pw |-> NoPassword, old |-> FALSE]}
    /\ stamp \in (IF hash.pw = NoPassword THEN {"never"} ELSE {"never", "recent", "old"})
    /\ history = <<>> /\ used = <<>>
    /\ sessions = {}
    /\ req = [p \in Proc |-> Idle]
    /\ due = (stamp = "old")
    /\ clean = TRUE

Finish(p) == req' = [req EXCEPT ![p] = Idle]
At(p, pc) == req[p].pc = pc

\* p's write, after which it is at request r: the others are overtaken, and
\* the run stays clean if p itself was not.
Wrote(p, r) ==
    /\ req' = [q \in Proc |-> IF q = p THEN r ELSE [req[q] EXCEPT !.fresh = FALSE]]
    /\ clean' = (clean /\ req[p].fresh)

Begin(p, request) ==
    /\ At(p, "idle")
    /\ req' = [req EXCEPT ![p] = [request EXCEPT !.row = hash.pw, !.fresh = TRUE]]
    /\ UNCHANGED <<hash, stamp, history, sessions, used, due>>

-----------------------------------------------------------------------------
(* Login, given the right password.                                        *)

Login(p) ==
    /\ hash.pw # NoPassword
    /\ Begin(p, [Idle EXCEPT !.pc = IF hash.old THEN "rehash" ELSE "session",
                             !.held = (stamp = "old")])
    /\ UNCHANGED clean

\* NeedsRehash: the typed password is hashed again and stored, and a failure
\* to store it is ignored.
Rehash(p) ==
    LET r == [req[p] EXCEPT !.pc = "session"]
    IN  /\ At(p, "rehash")
        /\ \/ /\ hash' = [pw |-> req[p].row, old |-> FALSE]
              /\ Wrote(p, r)
           \/ /\ "store" \in Faults
              /\ req' = [req EXCEPT ![p] = r] /\ clean' = FALSE
              /\ UNCHANGED hash
        /\ UNCHANGED <<stamp, history, sessions, used, due>>

\* No live session has the id, and no request is in one that had.
Unused(id) == /\ \A s \in sessions : s.id # id
              /\ \A p \in Proc : id \notin req[p].own

\* issueSession. An unreadable policy means not expired.
InsertSession(p) ==
    /\ At(p, "session")
    /\ \E id \in SessionId, held \in BOOLEAN :
         /\ Unused(id)                   \* bound: an id is left
         /\ sessions' = sessions \cup {[id |-> id, proof |-> req[p].row, held |-> held]}
         /\ \/ held = req[p].held /\ clean' = (clean /\ req[p].fresh)
            \/ "read" \in Faults /\ ~held /\ clean' = FALSE
    /\ Finish(p)
    /\ UNCHANGED <<hash, stamp, history, used, due>>

-----------------------------------------------------------------------------
(* ChangePassword, with the right current password; ResetPassword.         *)

\* The caller was authenticated before: its session may have ended by now.
Change(p) ==
    \E next \in Password, own \in {{}} \cup {{s.id} : s \in sessions} :
        /\ hash.pw # NoPassword
        /\ Begin(p, [Idle EXCEPT !.pc = "reuse", !.op = "change", !.next = next,
                                 !.own = own])
        /\ UNCHANGED clean

Reset(p) ==
    \E next \in Password :
        /\ Begin(p, [Idle EXCEPT !.pc = "reuse", !.op = "reset", !.next = next,
                                 !.own = {}])
        /\ UNCHANGED clean

\* Mutant: the oldest of the filed hashes is not looked at.
CheckReuseOneFewer(p) ==
    \E depth \in PolicyDepths :
        /\ At(p, "reuse")
        /\ \/ req[p].next \in Filed(history, depth - 1) /\ Finish(p)
           \/ /\ req[p].next \notin Filed(history, depth - 1)
              /\ req' = [req EXCEPT ![p].pc = "set", ![p].depth = depth]
        /\ clean' = (clean /\ depth = Depth)
        /\ UNCHANGED <<hash, stamp, history, sessions, used, due>>

\* checkReuse, on as many filed hashes as the policy in hand asks for.
CheckReuse(p) ==
    \E depth \in PolicyDepths :
        /\ At(p, "reuse")
        /\ \/ req[p].next \in Filed(history, depth) /\ Finish(p)
           \/ /\ req[p].next \notin Filed(history, depth)
              /\ req' = [req EXCEPT ![p].pc = "set", ![p].depth = depth]
        /\ clean' = (clean /\ depth = Depth)
        /\ UNCHANGED <<hash, stamp, history, sessions, used, due>>

\* Whoever is in the caller's session has given the new password.
Given(p) == {[s EXCEPT !.proof = IF s.id \in req[p].own THEN req[p].next ELSE @] : s \in sessions}

SetHash(p) ==
    /\ At(p, "set")
    /\ hash' = [pw |-> req[p].next, old |-> FALSE]
    /\ used' = Newest(Push(hash.pw, used), Depth)
    /\ due' = FALSE
    /\ sessions' = Given(p)
    /\ Wrote(p, [req[p] EXCEPT !.pc = "record"])
    /\ UNCHANGED <<stamp, history>>

\* Mutant: the row is read again after the new hash was set.
RecordCurrent(p) ==
    /\ At(p, "record")
    /\ history' = Newest(Push(hash.pw, history), req[p].depth)
    /\ stamp' = "recent"
    /\ Wrote(p, IF req[p].op = "initial" THEN Idle ELSE [req[p] EXCEPT !.pc = "revoke"])
    /\ UNCHANGED <<hash, sessions, used, due>>

\* Mutant: a reset, too, ends without revoking.
RecordEndsReset(p) ==
    /\ At(p, "record")
    /\ history' = Newest(Push(req[p].row, history), req[p].depth)
    /\ stamp' = "recent"
    /\ Wrote(p, IF req[p].op # "change" THEN Idle ELSE [req[p] EXCEPT !.pc = "revoke"])
    /\ UNCHANGED <<hash, sessions, used, due>>

\* recordChange files the hash as it was loaded, and stamps the change.
Record(p) ==
    /\ At(p, "record")
    /\ history' = Newest(Push(req[p].row, history), req[p].depth)
    /\ stamp' = "recent"
    /\ Wrote(p, IF req[p].op = "initial" THEN Idle ELSE [req[p] EXCEPT !.pc = "revoke"])
    /\ UNCHANGED <<hash, sessions, used, due>>

\* RevokeSessionsByUser. To its callers the session that asks for a change survives
\* it "by design" (admin.go), while the call names no session and store.go calls it
\* "logout everywhere": the store may do either. A reset is asked for in nobody's
\* session of this account.
Revoke(p) ==
    /\ At(p, "revoke")
    /\ \E spared \in {{}, req[p].own} :
         sessions' = {s \in sessions : s.id \in spared}
    /\ Wrote(p, IF req[p].op = "reset" THEN Idle ELSE [req[p] EXCEPT !.pc = "clear"])
    /\ UNCHANGED <<hash, stamp, history, used, due>>

\* Mutant: the hold is left on the session that survived.
ClearNoHold(p) ==
    /\ At(p, "clear")
    /\ Finish(p)
    /\ UNCHANGED <<hash, stamp, history, sessions, used, due, clean>>

\* ClearPasswordExpired.
ClearHold(p) ==
    /\ At(p, "clear")
    /\ sessions' = {[s EXCEPT !.held = FALSE] : s \in sessions}
    /\ Finish(p)
    /\ UNCHANGED <<hash, stamp, history, used, due, clean>>

\* Mutant: an account that has a password is not refused.
RedeemAnyway(p) ==
    \E next \in Password, depth \in PolicyDepths :
        /\ Begin(p, [Idle EXCEPT !.pc = "set", !.op = "initial", !.next = next,
                                 !.depth = depth])
        /\ clean' = (clean /\ depth = Depth)

\* SetInitialPassword of an account that has none.
Redeem(p) ==
    \E next \in Password, depth \in PolicyDepths :
        /\ hash.pw = NoPassword
        /\ Begin(p, [Idle EXCEPT !.pc = "set", !.op = "initial", !.next = next,
                                 !.depth = depth])
        /\ clean' = (clean /\ depth = Depth)

-----------------------------------------------------------------------------
\* Logout, or a session running out.
SessionEnds ==
    \E s \in sessions :
        /\ sessions' = sessions \ {s}
        /\ UNCHANGED <<hash, stamp, history, req, used, due, clean>>

\* The password reaches the policy's maximum age, which is days: never while
\* the request that set it is still running. What is kept of it is the stamp.
Ages ==
    /\ hash.pw # NoPassword /\ ~due
    /\ \A p \in Proc : req[p].pc \notin {"record", "revoke", "clear"}
    /\ due' = TRUE
    /\ stamp' = IF stamp = "recent" THEN "old" ELSE stamp
    /\ UNCHANGED <<hash, history, sessions, req, used, clean>>

\* Any other failing store call ends its request with an error.
StoreError(p) ==
    /\ "store" \in Faults
    /\ req[p].pc \notin {"idle", "rehash"}
    /\ Finish(p)
    /\ clean' = FALSE
    /\ UNCHANGED <<hash, stamp, history, sessions, used, due>>

Next ==
    \/ \E p \in Proc :
          \/ Login(p) \/ Rehash(p) \/ InsertSession(p)
          \/ Change(p) \/ Reset(p) \/ Redeem(p)
          \/ CheckReuse(p) \/ SetHash(p) \/ Record(p) \/ Revoke(p) \/ ClearHold(p)
          \/ StoreError(p)
    \/ SessionEnds \/ Ages

Spec == Init /\ [][Next]_vars

-----------------------------------------------------------------------------
Moved(p) == req'[p].pc # req[p].pc
Replaced == hash'.pw # hash.pw

\* Who may replace what: ChangePassword the password its caller proved,
\* SetInitialPassword only an empty one, ResetPassword any; and a sign-in
\* none at all. A request overtaken since its load may break each of these
\* (store.go: the rehash is a "transparent cost upgrade"; admin.go: an
\* invitation "can never be used to overwrite one").
ReplacedByRight ==
    [][Replaced => \E p \in Proc :
          /\ Moved(p)
          /\ req[p].fresh => \/ req[p].op = "reset"
                             \/ req[p].op = "change" /\ req[p].row = hash.pw
                             \/ req[p].op = "initial" /\ hash.pw = NoPassword]_vars

ChangeUnderWay(pcs) == \E p \in Proc : req[p].op # "login" /\ req[p].pc \in pcs

\* admin.go (ChangePassword): "leaving the attacker's session live would make it
\* useless. The caller's own session survives". No session outlives the password
\* last given in it, but for the steps between the new hash and the revocation: a
\* change leaves at most the session in which the new one was given. While no call
\* failed and no overtaken request wrote.
SessionsFollowPassword ==
    clean => \/ \A s \in sessions : s.proof = hash.pw
             \/ ChangeUnderWay({"record", "revoke"})

\* The filed history is the true one, so a password is refused for as long
\* as the policy says: while no call failed, no overtaken request wrote, and no
\* change has still to file its own.
HistoryComplete ==
    clean => history = used \/ ChangeUnderWay({"record"})

\* admin.go (recordChange): without it "the previous password can be set
\* again immediately". None of the last Depth replaced ones comes back,
\* unless in the moment before another change has filed its own. While no call
\* failed and no overtaken request wrote.
NoneComesBack ==
    [][clean' /\ Replaced /\ ~ChangeUnderWay({"record"}) =>
          hash'.pw \notin Filed(used, Depth)]_vars

\* admin.go (ChangePassword): "leaving the flag set would lock the user out with
\* the very password they just set". A session is held only when the password in
\* force has reached its age, but until the revocation of a change; and the session
\* that survives it, until the hold is lifted. While no call failed and no overtaken
\* request wrote.
ToBeLifted(s) == \E p \in Proc : At(p, "clear") /\ s.id \in req[p].own

HoldsEndWithChange ==
    clean => \A s \in sessions :
        s.held => due \/ ChangeUnderWay({"record", "revoke"}) \/ ToBeLifted(s)

=============================================================================
