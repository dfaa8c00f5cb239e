------------------------------ MODULE MCPasswords ------------------------------
(* Two concurrent requests on one account and two sessions at a time, each  *)
(* indistinguishable from the other. Once a run is not clean any more no    *)
(* property and no step looks at used or at a session's proof: states that  *)
(* differ in them alone are one.                                            *)
EXTENDS Passwords, TLC

Alike == Permutations(Proc) \cup Permutations(SessionId)

Seen == <<hash, stamp, history, req, due, clean,
          IF clean THEN <<sessions, used>>
                   ELSE {[id |-> s.id, held |-> s.held] : s \in sessions}>>

=============================================================================
