------------------------------- MODULE MCGoogleSSO -------------------------------
(* Two accounts, two Google subjects, three states, two concurrent requests.   *)
EXTENDS GoogleSSO, TLC

Symmetry == Permutations(Proc) \cup Permutations(User)
            \cup Permutations(Subject) \cup Permutations(State)

=============================================================================
