------------------------------- MODULE MCPasskeys -------------------------------
(* Two accounts, one key, two challenges, two concurrent requests.           *)
EXTENDS Passkeys, TLC

Symmetry == Permutations(Proc) \cup Permutations(User) \cup Permutations(Challenge)

=============================================================================
