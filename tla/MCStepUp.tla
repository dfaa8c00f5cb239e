-------------------------------- MODULE MCStepUp --------------------------------
(* Two sessions of one account, two keys, two concurrent requests.           *)
EXTENDS StepUp, TLC

Symmetry == Permutations(Proc) \cup Permutations(Session) \cup Permutations(Key)

=============================================================================
