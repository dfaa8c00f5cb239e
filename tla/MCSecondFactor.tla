----------------------------- MODULE MCSecondFactor -----------------------------
(* Two secrets, one step-one token at a time, two concurrent requests.      *)
EXTENDS SecondFactor, TLC

Symmetry == Permutations(Proc) \cup Permutations(Secret)

\* The histories matter to no step, and to no property once the run is not
\* clean: states that differ only in them then count as one.
View == <<factor, recovery, tokens, disabled, now, req, drawn, clean,
          IF clean THEN <<used, proven>> ELSE <<>> >>

=============================================================================
