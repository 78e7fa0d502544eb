----------------------- MODULE MCEmailVerification -----------------------
(* EmailVerification on small instances.                                 *)
EXTENDS EmailVerification, TLC

\* Users and requests are interchangeable: for the runs without liveness.
Symmetry == Permutations(User) \cup Permutations(Web)
=============================================================================
