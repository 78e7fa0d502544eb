---------------------------- MODULE MCComments ----------------------------
(* Comments on small instances.                                          *)
EXTENDS Comments, TLC

\* Comments, users and requests are interchangeable.
Symmetry == Permutations(Comment) \cup Permutations(User) \cup Permutations(Web)
=============================================================================
