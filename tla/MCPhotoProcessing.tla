------------------------- MODULE MCPhotoProcessing -------------------------
(* PhotoProcessing on small instances.                                     *)
EXTENDS PhotoProcessing, TLC

\* Slots, requests and points are interchangeable: for the runs without liveness.
Symmetry == Permutations(Job) \cup Permutations(Web) \cup Permutations(Point)
=============================================================================
