----------------------------- MODULE MCCoverage -----------------------------
(* The coverage of one asset on small instances.                           *)
EXTENDS Coverage, TLC

\* Keys and workers are interchangeable.
Symmetry == Permutations(RowId) \cup Permutations(GapId) \cup Permutations(Worker)
=============================================================================
