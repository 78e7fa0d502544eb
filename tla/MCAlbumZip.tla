----------------------------- MODULE MCAlbumZip -----------------------------
(* AlbumZip on small instances.                                            *)
EXTENDS AlbumZip, TLC

\* Photos and task slots are interchangeable: for the runs without liveness.
Symmetry == Permutations(Photo) \cup Permutations(Job)
=============================================================================
