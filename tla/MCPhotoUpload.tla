---------------------------- MODULE MCPhotoUpload ----------------------------
(* Uploads and visits on small instances.                                  *)
EXTENDS PhotoUpload, TLC

CONSTANTS sea, sea2, bad

\* sea2 looks like sea; bad is not an image.
MCDistance ==
    [c \in Content |-> [d \in Content |-> IF c = d THEN 0 ELSE IF bad \in {c, d} THEN 9 ELSE 3]]

\* A wide image, a tall one, and one that is one pixel wide.
MCSize == [c \in Content |-> IF c = sea THEN <<9, 5>> ELSE IF c = sea2 THEN <<3, 7>> ELSE <<1, 3>>]

\* The API and both forms; one file twice, a similar one, one that is no image.
MCSending ==
    {[how |-> "api", content |-> sea, add |-> TRUE],
     [how |-> "bulk", content |-> sea, add |-> FALSE],
     [how |-> "bulk", content |-> bad, add |-> FALSE],
     [how |-> "sync", content |-> sea2, add |-> TRUE],
     [how |-> "api", content |-> bad, add |-> FALSE]}

\* Clients and photos are interchangeable.
Symmetry == Permutations(Client) \cup Permutations(Photo)
=============================================================================
