-------------------------- MODULE MCFileIngestion --------------------------
(* Ingestion of candle files on small instances.                           *)
EXTENDS FileIngestion, TLC

CONSTANTS k1, k2

\* The contents worth telling apart: one candle on the only line, which counts as
\* empty; a header, a row that is read and one that is too short; a header, a row
\* that is read and one that is bad.
MCContent ==
    {[rows |-> {k1}, short |-> {}, header |-> FALSE, small |-> FALSE, bad |-> FALSE],
     [rows |-> {k1, k2}, short |-> {k2}, header |-> TRUE, small |-> FALSE, bad |-> FALSE],
     [rows |-> {k1}, short |-> {}, header |-> TRUE, small |-> FALSE, bad |-> TRUE]}

\* Files and names are interchangeable.
Symmetry == Permutations(File) \cup Permutations(Name)
=============================================================================
