------------------------------ MODULE MCUptime ------------------------------
(* Uptime on small instances.                                              *)
EXTENDS Uptime, TLC

\* Webhook requests are interchangeable.
Symmetry == Permutations(Handler)
=============================================================================
