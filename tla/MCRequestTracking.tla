--------------------------- MODULE MCRequestTracking ---------------------------
(* Requests and bans on small instances.                                   *)
EXTENDS RequestTracking, TLC

CONSTANTS i1, lo, f1, curl, plain, x

\* A request through the proxy, of an agent that a ban's pattern matches.
MCRequest ==
    {[peer |-> lo, forwarded |-> i1, real |-> None,
      agent |-> curl, accept |-> TRUE, other |-> plain, probe |-> FALSE]}

MCSha256 == [headers \in Headers |-> f1]

MCMatches == {<<x, curl>>}

\* Workers, keys of bans and tasks are interchangeable.
Symmetry == Permutations(Worker) \cup Permutations(BanId) \cup Permutations(Task)
=============================================================================
