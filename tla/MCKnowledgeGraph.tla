-------------------------- MODULE MCKnowledgeGraph --------------------------
(* KnowledgeGraph on small instances.                                      *)
EXTENDS KnowledgeGraph, TLC

\* Two ways lead from the start to "a", and on to a post that is gone; the second
\* release changes "a" and drops "b".
MCSite == << [s |-> <<"b", "a">>, a |-> <<"gone">>, b |-> <<"a">>],
             [s |-> <<"b", "a">>, a |-> <<>>] >>

MCAlias == [S |-> "s"]

MCAsked == {<<"s", 3>>, <<"S", 3>>}

Symmetry == Permutations(Proc)
=============================================================================
