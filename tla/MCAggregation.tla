---------------------------- MODULE MCAggregation ----------------------------
(* Aggregation with four nodes.                                            *)
EXTENDS Aggregation, TLC

CONSTANTS n1, n2, n3, n4, t1, t2

MCNodes == {n1, n2, n3, n4}
MCFaulty == {n4}
MCTasks == {t1, t2}
MCOneTask == {t1}
NoFaults == {}
Symm == Permutations({n1, n2, n3})
SymmAll == Permutations(MCNodes)
=============================================================================
