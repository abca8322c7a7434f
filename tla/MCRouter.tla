------------------------------ MODULE MCRouter ------------------------------
EXTENDS Router, TLC

CONSTANTS t1, t2

MCTasks == {t1, t2}
MCLeftover == {0}
MCOneTask == {t1}
Symm == Permutations(MCTasks)
=============================================================================
