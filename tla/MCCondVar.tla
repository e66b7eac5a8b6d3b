------------------------------ MODULE MCCondVar ------------------------------
\* CondVar on a handful of threads.
EXTENDS CondVar, TLC

CONSTANTS t1, t2, t3

Symmetry == Permutations(Threads)
=============================================================================
