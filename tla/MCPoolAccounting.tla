-------------------------- MODULE MCPoolAccounting --------------------------
\* Three submissions contend for one bounded slot under one observer.
EXTENDS PoolAccounting, TLC

JobSymmetry == Permutations(Jobs)
=============================================================================
