----------------------------- MODULE MCPoolJobs -----------------------------
\* User code in the pools, for TLC: every pair of kinds of jobs in either pool.
EXTENDS PoolJobs

CONSTANTS First, Second

\* The two jobs are interchangeable, so each unordered pair of kinds is enough.
Rank == [detached |-> 1, callable |-> 2, custom |-> 3, foreign |-> 4]
Pairs == {k \in [Jobs -> Kinds] : Rank[k[First]] <= Rank[k[Second]]}
=============================================================================
