---------------------------- MODULE MCFixedPool ----------------------------
\* Instances of the fixed pool for TLC; the cfg files choose the threads.
EXTENDS FixedPool, TLC

\* The sets of controlling threads that call the pool in the same behaviour.
CONSTANT Together

\* Calls need not happen; this bounds which of them meet in one behaviour.  A
\* constraint on steps, since every state keeps its other outgoing steps.
CallsTogether == \E group \in Together :
                    {t \in Controllers : pc'[t] # "start" \/ t \in waiting'} \subseteq group

\* Submitters of the same kind, and workers, are interchangeable.
Symmetric == Permutations(Submitters) \cup Permutations(Workers)
=============================================================================
