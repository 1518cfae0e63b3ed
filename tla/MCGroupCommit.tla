---------------------------- MODULE MCGroupCommit ----------------------------
\* Small instances of GroupCommit for TLC.
EXTENDS GroupCommit, TLC

\* Threads that use the same entry points are interchangeable.
Symmetry == Permutations(Threads \ Exclusive) \cup Permutations(Exclusive)
=============================================================================
