------------------------------ MODULE MCLogin ------------------------------
EXTENDS Login, TLC

Symmetric == Permutations(Session) \cup Permutations(Thread)
=============================================================================
