-------------------------- MODULE MCServerLifecycle --------------------------
EXTENDS ServerLifecycle, TLC

CONSTANTS p1, p2, s1, s2, i1, i2

Symmetric ==
    Permutations(Servers) \cup Permutations(Shells) \cup Permutations(Starts)
=============================================================================
