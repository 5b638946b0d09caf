------------------------------ MODULE MCGateway ------------------------------
EXTENDS GatewayClaims, TLC

CONSTANTS n1, n2, n3, r1, r2, r3

NoAffinity == [r \in Requests |-> NoNode]
\* r1 and r2 come from the same session key, r3 has no session.
SharedHome == [r \in Requests |-> IF r = r3 THEN NoNode ELSE n1]

Symmetric == Permutations(Nodes) \cup Permutations(Requests)
=============================================================================
