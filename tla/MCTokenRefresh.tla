--------------------------- MODULE MCTokenRefresh ---------------------------
EXTENDS TokenRefresh, TLC

CONSTANTS k1, k2

OneKey == {[p \in Replicas |-> k1]}
OneOrTwoKeys == [Replicas -> {k1, k2}]

Symmetry ==
    UNION {Permutations(S) : S \in {Users, Replicas, Slots, {k1, k2}}}
=============================================================================
