---------------------------- MODULE MCUpgrading -----------------------------
EXTENDS UpgradingInvariant, TLC

CONSTANTS alice, root, w1, w2

\* Both workspaces belong to the non-admin user, so that what the admin does is
\* done to someone else's pods.
OwnerIsAlice == [w \in Ids |-> alice]

UserAndId == [u \in Users, w \in Ids |-> <<u, w>>]

SuffixSymmetry == Permutations(Suffixes)
=============================================================================
