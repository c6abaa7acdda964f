--------------------------- MODULE MCAccessStore ---------------------------
EXTENDS AccessStore, TLC

CONSTANTS e1, a1, l1, w1, w2

MCLegacyEmail    == l1 :> e1
MCLegacyActive   == l1 :> a1
MCLegacyAccounts == a1 :> l1
MCSymmetry       == Permutations({w1, w2})
=============================================================================
