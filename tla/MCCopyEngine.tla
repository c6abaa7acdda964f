--------------------------- MODULE MCCopyEngine ---------------------------
(* Small instances of CopyEngine: one or two traders, one or two accounts. *)
EXTENDS CopyEngineInv, TLC

CONSTANTS t1, t2, a1, a2, u1

OneSub    == {<<t1, a1>>}
ThreeSubs == {<<t1, a1>>, <<t1, a2>>, <<t2, a1>>}

\* The source's event identifiers are interchangeable.
ExternalSymmetry == Permutations(ExternalIds)

OneUser == [s \in Subs |-> u1]
=============================================================================
