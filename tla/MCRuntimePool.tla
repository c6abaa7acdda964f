---------------------------- MODULE MCRuntimePool ----------------------------
(* Three accounts compete for pools of two and three terminals.            *)
EXTENDS RuntimePool, TLC

CONSTANTS e1, e2, e3, p1, p2, h1, h2

SmallPools == {<<e1, e2>>, <<e2, e3>>, <<e3, e1, e2>>}

TwoThreads == [th \in Threads |-> IF th = h1 THEN p1 ELSE p2]

AccountSymmetry == Permutations(Accounts)
=============================================================================
