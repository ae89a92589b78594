--------------------------- MODULE MCStoreWrites ---------------------------
(* Instances of StoreWrites for TLC. *)
EXTENDS StoreWrites, TLC

CONSTANTS t1, t2, e1, e2, b1, b2, b3

MCTwoThreads == {t1, t2}
MCOneThread == {t1}
MCOneExt == {e1}
MCTwoExts == {e1, e2}
MCTwoBodies == {b1, b2}
MCThreeBodies == {b1, b2, b3}

Symmetry == Permutations(Threads) \cup Permutations(Exts) \cup Permutations(Bodies)
=============================================================================
