-------------------------- MODULE MCDocLifecycle --------------------------
(* Instances of DocLifecycle for TLC. *)
EXTENDS DocLifecycle, TLC

CONSTANTS t1, t2, e1, e2, b1, b2, p1, p2

MCOneThread == {t1}
MCTwoThreads == {t1, t2}
MCTwoExts == {e1, e2}
MCTwoBodies == {b1, b2}
MCOneTopic == {p1}
MCTwoTopics == {p1, p2}
MCSameTopic == [e \in Exts |-> p1]
MCOwners == {[base |-> "dev", n |-> n] : n \in {0, 1, 2}}
MCNoOwners == {}

Symmetry == Permutations(Threads) \cup Permutations(Exts)
=============================================================================
