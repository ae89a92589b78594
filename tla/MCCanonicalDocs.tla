-------------------------- MODULE MCCanonicalDocs --------------------------
(* Instances of CanonicalDocs for TLC: the threads of one process share one *)
(* store, those of two processes have one each.                             *)
EXTENDS CanonicalDocs, TLC

CONSTANTS t1, t2, s1, s2, e1, e2, e3, k1, k2

MCThreads == {t1, t2}
MCOneThread == {t1}
MCOneStore == {s1}
MCSameStore == [t \in Threads |-> s1]
MCTwoExts == {e1, e2}
MCThreeExts == {e1, e2, e3}
MCOneTopic == {k1}
MCTwoTopics == {k1, k2}

OneProcess == Permutations({t1, t2}) \cup Permutations(Exts) \cup Permutations({k1, k2})
=============================================================================
