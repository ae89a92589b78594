---------------------------- MODULE MCIndexJobs ----------------------------
(* Instances of IndexJobs for TLC.  `rebuild' stands for the kinds whose    *)
(* request is the row's key (scan_source, rebuild: they run reindex(), whose*)
(* wrapper rolls back), `rebuild_vec' for those that raise in the middle of *)
(* their writes with no rollback (rebuild_vec, gc_source), `paths' for the  *)
(* kind whose payloads are unioned.                                         *)
EXTENDS IndexJobs, TLC

CONSTANTS c1, c2, rebuild, rebuild_vec, paths, p1, p2

MCTwoCallers == {c1, c2}
MCOneCaller == {c1}
MCJobKeys == {rebuild, paths}
MCAllKeys == {rebuild, rebuild_vec, paths}
MCPathKeys == {paths}
MCPaths == {p1, p2}

Raises(leaking) ==
  [k \in JobKeys |-> {"clean"} \cup (IF k \in leaking THEN {"leak"} ELSE {"rollback"})]
MCRaises == Raises({rebuild_vec})
\* Every way of raising for every key: no kind does all of it, a new one may.
MCRaisesAnyhow == [k \in JobKeys |-> {"clean", "rollback", "leak"}]

Symmetry == Permutations(MCTwoCallers) \cup Permutations(MCPaths)
=============================================================================
