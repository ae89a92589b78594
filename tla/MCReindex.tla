----------------------------- MODULE MCReindex -----------------------------
(* Instances of Reindex for TLC. *)
EXTENDS Reindex

CONSTANTS p1, p2, c1, c2

MCPaths == {p1, p2}
MCOnePath == {p1}
MCTexts == {c1, c2}

\* c1 cites the file at p1.  Docs of c1 are near-duplicates of one another, those
\* of c2 are stale by their frontmatter.
MCCites == {<<c1, p1>>}
MCNear == {<<c1, c1>>}
MCWithdrawn == {c2}

MCFirstFiles == [p \in MCPaths |-> c1]
=============================================================================
