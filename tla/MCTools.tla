------------------------------ MODULE MCTools ------------------------------
EXTENDS Tools

\* two ids of the store with a common short one
MCUuids == {<<1, 1>>, <<1, 2>>}
MCRefs == {<<1>>, <<1, 1>>, <<1, 2>>}

CONSTANTS x, y, z

MCTexts == {x, y, z}
MCDrafts == {[top |-> x, sub |-> Absent], [top |-> y, sub |-> x], [top |-> z, sub |-> Absent]}

\* y is near x and z, which are not near each other
MCAlike ==
    LET bodies == [{"top", "sub"} -> MCTexts \cup {Absent}] IN
    {p \in bodies \X bodies : p[1].top = p[2].top \/ y \in {p[1].top, p[2].top}}

Symmetry == Permutations(Threads)
=============================================================================
