--------------------------- MODULE MCVersionStore ---------------------------
EXTENDS VersionStore, TLC
CONSTANTS f0, f1, f2

\* The ids that the clock gives are interchangeable.
IdSymmetry == Permutations({f1, f2})

\* Bounds: the sketch editor is used before the first commit and left empty;
\* all snapshots and ids may be used before the first commit, one snapshot and
\* one new id after.
Budget ==
    Len(commits) > 1 =>
        /\ ~open /\ tool = "line" /\ entities = <<>>
        /\ Len(past) + Len(future) <= 1
        /\ Cardinality(used) <= 2
=============================================================================
