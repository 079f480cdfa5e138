------------------------------ MODULE MCMpVfs ------------------------------
EXTENDS MpVfs, TLC

CONSTANTS root, flash, main, lower, upper

\* "//x.db", "/x.db" and "//X.DB" for one file, in the root of a file system
\* that folds case.
MCName == [dir : {root, ""}, base : {lower}] \cup [dir : {root}, base : {upper}]

MCFileNamed == [n \in MCName |-> main]

MCHome == [p \in {main} |-> root]

MCBlock == {<< >>} \cup {<<c>> : c \in Cell \ {Zero}}
             \cup {<<c, d>> : c, d \in Cell \ {Zero}}

\* The last one goes through an int as 0.
MCOffset == {0, 1, IntLimit, 2 * IntLimit}

Symmetry == Permutations(File)
=============================================================================
