------------------------------ MODULE MCUsqlite ------------------------------
EXTENDS Usqlite, TLC
Symmetry == Permutations(Cursors) \cup Permutations(Stmts)
MCSizes == {-1, 0, 2, 3}
=============================================================================
