----------------------------- MODULE MCHandleDb -----------------------------
EXTENDS HandleDb, TLC

CONSTANTS t1, t2, p1, p2, p3, p4, p5

MCOneThread == {t1}
MCTwoThreads == {t1, t2}
MCPointers == {p1, p2, p3, p4, p5}
MCPair == {p1, p2}
MCSymmetry == Permutations(MCPointers)
=============================================================================
