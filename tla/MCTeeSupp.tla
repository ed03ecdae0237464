----------------------------- MODULE MCTeeSupp -----------------------------
EXTENDS TeeSupp

CONSTANTS t1, t2, d1, d2

MCThreads == {t1, t2}
=============================================================================
