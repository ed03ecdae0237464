----------------------------- MODULE MCTkcored -----------------------------
EXTENDS Tkcored

CONSTANTS k0, k1
=============================================================================
