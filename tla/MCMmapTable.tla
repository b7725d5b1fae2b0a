---------------------------- MODULE MCMmapTable ----------------------------
EXTENDS MmapTable, TLC
=============================================================================
