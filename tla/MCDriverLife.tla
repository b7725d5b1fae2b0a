---------------------------- MODULE MCDriverLife ----------------------------
EXTENDS DriverLife, TLC

Symmetry == Permutations(Majors) \cup Permutations(Procs)
=============================================================================
