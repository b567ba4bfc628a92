------------------------------ MODULE MC_Backup ------------------------------
EXTENDS Backup, TLC

CONSTANTS d1, d2

MCDevices == {d1, d2}
Symmetry == Permutations(MCDevices)
=============================================================================
