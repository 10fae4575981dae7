------------------------------ MODULE MCBackup ------------------------------
EXTENDS Backup, TLC

Symmetry == Permutations(Blobs)
=============================================================================
