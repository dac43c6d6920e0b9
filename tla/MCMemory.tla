------------------------------ MODULE MCMemory ------------------------------
EXTENDS Memory
MCBlockSize == <<1, 2>>
Symmetry == Permutations(Proc)
=============================================================================
