---------------------------- MODULE MCExclusiveLock ----------------------------
EXTENDS ExclusiveLock, TLC
CONSTANTS p1, p2, p3, p4
MCInodes == 1..9
FewInodes == 1..5
Interchangeable == Permutations({p1, p2, p3, p4})
===============================================================================
