----------------------------- MODULE MCWinDrive -----------------------------
\* WinDrive for TLC: an NVMe drive for each driver, an ATA drive, a volume that
\* spans two of them and one on the third.
EXTENDS WinDrive, TLC

CONSTANTS v, m, a, y, z

MCLies == y :> <<v, a>> @@ z :> <<m>>

Symmetry == Permutations(Port) \cup Permutations(Hnd)
=============================================================================
