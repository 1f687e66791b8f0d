---------------------------- MODULE MCLinuxDrive ----------------------------
\* LinuxDrive for TLC: the names and the objects of the program are interchangeable.
EXTENDS LinuxDrive, TLC

Symmetry == Permutations(Path) \cup Permutations(Handle)
=============================================================================
