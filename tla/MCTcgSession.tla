---------------------------- MODULE MCTcgSession ----------------------------
(* TcgSession for TLC: the objects of a program are interchangeable.          *)
EXTENDS TcgSession, TLC

Symmetry == Permutations(Sess)

=============================================================================
