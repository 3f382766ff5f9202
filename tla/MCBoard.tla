------------------------------- MODULE MCBoard -------------------------------
(* Instances of Board for TLC: an author and an administrator. *)
EXTENDS Board, TLC

CONSTANTS u1, u2, j1, j2, x1, x2

Symmetry == Permutations(Jobs) \cup Permutations(Texts)
=============================================================================
