------------------------------ MODULE MCSessions ------------------------------
(* Two clients of one user. *)
EXTENDS Sessions, TLC

CONSTANTS u1, c1, c2

TheUsers == {u1}
TheClients == {c1, c2}
TheOwner == c1 :> u1 @@ c2 :> u1
Symmetry == Permutations(Requests) \cup Permutations(TheClients)

=============================================================================
