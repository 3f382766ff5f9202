----------------------------- MODULE MCViewCounts -----------------------------
(* A user with one client, and a client that has not signed in. *)
EXTENDS ViewCounts, TLC

CONSTANTS u1, c1, c2

TheUsers == {u1}
TheClients == {c1, c2}
TheOwner == c1 :> u1 @@ c2 :> Nobody

=============================================================================
