---------------------------- MODULE MCRegistration ----------------------------
(* One user, whose rows, jobs and requests are interchangeable. *)
EXTENDS Registration, TLC

Symmetry == Permutations(Images) \cup Permutations(Jobs)
            \cup Permutations(Details) \cup Permutations(Posts)

=============================================================================
