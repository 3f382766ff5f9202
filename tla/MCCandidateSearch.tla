-------------------------- MODULE MCCandidateSearch --------------------------
EXTENDS CandidateSearch, TLC

\* Two women and a man; who wants a peer asks for an age, and is put off by smokes,
\* an option compability.ts does not list.
CONSTANTS f1, f2, m1, x1, x2

SexOf == (f1 :> "female") @@ (f2 :> "female") @@ (m1 :> "male")
PutsOff == [p \in Prefs |-> IF p = "peer" THEN {"smokes"} ELSE {Null}]
Symmetry == Permutations({f1, f2}) \cup Permutations({x1, x2})
=============================================================================
