---------------------------- MODULE MCPreferences ----------------------------
(* A woman who may choose what she drinks, her interests and her partner's age. *)
EXTENDS Preferences, TLC

CONSTANTS never, often, wanted, film, music, young

Types == (never :> "DRINKING") @@ (often :> "DRINKING") @@ (wanted :> "DRINKING")
         @@ (film :> "INTEREST") @@ (music :> "INTEREST") @@ (young :> "AGE_PREFERENCE")
Maximum == ("DRINKING" :> 1) @@ ("INTEREST" :> 1) @@ ("AGE_PREFERENCE" :> 0)
Names == ("SELF" :> {wanted}) @@ ("PARTNER" :> {never, often})
\* renamed is the name of a type that is no longer there.
Lists == {<<>>, <<"DRINKING", "INTEREST">>, <<"DRINKING", "AGE_PREFERENCE">>,
          <<"DRINKING", "renamed">>, <<"renamed", "DRINKING">>}
Symmetry == Permutations(Requests)
=============================================================================
