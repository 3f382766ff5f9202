---------------------------- MODULE MCHotArticles ----------------------------
(* Instances of HotArticles for TLC: two users. *)
EXTENDS HotArticles

CONSTANTS u1, u2, j1, r1, r2, x1
=============================================================================
