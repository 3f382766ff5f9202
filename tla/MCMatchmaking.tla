---------------------------- MODULE MCMatchmaking ----------------------------
(***************************************************************************)
(* Instances of Matchmaking for TLC: a woman and a man.                    *)
(***************************************************************************)
EXTENDS Matchmaking, TLC

CONSTANTS f1, m1, h1

\* The search finds the man for the woman, and nobody for him.
TheMan == [type \in MatchTypes |-> {<<f1, m1>>}]

\* All tickets were bought by the woman.
HerTickets == [t \in Tickets |-> f1]

\* Each handler in an instance of its own: two instances of the service, or the
\* old and the new one while it is deployed.
TwoServers == [h \in Handlers |-> IF h = h1 THEN 1 ELSE 2]
=============================================================================
