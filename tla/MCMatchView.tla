----------------------------- MODULE MCMatchView -----------------------------
(***************************************************************************)
(* One user from a Monday to the Wednesday of the next week, past the last *)
(* effect of the Sunday in between.                                        *)
(***************************************************************************)
EXTENDS MatchView

PastSunday == 9 * Day + 1

\* Around noon, and before, at and after 20:00 and 21:00.
AroundTheDay == {25, 39, 40, 41, 42, 43}
=============================================================================
