---------------------------- MODULE MCDeepBench ----------------------------
(* The deep benchmark on the last day of July 2026 and the first of August, *)
(* with a window from 03 to 05 h.                                          *)
EXTENDS DeepBench

July31 == 20665 * 24
August1 == 20666 * 24

MCTimes == {July31 + 3, July31 + 4, August1 + 3}
=============================================================================
