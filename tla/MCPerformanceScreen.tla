------------------------- MODULE MCPerformanceScreen -------------------------
(***************************************************************************)
(* PerformanceScreen with a list of three metrics and a chart of two bars; *)
(* the clock is long enough to fill the list twice.                        *)
(***************************************************************************)
EXTENDS PerformanceScreen

MCInferenceTimes == {15, 50}
MCTimerId == 1..2
=============================================================================
