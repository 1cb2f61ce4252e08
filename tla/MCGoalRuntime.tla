--------------------------- MODULE MCGoalRuntime ---------------------------
(***************************************************************************)
(* Instances of GoalRuntime: two slices, so that an approval may leave one *)
(* open, and thresholds of two in place of three.                          *)
(***************************************************************************)
EXTENDS GoalRuntime

MCSlices == 2
MCThreshold == 2
=============================================================================
