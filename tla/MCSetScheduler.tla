---------------------------- MODULE MCSetScheduler ----------------------------
(***************************************************************************)
(* Six events at one time, close together and far apart, in a calendar of  *)
(* one, two or four days, a heap and a sorted list.                        *)
(***************************************************************************)
EXTENDS SetSchedulerProperties

NearAndFar == {0, 1, 8}
===============================================================================
