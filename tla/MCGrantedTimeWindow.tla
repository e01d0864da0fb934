-------------------------- MODULE MCGrantedTimeWindow --------------------------
(***************************************************************************)
(* Three ranks in a line.  One link has no delay, so that the windows of   *)
(* its ranks hold one time stamp; the rank behind the other link calls     *)
(* BoundLookAhead.                                                         *)
(***************************************************************************)
EXTENDS GrantedTimeWindowProperties

CONSTANTS a, b, c

LineLinks == {[ends |-> {a, b}, delay |-> 0], [ends |-> {b, c}, delay |-> 2]}

BoundedC  == [r \in Ranks |-> IF r = c THEN 1 ELSE MaxTime]
Start     == [r \in Ranks |-> IF r = a THEN {0, 2} ELSE IF r = b THEN {1} ELSE {}]
===============================================================================
