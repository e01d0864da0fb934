---------------------------- MODULE MCNullMessage ----------------------------
(***************************************************************************)
(* Three ranks in a line, two with one channel and a third without any, or *)
(* two with two parallel channels.                                         *)
(***************************************************************************)
EXTENDS NullMessageProperties

CONSTANTS a, b, c, ab, ba, bc

Ends  == [x \in Channels |-> IF x = bc THEN {b, c} ELSE {a, b}]
Delay == [x \in Channels |-> IF x = bc THEN 3 ELSE 2]

Start0  == [r \in Ranks |-> IF r = a THEN {0} ELSE {}]
StopAt3 == [r \in Ranks |-> {3}]

(* A line has one event or packet of each rank, the others have two. *)
Created == [t \in Topologies |-> IF bc \in t THEN 1 ELSE 2]
===============================================================================
