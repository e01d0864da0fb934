-------------------------- MODULE MCRealtimeSimulator --------------------------
(***************************************************************************)
(* The main thread and another: threads have no state between their holds  *)
(* of the mutex, so one stands for any number.  The clock shows more than nothing when *)
(* the program starts, as a wall clock does, and the delays are on either  *)
(* side of the time that a sleep leaves to the busy wait.                  *)
(***************************************************************************)
EXTENDS RealtimeSimulatorProperties

CONSTANTS t1
================================================================================
