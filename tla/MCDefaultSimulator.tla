-------------------------- MODULE MCDefaultSimulator --------------------------
(***************************************************************************)
(* The main thread and two others, which allocate three events between     *)
(* them: the uids from VALID on are just enough for that.                  *)
(***************************************************************************)
EXTENDS DefaultSimulatorProperties

CONSTANTS t1, t2
===============================================================================
