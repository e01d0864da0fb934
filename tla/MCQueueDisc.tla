------------------------------ MODULE MCQueueDisc ------------------------------
(***************************************************************************)
(* A device with one or two transmission queues, with and without byte     *)
(* limits on each; and the queue of a point-to-point device.               *)
(***************************************************************************)
EXTENDS QueueDiscProperties

CONSTANTS q1, q2

OnePacketOrThreeBytes == {[unit |-> "PACKETS", value |-> 1], [unit |-> "BYTES", value |-> 3]}
FourBytes             == {[unit |-> "BYTES", value |-> 4]}
===============================================================================
