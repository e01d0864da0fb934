------------------------------ MODULE MCBlockAck ------------------------------
(***************************************************************************)
(* Small agreements, with sequence numbers that start over.                *)
(***************************************************************************)
EXTENDS BlockAckProperties

Config(tid, explicitBar, increment) ==
    [tid |-> tid, useExplicitBarAfterMissedBlockAck |-> explicitBar,
     incrementRetryCountUnderBa |-> increment]

(* Best effort and video, and each attribute with both values.             *)
EachAttribute == {Config(0, TRUE, FALSE), Config(0, FALSE, FALSE),
                  Config(0, FALSE, TRUE), Config(5, TRUE, FALSE)}

(* Best effort with the default attributes.                                *)
Defaults == {Config(0, TRUE, FALSE)}
===============================================================================
