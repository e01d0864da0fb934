--------------------------- MODULE BlockAckProperties --------------------------
(***************************************************************************)
(* What a block ack agreement is for, stated of BlockAck.tla.              *)
(***************************************************************************)
EXTENDS BlockAck

(* RecipientBlockAckAgreement passes frames to the layer above in the      *)
(* order in which the originator numbered them, none of them twice,        *)
(* whatever is lost, sent again or given up.                               *)
ForwardedInOrder ==
    \A i, j \in DOMAIN recipient.forwarded :
        i < j => recipient.forwarded[i] < recipient.forwarded[j]

(* A frame the originator takes as acknowledged has reached the recipient, *)
(* in its buffer or above it: no bit of a block ack and no ack stands for  *)
(* another frame.                                                          *)
AcknowledgedIsReceived == originator.acked \subseteq Received(recipient)

(* A frame that waits to be sent again, and that the recipient does not    *)
(* have, is not old for the recipient: it would be dropped on arrival and  *)
(* acknowledged all the same.                                              *)
RetriesAreWanted ==
    \A m \in originator.queued \ Received(recipient) :
        ~IsOld(GetSequenceNumber(m), recipient.m_winStartB)

(* Frames in flight are neither sent again nor removed when they expire:   *)
(* they depend on a block ack.  When no exchange is under way, a request   *)
(* is queued for it; and the agreement has stored them, where the block    *)
(* ack looks for them.                                                     *)
InFlightIsCovered ==
    /\ originator.inFlight \subseteq Stored(originator)
    /\ exchange = NoExchange /\ originator.inFlight # {} => originator.bar # "none"

(* Every frame that was sent is acknowledged or given up in the end, also  *)
(* when the medium loses everything.                                       *)
EveryMpduIsSettled == \A m \in Mpdus : m \in originator.queued ~> m \notin originator.queued

(* A recipient does not wait for ever for a frame that was given up: what  *)
(* it holds behind the frame is passed on, if of the requests that are     *)
(* sent for ever some get through.  Only a request that was lost when      *)
(* nothing is in flight any more waits, for new data.                      *)
BarOnTheAir   == exchange.kind = "bar" /\ exchange.phase = "sent"
BarReceived   == exchange.kind = "bar" /\ exchange.phase = "answered"
WaitsForData  == originator.sendBarIfDataQueued /\ ~DataQueued(originator)

BufferedIsForwarded ==
    ([]<>BarOnTheAir => []<>BarReceived) =>
        \A m \in Mpdus : m \in recipient.m_bufferedMpdus
                             ~> (m \notin recipient.m_bufferedMpdus \/ WaitsForData)
===============================================================================
