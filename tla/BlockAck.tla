-------------------------------- MODULE BlockAck -------------------------------
(***************************************************************************)
(* A Wi-Fi station sends the frames of one traffic identifier to another   *)
(* under a block ack agreement: the originator, the recipient and the      *)
(* exchanges of frames between them, of which there is one at a time.      *)
(*                                                                         *)
(* The medium loses any frames of an exchange, and any response.  The      *)
(* originator is told of a missing response by its timer, which runs for   *)
(* as long as a response takes: no response is late.                       *)
(***************************************************************************)
EXTENDS BlockAckOriginator, BlockAckRecipient

VARIABLES
    originator,   \* see BlockAckOriginator
    recipient,    \* see BlockAckRecipient
    exchange      \* the frame exchange under way

vars == <<config, expiredTo, originator, recipient, exchange>>

(* What is on the air: one frame with a normal ack, several frames with a  *)
(* block ack, or a block ack request; and the bits of the block ack.       *)
NoExchange == [kind |-> "none", mpdus |-> <<>>, startingSeq |-> 0,
               phase |-> "idle", bitmap |-> {}]

Init ==
    /\ config \in Configs
    /\ expiredTo = StartingSeq
    /\ originator = NewOriginator
    /\ recipient = NewRecipient(StartingSeq)
    /\ exchange = NoExchange

(* Nothing happens at a later time while an event of this instant is due.  *)
TimeMayPass == originator.expired = <<>>

-------------------------------------------------------------------------------
(* Txop::Queue: a frame joins the queue; it has no sequence number yet.    *)
Queue ==
    /\ originator.unsent < MaxUnsent
    /\ originator.next + originator.unsent \in Mpdus
    /\ originator' = [originator EXCEPT !.unsent = @ + 1]
    /\ UNCHANGED <<config, expiredTo, recipient, exchange>>

(* Frames grow old in the order in which they joined the queue.            *)
TimePasses ==
    /\ TimeMayPass
    /\ \/ /\ expiredTo < originator.next
          /\ expiredTo' = expiredTo + 1
          /\ UNCHANGED originator
       \/ /\ expiredTo = originator.next
          /\ originator.unsent > 0
          /\ originator' = [originator EXCEPT !.unsent = @ - 1]
          /\ UNCHANGED expiredTo
    /\ UNCHANGED <<config, recipient, exchange>>

(* QosTxop::HasFramesToTransmit, on every request for channel access.      *)
HasFramesToTransmit ==
    /\ originator' = WipeAllExpiredMpdus(originator)
    /\ UNCHANGED <<config, expiredTo, recipient, exchange>>

(* The Expired trace of a frame that was taken out of the queue.           *)
ExpiredTrace ==
    /\ originator.expired # <<>>
    /\ originator' = HandleDiscardedMpdu([originator EXCEPT !.expired = Tail(@)],
                                         Head(originator.expired))
    /\ UNCHANGED <<config, expiredTo, recipient, exchange>>

-------------------------------------------------------------------------------
SendBar(o) ==
    /\ o.bar # "none"
    /\ originator' = [o EXCEPT !.bar = "sent"]
    /\ exchange' = [NoExchange EXCEPT !.kind = "bar", !.phase = "sent",
                                      !.startingSeq = o.window.m_winStart]

SendDataFrame(o) ==
    /\ o.bar = "none"
    /\ LET frames == Peeked(RemoveOld(o))
       IN  IF frames = <<>>
           THEN originator' = RemoveOld(o) /\ UNCHANGED exchange
           ELSE \E count \in 1 .. Len(frames) :
                    LET mpdus == SubSeq(frames, 1, count)
                    IN  /\ originator' = SendMpdus(RemoveOld(o), mpdus)
                        /\ exchange' = [NoExchange EXCEPT
                               !.kind = IF count = 1 THEN "mpdu" ELSE "ampdu",
                               !.phase = "sent", !.mpdus = mpdus]

(* HtFrameExchangeManager::StartFrameExchange: a block ack request goes    *)
(* before data.                                                            *)
StartFrameExchange ==
    /\ exchange = NoExchange
    /\ SendBar(GetBar(originator)) \/ SendDataFrame(GetBar(originator))
    /\ UNCHANGED <<config, expiredTo, recipient>>

(* The recipient decodes some of the frames and responds.                  *)
ReceiveData ==
    /\ exchange.phase = "sent" /\ exchange.kind \in {"mpdu", "ampdu"}
    /\ TimeMayPass
    /\ \E decoded \in (SUBSET ToSet(exchange.mpdus)) \ {{}} :
           LET after == ForEach(exchange.mpdus, recipient, LAMBDA r, m :
                            IF m \in decoded THEN NotifyReceivedMpdu(r, m) ELSE r)
           IN  /\ recipient' = after
               /\ exchange' = [exchange EXCEPT !.phase = "answered",
                                               !.bitmap = FillBlockAckBitmap(after)]
    /\ UNCHANGED <<config, expiredTo, originator>>

ReceiveBar ==
    /\ exchange.phase = "sent" /\ exchange.kind = "bar"
    /\ TimeMayPass
    /\ recipient' = NotifyReceivedBar(recipient, exchange.startingSeq)
    /\ exchange' = [exchange EXCEPT !.phase = "answered",
                                    !.bitmap = FillBlockAckBitmap(recipient')]
    /\ UNCHANGED <<config, expiredTo, originator>>

Lose ==
    /\ exchange.phase = "sent"
    /\ TimeMayPass
    /\ exchange' = [exchange EXCEPT !.phase = "lost"]
    /\ UNCHANGED <<config, expiredTo, originator, recipient>>

(* The end of a successful exchange: with no TXOP limit the next block ack *)
(* request is looked for.                                                  *)
TransmissionSucceeded(o) == IF TxopLimitIsZero THEN GetBar(o) ELSE o

ReceiveResponse ==
    /\ exchange.phase = "answered"
    /\ TimeMayPass
    /\ originator' = TransmissionSucceeded(
           IF exchange.kind = "mpdu" THEN NotifyGotAck(originator, Head(exchange.mpdus))
           ELSE LET told == NotifyGotBlockAck(originator, exchange.bitmap)
                IN  IF told.bar = "sent" THEN [told EXCEPT !.bar = "none"] ELSE told)
    /\ exchange' = NoExchange
    /\ UNCHANGED <<config, expiredTo, recipient>>

(* The timer of the exchange ends: frames or their response were lost.     *)
ResponseTimeout ==
    /\ exchange.phase \in {"lost", "answered"}
    /\ TimeMayPass
    /\ originator' = IF exchange.kind = "mpdu"
                     THEN NormalAckTimeout(originator, Head(exchange.mpdus))
                     ELSE MissedBlockAck(originator, exchange.kind = "bar", exchange.mpdus)
    /\ exchange' = NoExchange
    /\ UNCHANGED <<config, expiredTo, recipient>>

Next ==
    \/ Queue \/ TimePasses \/ HasFramesToTransmit \/ ExpiredTrace
    \/ StartFrameExchange
    \/ ReceiveData \/ ReceiveBar \/ Lose \/ ReceiveResponse \/ ResponseTimeout

(* Weak fairness of the steps, each given by its guard: a step makes its   *)
(* guard false, or does so after finitely many repetitions, and no other   *)
(* step does so before it.  Time passes, scheduled events run, the channel is *)
(* granted in the end, an exchange ends; the medium may lose everything.   *)
MpdusAge      == TimeMayPass /\ expiredTo < originator.next
ExpiredQueued == \E m \in originator.queued \ originator.inFlight : m < expiredTo
MayTransmit   == /\ exchange = NoExchange
                 /\ \/ GetBar(originator).bar # "none"
                    \/ Peeked(RemoveOld(GetBar(originator))) # <<>>
OnTheAir      == exchange.phase = "sent" /\ TimeMayPass
AwaitingEnd   == exchange.phase \in {"answered", "lost"} /\ TimeMayPass

Fairness ==
    /\ []<>~MpdusAge           \* TimePasses
    /\ []<>~ExpiredQueued      \* HasFramesToTransmit
    /\ []<>TimeMayPass         \* ExpiredTrace
    /\ []<>~MayTransmit        \* StartFrameExchange
    /\ []<>~OnTheAir           \* ReceiveData, ReceiveBar or Lose
    /\ []<>~AwaitingEnd        \* ReceiveResponse or ResponseTimeout

Spec     == Init /\ [][Next]_vars
FairSpec == Spec /\ Fairness
===============================================================================
