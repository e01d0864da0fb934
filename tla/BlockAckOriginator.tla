-------------------------- MODULE BlockAckOriginator --------------------------
(***************************************************************************)
(* The originator's side of a block ack agreement: the EDCA queue of       *)
(* ns3::QosTxop (ns3::WifiMacQueue), the agreement and its frames in       *)
(* flight in ns3::BlockAckManager, and what ns3::HtFrameExchangeManager    *)
(* does with them before and after an exchange (wifi/model).               *)
(*                                                                         *)
(* One link, one recipient and one traffic identifier.  A frame is an      *)
(* integer: frames get consecutive numbers when they are first sent, and   *)
(* queues keep them in that order.  The handlers run to their end, so each *)
(* is a function from the originator's state, a record, to the next:       *)
(*   unsent       frames in the queue that have no sequence number         *)
(*   next         the number the next of them will get                     *)
(*   queued       frames in the queue that have one                        *)
(*   inFlight     those whose exchange has not ended                       *)
(*   packetQueue  the frames the agreement has stored                      *)
(*   window       m_txWindow                                               *)
(*   retryCount   of each frame                                            *)
(*   bar          the block ack request in the queue: "none", "queued", or *)
(*                "sent" when it is the one in the exchange under way      *)
(*   sendBarIfDataQueued   the agreement is in m_sendBarIfDataQueued       *)
(*   expired      frames taken out of the queue because they had expired,  *)
(*                whose Expired trace is scheduled for this instant        *)
(*   acked        frames told acknowledged (m_txOkCallback)                *)
(***************************************************************************)
EXTENDS BlockAckWindow

CONSTANTS
    StartingSeq,       \* m_startingSeq of the agreement: number of the first frame
    MaxMpdus,          \* bound: frames that get a number
    MaxUnsent,         \* bound: frames without a number in the queue
    FrameRetryLimit,   \* GetFrameRetryLimit
    Configs            \* traffic identifiers and attributes, see config

ASSUME FramesAssumption ==
    /\ StartingSeq \in SeqNumbers
    /\ MaxMpdus \in Nat /\ MaxUnsent \in Nat /\ FrameRetryLimit \in Nat \ {0}
    /\ Configs \subseteq [tid: 0 .. 7, useExplicitBarAfterMissedBlockAck: BOOLEAN,
                           incrementRetryCountUnderBa: BOOLEAN]

Mpdus == StartingSeq .. StartingSeq + MaxMpdus - 1

VARIABLES
    config,       \* the attributes of this simulation
    expiredTo     \* frames below this number are older than MaxDelay

(* config.tid is the traffic identifier of the agreement, the only one     *)
(* there is; the other parts are attributes of QosTxop and of              *)
(* WifiRemoteStationManager.  By default the TXOP limit is zero for best   *)
(* effort and background traffic and not for video and voice.              *)
TxopLimitIsZero == config.tid < 4

NewOriginator ==
    [unsent |-> 0, next |-> StartingSeq, queued |-> {}, inFlight |-> {},
     packetQueue |-> <<>>, window |-> NewWindow(StartingSeq),
     retryCount |-> [n \in Mpdus |-> 0], bar |-> "none",
     sendBarIfDataQueued |-> FALSE, expired |-> <<>>, acked |-> {}]

Distance(o, mpdu)  == GetDistance(GetSequenceNumber(mpdu), o.window.m_winStart)
IsOldMpdu(o, mpdu) == IsOld(GetSequenceNumber(mpdu), o.window.m_winStart)

Ascending(mpdus) == InOrder(mpdus, [m \in mpdus |-> m])

Stored(o) == ToSet(o.packetQueue)
Dequeue(o, mpdus) == [o EXCEPT !.queued = @ \ mpdus, !.inFlight = @ \ mpdus]
Erase(o, mpdu)    == [o EXCEPT !.packetQueue = RemoveFirst(@, mpdu)]

(***************************************************************************)
(* Discards.                                                               *)
(***************************************************************************)

(* Mutant: the window moves one frame too far.                             *)
HandleDiscardedMpdu_OneMore(o, mpdu) ==
    IF IsOldMpdu(o, mpdu) THEN o
    ELSE LET moved == [o EXCEPT !.window = AdvanceTxWindow(Advance(@, Distance(o, mpdu) + 2))]
             kept  == SelectSeq(moved.packetQueue, LAMBDA m : ~IsOldMpdu(moved, m))
         IN  [Dequeue(moved, Stored(moved) \ ToSet(kept)) EXCEPT
                 !.packetQueue = kept, !.bar = "queued"]

(* Mutant: no block ack request tells the recipient.                       *)
HandleDiscardedMpdu_Silent(o, mpdu) ==
    IF IsOldMpdu(o, mpdu) THEN o
    ELSE LET moved == [o EXCEPT !.window = AdvanceTxWindow(Advance(@, Distance(o, mpdu) + 1))]
             kept  == SelectSeq(moved.packetQueue, LAMBDA m : ~IsOldMpdu(moved, m))
         IN  [Dequeue(moved, Stored(moved) \ ToSet(kept)) EXCEPT !.packetQueue = kept]

(* The window moves past the frame; frames at the head of the agreement's  *)
(* queue that are old now are dropped; a block ack request is scheduled,   *)
(* in the place of the one in the queue if there is one.                   *)
HandleDiscardedMpdu(o, mpdu) ==
    IF IsOldMpdu(o, mpdu) THEN o
    ELSE LET moved == [o EXCEPT !.window = AdvanceTxWindow(Advance(@, Distance(o, mpdu) + 1))]
             young == SelectInSeq(moved.packetQueue, LAMBDA m : ~IsOldMpdu(moved, m))
             kept  == IF young = 0 THEN <<>>
                      ELSE SubSeq(moved.packetQueue, young, Len(moved.packetQueue))
         IN  [Dequeue(moved, Stored(moved) \ ToSet(kept)) EXCEPT
                 !.packetQueue = kept, !.bar = "queued"]

(* WifiMacQueue::TtlExceeded for a frame that has expired: the trace comes *)
(* first and the frame leaves the queue after it.                          *)
DropExpired(o, mpdu) == Dequeue(HandleDiscardedMpdu(o, mpdu), {mpdu})

(* Expired frames leave the queue unless they are in flight.               *)
WipeAllExpiredMpdus(o) ==
    LET gone == {m \in o.queued \ o.inFlight : m < expiredTo}
    IN  [Dequeue(o, gone) EXCEPT !.expired = @ \o Ascending(gone)]

(***************************************************************************)
(* The end of an exchange.                                                 *)
(***************************************************************************)
NotifyAckedMpdu(o, mpdu) ==
    IF IsOldMpdu(o, mpdu) THEN o
    ELSE [o EXCEPT !.window = AdvanceTxWindow(Mark(@, Distance(o, mpdu)))]

Acknowledge(o, mpdu) ==
    [Erase(NotifyAckedMpdu(o, mpdu), mpdu) EXCEPT !.acked = @ \cup {mpdu}]

(* Mutant: the lifetime of frames in flight is not looked at.              *)
HandleInFlightMpdu_ForEver(o, mpdu, retransmit) ==
    IF mpdu \notin o.queued THEN Erase(o, mpdu)
    ELSE IF IsOldMpdu(o, mpdu) THEN Erase(Dequeue(o, {mpdu}), mpdu)
    ELSE IF retransmit THEN Erase([o EXCEPT !.inFlight = @ \ {mpdu}], mpdu)
    ELSE o

(* HandleInFlightMpdu for a frame that was not acknowledged; retransmit    *)
(* tells TO_RETRANSMIT from STAY_INFLIGHT.                                 *)
HandleInFlightMpdu(o, mpdu, retransmit) ==
    IF mpdu \notin o.queued THEN Erase(o, mpdu)
    ELSE IF IsOldMpdu(o, mpdu) THEN Erase(Dequeue(o, {mpdu}), mpdu)
    ELSE IF mpdu < expiredTo THEN DropExpired(o, mpdu)
    ELSE IF retransmit THEN Erase([o EXCEPT !.inFlight = @ \ {mpdu}], mpdu)
    ELSE o

(* A loop over the agreement's queue visits what the handling of earlier   *)
(* frames has left in it.                                                  *)
ForEachStored(o, handle(_, _)) ==
    ForEach(o.packetQueue, o,
            LAMBDA p, mpdu : IF mpdu \in Stored(p) THEN handle(p, mpdu) ELSE p)

NotifyGotAck(o, mpdu) == Dequeue(Acknowledge(o, mpdu), {mpdu} \cap Stored(o))

NotifyMissedAck(o, mpdu) ==
    IF mpdu \in Stored(o) THEN HandleInFlightMpdu(o, mpdu, TRUE) ELSE o

NotifyMissedBlockAck(o) ==
    ForEachStored(o, LAMBDA p, m : HandleInFlightMpdu(p, m, m \in p.inFlight))

(* The frames told leave the queue; those left are handled as if no block  *)
(* ack had come.                                                           *)
AcknowledgeStored(o, bitmap) ==
    ForEachStored(o, LAMBDA p, m : IF GetSequenceNumber(m) \in bitmap
                                   THEN Acknowledge(p, m) ELSE p)

NotifyGotBlockAck(o, bitmap) ==
    NotifyMissedBlockAck(Dequeue(AcknowledgeStored(o, bitmap),
                                 {m \in Stored(o) : GetSequenceNumber(m) \in bitmap}))

(* Frames that are old or expired are dropped from the head until one is   *)
(* found that is neither: then a request is needed.                        *)
DropHeads(o) ==
    ForEachStored(o, LAMBDA p, m :
        IF m = Head(p.packetQueue) THEN HandleInFlightMpdu(p, m, FALSE) ELSE p)
NeedBarRetransmission(dropped) == dropped.packetQueue # <<>>

(* The agreement is looked up for the traffic identifier                   *)
(* "hdr.GetQosTid() || m_incrRetryCountUnderBa", which is 0 or 1.          *)
RetryIsCounted ==
    LET tid == IF config.tid # 0 \/ config.incrementRetryCountUnderBa THEN 1 ELSE 0
    IN  tid # config.tid

DropMpduIfRetryLimitReached(o, mpdus) ==
    LET counted == IF RetryIsCounted
                   THEN [o EXCEPT !.retryCount =
                            [m \in Mpdus |-> IF m \in ToSet(mpdus) THEN @[m] + 1 ELSE @[m]]]
                   ELSE o
    IN  ForEach(mpdus, counted, LAMBDA p, m :
            IF counted.retryCount[m] = FrameRetryLimit
            THEN Dequeue(HandleDiscardedMpdu(p, m), {m}) ELSE p)

NormalAckTimeout(o, mpdu) ==
    LET dropped == DropMpduIfRetryLimitReached(o, <<mpdu>>)
    IN  IF mpdu \in dropped.queued
        THEN NotifyMissedAck([dropped EXCEPT !.inFlight = @ \ {mpdu}], mpdu)
        ELSE dropped

(* Mutant: a request that got no answer is not sent again.                 *)
MissedBlockAck_Once(o, isBar, mpdus) ==
    LET failed  == IF isBar THEN o ELSE DropMpduIfRetryLimitReached(o, mpdus)
        dropped == DropHeads(failed)
    IN  IF ~config.useExplicitBarAfterMissedBlockAck /\ ~isBar
        THEN NotifyMissedBlockAck(failed)
        ELSE IF NeedBarRetransmission(dropped) /\ ~isBar
             THEN [dropped EXCEPT !.bar = "queued"]
             ELSE [dropped EXCEPT
                      !.bar = IF isBar /\ @ = "sent" THEN "none" ELSE @,
                      !.sendBarIfDataQueued = TRUE]

(* No block ack came: for the frames themselves, or for a request.  The    *)
(* request stays in the queue to be sent again, or leaves it, unless       *)
(* another has taken its place.                                            *)
MissedBlockAck(o, isBar, mpdus) ==
    LET failed  == IF isBar THEN o ELSE DropMpduIfRetryLimitReached(o, mpdus)
        dropped == DropHeads(failed)
    IN  IF ~config.useExplicitBarAfterMissedBlockAck /\ ~isBar
        THEN NotifyMissedBlockAck(failed)
        ELSE IF NeedBarRetransmission(dropped)
             THEN [dropped EXCEPT !.bar = "queued"]
             ELSE [dropped EXCEPT
                      !.bar = IF isBar /\ @ = "sent" THEN "none" ELSE @,
                      !.sendBarIfDataQueued = TRUE]

(***************************************************************************)
(* The start of an exchange.                                               *)
(***************************************************************************)
DataQueued(o) == o.queued # {} \/ o.unsent > 0

(* A request that waits for data joins the queue when there are data.      *)
GetBar(o) ==
    LET wiped == WipeAllExpiredMpdus(o)
    IN  IF wiped.bar = "none" /\ wiped.sendBarIfDataQueued /\ DataQueued(wiped)
        THEN [wiped EXCEPT !.bar = "queued", !.sendBarIfDataQueued = FALSE]
        ELSE wiped

(* PeekNextMpdu removes old frames from the queue.                         *)
RemoveOld(o) == Dequeue(o, {m \in o.queued : IsOldMpdu(o, m)})

(* What PeekNextMpdu returns, call after call: the frames that are not in  *)
(* flight, in their order, up to the first beyond the window.  Those sent  *)
(* before have their number; the next numbers go to the others.            *)
Peeked(o) ==
    LET frames == Ascending(o.queued \ o.inFlight)
                      \o [i \in 1 .. o.unsent |-> o.next + i - 1]
        beyond == SelectInSeq(frames, LAMBDA m : Distance(o, m) >= WinSize)
    IN  IF beyond = 0 THEN frames ELSE SubSeq(frames, 1, beyond - 1)

NotifyTransmittedMpdu(window, mpdu) ==
    LET distance == GetDistance(GetSequenceNumber(mpdu), window.m_winStart)
    IN  IF distance >= SEQNO_SPACE_HALF_SIZE \/ distance < WinSize THEN window
        ELSE AdvanceTxWindow(Advance(window, distance - WinSize + 1))

(* The agreement's queue is kept in the order of the distance from the     *)
(* start of the window.                                                    *)
StorePacket(o, mpdu) ==
    LET before == SelectLastInSeq(o.packetQueue,
                                  LAMBDA m : Distance(o, m) < Distance(o, mpdu))
    IN  IF IsOldMpdu(o, mpdu) \/ mpdu \in ToSet(SubSeq(o.packetQueue, before + 1, Len(o.packetQueue)))
        THEN o
        ELSE [o EXCEPT !.packetQueue = InsertAt(@, before + 1, mpdu),
                       !.window      = NotifyTransmittedMpdu(@, mpdu)]

(* The frames are in flight; the new ones have their numbers.              *)
SendMpdus(o, mpdus) ==
    LET new  == {m \in ToSet(mpdus) : m >= o.next}
        sent == [o EXCEPT !.unsent   = @ - Cardinality(new),
                          !.next     = @ + Cardinality(new),
                          !.queued   = @ \cup new,
                          !.inFlight = @ \cup ToSet(mpdus)]
    IN  ForEach(mpdus, sent, StorePacket)
===============================================================================
