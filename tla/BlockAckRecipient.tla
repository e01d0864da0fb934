--------------------------- MODULE BlockAckRecipient --------------------------
(***************************************************************************)
(* The recipient's side of a block ack agreement:                          *)
(* ns3::RecipientBlockAckAgreement (wifi/model).                           *)
(*                                                                         *)
(* The agreement is a record: m_scoreboard, the window its block acks      *)
(* report; m_winStartB and m_bufferedMpdus, the buffer that puts frames in *)
(* order; and forwarded, the frames given to the layer above.              *)
(***************************************************************************)
EXTENDS BlockAckWindow

NewRecipient(startingSeq) ==
    [m_scoreboard    |-> NewWindow(startingSeq),
     m_winStartB     |-> startingSeq,
     m_bufferedMpdus |-> {},
     forwarded       |-> <<>>]

Place(r, mpdu) == GetDistance(GetSequenceNumber(mpdu), r.m_winStartB)

(* Mutant: the buffer is ordered by the numbers, which start over.         *)
Pass_InOrderOfNumbers(r, mpdus, winStartB) ==
    [r EXCEPT !.m_bufferedMpdus = @ \ mpdus,
              !.forwarded       = @ \o InOrder(mpdus, [m \in mpdus |-> GetSequenceNumber(m)]),
              !.m_winStartB     = winStartB]

(* Frames leave the buffer in the order of their distance from m_winStartB *)
(* and m_winStartB takes a new value.                                      *)
Pass(r, mpdus, winStartB) ==
    [r EXCEPT !.m_bufferedMpdus = @ \ mpdus,
              !.forwarded       = @ \o InOrder(mpdus, [m \in mpdus |-> Place(r, m)]),
              !.m_winStartB     = winStartB]

PassBufferedMpdusUntilFirstLost(r) ==
    LET places    == {Place(r, m) : m \in r.m_bufferedMpdus}
        firstLost == CHOOSE p \in 0 .. Cardinality(places) :
                         0 .. p - 1 \subseteq places /\ p \notin places
    IN  Pass(r, {m \in r.m_bufferedMpdus : Place(r, m) < firstLost},
             (r.m_winStartB + firstLost) % SEQNO_SPACE_SIZE)

PassBufferedMpdusWithSeqNumberLessThan(r, newWinStartB) ==
    Pass(r, {m \in r.m_bufferedMpdus : Place(r, m) < GetDistance(newWinStartB, r.m_winStartB)},
         newWinStartB)

Store(r, mpdu) ==
    IF \E m \in r.m_bufferedMpdus : GetSequenceNumber(m) = GetSequenceNumber(mpdu) THEN r
    ELSE [r EXCEPT !.m_bufferedMpdus = @ \cup {mpdu}]

(* The scoreboard, when a frame arrives: a frame beyond the window moves   *)
(* it so that the frame has its last place; an old one leaves it alone.    *)
Scored(scoreboard, seqNumber) ==
    LET distance == GetDistance(seqNumber, scoreboard.m_winStart)
    IN  IF distance < WinSize THEN Mark(scoreboard, distance)
        ELSE IF distance < SEQNO_SPACE_HALF_SIZE
             THEN Mark(Advance(scoreboard, distance - WinSize + 1), WinSize - 1)
             ELSE scoreboard

NotifyReceivedMpdu(r, mpdu) ==
    LET seqNumber == GetSequenceNumber(mpdu)
        distance  == Place(r, mpdu)
        scored    == [r EXCEPT !.m_scoreboard = Scored(@, seqNumber)]
    IN  IF distance < WinSize
        THEN PassBufferedMpdusUntilFirstLost(Store(scored, mpdu))
        ELSE IF distance < SEQNO_SPACE_HALF_SIZE
             THEN PassBufferedMpdusUntilFirstLost(
                      PassBufferedMpdusWithSeqNumberLessThan(Store(scored, mpdu),
                          (seqNumber - WinSize + 1 + SEQNO_SPACE_SIZE) % SEQNO_SPACE_SIZE))
             ELSE scored

NotifyReceivedBar(r, startingSeqNumber) ==
    LET distance   == GetDistance(startingSeqNumber, r.m_scoreboard.m_winStart)
        scored     == IF distance < SEQNO_SPACE_HALF_SIZE
                      THEN [r EXCEPT !.m_scoreboard = Advance(@, distance)] ELSE r
    IN  IF /\ startingSeqNumber # r.m_winStartB
           /\ ~IsOld(startingSeqNumber, r.m_winStartB)
        THEN PassBufferedMpdusUntilFirstLost(
                 PassBufferedMpdusWithSeqNumberLessThan(scored, startingSeqNumber))
        ELSE scored

(* The sequence numbers a block ack reports as received.                   *)
FillBlockAckBitmap(r) ==
    {(r.m_scoreboard.m_winStart + d) % SEQNO_SPACE_SIZE : d \in r.m_scoreboard.set}

(* The frames the recipient has, for the properties.                       *)
Received(r) == r.m_bufferedMpdus \cup ToSet(r.forwarded)
===============================================================================
