---------------------------- MODULE BlockAckWindow ----------------------------
(***************************************************************************)
(* Sequence numbers of Wi-Fi frames and the windows both sides of a block  *)
(* ack agreement keep over them: ns3::BlockAckWindow, and GetDistance of   *)
(* ns3::BlockAckAgreement (wifi/model).                                    *)
(*                                                                         *)
(* The window is a circular array of bits with m_head the place of the     *)
(* first one; here it is the sequence number of the first bit and the set  *)
(* of the distances from it at which the bit is set.                       *)
(***************************************************************************)
EXTENDS Integers, SequencesExt

CONSTANTS
    SEQNO_SPACE_SIZE,   \* 4096 in the code
    WinSize             \* the buffer size of the agreement

(* At most 1024 frames of 4096 numbers: an agreement's window is at most a *)
(* quarter of the space.                                                   *)
ASSUME SpaceAssumption ==
    /\ WinSize \in Nat \ {0}
    /\ SEQNO_SPACE_SIZE \in Nat
    /\ SEQNO_SPACE_SIZE % 2 = 0
    /\ 4 * WinSize <= SEQNO_SPACE_SIZE

SEQNO_SPACE_HALF_SIZE == SEQNO_SPACE_SIZE \div 2
SeqNumbers == 0 .. SEQNO_SPACE_SIZE - 1

(* A frame is an integer; this is the sequence number it bears.            *)
GetSequenceNumber(mpdu) == mpdu % SEQNO_SPACE_SIZE

GetDistance(seqNumber, startingSeqNumber) ==
    (seqNumber - startingSeqNumber + SEQNO_SPACE_SIZE) % SEQNO_SPACE_SIZE

IsOld(seqNumber, startingSeqNumber) ==
    GetDistance(seqNumber, startingSeqNumber) >= SEQNO_SPACE_HALF_SIZE

NewWindow(winStart) == [m_winStart |-> winStart, set |-> {}]

(* At(distance) = true *)
Mark(window, distance) == [window EXCEPT !.set = @ \cup {distance}]

(* Mutant: the places that the window leaves behind keep their bits.       *)
Advance_WithoutClearing(window, count) ==
    [m_winStart |-> (window.m_winStart + count) % SEQNO_SPACE_SIZE,
     set        |-> {(d - count) % WinSize : d \in window.set}]

Advance(window, count) ==
    LET winStart == (window.m_winStart + count) % SEQNO_SPACE_SIZE
    IN  IF count >= WinSize
        THEN NewWindow(winStart)
        ELSE [m_winStart |-> winStart,
              set        |-> {d - count : d \in {e \in window.set : e >= count}}]

(* OriginatorBlockAckAgreement::AdvanceTxWindow: while the first bit is    *)
(* set, the window moves by one.                                           *)
AdvanceTxWindow(window) ==
    Advance(window, CHOOSE n \in 0 .. WinSize :
                        0 .. n - 1 \subseteq window.set /\ n \notin window.set)

(* Frames, each at its place: the i-th has i - 1 before it.                *)
InOrder(mpdus, place) ==
    [i \in 1 .. Cardinality(mpdus) |->
        CHOOSE m \in mpdus : Cardinality({k \in mpdus : place[k] < place[m]}) = i - 1]

(* A loop over frames in turn, as a recursive function: proofs need one.   *)
ForEach(mpdus, first, handle(_, _)) ==
    LET after[n \in 0 .. Len(mpdus)] ==
            IF n = 0 THEN first ELSE handle(after[n - 1], mpdus[n])
    IN  after[Len(mpdus)]
===============================================================================
