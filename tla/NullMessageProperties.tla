------------------------- MODULE NullMessageProperties -------------------------
(***************************************************************************)
(* What the null messages have to guarantee.                               *)
(***************************************************************************)
EXTENDS NullMessage

Packets(r, q) == {k \in DOMAIN wire[r][q] : wire[r][q][k].time > 0}

(* No message arrives with a receive time less than a guarantee given before it
   was sent, the comment on CalculateGuaranteeTime; the last guarantee that q has
   received is the one its safe time is computed from. *)
GuaranteesKept ==
    \A r, q \in Ranks : \A k \in Packets(r, q) :
       /\ wire[r][q][k].time >= m_guaranteeTime[q][r]
       /\ \A j \in 1..(k - 1) : wire[r][q][k].time >= wire[r][q][j].guarantee

(* No packet is on its way to a rank whose clock has passed the time at which
   it is to be received. *)
NoMessageFromThePast ==
    \A r, q \in Ranks : \A k \in Packets(r, q) : wire[r][q][k].time >= m_currentTs[q]

(* A guarantee is not yet in the past of its receiver: the assertion of
   SetGuaranteeTime. *)
GuaranteesAreAhead ==
    \A r, q \in Ranks : wire[r][q] # <<>> =>
       Head(wire[r][q]).guarantee >= m_currentTs[q]

(* The queue is not empty when Next() looks at it: the assertion of Next. *)
NextIsDefined == \A r \in Ranks : pc[r] # "aborted"

(* The events of its models that a rank has yet to execute, received or not. *)
PacketEvent(m) == [ts |-> m.time, kind |-> "model", id |-> m.id]
PacketsIn(messages) == {PacketEvent(m) : m \in {x \in Range(messages) : x.id[2] # 0}}
PacketEvents(q) == UNION {PacketsIn(wire[r][q]) : r \in Ranks}
Models(q) == {e \in m_events[q] : e.kind = "model"}

Pending == [q \in Ranks |-> Models(q) \cup PacketEvents(q)]

Abstract == INSTANCE ParallelSimulation WITH now <- m_currentTs, pending <- Pending

(* The ranks together are one simulation in time-stamped order: each executes
   the earliest of the events of its models, the packets on their way to it
   included, and never one from its past, the assertion of ProcessOneEvent.  The
   other events only move its clock. *)
ImplementsParallelSimulation == Abstract!Spec

(* Ranks that are to stop at the same time all stop. *)
AllRanksStop == <>(\A r \in Ranks : pc[r] = "stopped")
===============================================================================
