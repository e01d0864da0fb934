-------------------------- MODULE QueueDiscProperties --------------------------
(***************************************************************************)
(* What the flow control promises to the sender of a packet and to the     *)
(* device.                                                                 *)
(***************************************************************************)
EXTENDS QueueDisc

Ids(packets) == [i \in DOMAIN packets |-> packets[i].id]

(* The identities of those among the first n packets that q is to have     *)
Chosen(q, packets) ==
    LET of[n \in 0 .. Len(packets)] ==
          IF n = 0 THEN <<>>
          ELSE IF packets[n].txq = q THEN Append(of[n - 1], packets[n].id)
          ELSE of[n - 1]
    IN  of

Of(q, packets) == Chosen(q, packets)[Len(packets)]

Backlog == disc # <<>> \/ m_requeued # <<>>

(* The packets for one transmission queue leave in the order in which the  *)
(* disc accepted them, none lost and none sent twice, whatever was         *)
(* requeued, stopped and woken in between: the channel has had the first   *)
(* of them, the device holds the next, then comes the requeued packet,     *)
(* then those in the disc (DequeuePacket, Requeue, Transmit).              *)
InOrder ==
    \A q \in m_txQueuesVector :
        transmitted[q] \o Ids(queue[q]) \o Of(q, m_requeued) \o Of(q, disc) = accepted[q]

(* A device queue that is not stopped has room for a packet:               *)
(* PacketDiscarded, "BUG! No room in the device queue for the received     *)
(* packet!", is never called.                                              *)
NoneDiscarded == ~ discarded

(* What the byte limits count as queued and not completed is what the      *)
(* device holds and what it has dequeued without saying so yet, also after *)
(* the counters have started over.  Completed asserts "Can't complete more *)
(* than what's in queue".                                                  *)
CompletionsAccounted ==
    \A q \in limited : InProgress(m_queueLimits[q]) = m_nBytes[q] + notify[q]

(* A stopped queue can count on an event of its own to wake it: a          *)
(* notification that is scheduled or under way, or a transmission with     *)
(* another packet behind it.  Otherwise no Wake would ever come.           *)
StoppedIsServed ==
    \A q \in m_txQueuesVector :
        IsStopped(q) =>
            \/ notify[q] # 0
            \/ waking = q
            \/ m_txMachineState[q] = "BUSY" /\ queue[q] # <<>>

(* Packets do not stay in the disc for ever: the wakes of the device and   *)
(* the loops of Run empty it, without anything more being sent, unless a   *)
(* loop gave up for its quota, which nothing resumes ("todo netif_schedule *)
(* (q)" in Run).                                                           *)
NothingStranded == Backlog ~> (~ Backlog \/ cutShort)
===============================================================================
