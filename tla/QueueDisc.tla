------------------------------- MODULE QueueDisc -------------------------------
(***************************************************************************)
(* The flow control between a queue disc and the device below it:          *)
(* TrafficControlLayer::Send and ns3::QueueDisc (traffic-control/model),   *)
(* with FifoQueueDisc as the disc, ns3::NetDeviceQueue                     *)
(* (network/utils/net-device-queue-interface.h and .cc), ns3::Queue, and   *)
(* the transmitter of ns3::PointToPointNetDevice.                          *)
(*                                                                         *)
(* A device has one transmission queue, as PointToPointNetDevice has, or   *)
(* several behind one disc; with several, each has a transmitter of the    *)
(* same kind.  A step is an event of the simulator, or a turn of the loop  *)
(* in QueueDisc::Run, during which no event runs.                          *)
(***************************************************************************)
EXTENDS DynamicQueueLimits, FiniteSets, SequencesExt

CONSTANTS
    TxQueues,     \* the transmission queues a device may have
    Sizes,        \* the sizes of packets, in bytes
    MTU,          \* the largest of them: NetDevice::GetMtu
    HeaderSize,   \* what the device puts in front of a packet
    MaxSizes,     \* the values m_maxSize of the device queues may have
    DiscSize,     \* m_maxSize of the queue disc, in packets
    Quota,        \* m_quota of the queue disc
    MaxPackets    \* bound: number of packets sent

ASSUME TxQueuesAssumption == IsFiniteSet(TxQueues)
ASSUME SizesAssumption ==
    /\ MTU \in Nat \ {0} /\ Sizes \subseteq 1 .. MTU
    /\ HeaderSize \in Nat
    /\ MaxSizes \subseteq [unit: {"PACKETS", "BYTES"}, value: Nat]
ASSUME DiscAssumption == DiscSize \in Nat /\ Quota \in Nat \ {0} /\ MaxPackets \in Nat

(* A device queue holds at least one full packet, and the counters of its  *)
(* byte limits can tell a full queue from an empty one.                    *)
MaxFrame == MTU + HeaderSize

CapacityBytes(size) == IF size.unit = "PACKETS" THEN size.value * MaxFrame ELSE size.value

ASSUME RoomAssumption ==
    \A size \in MaxSizes :
        /\ MaxFrame <= CapacityBytes(size)
        /\ CapacityBytes(size) + MaxFrame < Word

Nothing == "nothing"
ASSUME NothingAssumption == Nothing \notin TxQueues

VARIABLES
    m_txQueuesVector,          \* the transmission queues of the device
    limited,                   \* those for which SetQueueLimits was called
    m_maxSize,                 \* the capacity of each device queue
    disc,                      \* the internal queue of the queue disc
    m_requeued,                \* <<the requeued packet>>, or <<>>
    m_running,                 \* QueueDisc::Run is in its loop
    quota,                     \* what is left of the quota of that loop
    cutShort,                  \* the last loop ended because nothing was left
    queue,                     \* m_packets of each device queue
    m_nBytes,                  \* its bytes
    m_stoppedByDevice,
    m_stoppedByQueueLimits,
    m_queueLimits,             \* the DynamicQueueLimits of each
    m_txMachineState,          \* "READY" or "BUSY"
    notify,                    \* bytes of the packet whose dequeuing is to be
                               \* notified by an event of its own, or 0
    waking,                    \* the queue whose notification has called back
                               \* for its limits and has yet to look for room
    accepted,                  \* per queue, the packets the disc has accepted
    transmitted,               \* and those given to the channel
    sent,                      \* packets sent so far
    discarded                  \* the device dropped a packet

config  == <<m_txQueuesVector, limited, m_maxSize>>
loop    == <<m_running, quota, cutShort>>
backlog == <<disc, m_requeued>>
stopped == <<m_stoppedByDevice, m_stoppedByQueueLimits>>
link    == <<queue, m_nBytes, m_txMachineState, notify, transmitted>>
past    == <<accepted, sent, discarded>>
vars == <<config, loop, backlog, stopped, link, m_queueLimits, waking, past>>

Packets == [id: 1 .. MaxPackets, txq: TxQueues, size: Sizes]

Init ==
    /\ m_txQueuesVector \in (SUBSET TxQueues) \ {{}}
    /\ limited \in SUBSET m_txQueuesVector
    /\ m_maxSize \in MaxSizes
    /\ disc = <<>>
    /\ m_requeued = <<>>
    /\ m_running = FALSE
    /\ quota = 0
    /\ cutShort = FALSE
    /\ queue = [q \in TxQueues |-> <<>>]
    /\ m_nBytes = [q \in TxQueues |-> 0]
    /\ m_stoppedByDevice = [q \in TxQueues |-> FALSE]
    /\ m_stoppedByQueueLimits = [q \in TxQueues |-> FALSE]
    /\ m_queueLimits = [q \in TxQueues |-> Fresh]
    /\ m_txMachineState = [q \in TxQueues |-> "READY"]
    /\ notify = [q \in TxQueues |-> 0]
    /\ waking = Nothing
    /\ accepted = [q \in TxQueues |-> <<>>]
    /\ transmitted = [q \in TxQueues |-> <<>>]
    /\ sent = 0
    /\ discarded = FALSE

IsStopped(q) == m_stoppedByDevice[q] \/ m_stoppedByQueueLimits[q]

(* A device queue does not hold so many packets of so many bytes together. *)
Exceeds(packets, bytes) ==
    (IF m_maxSize.unit = "PACKETS" THEN packets ELSE bytes) > m_maxSize.value

(* Error: room is asked for one byte, not for a whole packet.              *)
WouldOverflow_OneByte(packets, bytes) == Exceeds(packets + 1, bytes + 1)

(* A device queue that holds these has no room for one more packet.        *)
WouldOverflow(packets, bytes) == Exceeds(packets + 1, bytes + MTU)

(* Between two events                                                      *)
Idle == ~ m_running /\ waking = Nothing

(* QueueDisc::Run up to its loop                                           *)
RunBegin ==
    /\ m_running' = TRUE
    /\ quota' = Quota
    /\ cutShort' = FALSE

RunEnd(cut) ==
    /\ m_running' = FALSE
    /\ quota' = 0
    /\ cutShort' = cut
-----------------------------------------------------------------------------
(***************************************************************************)
(* The device.                                                             *)
(***************************************************************************)

(* What TransmitStart changes for the packet at the head of packets, which *)
(* holds bytes bytes and is dequeued from q: the Dequeue trace schedules   *)
(* the notification.                                                       *)
DequeueAndTransmit(q, packets, bytes) ==
    LET n == Head(packets).size + HeaderSize
    IN  /\ queue' = [queue EXCEPT ![q] = Tail(packets)]
        /\ m_nBytes' = [m_nBytes EXCEPT ![q] = bytes - n]
        /\ m_txMachineState' = [m_txMachineState EXCEPT ![q] = "BUSY"]
        /\ notify' = [notify EXCEPT ![q] = n]
        /\ transmitted' = [transmitted EXCEPT ![q] = Append(@, Head(packets).id)]

(* PacketEnqueued: queue q now holds packets and bytes, n of them new      *)
PacketEnqueued(q, n, packets, bytes) ==
    LET dql == IF q \in limited THEN Queued(m_queueLimits[q], n) ELSE m_queueLimits[q]
    IN  /\ m_queueLimits' = [m_queueLimits EXCEPT ![q] = dql]
        /\ m_stoppedByQueueLimits' =
             [m_stoppedByQueueLimits EXCEPT ![q] = @ \/ (q \in limited /\ Available(dql) < 0)]
        /\ m_stoppedByDevice' = [m_stoppedByDevice EXCEPT ![q] = @ \/ WouldOverflow(packets, bytes)]

(* PointToPointNetDevice::Send                                             *)
DeviceAccepts(p) ==
    LET n     == p.size + HeaderSize
        bytes == m_nBytes[p.txq] + n
    IN  /\ ~ Exceeds(Len(queue[p.txq]) + 1, bytes)
        /\ PacketEnqueued(p.txq, n, Len(queue[p.txq]) + 1, bytes)
        /\ IF m_txMachineState[p.txq] = "READY"
           THEN DequeueAndTransmit(p.txq, Append(queue[p.txq], p), bytes)
           ELSE /\ queue' = [queue EXCEPT ![p.txq] = Append(@, p)]
                /\ m_nBytes' = [m_nBytes EXCEPT ![p.txq] = bytes]
                /\ UNCHANGED <<m_txMachineState, notify, transmitted>>
        /\ UNCHANGED discarded

DeviceDiscards(p) ==
    /\ Exceeds(Len(queue[p.txq]) + 1, m_nBytes[p.txq] + p.size + HeaderSize)
    /\ m_stoppedByDevice' = [m_stoppedByDevice EXCEPT ![p.txq] = TRUE]
    /\ discarded' = TRUE
    /\ UNCHANGED <<m_stoppedByQueueLimits, m_queueLimits, link>>
-----------------------------------------------------------------------------
(***************************************************************************)
(* The queue disc.                                                         *)
(***************************************************************************)

(* FifoQueueDisc::DoEnqueue drops the packet.                              *)
DiscIsFull == Len(disc) + 1 > DiscSize

(* TrafficControlLayer::Send for a packet the select queue callback puts   *)
(* on q                                                                    *)
Send(q, size) ==
    LET p == [id |-> sent + 1, txq |-> q, size |-> size]
    IN  /\ Idle
        /\ sent < MaxPackets
        /\ sent' = sent + 1
        /\ \/ /\ ~ DiscIsFull
              /\ disc' = Append(disc, p)
              /\ accepted' = [accepted EXCEPT ![q] = Append(@, p.id)]
           \/ /\ DiscIsFull
              /\ UNCHANGED <<disc, accepted>>
        /\ RunBegin
        /\ UNCHANGED <<config, m_requeued, stopped, link, m_queueLimits, waking, discarded>>

(* DequeuePacket asks the disc only when the device has several queues or  *)
(* its only one is not stopped.                                            *)
MayDequeue == Cardinality(m_txQueuesVector) > 1 \/ \A q \in m_txQueuesVector : ~ IsStopped(q)

NextPacket(p) ==
    \/ /\ m_requeued # <<>>
       /\ p = m_requeued[1] /\ ~ IsStopped(p.txq)
    \/ /\ m_requeued = <<>> /\ MayDequeue
       /\ disc # <<>>
       /\ p = Head(disc)

(* What DequeuePacket leaves in the disc                                   *)
DiscAfter == IF m_requeued = <<>> THEN Tail(disc) ELSE disc

(* Restart when DequeuePacket returns no packet                            *)
NoPacket ==
    /\ m_running
    /\ \/ m_requeued # <<>> /\ IsStopped(m_requeued[1].txq)
       \/ m_requeued = <<>> /\ (disc = <<>> \/ ~ MayDequeue)
    /\ RunEnd(FALSE)
    /\ UNCHANGED <<config, backlog, stopped, link, m_queueLimits, waking, past>>

(* Error: a requeued packet goes back to the end of the disc.              *)
Requeue_ToTheDisc(p) ==
    /\ m_running
    /\ NextPacket(p) /\ IsStopped(p.txq)
    /\ disc' = Append(DiscAfter, p)
    /\ m_requeued' = <<>>
    /\ RunEnd(FALSE)
    /\ UNCHANGED <<config, stopped, link, m_queueLimits, waking, past>>

(* Restart when Transmit finds the queue of the packet stopped             *)
Requeue(p) ==
    /\ m_running
    /\ NextPacket(p) /\ IsStopped(p.txq)
    /\ m_requeued' = <<p>>
    /\ disc' = DiscAfter
    /\ RunEnd(FALSE)
    /\ UNCHANGED <<config, stopped, link, m_queueLimits, waking, past>>

(* Restart when the packet goes to the device, and the loop of Run after   *)
(* it: GetNPackets does not count a requeued packet.                       *)
Transmit(p) ==
    /\ m_running
    /\ NextPacket(p) /\ ~ IsStopped(p.txq)
    /\ disc' = DiscAfter
    /\ m_requeued' = <<>>
    /\ DeviceAccepts(p) \/ DeviceDiscards(p)
    /\ IF disc' = <<>> \/ m_stoppedByDevice'[p.txq] \/ m_stoppedByQueueLimits'[p.txq]
       THEN RunEnd(FALSE)
       ELSE IF quota = 1
       THEN RunEnd(TRUE)
       ELSE quota' = quota - 1 /\ UNCHANGED <<m_running, cutShort>>
    /\ UNCHANGED <<config, waking, accepted, sent>>
-----------------------------------------------------------------------------
(***************************************************************************)
(* The events of the device.                                               *)
(***************************************************************************)

(* Error: a queue exactly at its limit is not woken. *)
NotifyTransmittedBytes_Strict(q) ==
    /\ Idle
    /\ notify[q] # 0
    /\ notify' = [notify EXCEPT ![q] = 0]
    /\ waking' = q
    /\ \/ /\ q \notin limited
          /\ UNCHANGED <<m_queueLimits, m_stoppedByQueueLimits, loop>>
       \/ /\ q \in limited
          /\ \E held \in BOOLEAN :
               m_queueLimits' =
                 [m_queueLimits EXCEPT ![q] = Completed(@, notify[q], held)]
          /\ \/ /\ Available(m_queueLimits'[q]) <= 0
                /\ UNCHANGED <<m_stoppedByQueueLimits, loop>>
             \/ /\ Available(m_queueLimits'[q]) > 0
                /\ m_stoppedByQueueLimits' = [m_stoppedByQueueLimits EXCEPT ![q] = FALSE]
                /\ IF m_stoppedByQueueLimits[q] THEN RunBegin ELSE UNCHANGED loop
    /\ UNCHANGED <<config, backlog, m_stoppedByDevice, queue, m_nBytes,
                   m_txMachineState, transmitted, past>>

(* The event PacketDequeued scheduled, up to the return of                 *)
(* NotifyTransmittedBytes or to the loop that its callback runs            *)
NotifyTransmittedBytes(q) ==
    /\ Idle
    /\ notify[q] # 0
    /\ notify' = [notify EXCEPT ![q] = 0]
    /\ waking' = q
    /\ \/ /\ q \notin limited
          /\ UNCHANGED <<m_queueLimits, m_stoppedByQueueLimits, loop>>
       \/ /\ q \in limited
          /\ \E held \in BOOLEAN :
               m_queueLimits' =
                 [m_queueLimits EXCEPT ![q] = Completed(@, notify[q], held)]
          /\ \/ /\ Available(m_queueLimits'[q]) < 0
                /\ UNCHANGED <<m_stoppedByQueueLimits, loop>>
             \/ /\ Available(m_queueLimits'[q]) >= 0
                /\ m_stoppedByQueueLimits' = [m_stoppedByQueueLimits EXCEPT ![q] = FALSE]
                /\ IF m_stoppedByQueueLimits[q] THEN RunBegin ELSE UNCHANGED loop
    /\ UNCHANGED <<config, backlog, m_stoppedByDevice, queue, m_nBytes,
                   m_txMachineState, transmitted, past>>

(* Error: a wake runs a disc only when it holds packets, and GetNPackets   *)
(* does not count the requeued one.                                        *)
Wake_IfDiscHolds ==
    /\ ~ m_running
    /\ waking # Nothing
    /\ waking' = Nothing
    /\ IF ~ WouldOverflow(Len(queue[waking]), m_nBytes[waking]) /\ m_stoppedByDevice[waking]
       THEN /\ m_stoppedByDevice' = [m_stoppedByDevice EXCEPT ![waking] = FALSE]
            /\ IF disc # <<>> THEN RunBegin ELSE UNCHANGED loop
       ELSE UNCHANGED <<m_stoppedByDevice, loop>>
    /\ UNCHANGED <<config, backlog, m_stoppedByQueueLimits, link, m_queueLimits, past>>

(* The rest of that event: Wake, when there is room for another packet     *)
Wake ==
    /\ ~ m_running
    /\ waking # Nothing
    /\ waking' = Nothing
    /\ IF ~ WouldOverflow(Len(queue[waking]), m_nBytes[waking]) /\ m_stoppedByDevice[waking]
       THEN /\ m_stoppedByDevice' = [m_stoppedByDevice EXCEPT ![waking] = FALSE]
            /\ RunBegin
       ELSE UNCHANGED <<m_stoppedByDevice, loop>>
    /\ UNCHANGED <<config, backlog, m_stoppedByQueueLimits, link, m_queueLimits, past>>

(* TransmitComplete, which comes after the notification of its packet      *)
TransmitComplete(q) ==
    /\ Idle
    /\ notify[q] = 0
    /\ m_txMachineState[q] = "BUSY"
    /\ \/ /\ queue[q] = <<>>
          /\ m_txMachineState' = [m_txMachineState EXCEPT ![q] = "READY"]
          /\ UNCHANGED <<queue, m_nBytes, notify, transmitted>>
       \/ /\ queue[q] # <<>>
          /\ DequeueAndTransmit(q, queue[q], m_nBytes[q])
    /\ UNCHANGED <<config, loop, backlog, stopped, m_queueLimits, waking, past>>
-----------------------------------------------------------------------------
Restart == NoPacket \/ (\E p \in Packets : Requeue(p) \/ Transmit(p))

Next ==
    \/ \E q \in m_txQueuesVector, size \in Sizes : Send(q, size)
    \/ NoPacket
    \/ \E p \in Packets : Requeue(p)
    \/ \E p \in Packets : Transmit(p)
    \/ \E q \in m_txQueuesVector : NotifyTransmittedBytes(q)
    \/ Wake
    \/ \E q \in m_txQueuesVector : TransmitComplete(q)

Spec == Init /\ [][Next]_vars

(***************************************************************************)
(* A loop and an event run to their end, and the simulator runs the events *)
(* that are scheduled.  Nobody has to send anything.                       *)
(***************************************************************************)
FairSpec ==
    /\ Spec
    /\ WF_vars(Restart)
    /\ WF_vars(Wake)
    /\ \A q \in TxQueues :
         /\ WF_vars(q \in m_txQueuesVector /\ NotifyTransmittedBytes(q))
         /\ WF_vars(q \in m_txQueuesVector /\ TransmitComplete(q))
===============================================================================
