------------------------------ MODULE NullMessage ------------------------------
(***************************************************************************)
(* ns3::NullMessageSimulatorImpl, NullMessageMpiInterface and              *)
(* RemoteChannelBundle (src/mpi/model): conservative synchronization by    *)
(* null messages.  A rank executes events up to the smallest of the times  *)
(* its neighbours have guaranteed; with every packet, and in null messages *)
(* between them, it sends each neighbour a guarantee of its own.           *)
(*                                                                         *)
(* The queue of a rank holds the events of its models, those that complete *)
(* a transmission of one of its devices, its null message events and the   *)
(* one that calls Stop.  MPI delivers the messages between two ranks in    *)
(* the order in which they were sent.  Events with equal time stamps are   *)
(* executed in any order.                                                  *)
(***************************************************************************)
EXTENDS Integers, Sequences, FiniteSets, FiniteSetsExt, Functions

CONSTANTS
    Ranks,           \* the MPI ranks
    Channels,        \* remote point-to-point channels
    Topologies,      \* the sets of them with which a program may call Run
    ChannelEnds,     \* the two ranks of each channel
    ChannelDelay,    \* its Delay
    SchedulerTune,   \* m_schedulerTune, in hundredths
    InterframeGap,   \* of the point-to-point devices
    InitialTimes,    \* time stamps of the events each rank schedules before Run
    StopTimes,       \* those of the events that call Stop, at most one per rank
    Delays,          \* delays used by Schedule
    TxTimes,         \* transmission times of packets
    MaxTime,         \* GetMaximumSimulationTime
    MaxTs,           \* bound: no later event is executed
    MaxCreated       \* bound: events and packets created by a rank, in each topology

ASSUME ChannelsAssumption ==
    /\ Topologies \subseteq SUBSET Channels
    /\ ChannelEnds \in [Channels -> SUBSET Ranks]
    /\ \A c \in Channels : Cardinality(ChannelEnds[c]) = 2
    /\ ChannelDelay \in [Channels -> Nat]

ASSUME NumbersAssumption ==
    /\ SchedulerTune \in 1..100 /\ InterframeGap \in Nat
    /\ InitialTimes \in [Ranks -> SUBSET Nat] /\ StopTimes \in [Ranks -> SUBSET Nat]
    /\ Delays \subseteq Nat /\ TxTimes \subseteq Nat
    /\ MaxTime \in Nat /\ MaxTs \in Nat /\ MaxCreated \in [Topologies -> Nat]

VARIABLES
    channels,        \* the channels the program has created before Run
    m_events,        \* the queue of each rank, records [ts, kind, id]
    m_currentTs,     \* the clock of each rank
    m_safeTime,      \* m_safeTime of each rank
    m_guaranteeTime, \* m_guaranteeTime[r][q]: of the bundle on r from its neighbour q
    m_stop,          \* the ranks on which Stop was called
    pc,              \* where each rank is in Run
    transmitting,    \* the devices that are BUSY, pairs of a rank and a channel
    wire,            \* wire[r][q]: the messages on their way from r to q
    created          \* number of events and packets each rank has created

vars == <<channels, m_events, m_currentTs, m_safeTime, m_guaranteeTime, m_stop,
          pc, transmitting, wire, created>>

Bundle(r, q) == {c \in channels : ChannelEnds[c] = {r, q} /\ r # q}
Neighbours(r) == {q \in Ranks : Bundle(r, q) # {}}
BundleDelay(r, q) == Min({ChannelDelay[c] : c \in Bundle(r, q)})

(* Min(Next(), GetSafeTime()) + GetDelay(), for a queue that is not empty. *)
Guarantee(r, q, events) ==
    Min({e.ts : e \in events} \cup {m_safeTime[r]}) + BundleDelay(r, q)

(* The Time of a double is the nearest step, a half rounded up (llround). *)
Nearest(hundredths) == (hundredths + 50) \div 100

(* The event that ScheduleNullMessageEvent schedules at time now. *)
NullMessageEvent(r, q, now) ==
    [ts |-> now + Nearest(SchedulerTune * BundleDelay(r, q)),
     kind |-> "null", id |-> <<q, 0>>]

NullMessage(r, time) == [time |-> 0, guarantee |-> time, id |-> <<r, 0>>]

Send(r, q, message) == [wire EXCEPT ![r][q] = Append(@, message)]

-------------------------------------------------------------------------------
Init ==
    /\ channels \in Topologies
    /\ m_events = [r \in Ranks |->
          {[ts |-> t, kind |-> "model", id |-> <<r, 0>>] : t \in InitialTimes[r]}
          \cup {[ts |-> t, kind |-> "stop", id |-> <<r, 0>>] : t \in StopTimes[r]}]
    /\ m_currentTs = [r \in Ranks |-> 0]
    /\ m_safeTime = [r \in Ranks |-> 0]
    /\ m_guaranteeTime = [r \in Ranks |-> [q \in Ranks |-> 0]]
    /\ m_stop = {}
    /\ pc = [r \in Ranks |-> "start"]
    /\ transmitting = {}
    /\ wire = [r \in Ranks |-> [q \in Ranks |-> <<>>]]
    /\ created = [r \in Ranks |-> 0]

(* Run begins with InitializeNullMessageEvents. *)
Start(r) ==
    /\ pc[r] = "start"
    /\ pc' = [pc EXCEPT ![r] = "loop"]
    /\ wire' = [wire EXCEPT ![r] = [q \in Ranks |->
          IF q \in Neighbours(r)
          THEN Append(@[q], NullMessage(r, BundleDelay(r, q)))
          ELSE @[q]]]
    /\ m_events' = [m_events EXCEPT ![r] =
          @ \cup {NullMessageEvent(r, q, 0) : q \in Neighbours(r)}]
    /\ UNCHANGED <<m_currentTs, m_safeTime, m_guaranteeTime, m_stop, transmitting, created>>

(* Mutant of IsFinished: calls of Stop are overlooked. *)
IsFinished_EmptyOnly(r) == m_events[r] = {}

IsFinished(r) == m_events[r] = {} \/ r \in m_stop

(* ProcessOneEvent takes e, the earliest event of r, which is safe. *)
Take(r, e) ==
    /\ pc[r] = "loop"
    /\ ~IsFinished(r)
    /\ \A f \in m_events[r] : e.ts <= f.ts
    /\ e.ts <= m_safeTime[r]
    /\ e.ts <= MaxTs
    /\ m_currentTs' = [m_currentTs EXCEPT ![r] = e.ts]
    /\ UNCHANGED <<m_safeTime, m_guaranteeTime, created>>

(* An event of the models: its handler may make calls. *)
ProcessModelEvent(r, e) ==
    /\ Take(r, e)
    /\ e.kind = "model"
    /\ m_events' = [m_events EXCEPT ![r] = @ \ {e}]
    /\ pc' = [pc EXCEPT ![r] = "invoke"]
    /\ UNCHANGED <<m_stop, transmitting, wire>>

(* PointToPointNetDevice::TransmitComplete: the device is READY again, and the
   handler may go on with the next packet of its queue. *)
ProcessTransmitComplete(r, e) ==
    /\ Take(r, e)
    /\ e.kind = "complete"
    /\ m_events' = [m_events EXCEPT ![r] = @ \ {e}]
    /\ transmitting' = transmitting \ {<<r, e.id[1]>>}
    /\ pc' = [pc EXCEPT ![r] = "invoke"]
    /\ UNCHANGED <<m_stop, wire>>

(* A cancelled null message event is executed without effect. *)
ProcessCancelledEvent(r, e) ==
    /\ Take(r, e)
    /\ e.kind = "cancelled"
    /\ m_events' = [m_events EXCEPT ![r] = @ \ {e}]
    /\ pc' = [pc EXCEPT ![r] = "poll"]
    /\ UNCHANGED <<m_stop, transmitting, wire>>

ProcessStopEvent(r, e) ==
    /\ Take(r, e)
    /\ e.kind = "stop"
    /\ m_events' = [m_events EXCEPT ![r] = @ \ {e}]
    /\ m_stop' = m_stop \cup {r}
    /\ pc' = [pc EXCEPT ![r] = "poll"]
    /\ UNCHANGED <<transmitting, wire>>

(* NullMessageEventHandler sends the neighbour a guarantee and schedules itself
   again.  Next() asserts that the queue is not empty. *)
ProcessNullMessageEvent(r, e) ==
    /\ Take(r, e)
    /\ e.kind = "null"
    /\ LET q    == e.id[1]
           rest == m_events[r] \ {e}
       IN  \/ /\ rest # {}
              /\ wire' = Send(r, q, NullMessage(r, Guarantee(r, q, rest)))
              /\ m_events' = [m_events EXCEPT ![r] =
                    rest \cup {NullMessageEvent(r, q, e.ts)}]
              /\ pc' = [pc EXCEPT ![r] = "poll"]
           \/ /\ rest = {}
              /\ m_events' = [m_events EXCEPT ![r] = rest]
              /\ pc' = [pc EXCEPT ![r] = "aborted"]
              /\ UNCHANGED wire
    /\ UNCHANGED <<m_stop, transmitting>>

Process(r) ==
    \E e \in m_events[r] :
       \/ ProcessModelEvent(r, e) \/ ProcessTransmitComplete(r, e)
       \/ ProcessCancelledEvent(r, e) \/ ProcessStopEvent(r, e)
       \/ ProcessNullMessageEvent(r, e)

-------------------------------------------------------------------------------
(* What a handler may call. *)

Create(r) ==
    /\ pc[r] = "invoke"
    /\ created[r] < MaxCreated[channels]
    /\ created' = [created EXCEPT ![r] = @ + 1]

Schedule(r, d) ==
    /\ Create(r)
    /\ m_events' = [m_events EXCEPT ![r] = @ \cup
          {[ts |-> m_currentTs[r] + d, kind |-> "model", id |-> <<r, created[r] + 1>>]}]
    /\ UNCHANGED <<m_currentTs, m_safeTime, m_guaranteeTime, m_stop, pc, transmitting, wire>>

(* Mutant of SendPacket: the guarantee is computed before the device schedules
   TransmitComplete. *)
SendPacket_GuaranteeFirst(r, q, c, txTime) ==
    /\ Create(r)
    /\ c \in Bundle(r, q)
    /\ <<r, c>> \notin transmitting
    /\ transmitting' = transmitting \cup {<<r, c>>}
    /\ LET now       == m_currentTs[r]
           complete  == [ts |-> now + txTime + InterframeGap, kind |-> "complete",
                         id |-> <<c, 0>>]
           pending   == {e \in m_events[r] : e.kind = "null" /\ e.id[1] = q}
           cancelled == {[e EXCEPT !.kind = "cancelled"] : e \in pending}
       IN  /\ wire' = Send(r, q,
                 [time |-> now + txTime + ChannelDelay[c], id |-> <<r, created[r] + 1>>,
                  guarantee |-> Guarantee(r, q, m_events[r])])
           /\ m_events' = [m_events EXCEPT ![r] =
                 (@ \ pending) \cup cancelled \cup {complete, NullMessageEvent(r, q, now)}]
    /\ UNCHANGED <<m_currentTs, m_safeTime, m_guaranteeTime, m_stop, pc>>

(* A packet leaves on channel c to q: the device schedules TransmitComplete,
   SendPacket sends the packet with a guarantee, and the null message event of
   the bundle is cancelled and scheduled anew. *)
SendPacket(r, q, c, txTime) ==
    /\ Create(r)
    /\ c \in Bundle(r, q)
    /\ <<r, c>> \notin transmitting
    /\ transmitting' = transmitting \cup {<<r, c>>}
    /\ LET now       == m_currentTs[r]
           complete  == [ts |-> now + txTime + InterframeGap, kind |-> "complete",
                         id |-> <<c, 0>>]
           pending   == {e \in m_events[r] : e.kind = "null" /\ e.id[1] = q}
           cancelled == {[e EXCEPT !.kind = "cancelled"] : e \in pending}
       IN  /\ wire' = Send(r, q,
                 [time |-> now + txTime + ChannelDelay[c], id |-> <<r, created[r] + 1>>,
                  guarantee |-> Guarantee(r, q, m_events[r] \cup {complete})])
           /\ m_events' = [m_events EXCEPT ![r] =
                 (@ \ pending) \cup cancelled \cup {complete, NullMessageEvent(r, q, now)}]
    /\ UNCHANGED <<m_currentTs, m_safeTime, m_guaranteeTime, m_stop, pc>>

HandlerReturns(r) ==
    /\ pc[r] = "invoke"
    /\ pc' = [pc EXCEPT ![r] = "poll"]
    /\ UNCHANGED <<m_events, m_currentTs, m_safeTime, m_guaranteeTime, m_stop,
                   transmitting, wire, created>>

Handler(r) ==
    \/ \E d \in Delays : Schedule(r, d)
    \/ \E q \in Ranks, c \in channels, x \in TxTimes : SendPacket(r, q, c, x)
    \/ HandlerReturns(r)

-------------------------------------------------------------------------------
(* The receipt of messages.  MPI may hold a message back, so that a poll that
   finds nothing is possible at any time. *)

(* Mutant of ReceiveMessage: null messages do not change the guarantee. *)
ReceiveMessage_PacketsOnly(r, q) ==
    /\ wire[q][r] # <<>>
    /\ LET m == Head(wire[q][r])
       IN  /\ m_events' = [m_events EXCEPT ![r] =
                 IF m.time = 0 THEN @
                 ELSE @ \cup {[ts |-> m.time, kind |-> "model", id |-> m.id]}]
           /\ m_guaranteeTime' = [m_guaranteeTime EXCEPT ![r][q] =
                 IF m.time = 0 THEN @ ELSE m.guarantee]
    /\ wire' = [wire EXCEPT ![q][r] = Tail(@)]
    /\ UNCHANGED <<m_currentTs, m_stop, transmitting, created>>

(* The next message from q: a packet becomes an event. *)
ReceiveMessage(r, q) ==
    /\ wire[q][r] # <<>>
    /\ LET m == Head(wire[q][r])
       IN  /\ m_events' = [m_events EXCEPT ![r] =
                 IF m.time = 0 THEN @
                 ELSE @ \cup {[ts |-> m.time, kind |-> "model", id |-> m.id]}]
           /\ m_guaranteeTime' = [m_guaranteeTime EXCEPT ![r][q] = m.guarantee]
    /\ wire' = [wire EXCEPT ![q][r] = Tail(@)]
    /\ UNCHANGED <<m_currentTs, m_stop, transmitting, created>>

(* Mutant of GetSafeTime: the largest guarantee. *)
GetSafeTime_Max(guarantees) == Max({0} \cup guarantees)

GetSafeTime(guarantees) == Min({MaxTime} \cup guarantees)

CalculateSafeTime(r) ==
    m_safeTime' = [m_safeTime EXCEPT ![r] =
       GetSafeTime({m_guaranteeTime'[r][q] : q \in Neighbours(r)})]

(* HandleArrivingMessagesNonBlocking receives any number of messages. *)
Poll(r, q) ==
    /\ pc[r] = "poll"
    /\ ReceiveMessage(r, q)
    /\ UNCHANGED <<m_safeTime, pc>>

PollEnds(r) ==
    /\ pc[r] = "poll"
    /\ UNCHANGED <<m_events, m_currentTs, m_guaranteeTime, m_stop, transmitting,
                   wire, created>>
    /\ CalculateSafeTime(r)
    /\ pc' = [pc EXCEPT ![r] = "loop"]

Unsafe(r) ==
    /\ pc[r] = "loop"
    /\ ~IsFinished(r)
    /\ \A e \in m_events[r] : e.ts > m_safeTime[r]

(* HandleArrivingMessagesBlocking: MPI_Waitany returns one message. *)
Wait(r, q) ==
    /\ Unsafe(r)
    /\ ReceiveMessage(r, q)
    /\ CalculateSafeTime(r)
    /\ UNCHANGED pc

(* A rank without neighbours does not wait. *)
WaitForNobody(r) ==
    /\ Unsafe(r)
    /\ Neighbours(r) = {}
    /\ UNCHANGED <<m_events, m_currentTs, m_guaranteeTime, m_stop, pc, transmitting,
                   wire, created>>
    /\ CalculateSafeTime(r)

Stop(r) ==
    /\ pc[r] = "loop"
    /\ IsFinished(r)
    /\ pc' = [pc EXCEPT ![r] = "stopped"]
    /\ UNCHANGED <<m_events, m_currentTs, m_safeTime, m_guaranteeTime, m_stop,
                   transmitting, wire, created>>

-------------------------------------------------------------------------------
Receive(r) == \E q \in Ranks : Poll(r, q) \/ Wait(r, q)

Loop(r) == Start(r) \/ Process(r) \/ PollEnds(r) \/ WaitForNobody(r) \/ Stop(r)

Next ==
    /\ \E r \in Ranks : Loop(r) \/ Handler(r) \/ Receive(r)
    /\ UNCHANGED channels

Spec == Init /\ [][Next]_vars

(* Handlers return, the loop goes on, and MPI_Waitany returns when there is
   something to receive. *)
Fairness ==
    \A r \in Ranks : /\ WF_vars(Loop(r) /\ UNCHANGED channels)
                     /\ WF_vars(HandlerReturns(r) /\ UNCHANGED channels)
                     /\ WF_vars(\E q \in Ranks : Wait(r, q) /\ UNCHANGED channels)

FairSpec == Spec /\ Fairness
===============================================================================
