--------------------------- MODULE GrantedTimeWindow ---------------------------
(***************************************************************************)
(* ns3::DistributedSimulatorImpl and ns3::GrantedTimeWindowMpiInterface    *)
(* (src/mpi/model): every rank executes its events up to a granted time,   *)
(* and all of them then agree, in an MPI_Allgather, on the smallest time   *)
(* of any event, to which each rank adds its lookahead.                    *)
(*                                                                         *)
(* The ranks are processes without shared memory; packets between them     *)
(* travel over point-to-point links, whose delays bound the lookahead.     *)
(* MPI may hold a message back for any time and the receives that a rank   *)
(* posts may complete in any order, so the messages on their way are a     *)
(* set.  The local queue of a rank is that of EventQueue; cancelling and   *)
(* removing events is modelled in DefaultSimulator, whose code it shares.  *)
(***************************************************************************)
EXTENDS Integers, FiniteSets

CONSTANTS
    Ranks,           \* the MPI ranks
    Links,           \* the remote links, records [ends, delay]
    LookAheadBound,  \* BoundLookAhead of each rank, MaxTime if not called
    InitialTimes,    \* time stamps of the events each rank schedules before Run
    Delays,          \* delays used by Schedule
    TxTimes,         \* transmission times of packets
    MaxTime,         \* GetMaximumSimulationTime
    MaxTs,           \* bound: no event is created later than this
    MaxCreated       \* bound: events and packets created by a rank

ASSUME TimesAssumption ==
    /\ MaxTime \in Nat /\ MaxTs \in Nat /\ MaxTs < MaxTime
    /\ MaxCreated \in Nat
    /\ Delays \subseteq Nat /\ TxTimes \subseteq Nat
    /\ InitialTimes \in [Ranks -> SUBSET (0..MaxTs)]
    /\ LookAheadBound \in [Ranks -> (1..MaxTime)]

(* A simulation on one rank ignores the lookahead and is not modelled. *)
ASSUME SeveralRanks == \E r, q \in Ranks : r # q

ASSUME LinksAssumption ==
    /\ IsFiniteSet(Ranks)
    /\ Links \subseteq [ends : SUBSET Ranks, delay : 0..MaxTime]
    /\ \A l \in Links : Cardinality(l.ends) = 2

VARIABLES
    m_lookAhead,     \* m_lookAhead of each rank
    m_grantedTime,   \* m_grantedTime of each rank
    m_events,        \* the queue of each rank, records [ts, id]
    m_currentTs,     \* the clock of each rank
    m_stop,          \* the ranks on which Stop was called
    pc,              \* where each rank is in Run
    g_txCount,       \* packets sent by each rank
    g_rxCount,       \* packets received by each rank
    contribution,    \* the LbtsMessage of each rank for the next Allgather
    m_pLBTS,         \* the result of the last one, the same on every rank
    messages,        \* packets on their way, records [dst, ts, id]
    created,         \* number of events and packets each rank has created
    floor            \* history: the time on which the last window is built

comm  == <<g_txCount, g_rxCount, messages>>
lbts  == <<contribution, m_pLBTS, floor>>
local == <<m_events, m_currentTs, m_stop, created>>
vars  == <<m_lookAhead, m_grantedTime, local, pc, comm, lbts>>

LinksOf(r) == {l \in Links : r \in l.ends}

-------------------------------------------------------------------------------
(* CalculateLookAhead: the smallest delay of the rank's own links, and for a
   rank that has none the largest one of the other ranks, if it is not 0. *)

IsLeast(t, S) == t \in S /\ \A u \in S : t <= u
IsGreatest(t, S) == t \in S /\ \A u \in S : t >= u

Candidates(r) == {LookAheadBound[r]} \cup {l.delay : l \in LinksOf(r)}

(* Mutant of IsLookAhead: every rank uses the largest of its delays. *)
IsLookAhead_Largest(t, r) == IsGreatest(t, {l.delay : l \in LinksOf(r)} \cup {0})

IsLookAhead(t, r) ==
    \E own \in [Ranks -> 0..MaxTime] :
       /\ \A q \in Ranks : IsLeast(own[q], Candidates(q))
       /\ IF own[r] # MaxTime \/ \A q \in Ranks : own[q] \in {0, MaxTime}
          THEN t = own[r]
          ELSE IsGreatest(t, {own[q] : q \in Ranks} \ {MaxTime})

-------------------------------------------------------------------------------
Init ==
    /\ m_lookAhead \in [Ranks -> 0..MaxTime]
    /\ \A r \in Ranks : IsLookAhead(m_lookAhead[r], r)
    /\ m_grantedTime = m_lookAhead
    /\ m_events = [r \in Ranks |-> {[ts |-> t, id |-> <<r, 0>>] : t \in InitialTimes[r]}]
    /\ m_currentTs = [r \in Ranks |-> 0]
    /\ m_stop = {}
    /\ pc = [r \in Ranks |-> "loop"]
    /\ g_txCount = [r \in Ranks |-> 0]
    /\ g_rxCount = [r \in Ranks |-> 0]
    /\ contribution = [r \in Ranks |-> [rx |-> 0, tx |-> 0, finished |-> FALSE, time |-> 0]]
    /\ m_pLBTS = contribution
    /\ messages = {}
    /\ created = [r \in Ranks |-> 0]
    /\ floor = 0

IsLocalFinished(r) == m_events[r] = {} \/ r \in m_stop

(* t is the result of NextTs on rank r. *)
IsNextTs(t, r) ==
    IF IsLocalFinished(r) THEN t = MaxTime
                          ELSE IsLeast(t, {e.ts : e \in m_events[r]})

(* Nothing on rank r may be executed any more in its window. *)
WindowExhausted(r) ==
    IsLocalFinished(r) \/ \A e \in m_events[r] : e.ts > m_grantedTime[r]

-------------------------------------------------------------------------------
(* The events of a rank. *)

ProcessOneEvent(r) ==
    /\ pc[r] = "loop"
    /\ ~IsLocalFinished(r)
    /\ \E e \in m_events[r] :
          /\ \A f \in m_events[r] : e.ts <= f.ts
          /\ e.ts <= m_grantedTime[r]
          /\ m_events' = [m_events EXCEPT ![r] = @ \ {e}]
          /\ m_currentTs' = [m_currentTs EXCEPT ![r] = e.ts]
    /\ pc' = [pc EXCEPT ![r] = "invoke"]
    /\ UNCHANGED <<m_lookAhead, m_grantedTime, m_stop, created, comm, lbts>>

(* What the handler of an event may call, before it returns. *)

Create(r) ==
    /\ pc[r] = "invoke"
    /\ created[r] < MaxCreated
    /\ created' = [created EXCEPT ![r] = @ + 1]

Schedule(r, d) ==
    /\ Create(r)
    /\ m_currentTs[r] + d <= MaxTs
    /\ m_events' = [m_events EXCEPT ![r] = @ \cup
          {[ts |-> m_currentTs[r] + d, id |-> <<r, created[r] + 1>>]}]
    /\ UNCHANGED <<m_lookAhead, m_grantedTime, m_currentTs, m_stop, pc, comm, lbts>>

(* Mutant of SendPacket: the packet is not counted. *)
SendPacket_NotCounted(r, q, l, txTime) ==
    /\ Create(r)
    /\ l.ends = {r, q} /\ q # r
    /\ LET rxTime == m_currentTs[r] + txTime + l.delay
       IN  /\ rxTime <= MaxTs
           /\ messages' = messages \cup
                 {[dst |-> q, ts |-> rxTime, id |-> <<r, created[r] + 1>>]}
    /\ UNCHANGED <<m_lookAhead, m_grantedTime, m_events, m_currentTs, m_stop, pc,
                   g_txCount, g_rxCount, lbts>>

(* A packet is transmitted on the remote link l: PointToPointRemoteChannel::
   TransmitStart computes the time of its reception, SendPacket sends it. *)
SendPacket(r, q, l, txTime) ==
    /\ Create(r)
    /\ l.ends = {r, q} /\ q # r
    /\ LET rxTime == m_currentTs[r] + txTime + l.delay
       IN  /\ rxTime <= MaxTs
           /\ messages' = messages \cup
                 {[dst |-> q, ts |-> rxTime, id |-> <<r, created[r] + 1>>]}
    /\ g_txCount' = [g_txCount EXCEPT ![r] = @ + 1]
    /\ UNCHANGED <<m_lookAhead, m_grantedTime, m_events, m_currentTs, m_stop, pc,
                   g_rxCount, lbts>>

Stop(r) ==
    /\ pc[r] = "invoke"
    /\ m_stop' = m_stop \cup {r}
    /\ UNCHANGED <<m_lookAhead, m_grantedTime, m_events, m_currentTs, pc,
                   created, comm, lbts>>

HandlerReturns(r) ==
    /\ pc[r] = "invoke"
    /\ pc' = [pc EXCEPT ![r] = "loop"]
    /\ UNCHANGED <<m_lookAhead, m_grantedTime, local, comm, lbts>>

-------------------------------------------------------------------------------
(* The synchronization of the ranks. *)

(* The next event is beyond the granted time, or there is none. *)
Synchronize(r) ==
    /\ pc[r] = "loop"
    /\ WindowExhausted(r)
    /\ pc' = [pc EXCEPT ![r] = "receive"]
    /\ UNCHANGED <<m_lookAhead, m_grantedTime, local, comm, lbts>>

(* Mutants of ReceiveMessage: the time of reception taken for a delay, and the
   packet not counted. *)
ReceiveMessage_AsDelay(r, m) ==
    /\ pc[r] = "receive"
    /\ m.dst = r
    /\ messages' = messages \ {m}
    /\ g_rxCount' = [g_rxCount EXCEPT ![r] = @ + 1]
    /\ m_events' = [m_events EXCEPT ![r] = @ \cup
          {[ts |-> m_currentTs[r] + m.ts, id |-> m.id]}]
    /\ UNCHANGED <<m_lookAhead, m_grantedTime, m_currentTs, m_stop, created, pc,
                   g_txCount, lbts>>

ReceiveMessage_NotCounted(r, m) ==
    /\ pc[r] = "receive"
    /\ m.dst = r
    /\ messages' = messages \ {m}
    /\ m_events' = [m_events EXCEPT ![r] = @ \cup {[ts |-> m.ts, id |-> m.id]}]
    /\ UNCHANGED <<m_lookAhead, m_grantedTime, m_currentTs, m_stop, created, pc,
                   g_txCount, g_rxCount, lbts>>

(* ReceiveMessages: MPI_Testany returns a packet, which becomes an event. *)
ReceiveMessage(r, m) ==
    /\ pc[r] = "receive"
    /\ m.dst = r
    /\ messages' = messages \ {m}
    /\ g_rxCount' = [g_rxCount EXCEPT ![r] = @ + 1]
    /\ m_events' = [m_events EXCEPT ![r] = @ \cup {[ts |-> m.ts, id |-> m.id]}]
    /\ UNCHANGED <<m_lookAhead, m_grantedTime, m_currentTs, m_stop, created, pc,
                   g_txCount, lbts>>

(* MPI_Testany has nothing, though a packet may be on its way: the rank enters
   MPI_Allgather with its LbtsMessage. *)
Contribute(r) ==
    /\ pc[r] = "receive"
    /\ \E t \in 0..MaxTime :
          /\ IsNextTs(t, r)
          /\ contribution' = [contribution EXCEPT ![r] =
                [rx |-> g_rxCount[r], tx |-> g_txCount[r],
                 finished |-> IsLocalFinished(r), time |-> t]]
    /\ pc' = [pc EXCEPT ![r] = "gather"]
    /\ UNCHANGED <<m_lookAhead, m_grantedTime, local, comm, m_pLBTS, floor>>

(* The sum of n[q] over the ranks, as the number of pairs it counts. *)
Pairs(n) == UNION {{q} \X (1..n[q]) : q \in Ranks}
Total(n) == Cardinality(Pairs(n))

TotRx(v) == Total([q \in Ranks |-> v[q].rx])
TotTx(v) == Total([q \in Ranks |-> v[q].tx])

(* MPI_Allgather completes when every rank has entered it.  Ranks leave it one
   by one; until the slowest one has, nobody completes the next one. *)
Allgather ==
    /\ \A r \in Ranks : pc[r] = "gather"
    /\ m_pLBTS' = contribution
    /\ pc' = [r \in Ranks |-> "grant"]
    /\ \E s \in 0..MaxTime :
          /\ IsLeast(s, {contribution[q].time : q \in Ranks})
          /\ floor' = IF TotRx(contribution) = TotTx(contribution) THEN s ELSE floor
    /\ UNCHANGED <<m_lookAhead, m_grantedTime, local, comm, contribution>>

(* Mutant of GlobalFinished: the packets on their way are forgotten. *)
GlobalFinished_NoCounts == \A q \in Ranks : m_pLBTS[q].finished

GlobalFinished ==
    /\ \A q \in Ranks : m_pLBTS[q].finished
    /\ TotRx(m_pLBTS) = TotTx(m_pLBTS)

(* Mutant of Grant: the window moves although packets are on their way. *)
Grant_NoCounts(r) ==
    /\ pc[r] = "grant"
    /\ \E smallestTime \in 0..MaxTime :
          /\ IsLeast(smallestTime, {m_pLBTS[q].time : q \in Ranks})
          /\ m_grantedTime' = [m_grantedTime EXCEPT ![r] =
                   IF m_lookAhead[r] = MaxTime THEN MaxTime
                   ELSE smallestTime + m_lookAhead[r]]
    /\ pc' = [pc EXCEPT ![r] = IF GlobalFinished THEN "finished" ELSE "loop"]
    /\ UNCHANGED <<m_lookAhead, local, comm, lbts>>

(* The rest of the iteration: the window moves if nothing is on its way, and
   the loop ends if every rank is finished. *)
Grant(r) ==
    /\ pc[r] = "grant"
    /\ \E smallestTime \in 0..MaxTime :
          /\ IsLeast(smallestTime, {m_pLBTS[q].time : q \in Ranks})
          /\ m_grantedTime' = [m_grantedTime EXCEPT ![r] =
                IF TotRx(m_pLBTS) # TotTx(m_pLBTS) THEN @
                ELSE IF m_lookAhead[r] = MaxTime THEN MaxTime
                ELSE smallestTime + m_lookAhead[r]]
    /\ pc' = [pc EXCEPT ![r] = IF GlobalFinished THEN "finished" ELSE "loop"]
    /\ UNCHANGED <<m_lookAhead, local, comm, lbts>>

-------------------------------------------------------------------------------
Handler(r) ==
    \/ \E d \in Delays : Schedule(r, d)
    \/ \E l \in Links, q \in Ranks, x \in TxTimes : SendPacket(r, q, l, x)
    \/ Stop(r)
    \/ HandlerReturns(r)

Receive(r) == \E m \in messages : ReceiveMessage(r, m)

Loop(r) == ProcessOneEvent(r) \/ Synchronize(r) \/ Contribute(r) \/ Grant(r)

Next == Allgather \/ \E r \in Ranks : Handler(r) \/ Receive(r) \/ Loop(r)

Spec == Init /\ [][Next]_vars

(* Handlers return, the loop goes on, and MPI makes progress: a collective that
   all have entered completes, and a packet that is polled for again and again
   arrives. *)
Fairness ==
    /\ WF_vars(Allgather)
    /\ \A r \in Ranks : WF_vars(HandlerReturns(r)) /\ WF_vars(Loop(r))
    /\ \A r \in Ranks : SF_vars(Receive(r))

FairSpec == Spec /\ Fairness
===============================================================================
