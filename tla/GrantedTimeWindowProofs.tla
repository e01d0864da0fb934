------------------------ MODULE GrantedTimeWindowProofs ------------------------
(***************************************************************************)
(* Proofs about GrantedTimeWindow for any ranks, links and delays.  The    *)
(* argument is about floor, the time on which the last window was built:   *)
(* what is on its way to a rank is at least a lookahead later than floor,  *)
(* and no window reaches further than that.  floor only moves when the     *)
(* packet counts agree, that is, when nothing is on its way.               *)
(***************************************************************************)
EXTENDS GrantedTimeWindowProperties, FiniteSetTheorems, TLAPS

(* No lookahead is larger than the delay of a link of the rank. *)
LookAheadBelowDelays ==
    \A l \in Links : \A r \in l.ends : m_lookAhead[r] <= l.delay

(* A window reaches at most one lookahead beyond floor. *)
WindowsBounded ==
    \A r \in Ranks :
       /\ m_grantedTime[r] <= floor + m_lookAhead[r]
       /\ m_lookAhead[r] = MaxTime => m_grantedTime[r] = MaxTime

(* Clocks are inside the windows, and events execute at or after floor. *)
ClocksBounded ==
    \A r \in Ranks :
       /\ m_currentTs[r] <= m_grantedTime[r]
       /\ pc[r] = "invoke" => m_currentTs[r] >= floor

(* Nothing in a queue is from the past. *)
QueueAhead == \A r \in Ranks : \A e \in m_events[r] : m_currentTs[r] <= e.ts

(* Packets on their way are beyond every window of their receiver, and the
   events still to be executed are not before floor. *)
AheadOfFloor ==
    /\ \A m \in messages : m.ts >= floor + m_lookAhead[m.dst]
    /\ \A r \in Ranks \ m_stop : \A e \in m_events[r] : e.ts >= floor

(* The ids are those given out, and no two pending things share one. *)
IdsUnique ==
    /\ \A m \in messages : m.id[2] <= created[m.id[1]]
    /\ \A r \in Ranks : \A e \in m_events[r] : e.id[2] <= created[e.id[1]]
    /\ \A m, n \in messages : m.id = n.id => m = n
    /\ \A m \in messages : \A e \in m_events[m.dst] : e.id # m.id

(* What has been sent is what has been received and what is on its way. *)
CountsExact ==
    /\ IsFiniteSet(messages)
    /\ IsFiniteSet(Pairs(g_txCount)) /\ IsFiniteSet(Pairs(g_rxCount))
    /\ Total(g_txCount) = Total(g_rxCount) + Cardinality(messages)

(* A rank waiting in the Allgather cannot change what it told the others. *)
ContributionsExact ==
    \A r \in Ranks : pc[r] = "gather" =>
       /\ contribution[r].rx = g_rxCount[r]
       /\ contribution[r].tx = g_txCount[r]
       /\ contribution[r].finished = IsLocalFinished(r)
       /\ IsNextTs(contribution[r].time, r)

(* A window that moves is built on floor. *)
GrantsExact ==
    \A r \in Ranks : (pc[r] = "grant" /\ TotRx(m_pLBTS) = TotTx(m_pLBTS)) =>
       IsLeast(floor, {m_pLBTS[q].time : q \in Ranks})

(* When the ranks know that all is done, all is done. *)
FinishAgreed ==
    /\ \A r \in Ranks : pc[r] = "finished" => GlobalFinished
    /\ GlobalFinished =>
          /\ messages = {}
          /\ \A r \in Ranks : pc[r] \in {"grant", "finished"} /\ IsLocalFinished(r)

IInv ==
    /\ TypeOK
    /\ LookAheadBelowDelays /\ WindowsBounded /\ ClocksBounded /\ AheadOfFloor
    /\ QueueAhead
    /\ IdsUnique /\ CountsExact
    /\ ContributionsExact /\ GrantsExact /\ FinishAgreed

-------------------------------------------------------------------------------
(* Types. *)

LEMMA InitTypeOK == Init => TypeOK
<1> USE TimesAssumption
<1> SUFFICES ASSUME Init PROVE TypeOK
  OBVIOUS
<1>1. /\ m_lookAhead \in [Ranks -> 0..MaxTime]
      /\ m_grantedTime \in [Ranks -> Nat]
  BY DEF Init
<1>2. /\ m_events \in [Ranks -> SUBSET [ts : 0..MaxTs, id : Ids]]
      /\ m_currentTs \in [Ranks -> 0..MaxTs]
  BY DEF Init, Ids
<1>3. contribution \in [Ranks -> LbtsMessages] /\ m_pLBTS \in [Ranks -> LbtsMessages]
  BY DEF Init, LbtsMessages
<1> QED
  BY <1>1, <1>2, <1>3 DEF Init, TypeOK

LEMMA NextTypeOK ==
  ASSUME TypeOK, [Next]_vars
  PROVE  TypeOK'
<1> USE TimesAssumption, LinksAssumption DEF TypeOK
<1>1. ASSUME NEW r \in Ranks, ProcessOneEvent(r) PROVE TypeOK'
  BY <1>1 DEF ProcessOneEvent, comm, lbts
<1>2. ASSUME NEW r \in Ranks, NEW d \in Delays, Schedule(r, d) PROVE TypeOK'
  <2>1. [ts |-> m_currentTs[r] + d, id |-> <<r, created[r] + 1>>]
           \in [ts : 0..MaxTs, id : Ids]
    BY <1>2 DEF Schedule, Create, Ids
  <2> DEFINE E == [ts : 0..MaxTs, id : Ids]
  <2>2. m_events' \in [Ranks -> SUBSET E]
    <3>1. m_events \in [Ranks -> SUBSET E]
      OBVIOUS
    <3> HIDE DEF E, TypeOK
    <3> QED
      BY <1>2, <2>1, <3>1 DEF Schedule, E
  <2> QED
    BY <1>2, <2>2 DEF Schedule, Create, comm, lbts
<1>3. ASSUME NEW r \in Ranks, NEW q \in Ranks, NEW l \in Links, NEW x \in TxTimes,
             SendPacket(r, q, l, x)
      PROVE  TypeOK'
  <2>1. [dst |-> q, ts |-> m_currentTs[r] + x + l.delay, id |-> <<r, created[r] + 1>>]
           \in [dst : Ranks, ts : 0..MaxTs, id : Ids]
    BY <1>3 DEF SendPacket, Create, Ids
  <2>2. messages' \subseteq [dst : Ranks, ts : 0..MaxTs, id : Ids]
    BY <1>3, <2>1 DEF SendPacket
  <2>3. g_txCount' \in [Ranks -> Nat] /\ created' \in [Ranks -> 0..MaxCreated]
    BY <1>3 DEF SendPacket, Create
  <2>4. UNCHANGED <<m_lookAhead, m_grantedTime, m_events, m_currentTs, m_stop, pc,
                    g_rxCount, contribution, m_pLBTS, floor>>
    BY <1>3 DEF SendPacket, lbts
  <2> QED
    BY <2>2, <2>3, <2>4
<1>4. ASSUME NEW r \in Ranks, Stop(r) PROVE TypeOK'
  BY <1>4 DEF Stop, comm, lbts
<1>5. ASSUME NEW r \in Ranks, HandlerReturns(r) \/ Synchronize(r) PROVE TypeOK'
  BY <1>5 DEF HandlerReturns, Synchronize, local, comm, lbts
<1>6. ASSUME NEW r \in Ranks, NEW m \in messages, ReceiveMessage(r, m) PROVE TypeOK'
  BY <1>6 DEF ReceiveMessage, lbts
<1>7. ASSUME NEW r \in Ranks, Contribute(r) PROVE TypeOK'
  BY <1>7 DEF Contribute, LbtsMessages, IsLocalFinished, local, comm
<1>8. CASE Allgather
  BY <1>8 DEF Allgather, local, comm
<1>9. ASSUME NEW r \in Ranks, Grant(r) PROVE TypeOK'
  BY <1>9 DEF Grant, local, comm, lbts
<1>10. CASE UNCHANGED vars
  BY <1>10 DEF vars, local, comm, lbts
<1> QED
  BY <1>1, <1>2, <1>3, <1>4, <1>5, <1>6, <1>7, <1>8, <1>9, <1>10
     DEF Next, Handler, Receive, Loop

-------------------------------------------------------------------------------
(* The initial states. *)

LEMMA InitLookAhead ==
  ASSUME Init
  PROVE  LookAheadBelowDelays
<1> USE TimesAssumption, LinksAssumption
<1> SUFFICES ASSUME NEW l \in Links, NEW r \in l.ends PROVE m_lookAhead[r] <= l.delay
  BY DEF LookAheadBelowDelays
<1>1. r \in Ranks /\ l.delay \in 0..MaxTime
  OBVIOUS
<1>2. PICK own \in [Ranks -> 0..MaxTime] :
         /\ \A q \in Ranks : IsLeast(own[q], Candidates(q))
         /\ IF own[r] # MaxTime \/ \A q \in Ranks : own[q] \in {0, MaxTime}
            THEN m_lookAhead[r] = own[r]
            ELSE IsGreatest(m_lookAhead[r], {own[q] : q \in Ranks} \ {MaxTime})
  BY <1>1 DEF Init, IsLookAhead
<1>3. own[r] <= l.delay
  BY <1>1, <1>2 DEF IsLeast, Candidates, LinksOf
<1>4. CASE own[r] # MaxTime \/ \A q \in Ranks : own[q] \in {0, MaxTime}
  BY <1>2, <1>3, <1>4
<1>5. CASE ~(own[r] # MaxTime \/ \A q \in Ranks : own[q] \in {0, MaxTime})
  <2>1. m_lookAhead[r] \in {own[q] : q \in Ranks}
    BY <1>2, <1>5 DEF IsGreatest
  <2>2. m_lookAhead[r] \in 0..MaxTime
    BY <2>1
  <2> QED
    BY <1>1, <1>3, <1>5, <2>2
<1> QED
  BY <1>4, <1>5

LEMMA InitIInv == Init => IInv
<1> SUFFICES ASSUME Init PROVE IInv
  OBVIOUS
<1> USE TimesAssumption, LinksAssumption
<1>1. TypeOK
  BY InitTypeOK
<1>2. LookAheadBelowDelays
  BY InitLookAhead
<1>3. WindowsBounded /\ ClocksBounded
  BY <1>1 DEF Init, TypeOK, WindowsBounded, ClocksBounded
<1>4. AheadOfFloor /\ QueueAhead
  BY DEF Init, AheadOfFloor, QueueAhead
<1>5. IdsUnique
  BY DEF Init, IdsUnique
<1>6. CountsExact
  <2>1. Pairs(g_txCount) = {} /\ Pairs(g_rxCount) = {}
    BY DEF Init, Pairs
  <2>2. IsFiniteSet({}) /\ Cardinality({}) = 0
    BY FS_EmptySet, Zenon
  <2>3. IsFiniteSet(messages) /\ Cardinality(messages) = 0
    BY <2>2 DEF Init
  <2>4. IsFiniteSet(Pairs(g_txCount)) /\ IsFiniteSet(Pairs(g_rxCount))
    BY <2>1, <2>2, Zenon
  <2>5. Total(g_txCount) = 0 /\ Total(g_rxCount) = 0
    BY <2>1, <2>2, Zenon DEF Total
  <2> QED
    BY <2>3, <2>4, <2>5 DEF CountsExact
<1>7. ContributionsExact /\ GrantsExact
  BY DEF Init, ContributionsExact, GrantsExact
<1>8. FinishAgreed
  BY DEF Init, FinishAgreed, GlobalFinished
<1> QED
  BY <1>1, <1>2, <1>3, <1>4, <1>5, <1>6, <1>7, <1>8 DEF IInv

-------------------------------------------------------------------------------
(* Packets are neither lost nor counted twice. *)

LEMMA PairsIncrement ==
  ASSUME NEW n \in [Ranks -> Nat], NEW r \in Ranks, IsFiniteSet(Pairs(n))
  PROVE  LET n1 == [n EXCEPT ![r] = @ + 1]
         IN  IsFiniteSet(Pairs(n1)) /\ Total(n1) = Total(n) + 1
<1> DEFINE n1 == [n EXCEPT ![r] = @ + 1]
           new == <<r, n[r] + 1>>
<1>1. new \notin Pairs(n)
  BY DEF Pairs
<1>2. Pairs(n1) = Pairs(n) \cup {new}
  <2>1. ASSUME NEW q \in Ranks
        PROVE  {q} \X (1..n1[q]) =
                  IF q = r THEN ({q} \X (1..n[q])) \cup {new} ELSE {q} \X (1..n[q])
    <3>1. n[q] \in Nat /\ n1[q] = IF q = r THEN n[q] + 1 ELSE n[q]
      OBVIOUS
    <3>2. 1..(n[q] + 1) = (1..n[q]) \cup {n[q] + 1}
      BY <3>1
    <3> QED
      BY <3>1, <3>2
  <2> HIDE DEF n1, new
  <2> QED
    BY <2>1 DEF Pairs
<1> HIDE DEF n1, new
<1>3. IsFiniteSet(Pairs(n1)) /\ Cardinality(Pairs(n1)) = Cardinality(Pairs(n)) + 1
  BY <1>1, <1>2, FS_AddElement
<1> QED
  BY <1>3 DEF Total, n1

LEMMA NextCountsExact ==
  ASSUME TypeOK, IdsUnique, CountsExact, [Next]_vars
  PROVE  CountsExact'
<1> DEFINE Kept == UNCHANGED comm
<1>1. CASE Kept
  BY <1>1 DEF comm, CountsExact, Total, Pairs
<1>2. ASSUME NEW r \in Ranks, NEW q \in Ranks, NEW l \in Links, NEW x \in TxTimes,
             SendPacket(r, q, l, x)
      PROVE  CountsExact'
  <2> DEFINE new == [dst |-> q, ts |-> m_currentTs[r] + x + l.delay,
                     id |-> <<r, created[r] + 1>>]
  <2>1. messages' = messages \cup {new} /\ new \notin messages
    BY <1>2 DEF SendPacket, Create, IdsUnique, TypeOK
  <2>2. g_txCount' = [g_txCount EXCEPT ![r] = @ + 1] /\ g_rxCount' = g_rxCount
    BY <1>2 DEF SendPacket
  <2> HIDE DEF new
  <2>3. IsFiniteSet(messages') /\ Cardinality(messages') = Cardinality(messages) + 1
    BY <2>1, FS_AddElement DEF CountsExact
  <2>4. IsFiniteSet(Pairs(g_txCount')) /\ Total(g_txCount') = Total(g_txCount) + 1
    BY <2>2, PairsIncrement DEF CountsExact, TypeOK
  <2>5. Cardinality(messages) \in Nat /\ Total(g_rxCount) \in Nat
    BY FS_CardinalityType DEF CountsExact, Total
  <2> QED
    BY <2>2, <2>3, <2>4, <2>5 DEF CountsExact, Total, Pairs
<1>3. ASSUME NEW r \in Ranks, NEW m \in messages, ReceiveMessage(r, m)
      PROVE  CountsExact'
  <2>1. /\ messages' = messages \ {m} /\ g_txCount' = g_txCount
        /\ g_rxCount' = [g_rxCount EXCEPT ![r] = @ + 1]
    BY <1>3 DEF ReceiveMessage
  <2>2. IsFiniteSet(messages') /\ Cardinality(messages') = Cardinality(messages) - 1
    BY <2>1, FS_RemoveElement DEF CountsExact
  <2>3. IsFiniteSet(Pairs(g_rxCount')) /\ Total(g_rxCount') = Total(g_rxCount) + 1
    BY <2>1, PairsIncrement DEF CountsExact, TypeOK
  <2>4. Cardinality(messages) \in Nat /\ Total(g_rxCount) \in Nat
    BY FS_CardinalityType DEF CountsExact, Total
  <2> QED
    BY <2>1, <2>2, <2>3, <2>4 DEF CountsExact, Total, Pairs
<1> QED
  <2>1. ASSUME NEW r \in Ranks, Loop(r) PROVE Kept
    BY <2>1 DEF Loop, ProcessOneEvent, Synchronize, Contribute, Grant
  <2>2. ASSUME NEW r \in Ranks,
               Stop(r) \/ HandlerReturns(r) \/ \E d \in Delays : Schedule(r, d)
        PROVE  Kept
    BY <2>2 DEF Schedule, Stop, HandlerReturns
  <2>3. ASSUME Allgather \/ UNCHANGED vars PROVE Kept
    BY <2>3 DEF Allgather, vars
  <2> QED
    BY <1>1, <1>2, <1>3, <2>1, <2>2, <2>3 DEF Next, Handler, Receive

-------------------------------------------------------------------------------
(* The Allgather: floor never moves back, and it moves only if nothing is on
   its way. *)

LEMMA AllgatherCounts ==
  ASSUME IInv, Allgather, TotRx(contribution) = TotTx(contribution)
  PROVE  messages = {}
<1> USE DEF IInv, TypeOK
<1>1. \A q \in Ranks : contribution[q].rx = g_rxCount[q] /\ contribution[q].tx = g_txCount[q]
  BY DEF Allgather, ContributionsExact
<1>2. /\ [q \in Ranks |-> contribution[q].rx] = g_rxCount
      /\ [q \in Ranks |-> contribution[q].tx] = g_txCount
  BY <1>1
<1>3. Total(g_rxCount) = Total(g_txCount)
  BY <1>2 DEF TotRx, TotTx
<1>4. Total(g_rxCount) \in Nat /\ Cardinality(messages) \in Nat
  BY FS_CardinalityType DEF CountsExact, Total
<1>5. Cardinality(messages) = 0
  BY <1>3, <1>4 DEF CountsExact
<1> QED
  BY <1>5, FS_EmptySet DEF CountsExact

LEMMA AllgatherFloor ==
  ASSUME IInv, Allgather
  PROVE  /\ floor' >= floor
         /\ \A r \in Ranks \ m_stop : \A e \in m_events[r] : e.ts >= floor'
<1> USE TimesAssumption DEF IInv
<1>1. \A r \in Ranks : IsNextTs(contribution[r].time, r) /\ contribution[r].time \in 0..MaxTime
  BY DEF Allgather, ContributionsExact, TypeOK, LbtsMessages
<1>2. \A r \in Ranks : contribution[r].time >= floor
  BY <1>1 DEF IsNextTs, IsLeast, IsLocalFinished, AheadOfFloor, TypeOK
<1>3. ASSUME NEW r \in Ranks \ m_stop, NEW e \in m_events[r]
      PROVE  e.ts >= contribution[r].time /\ e.ts \in 0..MaxTs
  BY <1>1 DEF IsNextTs, IsLeast, IsLocalFinished, TypeOK
<1>4. CASE TotRx(contribution) = TotTx(contribution)
  <2>1. IsLeast(floor', {contribution[q].time : q \in Ranks})
    BY <1>4 DEF Allgather
  <2>2. /\ \E q \in Ranks : floor' = contribution[q].time
        /\ \A q \in Ranks : floor' <= contribution[q].time
    BY <2>1 DEF IsLeast
  <2>3. floor' >= floor
    BY <1>2, <2>2
  <2>4. ASSUME NEW r \in Ranks \ m_stop, NEW e \in m_events[r] PROVE e.ts >= floor'
    BY <1>1, <1>3, <2>2
  <2> QED
    BY <2>3, <2>4
<1>5. CASE ~(TotRx(contribution) = TotTx(contribution))
  <2>1. floor' = floor
    BY <1>5 DEF Allgather
  <2> QED
    BY <2>1 DEF AheadOfFloor, TypeOK
<1> QED
  BY <1>4, <1>5

-------------------------------------------------------------------------------
(* Windows, clocks and what is ahead of them. *)

LEMMA GrantedGrows ==
  ASSUME IInv, NEW r \in Ranks, Grant(r)
  PROVE  /\ m_grantedTime'[r] >= m_grantedTime[r]
         /\ m_grantedTime'[r] <= floor + m_lookAhead[r]
         /\ m_lookAhead[r] = MaxTime => m_grantedTime'[r] = MaxTime
<1> USE TimesAssumption DEF IInv, TypeOK, WindowsBounded
<1>1. CASE TotRx(m_pLBTS) = TotTx(m_pLBTS)
  <2>1. IsLeast(floor, {m_pLBTS[q].time : q \in Ranks})
    BY <1>1 DEF Grant, GrantsExact
  <2>2. PICK s \in 0..MaxTime :
           /\ IsLeast(s, {m_pLBTS[q].time : q \in Ranks})
           /\ m_grantedTime' = [m_grantedTime EXCEPT ![r] =
                 IF m_lookAhead[r] = MaxTime THEN MaxTime ELSE s + m_lookAhead[r]]
    BY <1>1 DEF Grant
  <2>3. s <= floor /\ floor <= s
    BY <2>1, <2>2 DEF IsLeast
  <2>4. s = floor
    BY <2>3
  <2> QED
    BY <2>2, <2>4
<1>2. CASE TotRx(m_pLBTS) # TotTx(m_pLBTS)
  <2>1. m_grantedTime'[r] = m_grantedTime[r]
    BY <1>2 DEF Grant
  <2> QED
    BY <2>1
<1> QED
  BY <1>1, <1>2

LEMMA NextWindows ==
  ASSUME IInv, [Next]_vars
  PROVE  LookAheadBelowDelays' /\ WindowsBounded' /\ ClocksBounded'
<1> USE TimesAssumption
<1> DEFINE Goal == LookAheadBelowDelays' /\ WindowsBounded' /\ ClocksBounded'
<1>t. TypeOK /\ LookAheadBelowDelays /\ WindowsBounded /\ ClocksBounded
  BY DEF IInv
<1>1. ASSUME NEW r \in Ranks, ProcessOneEvent(r) PROVE Goal
  <2>1. PICK e \in m_events[r] :
           /\ e.ts <= m_grantedTime[r]
           /\ m_currentTs' = [m_currentTs EXCEPT ![r] = e.ts]
    BY <1>1 DEF ProcessOneEvent
  <2>2. e.ts >= floor /\ e.ts \in 0..MaxTs
    BY <1>1, <1>t, <2>1 DEF ProcessOneEvent, IsLocalFinished, IInv, AheadOfFloor, TypeOK
  <2>3. UNCHANGED <<m_lookAhead, m_grantedTime, floor>> /\ pc' = [pc EXCEPT ![r] = "invoke"]
    BY <1>1 DEF ProcessOneEvent, lbts
  <2> QED
    BY <1>t, <2>1, <2>2, <2>3
       DEF LookAheadBelowDelays, WindowsBounded, ClocksBounded, TypeOK
<1>2. ASSUME NEW r \in Ranks, Grant(r) PROVE Goal
  <2>1. \A q \in Ranks : q # r => m_grantedTime'[q] = m_grantedTime[q]
    BY <1>2, <1>t DEF Grant, TypeOK
  <2>2. /\ UNCHANGED <<m_lookAhead, m_currentTs, floor>>
        /\ \A q \in Ranks : pc'[q] = "invoke" => pc[q] = "invoke"
    BY <1>2, <1>t DEF Grant, lbts, local, TypeOK
  <2>3. m_grantedTime' \in [Ranks -> Nat]
    BY <1>2, <1>t, NextTypeOK DEF TypeOK
  <2> QED
    BY <1>2, <1>t, <2>1, <2>2, <2>3, GrantedGrows
       DEF LookAheadBelowDelays, WindowsBounded, ClocksBounded, TypeOK
<1>3. CASE Allgather
  <2>1. UNCHANGED <<m_lookAhead, m_grantedTime, m_currentTs>>
        /\ pc' = [r \in Ranks |-> "grant"]
    BY <1>3 DEF Allgather, local
  <2>2. floor' >= floor /\ floor' \in 0..MaxTime
    BY <1>3, <1>t, AllgatherFloor, NextTypeOK DEF TypeOK
  <2> QED
    BY <1>t, <2>1, <2>2 DEF LookAheadBelowDelays, WindowsBounded, ClocksBounded, TypeOK
<1>4. ASSUME UNCHANGED <<m_lookAhead, m_grantedTime, m_currentTs, floor>>,
             \A q \in Ranks : pc'[q] = "invoke" => pc[q] = "invoke"
      PROVE  Goal
  BY <1>4, <1>t DEF LookAheadBelowDelays, WindowsBounded, ClocksBounded
<1> QED
  <2> DEFINE Kept == /\ UNCHANGED <<m_lookAhead, m_grantedTime, m_currentTs, floor>>
                     /\ \A q \in Ranks : pc'[q] = "invoke" => pc[q] = "invoke"
  <2>1. ASSUME NEW r \in Ranks, Handler(r) PROVE Kept
    BY <2>1, <1>t DEF Handler, Schedule, SendPacket, Stop, HandlerReturns, Create,
                      lbts, local, TypeOK
  <2>2. ASSUME NEW r \in Ranks, Receive(r) \/ Synchronize(r) \/ Contribute(r) PROVE Kept
    BY <2>2, <1>t DEF Receive, ReceiveMessage, Synchronize, Contribute, lbts, local, TypeOK
  <2>3. ASSUME UNCHANGED vars PROVE Kept
    BY <2>3 DEF vars, lbts, local
  <2>4. ASSUME Kept PROVE Goal
    BY <1>4, <2>4
  <2> QED
    BY <1>1, <1>2, <1>3, <2>1, <2>2, <2>3, <2>4 DEF Next, Loop

LEMMA NextAheadOfFloor ==
  ASSUME IInv, [Next]_vars
  PROVE  AheadOfFloor'
<1> USE TimesAssumption, LinksAssumption
<1>t. TypeOK /\ AheadOfFloor
  BY DEF IInv
<1>1. ASSUME NEW r \in Ranks, NEW d \in Delays, Schedule(r, d) PROVE AheadOfFloor'
  <2>1. m_currentTs[r] >= floor /\ m_currentTs[r] + d >= floor
    <3>1. m_currentTs[r] >= floor
      BY <1>1 DEF Schedule, Create, IInv, ClocksBounded
    <3> QED
      BY <1>t, <3>1 DEF TypeOK
  <2>2. \A q \in Ranks : \A e \in m_events'[q] : e \in m_events[q] \/ e.ts >= floor
    BY <1>1, <1>t, <2>1 DEF Schedule, TypeOK
  <2> QED
    BY <1>1, <1>t, <2>2 DEF AheadOfFloor, Schedule, Create, comm, lbts
<1>2. ASSUME NEW r \in Ranks, NEW q \in Ranks, NEW l \in Links, NEW x \in TxTimes,
             SendPacket(r, q, l, x)
      PROVE  AheadOfFloor'
  <2>1. m_currentTs[r] >= floor
    BY <1>2 DEF SendPacket, Create, IInv, ClocksBounded
  <2>2. m_lookAhead[q] <= l.delay
    BY <1>2 DEF SendPacket, IInv, LookAheadBelowDelays
  <2>3. m_currentTs[r] + x + l.delay >= floor + m_lookAhead[q]
    BY <1>t, <2>1, <2>2 DEF TypeOK
  <2> QED
    BY <1>2, <1>t, <2>3 DEF AheadOfFloor, SendPacket, Create, lbts
<1>3. ASSUME NEW r \in Ranks, NEW m \in messages, ReceiveMessage(r, m)
      PROVE  AheadOfFloor'
  <2>1. m.ts >= floor
    BY <1>3, <1>t DEF AheadOfFloor, TypeOK
  <2>2. \A q \in Ranks : \A e \in m_events'[q] : e \in m_events[q] \/ e.ts >= floor
    BY <1>3, <1>t, <2>1 DEF ReceiveMessage, TypeOK
  <2> QED
    BY <1>3, <1>t, <2>2 DEF AheadOfFloor, ReceiveMessage, lbts
<1>4. CASE Allgather
  <2>1. UNCHANGED <<m_lookAhead, m_events, m_stop, messages>>
    BY <1>4 DEF Allgather, local, comm
  <2>2. CASE TotRx(contribution) = TotTx(contribution)
    BY <1>4, <2>1, <2>2, AllgatherCounts, AllgatherFloor DEF AheadOfFloor
  <2>3. CASE TotRx(contribution) # TotTx(contribution)
    BY <1>t, <1>4, <2>1, <2>3 DEF Allgather, AheadOfFloor
  <2> QED
    BY <2>2, <2>3
<1>5. ASSUME NEW r \in Ranks, ProcessOneEvent(r) PROVE AheadOfFloor'
  <2>1. \A q \in Ranks : m_events'[q] \subseteq m_events[q]
    BY <1>5, <1>t DEF ProcessOneEvent, TypeOK
  <2> QED
    BY <1>5, <1>t, <2>1 DEF AheadOfFloor, ProcessOneEvent, comm, lbts
<1>6. ASSUME NEW r \in Ranks, Stop(r) PROVE AheadOfFloor'
  BY <1>6, <1>t DEF AheadOfFloor, Stop, comm, lbts
<1>7. ASSUME UNCHANGED <<m_lookAhead, m_events, m_stop, messages, floor>>
      PROVE  AheadOfFloor'
  BY <1>7, <1>t DEF AheadOfFloor
<1> QED
  <2> DEFINE Kept == UNCHANGED <<m_lookAhead, m_events, m_stop, messages, floor>>
  <2>1. ASSUME NEW r \in Ranks, HandlerReturns(r) \/ Synchronize(r) \/ Contribute(r) \/ Grant(r)
        PROVE  Kept
    BY <2>1 DEF HandlerReturns, Synchronize, Contribute, Grant, local, comm, lbts
  <2>2. ASSUME UNCHANGED vars PROVE Kept
    BY <2>2 DEF vars, local, comm, lbts
  <2>3. ASSUME Kept PROVE AheadOfFloor'
    BY <1>7, <2>3
  <2> QED
    BY <1>1, <1>2, <1>3, <1>4, <1>5, <1>6, <2>1, <2>2, <2>3
       DEF Next, Handler, Receive, Loop

LEMMA NextQueueAhead ==
  ASSUME IInv, [Next]_vars
  PROVE  QueueAhead'
<1> USE TimesAssumption, LinksAssumption DEF QueueAhead
<1>t. TypeOK /\ QueueAhead
  BY DEF IInv
<1>1. ASSUME NEW r \in Ranks, ProcessOneEvent(r) PROVE QueueAhead'
  BY <1>t, <1>1 DEF ProcessOneEvent, TypeOK
<1>2. ASSUME NEW r \in Ranks, NEW d \in Delays, Schedule(r, d) PROVE QueueAhead'
  <2> DEFINE e == [ts |-> m_currentTs[r] + d, id |-> <<r, created[r] + 1>>]
  <2>1. /\ m_events' = [m_events EXCEPT ![r] = @ \cup {e}]
        /\ m_currentTs' = m_currentTs
    BY <1>2 DEF Schedule
  <2>2. e.ts >= m_currentTs[r]
    BY <1>t DEF TypeOK
  <2> HIDE DEF e
  <2> QED
    BY <1>t, <2>1, <2>2 DEF TypeOK
<1>3. ASSUME NEW r \in Ranks, NEW m \in messages, ReceiveMessage(r, m) PROVE QueueAhead'
  <2> DEFINE e == [ts |-> m.ts, id |-> m.id]
  <2>1. /\ m.dst = r /\ m_currentTs' = m_currentTs
        /\ m_events' = [m_events EXCEPT ![r] = @ \cup {e}]
    BY <1>3 DEF ReceiveMessage
  <2>2. m_currentTs[r] <= e.ts
    <3>1. /\ m.ts >= floor + m_lookAhead[r] /\ m_grantedTime[r] <= floor + m_lookAhead[r]
          /\ m_currentTs[r] <= m_grantedTime[r]
      BY <2>1 DEF IInv, AheadOfFloor, WindowsBounded, ClocksBounded
    <3> QED
      BY <1>t, <3>1 DEF TypeOK
  <2> HIDE DEF e
  <2> QED
    BY <1>t, <2>1, <2>2 DEF TypeOK
<1> QED
  <2> DEFINE Kept == UNCHANGED <<m_currentTs, m_events>>
  <2>1. ASSUME NEW r \in Ranks,
               Stop(r) \/ HandlerReturns(r) \/ Synchronize(r) \/ Contribute(r) \/ Grant(r)
        PROVE  Kept
    BY <2>1 DEF Stop, HandlerReturns, Synchronize, Contribute, Grant, local
  <2>2. ASSUME NEW r \in Ranks, NEW q \in Ranks, NEW l \in Links, NEW x \in TxTimes,
               SendPacket(r, q, l, x)
        PROVE  Kept
    BY <2>2 DEF SendPacket
  <2>3. ASSUME Allgather \/ UNCHANGED vars PROVE Kept
    BY <2>3 DEF Allgather, vars, local
  <2>4. ASSUME Kept PROVE QueueAhead'
    BY <1>t, <2>4
  <2> HIDE DEF Kept
  <2> QED
    BY <1>1, <1>2, <1>3, <2>1, <2>2, <2>3, <2>4 DEF Next, Handler, Receive, Loop

LEMMA NextIdsUnique ==
  ASSUME TypeOK, IdsUnique, [Next]_vars
  PROVE  IdsUnique'
<1> USE TimesAssumption, LinksAssumption
<1>1. ASSUME NEW r \in Ranks, NEW d \in Delays, Schedule(r, d) PROVE IdsUnique'
  <2> DEFINE new == [ts |-> m_currentTs[r] + d, id |-> <<r, created[r] + 1>>]
  <2>1. /\ messages' = messages /\ created' = [created EXCEPT ![r] = @ + 1]
        /\ m_events' = [m_events EXCEPT ![r] = @ \cup {new}]
    BY <1>1 DEF Schedule, Create, comm
  <2>2. /\ \A m \in messages : m.id # <<r, created[r] + 1>>
        /\ \A q \in Ranks : created[q] \in Nat /\ created'[q] \in Nat /\ created[q] <= created'[q]
        /\ created'[r] = created[r] + 1
    BY <2>1 DEF TypeOK, Ids, IdsUnique
  <2>3. \A m \in messages : m.id[1] \in Ranks /\ m.id[2] \in Nat /\ m.dst \in Ranks
    BY DEF TypeOK, Ids
  <2>4. \A q \in Ranks : \A e \in m_events[q] : e.id[1] \in Ranks /\ e.id[2] \in Nat
    BY DEF TypeOK, Ids
  <2>5. \A q \in Ranks : \A e \in m_events'[q] : e \in m_events[q] \/ e.id = <<r, created[r] + 1>>
    BY <2>1 DEF TypeOK
  <2>6. \A m \in messages : m.id[2] <= created'[m.id[1]]
    BY <2>2, <2>3 DEF IdsUnique
  <2>7. \A q \in Ranks : \A e \in m_events'[q] : e.id[2] <= created'[e.id[1]]
    BY <2>2, <2>4, <2>5 DEF IdsUnique
  <2>8. \A m \in messages : \A e \in m_events'[m.dst] : e.id # m.id
    BY <2>2, <2>3, <2>5 DEF IdsUnique
  <2> QED
    BY <2>1, <2>6, <2>7, <2>8 DEF IdsUnique
<1>2. ASSUME NEW r \in Ranks, NEW q \in Ranks, NEW l \in Links, NEW x \in TxTimes,
             SendPacket(r, q, l, x)
      PROVE  IdsUnique'
  <2> DEFINE new == [dst |-> q, ts |-> m_currentTs[r] + x + l.delay,
                     id |-> <<r, created[r] + 1>>]
  <2>1. /\ messages' = messages \cup {new} /\ created' = [created EXCEPT ![r] = @ + 1]
        /\ m_events' = m_events
    BY <1>2 DEF SendPacket, Create
  <2>2. /\ \A p \in Ranks : created[p] \in Nat /\ created'[p] \in Nat /\ created[p] <= created'[p]
        /\ created'[r] = created[r] + 1
    BY <2>1 DEF TypeOK
  <2>3. \A m \in messages : m.id[1] \in Ranks /\ m.id[2] \in Nat /\ m.id # new.id
    BY DEF TypeOK, Ids, IdsUnique
  <2>4. \A p \in Ranks : \A e \in m_events[p] :
           e.id[1] \in Ranks /\ e.id[2] \in Nat /\ e.id # new.id
    BY DEF TypeOK, Ids, IdsUnique
  <2>5. new.id = <<r, created[r] + 1>> /\ new.dst = q
    OBVIOUS
  <2> HIDE DEF new
  <2>6. \A m \in messages' : m.id[2] <= created'[m.id[1]]
    BY <2>1, <2>2, <2>3, <2>5 DEF IdsUnique
  <2>7. \A p \in Ranks : \A e \in m_events[p] : e.id[2] <= created'[e.id[1]]
    BY <2>2, <2>4 DEF IdsUnique
  <2>8. \A m, n \in messages' : m.id = n.id => m = n
    BY <2>1, <2>3 DEF IdsUnique
  <2>9. \A m \in messages' : \A e \in m_events[m.dst] : e.id # m.id
    BY <2>1, <2>4, <2>5 DEF IdsUnique
  <2> QED
    BY <2>1, <2>6, <2>7, <2>8, <2>9 DEF IdsUnique
<1>3. ASSUME NEW r \in Ranks, NEW m \in messages, ReceiveMessage(r, m)
      PROVE  IdsUnique'
  <2>1. /\ messages' = messages \ {m} /\ created' = created /\ m.dst = r
        /\ \A q \in Ranks : \A e \in m_events'[q] : e \in m_events[q] \/ e.id = m.id
        /\ \A q \in Ranks \ {r} : m_events'[q] = m_events[q]
    BY <1>3 DEF ReceiveMessage, TypeOK
  <2>2. \A n \in messages' : \A e \in m_events'[n.dst] : e.id # n.id
    BY <2>1 DEF IdsUnique, TypeOK
  <2> QED
    BY <2>1, <2>2 DEF IdsUnique
<1>4. ASSUME messages' = messages, created' = created,
             \A q \in Ranks : m_events'[q] \subseteq m_events[q]
      PROVE  IdsUnique'
  BY <1>4 DEF IdsUnique, TypeOK
<1> QED
  <2> DEFINE Kept == /\ messages' = messages /\ created' = created
                     /\ \A q \in Ranks : m_events'[q] \subseteq m_events[q]
  <2>1. ASSUME NEW r \in Ranks, Loop(r) PROVE Kept
    BY <2>1 DEF Loop, ProcessOneEvent, Synchronize, Contribute, Grant, local, comm, TypeOK
  <2>2. ASSUME NEW r \in Ranks, Stop(r) \/ HandlerReturns(r) PROVE Kept
    BY <2>2 DEF Stop, HandlerReturns, local, comm
  <2>3. ASSUME Allgather \/ UNCHANGED vars PROVE Kept
    BY <2>3 DEF Allgather, vars, local, comm
  <2>4. ASSUME Kept PROVE IdsUnique'
    BY <1>4, <2>4
  <2> QED
    BY <1>1, <1>2, <1>3, <2>1, <2>2, <2>3, <2>4 DEF Next, Handler, Receive

-------------------------------------------------------------------------------
(* What the ranks tell each other stays true until all of them have used it. *)

LEMMA NextContributions ==
  ASSUME TypeOK, ContributionsExact, [Next]_vars
  PROVE  ContributionsExact'
<1> DEFINE Kept(q) ==
       /\ pc'[q] = "gather" => pc[q] = "gather"
       /\ pc[q] = "gather" =>
             /\ m_events'[q] = m_events[q] /\ (q \in m_stop' <=> q \in m_stop)
             /\ contribution'[q] = contribution[q]
             /\ g_rxCount'[q] = g_rxCount[q] /\ g_txCount'[q] = g_txCount[q]
<1>1. ASSUME NEW q \in Ranks, Kept(q), pc'[q] = "gather"
      PROVE  /\ contribution'[q].rx = g_rxCount'[q]
             /\ contribution'[q].tx = g_txCount'[q]
             /\ contribution'[q].finished = IsLocalFinished(q)'
             /\ IsNextTs(contribution[q].time, q)'
  BY <1>1 DEF ContributionsExact, IsLocalFinished, IsNextTs
<1>2. ASSUME \A q \in Ranks : Kept(q) PROVE ContributionsExact'
  BY <1>1, <1>2 DEF ContributionsExact
<1>3. ASSUME NEW r \in Ranks, Contribute(r) PROVE ContributionsExact'
  <2>1. PICK t \in 0..MaxTime :
           /\ IsNextTs(t, r)
           /\ contribution' = [contribution EXCEPT ![r] =
                 [rx |-> g_rxCount[r], tx |-> g_txCount[r],
                  finished |-> IsLocalFinished(r), time |-> t]]
    BY <1>3 DEF Contribute
  <2>2. UNCHANGED <<m_events, m_stop, g_rxCount, g_txCount>>
    BY <1>3 DEF Contribute, local, comm
  <2>3. \A q \in Ranks \ {r} : Kept(q)
    BY <1>3, <2>1, <2>2 DEF Contribute, TypeOK
  <2>4. /\ contribution'[r].rx = g_rxCount'[r]
        /\ contribution'[r].tx = g_txCount'[r]
        /\ contribution'[r].finished = IsLocalFinished(r)'
        /\ IsNextTs(contribution[r].time, r)'
    BY <2>1, <2>2 DEF IsLocalFinished, IsNextTs, TypeOK
  <2> HIDE DEF Kept
  <2> QED
    BY <1>1, <2>3, <2>4 DEF ContributionsExact
<1>4. ASSUME NEW r \in Ranks, Handler(r) PROVE \A q \in Ranks : Kept(q)
  BY <1>4 DEF Handler, Schedule, SendPacket, Stop, HandlerReturns, Create,
              local, comm, lbts, TypeOK
<1>5. ASSUME NEW r \in Ranks, Receive(r) PROVE \A q \in Ranks : Kept(q)
  BY <1>5 DEF Receive, ReceiveMessage, lbts, TypeOK
<1>6. ASSUME NEW r \in Ranks, ProcessOneEvent(r) \/ Synchronize(r) \/ Grant(r)
      PROVE  \A q \in Ranks : Kept(q)
  BY <1>6 DEF ProcessOneEvent, Synchronize, Grant, local, comm, lbts, TypeOK
<1>7. CASE Allgather
  BY <1>7 DEF Allgather, ContributionsExact
<1>8. ASSUME UNCHANGED vars PROVE \A q \in Ranks : Kept(q)
  BY <1>8 DEF vars, local, comm, lbts
<1> HIDE DEF Kept
<1> QED
  BY <1>2, <1>3, <1>4, <1>5, <1>6, <1>7, <1>8 DEF Next, Loop

LEMMA NextGrants ==
  ASSUME TypeOK, GrantsExact, [Next]_vars
  PROVE  GrantsExact'
<1>1. CASE Allgather
  <2>1. m_pLBTS' = contribution
        /\ (TotRx(contribution) = TotTx(contribution) =>
               IsLeast(floor', {contribution[q].time : q \in Ranks}))
    BY <1>1 DEF Allgather
  <2>2. TotRx(m_pLBTS)' = TotRx(contribution) /\ TotTx(m_pLBTS)' = TotTx(contribution)
    BY <2>1 DEF TotRx, TotTx, Total, Pairs
  <2> QED
    BY <2>1, <2>2 DEF GrantsExact, IsLeast
<1> DEFINE Kept == /\ m_pLBTS' = m_pLBTS /\ floor' = floor
                   /\ \A q \in Ranks : pc'[q] = "grant" => pc[q] = "grant"
<1>2. ASSUME Kept PROVE GrantsExact'
  BY <1>2 DEF GrantsExact, TotRx, TotTx, Total, Pairs, IsLeast
<1>3. ASSUME NEW r \in Ranks, Handler(r) PROVE Kept
  BY <1>3 DEF Handler, Schedule, SendPacket, Stop, HandlerReturns, lbts, TypeOK
<1>4. ASSUME NEW r \in Ranks, Receive(r) \/ Loop(r) PROVE Kept
  BY <1>4 DEF Receive, ReceiveMessage, Loop, ProcessOneEvent, Synchronize, Contribute,
              Grant, lbts, TypeOK
<1>5. ASSUME UNCHANGED vars PROVE Kept
  BY <1>5 DEF vars, lbts
<1> HIDE DEF Kept
<1> QED
  BY <1>1, <1>2, <1>3, <1>4, <1>5 DEF Next

LEMMA NextFinishAgreed ==
  ASSUME IInv, [Next]_vars
  PROVE  FinishAgreed'
<1>t. TypeOK /\ FinishAgreed
  BY DEF IInv
<1>1. CASE Allgather
  <2>1. /\ m_pLBTS' = contribution /\ pc' = [r \in Ranks |-> "grant"]
        /\ messages' = messages /\ m_events' = m_events /\ m_stop' = m_stop
    BY <1>1 DEF Allgather, local, comm
  <2>2. \A q \in Ranks : contribution[q].finished = IsLocalFinished(q)
    BY <1>1 DEF Allgather, IInv, ContributionsExact
  <2>3. TotRx(m_pLBTS)' = TotRx(contribution) /\ TotTx(m_pLBTS)' = TotTx(contribution)
    BY <2>1 DEF TotRx, TotTx, Total, Pairs
  <2>4. GlobalFinished' => messages = {}
    BY <1>1, <2>3, AllgatherCounts DEF GlobalFinished
  <2>5. GlobalFinished' => \A q \in Ranks : IsLocalFinished(q)
    BY <2>1, <2>2 DEF GlobalFinished
  <2>6. \A q \in Ranks : IsLocalFinished(q)' = IsLocalFinished(q) /\ pc'[q] = "grant"
    BY <2>1 DEF IsLocalFinished
  <2> QED
    BY <2>1, <2>4, <2>5, <2>6 DEF FinishAgreed
<1>2. ASSUME NEW r \in Ranks, Grant(r) PROVE FinishAgreed'
  <2>1. UNCHANGED <<m_pLBTS, messages, m_events, m_stop>>
    BY <1>2 DEF Grant, local, comm, lbts
  <2>2. GlobalFinished' = GlobalFinished
    BY <2>1 DEF GlobalFinished, TotRx, TotTx, Total, Pairs
  <2>3. /\ \A q \in Ranks \ {r} : pc'[q] = pc[q]
        /\ pc'[r] = IF GlobalFinished THEN "finished" ELSE "loop"
    BY <1>2, <1>t DEF Grant, TypeOK
  <2>4. \A q \in Ranks : IsLocalFinished(q)' = IsLocalFinished(q)
    BY <2>1 DEF IsLocalFinished
  <2> QED
    BY <1>t, <2>1, <2>2, <2>3, <2>4 DEF FinishAgreed
<1>3. ASSUME NEW r \in Ranks, pc[r] \notin {"grant", "finished"}, m_pLBTS' = m_pLBTS,
             \A q \in Ranks : pc'[q] = "finished" => pc[q] = "finished"
      PROVE  FinishAgreed'
  <2>1. GlobalFinished' = GlobalFinished
    BY <1>3 DEF GlobalFinished, TotRx, TotTx, Total, Pairs
  <2>2. ~GlobalFinished
    BY <1>3, <1>t DEF FinishAgreed
  <2> QED
    BY <1>3, <1>t, <2>1, <2>2 DEF FinishAgreed
<1>4. CASE UNCHANGED vars
  BY <1>4, <1>t DEF vars, local, comm, lbts, FinishAgreed, GlobalFinished, TotRx, TotTx,
                    Total, Pairs, IsLocalFinished
<1> QED
  <2> DEFINE Busy(r) == /\ pc[r] \notin {"grant", "finished"} /\ m_pLBTS' = m_pLBTS
                        /\ \A q \in Ranks : pc'[q] = "finished" => pc[q] = "finished"
  <2>1. ASSUME NEW r \in Ranks, Handler(r) PROVE Busy(r)
    BY <2>1, <1>t DEF Handler, Schedule, SendPacket, Stop, HandlerReturns, Create, lbts, TypeOK
  <2>2. ASSUME NEW r \in Ranks, Receive(r) \/ ProcessOneEvent(r) \/ Synchronize(r) \/ Contribute(r)
        PROVE  Busy(r)
    BY <2>2, <1>t DEF Receive, ReceiveMessage, ProcessOneEvent, Synchronize, Contribute,
                      lbts, TypeOK
  <2>3. ASSUME NEW r \in Ranks, Busy(r) PROVE FinishAgreed'
    BY <1>3, <2>3
  <2> HIDE DEF Busy
  <2> QED
    BY <1>1, <1>2, <1>4, <2>1, <2>2, <2>3 DEF Next, Loop

-------------------------------------------------------------------------------
LEMMA NextIInv == IInv /\ [Next]_vars => IInv'
<1> SUFFICES ASSUME IInv, [Next]_vars PROVE IInv'
  OBVIOUS
<1>1. TypeOK'
  BY NextTypeOK DEF IInv
<1>2. LookAheadBelowDelays' /\ WindowsBounded' /\ ClocksBounded'
  BY NextWindows
<1>3. AheadOfFloor' /\ QueueAhead' /\ FinishAgreed'
  BY NextAheadOfFloor, NextQueueAhead, NextFinishAgreed
<1>4. IdsUnique' /\ CountsExact'
  BY NextIdsUnique, NextCountsExact DEF IInv
<1>5. ContributionsExact' /\ GrantsExact'
  BY NextContributions, NextGrants DEF IInv
<1> QED
  BY <1>1, <1>2, <1>3, <1>4, <1>5 DEF IInv

LEMMA Invariance == Spec => []IInv
<1>1. Init => IInv
  BY InitIInv
<1>2. IInv /\ [Next]_vars => IInv'
  BY NextIInv
<1> QED
  BY <1>1, <1>2, PTL DEF Spec

-------------------------------------------------------------------------------
(* Every variable of the ranks keeps its type. *)
THEOREM TypeCorrect == Spec => []TypeOK
<1>1. IInv => TypeOK
  BY DEF IInv
<1> QED
  BY <1>1, Invariance, PTL

(* No packet reaches a rank after the time of its reception, whatever the
   topology and however long MPI holds it back: what DistributedSimulatorImpl
   has to guarantee for its results to be those of a sequential simulation. *)
THEOREM NothingFromThePast == Spec => []NoMessageFromThePast
<1>1. ASSUME IInv PROVE NoMessageFromThePast
  <2> SUFFICES ASSUME NEW m \in messages PROVE m.ts >= m_currentTs[m.dst]
    BY DEF NoMessageFromThePast
  <2>1. m.dst \in Ranks /\ m.ts \in Nat
    BY <1>1 DEF IInv, TypeOK
  <2>2. m.ts >= floor + m_lookAhead[m.dst]
    BY <1>1 DEF IInv, AheadOfFloor
  <2>3. /\ m_currentTs[m.dst] <= m_grantedTime[m.dst]
        /\ m_grantedTime[m.dst] <= floor + m_lookAhead[m.dst]
    BY <1>1, <2>1 DEF IInv, ClocksBounded, WindowsBounded
  <2> QED
    BY <1>1, <2>1, <2>2, <2>3 DEF IInv, TypeOK
<1> QED
  BY <1>1, Invariance, PTL

(* Run returns on a rank only when no rank has anything left to do and no
   packet is on its way. *)
THEOREM FinishIsGlobal == Spec => []FinishedTogether
<1>1. IInv => FinishedTogether
  BY DEF IInv, FinishAgreed, FinishedTogether
<1> QED
  BY <1>1, Invariance, PTL

(* m_grantedTime never decreases on any rank. *)
THEOREM WindowsNeverShrink == Spec => WindowsGrow
<1> DEFINE Grows == \A r \in Ranks : m_grantedTime'[r] >= m_grantedTime[r]
<1>1. ASSUME IInv, [Next]_vars PROVE [Grows]_vars
  <2>t. TypeOK
    BY <1>1 DEF IInv
  <2>1. ASSUME NEW r \in Ranks, Grant(r) PROVE Grows
    <3>1. m_grantedTime'[r] >= m_grantedTime[r]
      BY <1>1, <2>1, GrantedGrows
    <3>2. \A q \in Ranks \ {r} : m_grantedTime'[q] = m_grantedTime[q]
      BY <2>1, <2>t DEF Grant, TypeOK
    <3> QED
      BY <3>1, <3>2, <2>t DEF TypeOK
  <2>2. ASSUME m_grantedTime' = m_grantedTime PROVE Grows
    BY <2>2, <2>t DEF TypeOK
  <2>3. ASSUME NEW r \in Ranks,
               Handler(r) \/ Receive(r) \/ ProcessOneEvent(r) \/ Synchronize(r) \/ Contribute(r)
        PROVE  m_grantedTime' = m_grantedTime
    BY <2>3 DEF Handler, Schedule, SendPacket, Stop, HandlerReturns, Receive,
                ReceiveMessage, ProcessOneEvent, Synchronize, Contribute
  <2>4. ASSUME Allgather PROVE m_grantedTime' = m_grantedTime
    BY <2>4 DEF Allgather
  <2> HIDE DEF Grows
  <2> QED
    BY <1>1, <2>1, <2>2, <2>3, <2>4 DEF Next, Loop
<1>2. Spec => [][Grows]_vars
  BY <1>1, Invariance, PTL DEF Spec
<1> QED
  BY <1>2 DEF WindowsGrow

-------------------------------------------------------------------------------
(* The refinement: every step is one of the abstract simulation, or none. *)

LEMMA NextAbstract ==
  ASSUME IInv, [Next]_vars
  PROVE  [Abstract!Next]_(Abstract!vars)
<1> USE TimesAssumption, LinksAssumption
<1> DEFINE InFlight(q) == {[ts |-> m.ts, id |-> m.id] : m \in {x \in messages : x.dst = q}}
           Goal == [Abstract!Next]_(Abstract!vars)
<1>t. TypeOK
  BY DEF IInv
<1>0. \A q \in Ranks : Pending[q] = m_events[q] \cup InFlight(q)
  BY DEF Pending
<1>1. ASSUME UNCHANGED <<m_currentTs, m_events, messages>> PROVE Goal
  BY <1>1 DEF Abstract!vars, Pending
<1>2. ASSUME NEW r \in Ranks, NEW q \in Ranks, NEW e,
             Pending' = [Pending EXCEPT ![q] = @ \cup {e}], m_currentTs' = m_currentTs,
             e.ts >= m_currentTs[r], e.ts >= m_currentTs[q]
      PROVE  Goal
  <2>1. e \in Pending'[q]
    BY <1>2 DEF Pending
  <2>2. Abstract!Create(r, q)
    BY <1>2, <2>1 DEF Abstract!Create
  <2> QED
    BY <2>2 DEF Abstract!Next
<1>3. ASSUME NEW r \in Ranks, ProcessOneEvent(r) PROVE Goal
  <2>1. PICK e \in m_events[r] :
           /\ \A f \in m_events[r] : e.ts <= f.ts
           /\ e.ts <= m_grantedTime[r]
           /\ m_events' = [m_events EXCEPT ![r] = @ \ {e}]
           /\ m_currentTs' = [m_currentTs EXCEPT ![r] = e.ts]
    BY <1>3 DEF ProcessOneEvent
  <2>2. messages' = messages
    BY <1>3 DEF ProcessOneEvent, comm
  <2>3. ASSUME NEW f \in InFlight(r) PROVE e.ts <= f.ts /\ f # e
    <3>1. PICK m \in messages : m.dst = r /\ f = [ts |-> m.ts, id |-> m.id]
      OBVIOUS
    <3>2. m.ts >= floor + m_lookAhead[r] /\ m_grantedTime[r] <= floor + m_lookAhead[r]
      BY <3>1 DEF IInv, AheadOfFloor, WindowsBounded
    <3>3. e.id # m.id
      BY <3>1 DEF IInv, IdsUnique
    <3> QED
      BY <1>t, <2>1, <3>1, <3>2, <3>3 DEF TypeOK
  <2>4. Pending' = [Pending EXCEPT ![r] = @ \ {e}]
    <3>1. \A q \in Ranks : m_events'[q] \cup InFlight(q) =
             IF q = r THEN (m_events[q] \cup InFlight(q)) \ {e} ELSE m_events[q] \cup InFlight(q)
      BY <1>t, <2>1, <2>3 DEF TypeOK
    <3> QED
      BY <2>2, <3>1 DEF Pending
  <2>5. e \in Pending[r] /\ \A f \in Pending[r] : e.ts <= f.ts
    BY <1>0, <2>1, <2>3
  <2>6. Abstract!Execute(r)
    BY <2>1, <2>4, <2>5 DEF Abstract!Execute, IInv, QueueAhead
  <2> QED
    BY <2>6 DEF Abstract!Next
<1>4. ASSUME NEW r \in Ranks, NEW d \in Delays, Schedule(r, d) PROVE Goal
  <2> DEFINE e == [ts |-> m_currentTs[r] + d, id |-> <<r, created[r] + 1>>]
  <2>1. /\ m_events' = [m_events EXCEPT ![r] = @ \cup {e}]
        /\ messages' = messages /\ m_currentTs' = m_currentTs
    BY <1>4 DEF Schedule, comm
  <2>2. e.ts >= m_currentTs[r]
    BY <1>t DEF TypeOK
  <2> HIDE DEF e
  <2>3. Pending' = [Pending EXCEPT ![r] = @ \cup {e}]
    <3>1. \A q \in Ranks : m_events'[q] = IF q = r THEN m_events[q] \cup {e} ELSE m_events[q]
      BY <1>t, <2>1 DEF TypeOK
    <3>2. \A q \in Ranks : m_events'[q] \cup InFlight(q) =
             IF q = r THEN (m_events[q] \cup InFlight(q)) \cup {e} ELSE m_events[q] \cup InFlight(q)
      BY <3>1
    <3>3. Pending' = [q \in Ranks |-> m_events'[q] \cup InFlight(q)]
      BY <2>1 DEF Pending
    <3> HIDE DEF InFlight
    <3> QED
      BY <1>0, <3>2, <3>3 DEF Pending
  <2> QED
    BY <1>2, <2>1, <2>2, <2>3
<1>5. ASSUME NEW r \in Ranks, NEW q \in Ranks, NEW l \in Links, NEW x \in TxTimes,
             SendPacket(r, q, l, x)
      PROVE  Goal
  <2> DEFINE m == [dst |-> q, ts |-> m_currentTs[r] + x + l.delay,
                   id |-> <<r, created[r] + 1>>]
             e == [ts |-> m.ts, id |-> m.id]
  <2>1. /\ messages' = messages \cup {m} /\ m_events' = m_events
        /\ m_currentTs' = m_currentTs
    BY <1>5 DEF SendPacket
  <2>2. m.ts >= m_currentTs[r] /\ e.ts = m.ts
    BY <1>t DEF TypeOK
  <2>3. m.ts >= m_currentTs[q]
    <3>1. m_currentTs[r] >= floor
      BY <1>5 DEF SendPacket, Create, IInv, ClocksBounded
    <3>2. m_lookAhead[q] <= l.delay
      BY <1>5 DEF SendPacket, IInv, LookAheadBelowDelays
    <3>3. /\ m_currentTs[q] <= m_grantedTime[q]
          /\ m_grantedTime[q] <= floor + m_lookAhead[q]
      BY DEF IInv, ClocksBounded, WindowsBounded
    <3> QED
      BY <1>t, <3>1, <3>2, <3>3 DEF TypeOK
  <2>4. m.dst = q
    OBVIOUS
  <2> HIDE DEF m
  <2>5. Pending' = [Pending EXCEPT ![q] = @ \cup {e}]
    <3> DEFINE InFlight1(p) == {[ts |-> n.ts, id |-> n.id] : n \in {y \in messages' : y.dst = p}}
    <3>1. \A p \in Ranks : InFlight1(p) = IF p = q THEN InFlight(p) \cup {e} ELSE InFlight(p)
      BY <2>1, <2>4
    <3>2. Pending' = [p \in Ranks |-> m_events[p] \cup InFlight1(p)]
      BY <2>1 DEF Pending
    <3> HIDE DEF InFlight1, InFlight, e
    <3> QED
      BY <1>0, <3>1, <3>2 DEF Pending
  <2> QED
    BY <1>2, <2>1, <2>2, <2>3, <2>5
<1>6. ASSUME NEW r \in Ranks, NEW m \in messages, ReceiveMessage(r, m) PROVE Goal
  <2> DEFINE e == [ts |-> m.ts, id |-> m.id]
             InFlight1(p) == {[ts |-> n.ts, id |-> n.id] : n \in {y \in messages' : y.dst = p}}
  <2>1. /\ m.dst = r /\ messages' = messages \ {m} /\ m_currentTs' = m_currentTs
        /\ m_events' = [m_events EXCEPT ![r] = @ \cup {e}]
    BY <1>6 DEF ReceiveMessage
  <2>2. \A q \in Ranks \ {r} : InFlight1(q) = InFlight(q)
    BY <2>1
  <2>3. InFlight1(r) \cup {e} = InFlight(r)
    BY <2>1
  <2>4. Pending' = [q \in Ranks |-> m_events'[q] \cup InFlight1(q)]
    BY DEF Pending
  <2>5. \A q \in Ranks : m_events'[q] = IF q = r THEN m_events[q] \cup {e} ELSE m_events[q]
    BY <1>t, <2>1 DEF TypeOK
  <2> HIDE DEF InFlight1, InFlight, e
  <2>6. \A q \in Ranks : m_events'[q] \cup InFlight1(q) = m_events[q] \cup InFlight(q)
    BY <2>2, <2>3, <2>5
  <2>7. Pending' = Pending
    BY <1>0, <2>4, <2>6 DEF Pending
  <2> QED
    BY <2>1, <2>7 DEF Abstract!vars
<1> QED
  <2> DEFINE Kept == UNCHANGED <<m_currentTs, m_events, messages>>
  <2>1. ASSUME NEW r \in Ranks,
               Stop(r) \/ HandlerReturns(r) \/ Synchronize(r) \/ Contribute(r) \/ Grant(r)
        PROVE  Kept
    BY <2>1 DEF Stop, HandlerReturns, Synchronize, Contribute, Grant, local, comm
  <2>2. ASSUME Allgather \/ UNCHANGED vars PROVE Kept
    BY <2>2 DEF Allgather, vars, local, comm
  <2>3. ASSUME Kept PROVE Goal
    BY <1>1, <2>3
  <2> HIDE DEF Kept
  <2> QED
    BY <1>3, <1>4, <1>5, <1>6, <2>1, <2>2, <2>3 DEF Next, Handler, Receive, Loop

(* The distributed simulator implements the simulation that the ranks together
   are to be: each executes its events in time-stamped order, those still on
   their way included. *)
THEOREM Refinement == Spec => ImplementsParallelSimulation
<1>1. Init => Abstract!Init
  BY DEF Init, Abstract!Init
<1>2. IInv /\ [Next]_vars => [Abstract!Next]_(Abstract!vars)
  BY NextAbstract
<1> QED
  BY <1>1, <1>2, Invariance, PTL DEF Spec, ImplementsParallelSimulation, Abstract!Spec
===============================================================================
