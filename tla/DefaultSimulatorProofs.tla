------------------------ MODULE DefaultSimulatorProofs ------------------------
(***************************************************************************)
(* Proofs about DefaultSimulator for any set of threads, any delays and    *)
(* any bounds.  As long as m_uid has not wrapped around, the key of the    *)
(* current event is below every key in the queue; time then never goes     *)
(* back, and an EventId can tell from its key alone whether it is pending. *)
(***************************************************************************)
EXTENDS DefaultSimulatorProperties, SequenceTheorems, FiniteSetTheorems, TLAPS

(* The uid counter does not wrap: fewer events than uids. *)
NoWrap == VALID + MaxEvents < UidModulus

CurrentKey == [ts |-> m_currentTs, uid |-> m_currentUid]

(* m_uid counts the events that have a uid: all but the posted ones. *)
UidCounts == m_uid + Len(m_eventsWithContext) = VALID + allocated

(* Everything queued is ahead of the current event and below m_uid. *)
QueueAhead ==
    /\ m_currentUid < m_uid /\ VALID <= m_uid
    /\ \A e \in m_events :
          KeyLess(CurrentKey, e) /\ VALID <= e.uid /\ e.uid < m_uid

(* An EventId ahead of the current event and not cancelled is queued. *)
IdsExact ==
    /\ \A k \in DOMAIN m_destroyEvents : m_destroyEvents[k].uid = DESTROY
    /\ pc # "disposed" =>
       \A id \in ids :
          (id.uid # DESTROY /\ KeyLess(CurrentKey, id) /\ id.impl \notin m_cancel)
          => id \in m_events

IInv == TypeOK /\ UidCounts /\ QueueAhead /\ IdsExact

LEMMA InitTypeOK == Init => TypeOK
<1> USE BoundsAssumption, UidsAreWide
<1> SUFFICES ASSUME Init PROVE TypeOK
  OBVIOUS
<1>1. QueueType
  BY DEF Init, QueueType, VALID, INVALID
<1>2. SharedType
  BY DEF Init, SharedType
<1>3. FlowType
  BY DEF Init, FlowType
<1>4. ObjectsType
  BY DEF Init, ObjectsType, Impls
<1> QED
  BY <1>1, <1>2, <1>3, <1>4 DEF Init, TypeOK

(* Each group of variables keeps its type, whatever the step. *)
LEMMA NextQueueType ==
  ASSUME TypeOK, [Next]_vars
  PROVE  QueueType'
<1> USE DelaysAssumption, BoundsAssumption DEF TypeOK, QueueType, EventKeys
<1> DEFINE QueueKept == UNCHANGED queue
<1>1. CASE QueueKept
  BY <1>1 DEF queue
<1>2. ASSUME NEW d \in Delays, Schedule(d) \/ ScheduleWithContext(d)
      PROVE  QueueType'
  <2>1. allocated + 1 \in Impls
    BY <1>2 DEF Schedule, ScheduleWithContext, Allocate, ObjectsType, Impls
  <2>2. UidPlus(1) \in 0..(UidModulus - 1)
    BY DEF UidPlus
  <2> QED
    BY <1>2, <2>1, <2>2 DEF Schedule, ScheduleWithContext, InsertNew
<1>3. CASE ScheduleDestroy
  <2>1. UidPlus(1) \in 0..(UidModulus - 1)
    BY DEF UidPlus
  <2> QED
    BY <1>3, <2>1 DEF ScheduleDestroy
<1>4. ASSUME NEW id \in ids, RemoveEvent(id) PROVE QueueType'
  BY <1>4 DEF RemoveEvent
<1>5. CASE ProcessOneEvent
  BY <1>5 DEF ProcessOneEvent, IsEarliest
<1>6. CASE DrainEventsWithContext
  <2>1. \A n \in Int : UidPlus(n) \in 0..(UidModulus - 1)
    BY DEF UidPlus
  <2>2. /\ Len(m_eventsWithContext) \in Nat
        /\ \A k \in 1..Len(m_eventsWithContext) :
              m_eventsWithContext[k] \in [delay : Delays, impl : Impls]
    BY ElementOfSeq, LenProperties DEF SharedType
  <2>3. ASSUME NEW k \in 1..Len(m_eventsWithContext) PROVE Posted(k) \in EventKeys
    <3>1. /\ m_eventsWithContext[k].delay \in Nat
          /\ m_eventsWithContext[k].impl \in Impls
      BY <2>2
    <3>2. UidPlus(k - 1) \in 0..(UidModulus - 1)
      <4>1. k - 1 \in Int
        OBVIOUS
      <4> QED
        BY <2>1, <4>1, Zenon
    <3>3. m_currentTs + m_eventsWithContext[k].delay \in Nat
      BY <3>1
    <3> HIDE DEF TypeOK, QueueType
    <3> QED
      BY <3>1, <3>2, <3>3, Zenon DEF Posted
  <2> HIDE DEF EventKeys
  <2>4. m_events' \subseteq EventKeys
    BY <1>6, <2>3 DEF DrainEventsWithContext
  <2>5. m_uid' \in 0..(UidModulus - 1) /\ m_unscheduledEvents' \in Int
    BY <1>6, <2>1, <2>2 DEF DrainEventsWithContext
  <2> QED
    BY <1>6, <2>4, <2>5 DEF DrainEventsWithContext
<1>7. CASE DisposeEvents
  BY <1>7 DEF DisposeEvents
<1> QED
  <2>1. ASSUME NEW id \in ids, Cancel(id) \/ RemoveDestroy(id) PROVE QueueKept
    BY <2>1 DEF Cancel, RemoveDestroy
  <2>2. ASSUME Stop \/ Run \/ StartLoop \/ RunReturns \/ HandlerReturns
               \/ PollEmpty \/ PollNonEmpty
        PROVE  QueueKept
    BY <2>2 DEF Stop, Run, StartLoop, RunReturns, HandlerReturns, PollEmpty,
                PollNonEmpty
  <2>3. ASSUME Destroy \/ DestroyOne \/ DestroyReturns \/ Dispose PROVE QueueKept
    BY <2>3 DEF Destroy, DestroyOne, DestroyReturns, Dispose
  <2>4. ASSUME Post \/ UNCHANGED vars PROVE QueueKept
    BY <2>4 DEF Post, PostLock, PostUnlock, vars
  <2> QED
    BY <1>1, <1>2, <1>3, <1>4, <1>5, <1>6, <1>7, <2>1, <2>2, <2>3, <2>4
       DEF Next, Call, Loop, Teardown, Remove

LEMMA NextDestroyType ==
  ASSUME TypeOK, [Next]_vars
  PROVE  m_destroyEvents' \in Seq(EventKeys)
<1> USE BoundsAssumption DEF TypeOK
<1> DEFINE ListKept == UNCHANGED m_destroyEvents
<1>1. CASE ScheduleDestroy
  <2>1. [ts |-> m_currentTs, uid |-> DESTROY, impl |-> allocated + 1] \in EventKeys
    <3>1. allocated + 1 \in Impls
      BY <1>1 DEF ScheduleDestroy, Allocate, ObjectsType, Impls
    <3>2. DESTROY \in 0..(UidModulus - 1)
      BY UidsAreWide DEF DESTROY, VALID
    <3> QED
      BY <3>1, <3>2 DEF QueueType, EventKeys
  <2> QED
    BY <1>1, <2>1, AppendProperties DEF ScheduleDestroy
<1>2. ASSUME NEW id \in ids, RemoveDestroy(id) PROVE m_destroyEvents' \in Seq(EventKeys)
  <2>1. PICK k \in DOMAIN m_destroyEvents :
           m_destroyEvents' = [j \in 1..(Len(m_destroyEvents) - 1) |->
                 m_destroyEvents[IF j < k THEN j ELSE j + 1]]
    BY <1>2 DEF RemoveDestroy
  <2>2. Len(m_destroyEvents) \in Nat /\ DOMAIN m_destroyEvents = 1..Len(m_destroyEvents)
    BY LenProperties
  <2>3. k \in 1..Len(m_destroyEvents)
    BY <2>2
  <2>4. ASSUME NEW j \in 1..(Len(m_destroyEvents) - 1)
        PROVE  m_destroyEvents[IF j < k THEN j ELSE j + 1] \in EventKeys
    <3>1. (IF j < k THEN j ELSE j + 1) \in 1..Len(m_destroyEvents)
      BY <2>2, <2>3
    <3> QED
      BY <3>1, ElementOfSeq
  <2>5. m_destroyEvents' \in [1..(Len(m_destroyEvents) - 1) -> EventKeys]
    BY <2>1, <2>4
  <2>6. Len(m_destroyEvents) - 1 \in Nat
    BY <2>2, <2>3
  <2> QED
    BY <2>5, <2>6, IsASeq
<1>3. CASE DestroyOne
  BY <1>3, HeadTailProperties DEF DestroyOne
<1> QED
  <2>1. ASSUME NEW d \in Delays, Schedule(d) \/ ScheduleWithContext(d) PROVE ListKept
    BY <2>1 DEF Schedule, ScheduleWithContext
  <2>2. ASSUME NEW id \in ids, Cancel(id) \/ RemoveEvent(id) PROVE ListKept
    BY <2>2 DEF Cancel, RemoveEvent
  <2>3. ASSUME Stop \/ Loop PROVE ListKept
    BY <2>3 DEF Stop, Loop, Run, StartLoop, RunReturns, ProcessOneEvent,
                HandlerReturns, PollEmpty, PollNonEmpty, DrainEventsWithContext
  <2>4. ASSUME Destroy \/ DestroyReturns \/ Dispose \/ DisposeEvents PROVE ListKept
    BY <2>4 DEF Destroy, DestroyReturns, Dispose, DisposeEvents
  <2>5. ASSUME Post \/ UNCHANGED vars PROVE ListKept
    BY <2>5 DEF Post, PostLock, PostUnlock, vars
  <2> QED
    BY <1>1, <1>2, <1>3, <2>1, <2>2, <2>3, <2>4, <2>5
       DEF Next, Call, Teardown, Remove

LEMMA NextSharedType ==
  ASSUME TypeOK, [Next]_vars
  PROVE  SharedType'
<1> USE DEF TypeOK, SharedType
<1> DEFINE SharedKept == UNCHANGED shared
<1>1. ASSUME NEW t \in Threads, NEW d \in Delays, PostLock(t, d) PROVE SharedType'
  <2> DEFINE ev == [delay |-> d, impl |-> allocated + 1]
             Posts == [delay : Delays, impl : Impls]
  <2>1. ev \in Posts
    <3>1. allocated + 1 \in Impls
      BY <1>1, BoundsAssumption DEF PostLock, Allocate, ObjectsType, Impls
    <3> QED
      BY <3>1
  <2>2. m_eventsWithContext' = Append(m_eventsWithContext, ev)
        /\ posts' = Append(posts, ev)
    BY <1>1 DEF PostLock
  <2>3. m_eventsWithContext' \in Seq(Posts) /\ posts' \in Seq(Posts)
    BY <2>1, <2>2, AppendProperties
  <2> QED
    BY <1>1, <2>3 DEF PostLock
<1>2. ASSUME NEW t \in Threads, PostUnlock(t) PROVE SharedType'
  BY <1>2 DEF PostUnlock
<1>3. CASE DrainEventsWithContext
  BY <1>3 DEF DrainEventsWithContext
<1>4. CASE SharedKept
  BY <1>4 DEF shared
<1> QED
  <2>1. ASSUME Call PROVE SharedKept
    BY <2>1 DEF Call, Schedule, ScheduleWithContext, ScheduleDestroy, Stop,
                Cancel, Remove, RemoveDestroy, RemoveEvent
  <2>2. ASSUME Run \/ StartLoop \/ RunReturns \/ ProcessOneEvent
               \/ HandlerReturns \/ PollEmpty \/ PollNonEmpty
        PROVE  SharedKept
    BY <2>2 DEF Run, StartLoop, RunReturns, ProcessOneEvent, HandlerReturns,
                PollEmpty, PollNonEmpty
  <2>3. ASSUME Teardown PROVE SharedKept
    BY <2>3 DEF Teardown, Destroy, DestroyOne, DestroyReturns, Dispose,
                DisposeEvents
  <2>4. ASSUME UNCHANGED vars PROVE SharedKept
    BY <2>4 DEF vars
  <2> QED
    BY <1>1, <1>2, <1>3, <1>4, <2>1, <2>2, <2>3, <2>4 DEF Next, Loop, Post

LEMMA NextFlowType ==
  ASSUME TypeOK, [Next]_vars
  PROVE  FlowType'
<1> USE DEF TypeOK, FlowType
<1>1. ASSUME Call \/ Post \/ UNCHANGED vars PROVE FlowType'
  <2>1. ASSUME UNCHANGED flow PROVE FlowType'
    BY <2>1 DEF flow
  <2>2. CASE Stop
    BY <2>2 DEF Stop
  <2> QED
    <3>1. ASSUME NEW d \in Delays, Schedule(d) \/ ScheduleWithContext(d)
          PROVE  UNCHANGED flow
      BY <3>1 DEF Schedule, ScheduleWithContext
    <3>2. ASSUME NEW id \in ids, Cancel(id) \/ Remove(id) PROVE UNCHANGED flow
      BY <3>2 DEF Cancel, Remove, RemoveDestroy, RemoveEvent
    <3>3. ASSUME ScheduleDestroy \/ Post \/ UNCHANGED vars PROVE UNCHANGED flow
      BY <3>3 DEF ScheduleDestroy, Post, PostLock, PostUnlock, vars
    <3> QED
      BY <1>1, <2>1, <2>2, <3>1, <3>2, <3>3 DEF Call
<1>2. CASE Run \/ StartLoop \/ RunReturns \/ HandlerReturns \/ PollEmpty
           \/ PollNonEmpty \/ DrainEventsWithContext
  BY <1>2 DEF Run, StartLoop, RunReturns, HandlerReturns, PollEmpty,
              PollNonEmpty, DrainEventsWithContext
<1>3. CASE ProcessOneEvent
  BY <1>3 DEF ProcessOneEvent, IsEarliest, QueueType, EventKeys
<1>4. CASE DestroyOne
  <2>1. Head(m_destroyEvents) \in EventKeys
    BY <1>4, HeadTailProperties DEF DestroyOne
  <2> QED
    BY <1>4, <2>1 DEF DestroyOne, EventKeys
<1>5. CASE Destroy \/ DestroyReturns \/ Dispose \/ DisposeEvents
  BY <1>5 DEF Destroy, DestroyReturns, Dispose, DisposeEvents
<1> QED
  BY <1>1, <1>2, <1>3, <1>4, <1>5 DEF Next, Loop, Teardown

(* Unref leaves the reference counts integers. *)
LEMMA DecrementType ==
  ASSUME NEW S, NEW f \in [S -> Int], NEW x
  PROVE  [f EXCEPT ![x] = @ - 1] \in [S -> Int]
<1>1. ASSUME NEW y \in S PROVE [f EXCEPT ![x] = @ - 1][y] \in Int
  <2>1. CASE y = x
    BY <2>1
  <2>2. CASE y # x
    BY <2>2
  <2> QED
    BY <2>1, <2>2
<1> QED
  BY <1>1

LEMMA NextObjectsType ==
  ASSUME TypeOK, [Next]_vars
  PROVE  ObjectsType'
<1> USE BoundsAssumption DEF TypeOK, ObjectsType
<1> DEFINE ObjectsKept == UNCHANGED objs
<1>1. ASSUME NEW d \in Delays, Schedule(d) PROVE ObjectsType'
  <2>1. allocated + 1 \in Impls /\ allocated + 1 \in 0..MaxEvents
    BY <1>1 DEF Schedule, Allocate, Impls
  <2>2. refs' = [refs EXCEPT ![allocated + 1] = 2] /\ allocated' = allocated + 1
    BY <1>1 DEF Schedule, Allocate
  <2>3. [ts |-> m_currentTs + d, uid |-> m_uid, impl |-> allocated + 1] \in EventKeys
    <3>1. m_currentTs + d \in Nat
      BY DelaysAssumption DEF QueueType
    <3> QED
      BY <2>1, <3>1 DEF QueueType, EventKeys
  <2>4. ids' \subseteq EventKeys
    BY <1>1, <2>3 DEF Schedule
  <2> QED
    BY <1>1, <2>1, <2>2, <2>4 DEF Schedule
<1>2. ASSUME NEW d \in Delays, ScheduleWithContext(d) PROVE ObjectsType'
  BY <1>2 DEF ScheduleWithContext, Allocate, Impls
<1>3. CASE ScheduleDestroy
  <2>1. allocated + 1 \in Impls /\ allocated + 1 \in 0..MaxEvents
    BY <1>3 DEF ScheduleDestroy, Allocate, Impls
  <2>2. refs' = [refs EXCEPT ![allocated + 1] = 2] /\ allocated' = allocated + 1
    BY <1>3 DEF ScheduleDestroy, Allocate
  <2>3. [ts |-> m_currentTs, uid |-> DESTROY, impl |-> allocated + 1] \in EventKeys
    <3>1. DESTROY \in 0..(UidModulus - 1)
      BY UidsAreWide DEF DESTROY, VALID
    <3> QED
      BY <2>1, <3>1 DEF QueueType, EventKeys
  <2>4. ids' \subseteq EventKeys
    BY <1>3, <2>3 DEF ScheduleDestroy
  <2> QED
    BY <1>3, <2>1, <2>2, <2>4 DEF ScheduleDestroy
<1>4. ASSUME NEW id \in ids, Cancel(id) PROVE ObjectsType'
  BY <1>4 DEF Cancel, EventKeys
<1>5. ASSUME NEW id \in ids, RemoveDestroy(id) PROVE ObjectsType'
  <2>1. refs' = [refs EXCEPT ![id.impl] = @ - 1]
    BY <1>5 DEF RemoveDestroy
  <2>2. refs' \in [Impls -> Int]
    BY <2>1, DecrementType
  <2>3. UNCHANGED <<allocated, m_cancel, ids, ran>>
    BY <1>5 DEF RemoveDestroy
  <2> QED
    BY <2>2, <2>3
<1>6. ASSUME NEW id \in ids, RemoveEvent(id) PROVE ObjectsType'
  BY <1>6 DEF RemoveEvent, EventKeys
<1>7. CASE ProcessOneEvent
  BY <1>7 DEF ProcessOneEvent, IsEarliest, QueueType, EventKeys
<1>8. CASE HandlerReturns \/ DestroyReturns
  <2>1. refs' = [refs EXCEPT ![running] = @ - 1]
    BY <1>8 DEF HandlerReturns, DestroyReturns
  <2>2. refs' \in [Impls -> Int]
    BY <2>1, DecrementType
  <2>3. UNCHANGED <<allocated, m_cancel, ids, ran>>
    BY <1>8 DEF HandlerReturns, DestroyReturns
  <2> QED
    BY <2>2, <2>3
<1>9. CASE DestroyOne
  <2>1. Head(m_destroyEvents) \in EventKeys
    BY <1>9, HeadTailProperties DEF DestroyOne
  <2> QED
    BY <1>9, <2>1 DEF DestroyOne, EventKeys
<1>10. CASE DisposeEvents
  BY <1>10 DEF DisposeEvents
<1>11. ASSUME NEW t \in Threads, NEW d \in Delays, PostLock(t, d) PROVE ObjectsType'
  BY <1>11 DEF PostLock, Allocate, Impls
<1>12. CASE ObjectsKept
  BY <1>12 DEF objs
<1> QED
  <2>1. ASSUME Stop \/ Run \/ StartLoop \/ RunReturns \/ PollEmpty \/ PollNonEmpty
               \/ DrainEventsWithContext
        PROVE  ObjectsKept
    BY <2>1 DEF Stop, Run, StartLoop, RunReturns, PollEmpty, PollNonEmpty,
                DrainEventsWithContext
  <2>2. ASSUME Destroy \/ Dispose PROVE ObjectsKept
    BY <2>2 DEF Destroy, Dispose
  <2>3. ASSUME NEW t \in Threads, PostUnlock(t) PROVE ObjectsKept
    BY <2>3 DEF PostUnlock
  <2>4. ASSUME UNCHANGED vars PROVE ObjectsKept
    BY <2>4 DEF vars
  <2> QED
    BY <1>1, <1>2, <1>3, <1>4, <1>5, <1>6, <1>7, <1>8, <1>9, <1>10, <1>11, <1>12,
       <2>1, <2>2, <2>3, <2>4 DEF Next, Call, Loop, Teardown, Post, Remove

LEMMA NextTypeOK ==
  ASSUME TypeOK, [Next]_vars
  PROVE  TypeOK'
BY NextQueueType, NextDestroyType, NextSharedType, NextFlowType, NextObjectsType
   DEF TypeOK

(* Every variable keeps its type. *)
THEOREM TypeCorrect == Spec => []TypeOK
<1>1. Init => TypeOK
  BY InitTypeOK
<1>2. TypeOK /\ [Next]_vars => TypeOK'
  BY NextTypeOK
<1> QED
  BY <1>1, <1>2, PTL DEF Spec

-------------------------------------------------------------------------------
(* Keys: what the wrap-free counter gives. *)

LEMMA KeyLessTransitive ==
  ASSUME NEW a, NEW b, NEW c, a.ts \in Int, b.ts \in Int, c.ts \in Int,
         a.uid \in Int, b.uid \in Int, c.uid \in Int,
         KeyLess(a, b), KeyLess(b, c)
  PROVE  KeyLess(a, c)
BY DEF KeyLess

LEMMA UidPlusExact ==
  ASSUME NoWrap, TypeOK, NEW n \in Nat, m_uid + n <= VALID + MaxEvents
  PROVE  UidPlus(n) = m_uid + n
<1>1. m_uid + n \in Nat /\ m_uid + n < UidModulus
  BY BoundsAssumption DEF NoWrap, TypeOK, QueueType, VALID
<1>2. (m_uid + n) % UidModulus = m_uid + n
  BY <1>1, BoundsAssumption
<1> QED
  BY <1>2 DEF UidPlus

(* The part of IInv that Next keeps when it leaves the queue alone. *)
LEMMA NextKeys ==
  ASSUME NoWrap, IInv, [Next]_vars
  PROVE  UidCounts' /\ QueueAhead'
<1> USE DEF IInv
<1>t. /\ m_uid \in Nat /\ m_currentTs \in Nat /\ m_currentUid \in Nat
      /\ allocated \in Nat /\ allocated <= MaxEvents
      /\ MaxEvents \in Nat
      /\ Len(m_eventsWithContext) \in Nat
      /\ \A e \in m_events : e.ts \in Nat /\ e.uid \in Nat
  BY LenProperties, BoundsAssumption
     DEF TypeOK, QueueType, SharedType, ObjectsType, EventKeys
<1> DEFINE Kept == UNCHANGED <<queue, m_eventsWithContext, allocated>>
<1>1. CASE Kept
  BY <1>1 DEF queue, UidCounts, QueueAhead, CurrentKey
<1>2. ASSUME NEW d \in Delays, Schedule(d) \/ ScheduleWithContext(d)
      PROVE  UidCounts' /\ QueueAhead'
  <2>1. /\ allocated < MaxEvents /\ allocated' = allocated + 1
        /\ UNCHANGED m_eventsWithContext
        /\ InsertNew(d)
    BY <1>2 DEF Schedule, ScheduleWithContext, Allocate, shared
  <2>2. m_uid' = m_uid + 1
    <3>1. m_uid + 1 <= VALID + MaxEvents
      BY <1>t, <2>1 DEF UidCounts, VALID
    <3> QED
      BY <2>1, <3>1, UidPlusExact DEF InsertNew
  <2>3. UidCounts'
    BY <1>t, <2>1, <2>2 DEF UidCounts, VALID
  <2>4. ASSUME NEW e \in m_events'
        PROVE  KeyLess(CurrentKey, e) /\ VALID <= e.uid /\ e.uid < m_uid'
    <3>1. CASE e \in m_events
      BY <1>t, <2>2, <3>1 DEF QueueAhead, VALID
    <3>2. CASE e \notin m_events
      <4>1. e = [ts |-> m_currentTs + d, uid |-> m_uid, impl |-> allocated + 1]
        BY <2>1, <3>2 DEF InsertNew
      <4>2. d \in Nat
        BY DelaysAssumption
      <4>3. VALID <= m_uid
        BY DEF QueueAhead
      <4> QED
        BY <1>t, <2>2, <4>1, <4>2, <4>3 DEF QueueAhead, KeyLess, CurrentKey, VALID
    <3> QED
      BY <3>1, <3>2
  <2>5. CurrentKey' = CurrentKey
    BY <2>1 DEF InsertNew, CurrentKey
  <2>6. m_currentUid' < m_uid' /\ VALID <= m_uid'
    BY <1>t, <2>1, <2>2 DEF InsertNew, QueueAhead, VALID
  <2> QED
    BY <2>3, <2>4, <2>5, <2>6 DEF QueueAhead
<1>3. CASE ScheduleDestroy
  <2>1. /\ allocated < MaxEvents /\ allocated' = allocated + 1
        /\ m_uid' = UidPlus(1)
        /\ UNCHANGED <<m_eventsWithContext, m_events, m_currentUid, m_currentTs>>
    BY <1>3 DEF ScheduleDestroy, Allocate, shared
  <2>2. m_uid' = m_uid + 1
    <3>1. m_uid + 1 <= VALID + MaxEvents
      BY <1>t, <2>1 DEF UidCounts, VALID
    <3> QED
      BY <2>1, <3>1, UidPlusExact
  <2> QED
    BY <1>t, <2>1, <2>2 DEF UidCounts, QueueAhead, CurrentKey, VALID
<1>4. ASSUME NEW id \in ids, RemoveEvent(id) PROVE UidCounts' /\ QueueAhead'
  BY <1>4 DEF RemoveEvent, shared, UidCounts, QueueAhead, CurrentKey
<1>5. CASE ProcessOneEvent
  <2>1. PICK e \in m_events :
           /\ IsEarliest(e, m_events)
           /\ m_events' = m_events \ {e}
           /\ m_currentTs' = e.ts
           /\ m_currentUid' = e.uid
    BY <1>5 DEF ProcessOneEvent
  <2>2. UNCHANGED <<m_uid, m_eventsWithContext, allocated>>
    BY <1>5 DEF ProcessOneEvent, shared
  <2>3. \A f \in m_events' : KeyLess(e, f)
    BY <2>1 DEF IsEarliest
  <2>4. \A f \in m_events' : KeyLess(CurrentKey', f)
    BY <2>1, <2>3 DEF CurrentKey, KeyLess
  <2> QED
    BY <2>1, <2>2, <2>4 DEF UidCounts, QueueAhead
<1>6. CASE DrainEventsWithContext
  <2> DEFINE n == Len(m_eventsWithContext)
  <2>1. /\ m_events' = m_events \cup {Posted(k) : k \in 1..n}
        /\ m_uid' = UidPlus(n)
        /\ m_eventsWithContext' = <<>>
        /\ UNCHANGED <<m_currentUid, m_currentTs, allocated>>
    BY <1>6 DEF DrainEventsWithContext, objs
  <2>2. m_uid + n <= VALID + MaxEvents
    BY <1>t DEF UidCounts, VALID
  <2>3. m_uid' = m_uid + n
    BY <1>t, <2>1, <2>2, UidPlusExact
  <2>4. UidCounts'
    BY <1>t, <2>1, <2>3 DEF UidCounts, VALID
  <2>5. ASSUME NEW k \in 1..n
        PROVE  /\ KeyLess(CurrentKey, Posted(k))
               /\ VALID <= Posted(k).uid /\ Posted(k).uid < m_uid + n
    <3>1. m_eventsWithContext[k].delay \in Nat
      <4>1. m_eventsWithContext[k] \in [delay : Delays, impl : Impls]
        BY ElementOfSeq DEF TypeOK, SharedType
      <4> QED
        BY <4>1, DelaysAssumption
    <3>2. UidPlus(k - 1) = m_uid + (k - 1)
      <4>1. k - 1 \in Nat /\ m_uid + (k - 1) <= VALID + MaxEvents
        BY <1>t, <2>2 DEF VALID
      <4> QED
        BY <4>1, UidPlusExact
    <3>3. /\ Posted(k).ts = m_currentTs + m_eventsWithContext[k].delay
          /\ Posted(k).uid = m_uid + (k - 1)
      BY <3>2 DEF Posted
    <3> QED
      BY <1>t, <3>1, <3>3 DEF QueueAhead, KeyLess, CurrentKey, VALID
  <2>6. ASSUME NEW e \in m_events'
        PROVE  KeyLess(CurrentKey, e) /\ VALID <= e.uid /\ e.uid < m_uid'
    <3>1. CASE e \in m_events
      BY <1>t, <2>3, <3>1 DEF QueueAhead, VALID
    <3>2. CASE \E k \in 1..n : e = Posted(k)
      BY <2>3, <2>5, <3>2
    <3> QED
      BY <2>1, <3>1, <3>2
  <2>7. CurrentKey' = CurrentKey
    BY <2>1 DEF CurrentKey
  <2>8. m_currentUid' < m_uid' /\ VALID <= m_uid'
    BY <1>t, <2>1, <2>3 DEF QueueAhead, VALID
  <2> QED
    BY <2>4, <2>6, <2>7, <2>8 DEF QueueAhead
<1>7. CASE DisposeEvents
  BY <1>7 DEF DisposeEvents, shared, UidCounts, QueueAhead, CurrentKey
<1>8. ASSUME NEW t \in Threads, NEW d \in Delays, PostLock(t, d)
      PROVE  UidCounts' /\ QueueAhead'
  <2>1. /\ allocated' = allocated + 1
        /\ m_eventsWithContext' =
              Append(m_eventsWithContext, [delay |-> d, impl |-> allocated + 1])
        /\ UNCHANGED queue
    BY <1>8 DEF PostLock, Allocate
  <2>2. Len(m_eventsWithContext') = Len(m_eventsWithContext) + 1
    BY <2>1 DEF TypeOK, SharedType
  <2>3. UidCounts'
    BY <1>t, <2>1, <2>2 DEF UidCounts, queue, VALID
  <2> QED
    BY <2>1, <2>3 DEF QueueAhead, CurrentKey, queue
<1> QED
  <2>1. ASSUME NEW id \in ids, Cancel(id) \/ RemoveDestroy(id) PROVE Kept
    BY <2>1 DEF Cancel, RemoveDestroy, shared
  <2>2. ASSUME Stop \/ Run \/ StartLoop \/ RunReturns \/ HandlerReturns
               \/ PollEmpty \/ PollNonEmpty
        PROVE  Kept
    BY <2>2 DEF Stop, Run, StartLoop, RunReturns, HandlerReturns, PollEmpty,
                PollNonEmpty, shared, objs
  <2>3. ASSUME Destroy \/ DestroyOne \/ DestroyReturns \/ Dispose PROVE Kept
    BY <2>3 DEF Destroy, DestroyOne, DestroyReturns, Dispose, shared, objs
  <2>4. ASSUME NEW t \in Threads, PostUnlock(t) PROVE Kept
    BY <2>4 DEF PostUnlock, objs
  <2>5. ASSUME UNCHANGED vars PROVE Kept
    BY <2>5 DEF vars, shared, objs
  <2> HIDE DEF Kept, IInv
  <2>6. CASE Call
    BY <1>1, <1>2, <1>3, <1>4, <2>1, <2>2, <2>6 DEF Call, Remove
  <2>7. CASE Loop
    BY <1>1, <1>5, <1>6, <2>2, <2>7 DEF Loop
  <2>8. CASE Teardown
    BY <1>1, <1>7, <2>3, <2>8 DEF Teardown
  <2>9. CASE Post
    BY <1>1, <1>8, <2>4, <2>9 DEF Post
  <2> QED
    BY <1>1, <2>5, <2>6, <2>7, <2>8, <2>9 DEF Next

(* IdsExact is kept: what leaves the queue either becomes the current event or
   is cancelled, and what enters it is ahead of the current event. *)
LEMMA NextIdsExact ==
  ASSUME NoWrap, IInv, [Next]_vars
  PROVE  IdsExact'
<1> USE DEF IInv
<1>t. /\ m_uid \in Nat /\ m_currentTs \in Nat /\ m_currentUid \in Nat
      /\ \A e \in m_events : e.ts \in Nat /\ e.uid \in Nat
      /\ \A id \in ids : id.ts \in Nat /\ id.uid \in Nat
  BY DEF TypeOK, QueueType, ObjectsType, EventKeys
<1>d. /\ Len(m_destroyEvents) \in Nat
      /\ DOMAIN m_destroyEvents = 1..Len(m_destroyEvents)
  BY LenProperties DEF TypeOK
<1> DEFINE AllDestroy == \A k \in DOMAIN m_destroyEvents :
                            m_destroyEvents[k].uid = DESTROY
           Exact == \A id \in ids :
                       (/\ id.uid # DESTROY
                        /\ KeyLess(CurrentKey, id)
                        /\ id.impl \notin m_cancel) => id \in m_events
<1>1. AllDestroy'
  <2>1. CASE ScheduleDestroy
    <3>1. m_destroyEvents' = Append(m_destroyEvents,
             [ts |-> m_currentTs, uid |-> DESTROY, impl |-> allocated + 1])
      BY <2>1 DEF ScheduleDestroy
    <3> QED
      BY <3>1, <1>d DEF IdsExact, TypeOK
  <2>2. ASSUME NEW id \in ids, RemoveDestroy(id) PROVE AllDestroy'
    <3>1. PICK k \in DOMAIN m_destroyEvents :
             m_destroyEvents' = [j \in 1..(Len(m_destroyEvents) - 1) |->
                   m_destroyEvents[IF j < k THEN j ELSE j + 1]]
      BY <2>2 DEF RemoveDestroy
    <3>2. ASSUME NEW j \in 1..(Len(m_destroyEvents) - 1)
          PROVE  m_destroyEvents[IF j < k THEN j ELSE j + 1].uid = DESTROY
      <4>1. (IF j < k THEN j ELSE j + 1) \in DOMAIN m_destroyEvents
        BY <1>d, <3>1
      <4> QED
        BY <4>1 DEF IdsExact
    <3> QED
      BY <3>1, <3>2
  <2>3. CASE DestroyOne
    <3>1. m_destroyEvents' = Tail(m_destroyEvents) /\ m_destroyEvents # <<>>
      BY <2>3 DEF DestroyOne
    <3>2. \A j \in DOMAIN m_destroyEvents' :
             /\ j + 1 \in DOMAIN m_destroyEvents
             /\ m_destroyEvents'[j] = m_destroyEvents[j + 1]
      BY <1>d, <3>1, HeadTailProperties DEF TypeOK
    <3> QED
      BY <3>2 DEF IdsExact
  <2>4. CASE UNCHANGED m_destroyEvents
    BY <2>4 DEF IdsExact
  <2> QED
    <3>1. ASSUME NEW d \in Delays, Schedule(d) \/ ScheduleWithContext(d)
          PROVE  UNCHANGED m_destroyEvents
      BY <3>1 DEF Schedule, ScheduleWithContext
    <3>2. ASSUME NEW id \in ids, Cancel(id) \/ RemoveEvent(id)
          PROVE  UNCHANGED m_destroyEvents
      BY <3>2 DEF Cancel, RemoveEvent
    <3>3. ASSUME Stop \/ Loop PROVE UNCHANGED m_destroyEvents
      BY <3>3 DEF Stop, Loop, Run, StartLoop, RunReturns, ProcessOneEvent,
                  HandlerReturns, PollEmpty, PollNonEmpty, DrainEventsWithContext
    <3>4. ASSUME Destroy \/ DestroyReturns \/ Dispose \/ DisposeEvents
          PROVE  UNCHANGED m_destroyEvents
      BY <3>4 DEF Destroy, DestroyReturns, Dispose, DisposeEvents
    <3>5. ASSUME Post \/ UNCHANGED vars PROVE UNCHANGED m_destroyEvents
      BY <3>5 DEF Post, PostLock, PostUnlock, vars
    <3> HIDE DEF AllDestroy, IInv
    <3>6. CASE Call
      BY <2>1, <2>2, <2>4, <3>1, <3>2, <3>3, <3>6 DEF Call, Remove
    <3>7. CASE Teardown
      BY <2>3, <2>4, <3>4, <3>7 DEF Teardown
    <3> QED
      BY <2>4, <3>3, <3>5, <3>6, <3>7 DEF Next
<1>2. ASSUME pc # "disposed" /\ Exact, pc' # "disposed" PROVE Exact'
  <2> DEFINE Kept == UNCHANGED <<m_events, m_currentUid, m_currentTs, m_cancel, ids>>
  <2>1. CASE Kept
    BY <1>2, <2>1 DEF CurrentKey
  <2>2. ASSUME NEW d \in Delays, Schedule(d) PROVE Exact'
    BY <1>2, <2>2 DEF Schedule, InsertNew, CurrentKey
  <2>3. ASSUME NEW d \in Delays, ScheduleWithContext(d) PROVE Exact'
    BY <1>2, <2>3 DEF ScheduleWithContext, InsertNew, CurrentKey
  <2>4. CASE ScheduleDestroy
    BY <1>2, <2>4 DEF ScheduleDestroy, CurrentKey
  <2>5. ASSUME NEW id \in ids, Cancel(id) PROVE Exact'
    BY <1>2, <2>5 DEF Cancel, queue, CurrentKey
  <2>6. ASSUME NEW id \in ids, RemoveEvent(id) PROVE Exact'
    BY <1>2, <2>6 DEF RemoveEvent, CurrentKey
  <2>7. CASE ProcessOneEvent
    <3>1. PICK e \in m_events :
             /\ IsEarliest(e, m_events)
             /\ m_events' = m_events \ {e}
             /\ m_currentTs' = e.ts
             /\ m_currentUid' = e.uid
      BY <2>7 DEF ProcessOneEvent
    <3>2. UNCHANGED <<m_cancel, ids>>
      BY <2>7 DEF ProcessOneEvent
    <3>3. ASSUME NEW id \in ids, id.uid # DESTROY, KeyLess(CurrentKey', id),
                 id.impl \notin m_cancel
          PROVE  id \in m_events'
      <4>1. KeyLess(e, id)
        BY <3>1, <3>3 DEF KeyLess, CurrentKey
      <4>2. KeyLess(CurrentKey, e)
        BY DEF QueueAhead
      <4>3. KeyLess(CurrentKey, id)
        BY <1>t, <4>1, <4>2 DEF KeyLess, CurrentKey
      <4>4. id \in m_events /\ id # e
        BY <1>2, <1>t, <3>3, <4>1, <4>3 DEF KeyLess
      <4> QED
        BY <3>1, <4>4
    <3> QED
      BY <3>2, <3>3
  <2>8. CASE DrainEventsWithContext
    BY <1>2, <2>8 DEF DrainEventsWithContext, objs, CurrentKey
  <2>9. CASE DisposeEvents
    BY <1>2, <2>9 DEF DisposeEvents
  <2> QED
    <3>1. ASSUME NEW id \in ids, RemoveDestroy(id) PROVE Kept
      BY <3>1 DEF RemoveDestroy, queue
    <3>2. ASSUME Stop \/ Run \/ StartLoop \/ RunReturns \/ HandlerReturns
                 \/ PollEmpty \/ PollNonEmpty
          PROVE  Kept
      BY <3>2 DEF Stop, Run, StartLoop, RunReturns, HandlerReturns, PollEmpty,
                  PollNonEmpty, queue, objs
    <3>3. ASSUME Destroy \/ DestroyOne \/ DestroyReturns \/ Dispose PROVE Kept
      BY <3>3 DEF Destroy, DestroyOne, DestroyReturns, Dispose, queue, objs
    <3>4. ASSUME Post \/ UNCHANGED vars PROVE Kept
      BY <3>4 DEF Post, PostLock, PostUnlock, vars, queue, objs
    <3> HIDE DEF Kept, Exact, IInv
    <3>5. CASE Call
      BY <2>1, <2>2, <2>3, <2>4, <2>5, <2>6, <3>1, <3>2, <3>5 DEF Call, Remove
    <3>6. CASE Loop
      BY <2>1, <2>7, <2>8, <3>2, <3>6 DEF Loop
    <3>7. CASE Teardown
      BY <2>1, <2>9, <3>3, <3>7 DEF Teardown
    <3> QED
      BY <2>1, <3>4, <3>5, <3>6, <3>7 DEF Next
<1>3. pc' # "disposed" => pc # "disposed"
  <2>1. pc = "disposed" => UNCHANGED pc \/ Post
    BY DEF Next, Call, InCaller, Schedule, ScheduleWithContext, ScheduleDestroy,
       Stop, Cancel, Remove, RemoveDestroy, RemoveEvent, Loop, Run, StartLoop,
       RunReturns, ProcessOneEvent, HandlerReturns, PollEmpty, PollNonEmpty,
       DrainEventsWithContext, Teardown, Destroy, DestroyOne, DestroyReturns,
       Dispose, DisposeEvents, vars, flow
  <2>2. Post => UNCHANGED pc
    BY DEF Post, PostLock, PostUnlock, flow
  <2> QED
    BY <2>1, <2>2
<1> QED
  BY <1>1, <1>2, <1>3 DEF IdsExact

LEMMA Invariance == ASSUME NoWrap PROVE Spec => []IInv
<1>1. Init => IInv
  BY InitTypeOK
     DEF Init, IInv, UidCounts, QueueAhead, IdsExact, VALID, INVALID, DESTROY
<1>2. IInv /\ [Next]_vars => IInv'
  BY NextTypeOK, NextKeys, NextIdsExact DEF IInv
<1> QED
  BY <1>1, <1>2, PTL DEF Spec

(* Events are executed in strictly increasing order of (time stamp, uid). *)
THEOREM KeyOrder == ASSUME NoWrap PROVE Spec => EventsRunInKeyOrder
<1> DEFINE Moves == <<m_currentTs, m_currentUid>>' # <<m_currentTs, m_currentUid>>
           Ahead == KeyLess([ts |-> m_currentTs, uid |-> m_currentUid],
                            [ts |-> m_currentTs', uid |-> m_currentUid'])
<1>1. IInv /\ [Next]_vars => [Moves => Ahead]_vars
  <2> SUFFICES ASSUME IInv, [Next]_vars, Moves PROVE Ahead
    OBVIOUS
  <2>1. ProcessOneEvent
    <3>1. ASSUME NEW d \in Delays, Schedule(d) \/ ScheduleWithContext(d) PROVE ~Moves
      BY <3>1 DEF Schedule, ScheduleWithContext, InsertNew
    <3>2. ASSUME NEW id \in ids, Cancel(id) \/ Remove(id) PROVE ~Moves
      BY <3>2 DEF Cancel, Remove, RemoveDestroy, RemoveEvent, queue
    <3>3. ASSUME ScheduleDestroy \/ Stop PROVE ~Moves
      BY <3>3 DEF ScheduleDestroy, Stop, queue
    <3>4. ASSUME Run \/ StartLoop \/ RunReturns \/ HandlerReturns \/ PollEmpty
                 \/ PollNonEmpty \/ DrainEventsWithContext
          PROVE  ~Moves
      BY <3>4 DEF Run, StartLoop, RunReturns, HandlerReturns, PollEmpty,
                  PollNonEmpty, DrainEventsWithContext, queue
    <3>5. ASSUME Teardown PROVE ~Moves
      BY <3>5 DEF Teardown, Destroy, DestroyOne, DestroyReturns, Dispose,
                  DisposeEvents, queue
    <3>6. ASSUME Post \/ UNCHANGED vars PROVE ~Moves
      BY <3>6 DEF Post, PostLock, PostUnlock, vars, queue
    <3> HIDE DEF Moves
    <3> QED
      BY <3>1, <3>2, <3>3, <3>4, <3>5, <3>6 DEF Next, Call, Loop
  <2>2. PICK e \in m_events : m_currentTs' = e.ts /\ m_currentUid' = e.uid
    BY <2>1 DEF ProcessOneEvent
  <2>3. KeyLess(CurrentKey, e)
    BY DEF IInv, QueueAhead
  <2> QED
    BY <2>2, <2>3 DEF KeyLess, CurrentKey
<1>2. Spec => []IInv
  BY Invariance
<1> QED
  BY <1>1, <1>2, PTL DEF Spec, EventsRunInKeyOrder

(* IsExpired is exact: the key of an EventId tells whether it is pending. *)
THEOREM ExpiredIsExact == ASSUME NoWrap PROVE Spec => []ExpiredExact
<1>1. IInv => ExpiredExact
  <2> SUFFICES ASSUME IInv, pc # "disposed", NEW id \in ids
               PROVE  ~IsExpired(id) <=> /\ id \in m_events \/ IsListed(id)
                                         /\ id.impl \notin m_cancel
    BY DEF ExpiredExact
  <2> USE DEF IInv
  <2>t. /\ m_currentTs \in Nat /\ m_currentUid \in Nat
        /\ id.ts \in Nat /\ id.uid \in Nat
    BY DEF TypeOK, QueueType, ObjectsType, EventKeys
  <2>1. id \in m_events => id.uid # DESTROY /\ KeyLess(CurrentKey, id)
    BY <2>t DEF QueueAhead, VALID, DESTROY
  <2>2. IsListed(id) => id.uid = DESTROY
    BY DEF IsListed, IdsExact
  <2>3. CASE id.uid = DESTROY
    BY <2>1, <2>3 DEF IsExpired
  <2>4. CASE id.uid # DESTROY
    <3>1. IsExpired(id) <=> ~KeyLess(CurrentKey, id) \/ id.impl \in m_cancel
      BY <2>t, <2>4 DEF IsExpired, KeyLess, CurrentKey
    <3>2. (KeyLess(CurrentKey, id) /\ id.impl \notin m_cancel) => id \in m_events
      BY <2>4 DEF IdsExact
    <3> QED
      BY <2>1, <2>2, <2>4, <3>1, <3>2
  <2> QED
    BY <2>3, <2>4
<1>2. Spec => []IInv
  BY Invariance
<1> QED
  BY <1>1, <1>2, PTL

-------------------------------------------------------------------------------
(***************************************************************************)
(* Who holds the events: the count of pending events that Run asserts, and *)
(* the references of each EventImpl.                                       *)
(***************************************************************************)

(* The queue is finite and counted.                                        *)
Counted ==
    /\ IsFiniteSet(m_events)
    /\ UnscheduledExact

LEMMA KeyTypes ==
  ASSUME TypeOK
  PROVE  /\ m_currentTs \in Nat /\ m_currentUid \in Nat /\ m_uid \in Nat
         /\ \A e \in m_events : e.ts \in Nat /\ e.uid \in Nat
         /\ \A id \in ids : id.ts \in Nat /\ id.uid \in Nat
<1>1. /\ \A n \in 0 .. (UidModulus - 1) : n \in Nat
      /\ \A k \in EventKeys : k.ts \in Nat /\ k.uid \in Nat
  BY BoundsAssumption DEF EventKeys
<1>2. /\ m_events \subseteq EventKeys /\ ids \subseteq EventKeys
      /\ m_currentTs \in Nat
      /\ m_currentUid \in 0 .. (UidModulus - 1) /\ m_uid \in 0 .. (UidModulus - 1)
  BY DEF TypeOK, QueueType, ObjectsType
<1> QED
  BY <1>1, <1>2

(* What Remove takes out is in the queue: the test of its key says so.     *)
LEMMA RemovedIsQueued ==
  ASSUME IInv, NEW id \in ids, RemoveEvent(id)
  PROVE  id \in m_events /\ pc # "disposed"
<1>1. /\ id.uid # DESTROY /\ ~IsExpired(id) /\ pc # "disposed"
  BY DEF RemoveEvent, InCaller
<1>2. /\ m_currentTs \in Nat /\ m_currentUid \in Nat
      /\ id.ts \in Nat /\ id.uid \in Nat
  BY DEF IInv, TypeOK, QueueType, ObjectsType, EventKeys
<1>3. KeyLess(CurrentKey, id) /\ id.impl \notin m_cancel
  BY <1>1, <1>2 DEF IsExpired, KeyLess, CurrentKey
<1> QED
  BY <1>1, <1>3 DEF IInv, IdsExact

LEMMA DisposedForEver ==
  ASSUME [Next]_vars, pc' # "disposed"
  PROVE  pc # "disposed"
<1>1. pc = "disposed" => UNCHANGED pc \/ Post
  BY DEF Next, Call, InCaller, Schedule, ScheduleWithContext, ScheduleDestroy,
     Stop, Cancel, Remove, RemoveDestroy, RemoveEvent, Loop, Run, StartLoop,
     RunReturns, ProcessOneEvent, HandlerReturns, PollEmpty, PollNonEmpty,
     DrainEventsWithContext, Teardown, Destroy, DestroyOne, DestroyReturns,
     Dispose, DisposeEvents, vars, flow
<1>2. Post => UNCHANGED pc
  BY DEF Post, PostLock, PostUnlock, flow
<1> QED
  BY <1>1, <1>2

(* The events made of the posts: as many as there are posts, none of them  *)
(* queued before.                                                          *)
LEMMA PostedAreNew ==
  ASSUME NoWrap, IInv
  PROVE  LET n == Len(m_eventsWithContext)
             P == {Posted(k) : k \in 1 .. n}
         IN  /\ n \in Nat /\ IsFiniteSet(P) /\ Cardinality(P) = n
             /\ P \cap m_events = {}
             /\ \A k \in 1 .. n : Posted(k).uid = m_uid + (k - 1)
<1> DEFINE n == Len(m_eventsWithContext)
           P == {Posted(k) : k \in 1 .. n}
<1>1. /\ n \in Nat /\ m_uid \in Nat /\ allocated \in Nat /\ allocated <= MaxEvents
      /\ MaxEvents \in Nat
      /\ \A e \in m_events : e.uid \in Nat /\ e.uid < m_uid
  BY LenProperties, BoundsAssumption
     DEF IInv, TypeOK, QueueType, SharedType, ObjectsType, EventKeys, QueueAhead
<1>2. \A k \in 1 .. n : Posted(k).uid = m_uid + (k - 1)
  <2> TAKE k \in 1 .. n
  <2>1. k - 1 \in Nat /\ m_uid + (k - 1) <= VALID + MaxEvents
    BY <1>1 DEF IInv, UidCounts, VALID
  <2>2. UidPlus(k - 1) = m_uid + (k - 1)
    BY <2>1, UidPlusExact DEF IInv
  <2> QED
    BY <2>2 DEF Posted
<1>3. P \cap m_events = {}
  <2> SUFFICES ASSUME NEW k \in 1 .. n, Posted(k) \in m_events PROVE FALSE
    OBVIOUS
  <2> QED
    BY <1>1, <1>2
<1> DEFINE f == [k \in 1 .. n |-> Posted(k)]
<1>4. f \in Bijection(1 .. n, P)
  <2>1. f \in [1 .. n -> P]
    OBVIOUS
  <2>2. \A j, k \in 1 .. n : f[j] = f[k] => j = k
    <3> SUFFICES ASSUME NEW j \in 1 .. n, NEW k \in 1 .. n, Posted(j) = Posted(k) PROVE j = k
      OBVIOUS
    <3> QED
      BY <1>1, <1>2
  <2>3. \A p \in P : \E k \in 1 .. n : f[k] = p
    OBVIOUS
  <2>4. f \in Injection(1 .. n, P)
    BY <2>1, <2>2 DEF Injection, IsInjective
  <2>5. f \in Surjection(1 .. n, P)
    BY <2>1, <2>3 DEF Surjection
  <2> QED
    BY <2>4, <2>5 DEF Bijection
<1>5. IsFiniteSet(1 .. n) /\ Cardinality(1 .. n) = n
  <2>1. n \in Nat
    BY <1>1
  <2> HIDE DEF n
  <2>2. /\ IsFiniteSet(1 .. n)
        /\ Cardinality(1 .. n) = IF 1 > n THEN 0 ELSE n - 1 + 1
    BY <2>1, FS_Interval
  <2> QED
    BY <2>1, <2>2
<1>6. ExistsBijection(1 .. n, P)
  BY <1>4 DEF ExistsBijection
<1>7. IsFiniteSet(P) /\ Cardinality(P) = n
  <2> DEFINE S == 1 .. n
  <2>1. IsFiniteSet(S) /\ ExistsBijection(S, P) /\ Cardinality(S) = n
    BY <1>5, <1>6
  <2> HIDE DEF S, P, n
  <2> QED
    BY <2>1, FS_Bijection
<1> QED
  BY <1>1, <1>2, <1>3, <1>7

LEMMA NextCounted ==
  ASSUME NoWrap, IInv, Counted, [Next]_vars
  PROVE  Counted'
<1> USE DEF Counted, UnscheduledExact
<1>t. /\ m_uid \in Nat /\ m_unscheduledEvents \in Int
      /\ \A e \in m_events : e.uid \in Nat /\ e.uid < m_uid
  BY DEF IInv, TypeOK, QueueType, EventKeys, QueueAhead
<1>c. Cardinality(m_events) \in Nat
  BY FS_CardinalityType
<1>1. CASE UNCHANGED <<m_events, m_unscheduledEvents>>
  BY <1>1, DisposedForEver
<1>2. ASSUME NEW d \in Delays, Schedule(d) \/ ScheduleWithContext(d) PROVE Counted'
  <2> DEFINE e == [ts |-> m_currentTs + d, uid |-> m_uid, impl |-> allocated + 1]
  <2>1. m_events' = m_events \cup {e} /\ m_unscheduledEvents' = m_unscheduledEvents + 1
    BY <1>2 DEF Schedule, ScheduleWithContext, InsertNew
  <2>2. e \notin m_events
    BY <1>t
  <2> HIDE DEF e
  <2> QED
    BY <1>c, <2>1, <2>2, FS_AddElement, DisposedForEver
<1>3. ASSUME NEW id \in ids, RemoveEvent(id) PROVE Counted'
  <2>1. m_events' = m_events \ {id} /\ m_unscheduledEvents' = m_unscheduledEvents - 1
    BY <1>3 DEF RemoveEvent
  <2> QED
    BY <1>3, <1>c, <2>1, RemovedIsQueued, FS_RemoveElement
<1>4. CASE ProcessOneEvent
  <2>1. PICK e \in m_events : m_events' = m_events \ {e}
    BY <1>4 DEF ProcessOneEvent
  <2>2. m_unscheduledEvents' = m_unscheduledEvents - 1 /\ pc # "disposed"
    BY <1>4 DEF ProcessOneEvent
  <2> QED
    BY <1>c, <2>1, <2>2, FS_RemoveElement
<1>5. CASE DrainEventsWithContext
  <2> DEFINE n == Len(m_eventsWithContext)
             P == {Posted(k) : k \in 1 .. n}
  <2>1. /\ m_events' = m_events \cup P /\ pc # "disposed"
        /\ m_unscheduledEvents' = m_unscheduledEvents + n
    BY <1>5 DEF DrainEventsWithContext
  <2>2. n \in Nat /\ IsFiniteSet(P) /\ Cardinality(P) = n /\ m_events \cap P = {}
    BY PostedAreNew
  <2> HIDE DEF P
  <2>3. Cardinality(m_events \cap P) = 0
    BY <2>2, FS_EmptySet
  <2>4. /\ IsFiniteSet(m_events \cup P)
        /\ Cardinality(m_events \cup P) = Cardinality(m_events) + n - 0
    BY <2>1, <2>2, <2>3, FS_Union
  <2>5. /\ m_unscheduledEvents' = Cardinality(m_events) + n
        /\ IsFiniteSet(m_events')
        /\ Cardinality(m_events') = Cardinality(m_events) + n
    BY <1>c, <2>1, <2>2, <2>4
  <2> QED
    BY <2>5
<1>6. CASE DisposeEvents
  BY <1>6, FS_EmptySet DEF DisposeEvents
<1> DEFINE Kept == UNCHANGED <<m_events, m_unscheduledEvents>>
<1>7. ASSUME NEW id \in ids, Cancel(id) \/ RemoveDestroy(id) PROVE Kept
  BY <1>7 DEF Cancel, RemoveDestroy, queue
<1>8. ASSUME ScheduleDestroy \/ Stop \/ Run \/ StartLoop \/ RunReturns
             \/ HandlerReturns \/ PollEmpty \/ PollNonEmpty
      PROVE  Kept
  BY <1>8 DEF ScheduleDestroy, Stop, Run, StartLoop, RunReturns, HandlerReturns,
              PollEmpty, PollNonEmpty, queue
<1>9. ASSUME Destroy \/ DestroyOne \/ DestroyReturns \/ Dispose \/ Post \/ UNCHANGED vars
      PROVE  Kept
  BY <1>9 DEF Destroy, DestroyOne, DestroyReturns, Dispose, Post, PostLock,
              PostUnlock, vars, queue
<1> HIDE DEF Counted, UnscheduledExact, Kept
<1>10. Kept => Counted'
  BY <1>1 DEF Kept
<1> QED
  BY <1>2, <1>3, <1>4, <1>5, <1>6, <1>7, <1>8, <1>9, <1>10
     DEF Next, Call, Loop, Teardown, Remove

(* The count of pending events, which Run asserts when it returns for lack *)
(* of events, is right at every step.                                      *)
THEOREM CountIsExact == ASSUME NoWrap PROVE Spec => []UnscheduledExact
<1>1. Init => Counted
  BY FS_EmptySet DEF Init, Counted, UnscheduledExact
<1>2. IInv /\ Counted /\ [Next]_vars => Counted'
  BY NextCounted
<1>3. Counted => UnscheduledExact
  BY DEF Counted
<1>4. Spec => []IInv
  BY Invariance
<1> QED
  BY <1>1, <1>2, <1>3, <1>4, PTL DEF Spec

-------------------------------------------------------------------------------
(* Where an impl can be held. *)

InEvents(i)  == \E e \in m_events : e.impl = i
InDestroy(i) == \E k \in DOMAIN m_destroyEvents : m_destroyEvents[k].impl = i
InPosts(i)   == \E k \in DOMAIN m_eventsWithContext : m_eventsWithContext[k].impl = i
HasId(i)     == \E id \in ids : id.impl = i

(* Whatever is held has been allocated. *)
Known ==
    /\ \A e \in m_events : e.impl <= allocated
    /\ \A k \in DOMAIN m_destroyEvents : m_destroyEvents[k].impl <= allocated
    /\ \A k \in DOMAIN m_eventsWithContext : m_eventsWithContext[k].impl <= allocated
    /\ \A id \in ids : id.impl <= allocated
    /\ running <= allocated

(* No list holds an impl twice, and a posted impl is not queued yet. *)
HeldOnce ==
    /\ \A e, f \in m_events : e.impl = f.impl => e = f
    /\ \A j, k \in DOMAIN m_destroyEvents :
          m_destroyEvents[j].impl = m_destroyEvents[k].impl => j = k
    /\ \A j, k \in DOMAIN m_eventsWithContext :
          m_eventsWithContext[j].impl = m_eventsWithContext[k].impl => j = k
    /\ \A e \in m_events : ~InPosts(e.impl)

RunsInHandler == running # 0 => pc \in {"invoke", "destroyInvoke"}

One(b) == IF b THEN 1 ELSE 0

Counts ==
    \A i \in 1 .. allocated :
       refs[i] = One(InEvents(i)) + One(InDestroy(i)) + One(InPosts(i))
                 + One(running = i) + One(HasId(i))

Owned == Known /\ HeldOnce /\ RunsInHandler /\ Counts

PlacesKept ==
    UNCHANGED <<m_events, m_destroyEvents, m_eventsWithContext, running,
                allocated, refs, ids>>

(* The steps that move an impl. *)
LEMMA MovingSteps ==
  ASSUME [Next]_vars
  PROVE  \/ PlacesKept
         \/ \E d \in Delays : Schedule(d) \/ ScheduleWithContext(d)
         \/ ScheduleDestroy
         \/ \E id \in ids : RemoveDestroy(id) \/ RemoveEvent(id)
         \/ ProcessOneEvent \/ HandlerReturns \/ DrainEventsWithContext
         \/ DestroyOne \/ DestroyReturns \/ DisposeEvents
         \/ \E t \in Threads : \E d \in Delays : PostLock(t, d)
<1>1. ASSUME NEW id \in ids, Cancel(id) PROVE PlacesKept
  BY <1>1 DEF Cancel, PlacesKept, queue, shared, flow
<1>2. ASSUME Stop \/ Run \/ StartLoop \/ RunReturns \/ PollEmpty \/ PollNonEmpty
      PROVE  PlacesKept
  BY <1>2 DEF Stop, Run, StartLoop, RunReturns, PollEmpty, PollNonEmpty,
              PlacesKept, queue, shared, flow, objs
<1>3. ASSUME Destroy \/ Dispose \/ UNCHANGED vars PROVE PlacesKept
  BY <1>3 DEF Destroy, Dispose, PlacesKept, vars, queue, shared, flow, objs
<1>4. ASSUME NEW t \in Threads, PostUnlock(t) PROVE PlacesKept
  BY <1>4 DEF PostUnlock, PlacesKept, queue, flow, objs
<1> HIDE DEF PlacesKept
<1> QED
  BY <1>1, <1>2, <1>3, <1>4 DEF Next, Call, Loop, Teardown, Post, Remove

(* The types the proofs below need, a field at a time. *)
LEMMA HeldTypes ==
  ASSUME TypeOK
  PROVE  /\ allocated \in Nat /\ allocated <= MaxEvents /\ MaxEvents \in Nat
         /\ running \in Nat /\ refs \in [Impls -> Int]
         /\ \A e \in m_events : e.impl \in Nat /\ e.impl >= 1
         /\ \A id \in ids : id.impl \in Nat /\ id.impl >= 1
         /\ Len(m_destroyEvents) \in Nat
         /\ DOMAIN m_destroyEvents = 1 .. Len(m_destroyEvents)
         /\ \A k \in DOMAIN m_destroyEvents :
               m_destroyEvents[k].impl \in Nat /\ m_destroyEvents[k].impl >= 1
         /\ Len(m_eventsWithContext) \in Nat
         /\ DOMAIN m_eventsWithContext = 1 .. Len(m_eventsWithContext)
         /\ \A k \in DOMAIN m_eventsWithContext :
               m_eventsWithContext[k].impl \in Nat /\ m_eventsWithContext[k].impl >= 1
<1> USE BoundsAssumption DEF TypeOK, Impls
<1>1. /\ allocated \in Nat /\ allocated <= MaxEvents /\ MaxEvents \in Nat
      /\ running \in Nat /\ refs \in [Impls -> Int]
  BY DEF ObjectsType, FlowType
<1>2. /\ \A e \in m_events : e.impl \in Nat /\ e.impl >= 1
      /\ \A id \in ids : id.impl \in Nat /\ id.impl >= 1
  BY DEF ObjectsType, QueueType, EventKeys
<1>3. /\ Len(m_destroyEvents) \in Nat
      /\ DOMAIN m_destroyEvents = 1 .. Len(m_destroyEvents)
      /\ Len(m_eventsWithContext) \in Nat
      /\ DOMAIN m_eventsWithContext = 1 .. Len(m_eventsWithContext)
  BY LenProperties DEF SharedType
<1>4. ASSUME NEW k \in DOMAIN m_destroyEvents
      PROVE  m_destroyEvents[k].impl \in Nat /\ m_destroyEvents[k].impl >= 1
  <2>1. m_destroyEvents[k] \in EventKeys
    BY <1>3, <1>4, ElementOfSeq
  <2> QED
    BY <2>1 DEF EventKeys
<1>5. ASSUME NEW k \in DOMAIN m_eventsWithContext
      PROVE  m_eventsWithContext[k].impl \in Nat /\ m_eventsWithContext[k].impl >= 1
  <2>1. m_eventsWithContext[k] \in [delay : Delays, impl : Impls]
    BY <1>3, <1>5, ElementOfSeq DEF SharedType
  <2> QED
    BY <2>1
<1> QED
  BY <1>1, <1>2, <1>3, <1>4, <1>5

(* A new event is put in the queue, with or without an EventId for it. *)
LEMMA NewEventOwned ==
  ASSUME TypeOK, Owned, NEW d \in Delays, Schedule(d) \/ ScheduleWithContext(d)
  PROVE  Known' /\ HeldOnce' /\ Counts'
<1> DEFINE e == [ts |-> m_currentTs + d, uid |-> m_uid, impl |-> allocated + 1]
           n == IF Schedule(d) THEN 2 ELSE 1
<1> USE HeldTypes DEF Owned
<1>1. /\ m_events' = m_events \cup {e}
      /\ allocated' = allocated + 1 /\ allocated < MaxEvents
      /\ refs' = [refs EXCEPT ![allocated + 1] = n]
      /\ ids' = IF Schedule(d) THEN ids \cup {e} ELSE ids
      /\ UNCHANGED <<m_destroyEvents, m_eventsWithContext, running>>
  BY DEF Schedule, ScheduleWithContext, InsertNew, Allocate, shared, flow
<1>2. e.impl = allocated + 1
  OBVIOUS
<1> HIDE DEF e
<1>3. Known'
  BY <1>1, <1>2 DEF Known
<1>4. HeldOnce'
  BY <1>1, <1>2 DEF Known, HeldOnce, InPosts
<1>5. Counts'
  <2> SUFFICES ASSUME NEW i \in 1 .. allocated'
               PROVE  refs'[i] = One(InEvents(i)') + One(InDestroy(i)')
                                 + One(InPosts(i)') + One(running' = i) + One(HasId(i)')
    BY DEF Counts
  <2>1. /\ InDestroy(i)' = InDestroy(i) /\ InPosts(i)' = InPosts(i)
        /\ InEvents(i)' <=> InEvents(i) \/ i = allocated + 1
        /\ HasId(i)' <=> HasId(i) \/ (Schedule(d) /\ i = allocated + 1)
    BY <1>1, <1>2 DEF InDestroy, InPosts, InEvents, HasId
  <2>2. CASE i = allocated + 1
    <3>1. refs'[i] = n
      BY <1>1, <2>2 DEF Impls
    <3>2. ~InDestroy(i) /\ ~InPosts(i) /\ running' # i /\ ~HasId(i)
      BY <1>1, <2>2 DEF Known, InDestroy, InPosts, HasId
    <3> QED
      BY <2>1, <2>2, <3>1, <3>2 DEF One
  <2>3. CASE i # allocated + 1
    <3>1. i \in 1 .. allocated /\ refs'[i] = refs[i]
      BY <1>1, <2>3 DEF Impls
    <3> QED
      BY <1>1, <2>1, <2>3, <3>1 DEF Counts, One
  <2> QED
    BY <2>2, <2>3
<1> QED
  BY <1>3, <1>4, <1>5

LEMMA ScheduleDestroyOwned ==
  ASSUME TypeOK, Owned, ScheduleDestroy
  PROVE  Known' /\ HeldOnce' /\ Counts'
<1> DEFINE id == [ts |-> m_currentTs, uid |-> DESTROY, impl |-> allocated + 1]
           L == Len(m_destroyEvents)
<1> USE HeldTypes DEF Owned
<1>1. /\ m_destroyEvents' = Append(m_destroyEvents, id)
      /\ allocated' = allocated + 1 /\ allocated < MaxEvents
      /\ refs' = [refs EXCEPT ![allocated + 1] = 2]
      /\ ids' = ids \cup {id}
      /\ UNCHANGED <<m_events, m_eventsWithContext, running>>
  BY DEF ScheduleDestroy, Allocate, shared, flow
<1>2. id.impl = allocated + 1
  OBVIOUS
<1> HIDE DEF id
<1>a. /\ DOMAIN m_destroyEvents' = 1 .. (L + 1)
      /\ m_destroyEvents'[L + 1] = id
      /\ \A k \in 1 .. L : m_destroyEvents'[k] = m_destroyEvents[k]
  BY <1>1 DEF TypeOK
<1>3. Known'
  BY <1>1, <1>2, <1>a DEF Known
<1>4. HeldOnce'
  <2>1. \A j, k \in DOMAIN m_destroyEvents' :
           m_destroyEvents'[j].impl = m_destroyEvents'[k].impl => j = k
    BY <1>1, <1>2, <1>a DEF Known, HeldOnce
  <2> QED
    BY <1>1, <2>1 DEF HeldOnce, InPosts
<1>5. Counts'
  <2> SUFFICES ASSUME NEW i \in 1 .. allocated'
               PROVE  refs'[i] = One(InEvents(i)') + One(InDestroy(i)')
                                 + One(InPosts(i)') + One(running' = i) + One(HasId(i)')
    BY DEF Counts
  <2>1. /\ InEvents(i)' = InEvents(i) /\ InPosts(i)' = InPosts(i)
        /\ HasId(i)' <=> HasId(i) \/ i = allocated + 1
    BY <1>1, <1>2 DEF InEvents, InPosts, HasId
  <2>2. InDestroy(i)' <=> InDestroy(i) \/ i = allocated + 1
    <3>1. /\ DOMAIN m_destroyEvents = 1 .. L
          /\ DOMAIN m_destroyEvents' = (1 .. L) \cup {L + 1}
      <4>1. L \in Nat /\ DOMAIN m_destroyEvents = 1 .. L
        OBVIOUS
      <4> HIDE DEF L
      <4>2. 1 .. (L + 1) = (1 .. L) \cup {L + 1}
        BY ONLY <4>1
      <4> QED
        BY ONLY <1>a, <4>1, <4>2
    <3> HIDE DEF L, id
    <3> QED
      BY ONLY <1>2, <1>a, <3>1 DEF InDestroy
  <2>3. CASE i = allocated + 1
    <3>1. refs'[i] = 2
      BY <1>1, <2>3 DEF Impls
    <3>2. ~InEvents(i) /\ ~InPosts(i) /\ running' # i
      BY <1>1, <2>3 DEF Known, InEvents, InPosts
    <3> QED
      BY <2>1, <2>2, <2>3, <3>1, <3>2 DEF One
  <2>4. CASE i # allocated + 1
    <3>1. i \in 1 .. allocated /\ refs'[i] = refs[i]
      BY <1>1, <2>4 DEF Impls
    <3> QED
      BY <1>1, <2>1, <2>2, <2>4, <3>1 DEF Counts, One
  <2> QED
    BY <2>3, <2>4
<1> QED
  BY <1>3, <1>4, <1>5

(* A thread posts: the same with the list it appends to. *)
LEMMA PostLockOwned ==
  ASSUME TypeOK, Owned, NEW t \in Threads, NEW d \in Delays, PostLock(t, d)
  PROVE  Known' /\ HeldOnce' /\ Counts'
<1> DEFINE ev == [delay |-> d, impl |-> allocated + 1]
           L == Len(m_eventsWithContext)
<1> USE HeldTypes DEF Owned
<1>1. /\ m_eventsWithContext' = Append(m_eventsWithContext, ev)
      /\ allocated' = allocated + 1 /\ allocated < MaxEvents
      /\ refs' = [refs EXCEPT ![allocated + 1] = 1]
      /\ UNCHANGED <<m_events, m_destroyEvents, running, ids>>
  BY DEF PostLock, Allocate, queue, flow
<1>2. ev.impl = allocated + 1
  OBVIOUS
<1> HIDE DEF ev
<1>a. /\ DOMAIN m_eventsWithContext' = 1 .. (L + 1)
      /\ m_eventsWithContext'[L + 1] = ev
      /\ \A k \in 1 .. L : m_eventsWithContext'[k] = m_eventsWithContext[k]
  BY <1>1 DEF TypeOK, SharedType
<1>b. \A i : InPosts(i)' <=> InPosts(i) \/ i = allocated + 1
  BY <1>2, <1>a DEF InPosts
<1>3. Known'
  BY <1>1, <1>2, <1>a DEF Known
<1>4. HeldOnce'
  <2>1. \A j, k \in DOMAIN m_eventsWithContext' :
           m_eventsWithContext'[j].impl = m_eventsWithContext'[k].impl => j = k
    BY <1>1, <1>2, <1>a DEF Known, HeldOnce
  <2>2. \A e \in m_events' : ~InPosts(e.impl)'
    BY <1>1, <1>b DEF Known, HeldOnce
  <2> QED
    BY <1>1, <2>1, <2>2 DEF HeldOnce
<1>5. Counts'
  <2> SUFFICES ASSUME NEW i \in 1 .. allocated'
               PROVE  refs'[i] = One(InEvents(i)') + One(InDestroy(i)')
                                 + One(InPosts(i)') + One(running' = i) + One(HasId(i)')
    BY DEF Counts
  <2>1. /\ InEvents(i)' = InEvents(i) /\ InDestroy(i)' = InDestroy(i)
        /\ HasId(i)' = HasId(i)
    BY <1>1 DEF InEvents, InDestroy, HasId
  <2>3. CASE i = allocated + 1
    <3>1. refs'[i] = 1
      BY <1>1, <2>3 DEF Impls
    <3>2. ~InEvents(i) /\ ~InDestroy(i) /\ running' # i /\ ~HasId(i)
      BY <1>1, <2>3 DEF Known, InEvents, InDestroy, HasId
    <3> QED
      BY <1>b, <2>1, <2>3, <3>1, <3>2 DEF One
  <2>4. CASE i # allocated + 1
    <3>1. i \in 1 .. allocated /\ refs'[i] = refs[i]
      BY <1>1, <2>4 DEF Impls
    <3> QED
      BY <1>1, <1>b, <2>1, <2>4, <3>1 DEF Counts, One
  <2> QED
    BY <2>3, <2>4
<1> QED
  BY <1>3, <1>4, <1>5

LEMMA RemoveEventOwned ==
  ASSUME IInv, Owned, NEW id \in ids, RemoveEvent(id)
  PROVE  Known' /\ HeldOnce' /\ Counts'
<1> USE HeldTypes DEF Owned, IInv
<1>1. /\ m_events' = m_events \ {id}
      /\ refs' = [refs EXCEPT ![id.impl] = @ - 1]
      /\ UNCHANGED <<m_destroyEvents, m_eventsWithContext, running, allocated, ids>>
  BY DEF RemoveEvent, shared, flow
<1>2. id \in m_events
  BY RemovedIsQueued
<1>3. Known' /\ HeldOnce'
  BY <1>1 DEF Known, HeldOnce, InPosts
<1>4. Counts'
  <2> SUFFICES ASSUME NEW i \in 1 .. allocated
               PROVE  refs'[i] = One(InEvents(i)') + One(InDestroy(i)')
                                 + One(InPosts(i)') + One(running' = i) + One(HasId(i)')
    BY <1>1 DEF Counts
  <2>1. /\ InDestroy(i)' = InDestroy(i) /\ InPosts(i)' = InPosts(i)
        /\ HasId(i)' = HasId(i)
    BY <1>1 DEF InDestroy, InPosts, HasId
  <2>2. InEvents(i)' <=> InEvents(i) /\ i # id.impl
    BY <1>1, <1>2 DEF InEvents, HeldOnce
  <2>3. i = id.impl => InEvents(i)
    BY <1>2 DEF InEvents
  <2>4. refs'[i] = IF i = id.impl THEN refs[i] - 1 ELSE refs[i]
    BY <1>1 DEF Impls
  <2> QED
    BY <1>1, <2>1, <2>2, <2>3, <2>4 DEF Counts, One
<1> QED
  BY <1>3, <1>4

(* A destroy event is erased from its list: the others move down. *)
LEMMA RemoveDestroyOwned ==
  ASSUME TypeOK, Owned, NEW id \in ids, RemoveDestroy(id)
  PROVE  Known' /\ HeldOnce' /\ Counts'
<1> DEFINE L == Len(m_destroyEvents)
<1> USE HeldTypes DEF Owned
<1>1. PICK k \in DOMAIN m_destroyEvents :
         /\ m_destroyEvents[k] = id
         /\ m_destroyEvents' = [j \in 1 .. (L - 1) |->
                m_destroyEvents[IF j < k THEN j ELSE j + 1]]
  BY DEF RemoveDestroy
<1>2. /\ refs' = [refs EXCEPT ![id.impl] = @ - 1]
      /\ UNCHANGED <<m_events, m_eventsWithContext, running, allocated, ids>>
  BY DEF RemoveDestroy, queue, shared, flow
<1>3. k \in 1 .. L
  BY <1>1
<1>4. /\ DOMAIN m_destroyEvents' = 1 .. (L - 1)
      /\ \A j \in 1 .. (L - 1) : j < k => m_destroyEvents'[j] = m_destroyEvents[j]
      /\ \A j \in 1 .. (L - 1) : j >= k => m_destroyEvents'[j] = m_destroyEvents[j + 1]
  BY <1>1, <1>3
<1>5. \A j \in 1 .. (L - 1) : \E m \in 1 .. L \ {k} : m_destroyEvents'[j] = m_destroyEvents[m]
  <2> SUFFICES ASSUME NEW j \in 1 .. (L - 1)
               PROVE  \E m \in 1 .. L \ {k} : m_destroyEvents'[j] = m_destroyEvents[m]
    OBVIOUS
  <2>1. CASE j < k
    <3>1. j \in 1 .. L \ {k}
      BY <1>3, <2>1
    <3> QED
      BY <1>4, <2>1, <3>1
  <2>2. CASE j >= k
    <3>1. j + 1 \in 1 .. L \ {k}
      BY <1>3, <2>2
    <3> QED
      BY <1>4, <2>2, <3>1
  <2> QED
    BY <1>3, <2>1, <2>2
<1>6. \A m \in 1 .. L \ {k} : \E j \in 1 .. (L - 1) : m_destroyEvents'[j] = m_destroyEvents[m]
  <2> SUFFICES ASSUME NEW m \in 1 .. L, m # k
               PROVE  \E j \in 1 .. (L - 1) : m_destroyEvents'[j] = m_destroyEvents[m]
    OBVIOUS
  <2>1. CASE m < k
    <3>1. m \in 1 .. (L - 1)
      BY <1>3, <2>1
    <3> QED
      BY <1>4, <2>1, <3>1
  <2>2. CASE m > k
    <3>1. m - 1 \in 1 .. (L - 1) /\ m - 1 >= k /\ (m - 1) + 1 = m
      BY <1>3, <2>2
    <3>2. m_destroyEvents'[m - 1] = m_destroyEvents[m]
      BY <1>4, <3>1
    <3> QED
      BY <3>1, <3>2
  <2> QED
    BY <1>3, <2>1, <2>2
<1>7. Known'
  <2>1. \A j \in DOMAIN m_destroyEvents' : m_destroyEvents'[j].impl <= allocated
    BY <1>4, <1>5 DEF Known
  <2> QED
    BY <1>2, <2>1 DEF Known
<1>8. HeldOnce'
  <2>1. \A i, j \in DOMAIN m_destroyEvents' :
           m_destroyEvents'[i].impl = m_destroyEvents'[j].impl => i = j
    <3> SUFFICES ASSUME NEW i \in 1 .. (L - 1), NEW j \in 1 .. (L - 1),
                        m_destroyEvents'[i].impl = m_destroyEvents'[j].impl
                 PROVE  i = j
      BY <1>4
    <3> DEFINE At(n) == IF n < k THEN n ELSE n + 1
    <3>1. /\ At(i) \in DOMAIN m_destroyEvents /\ At(j) \in DOMAIN m_destroyEvents
          /\ m_destroyEvents'[i] = m_destroyEvents[At(i)]
          /\ m_destroyEvents'[j] = m_destroyEvents[At(j)]
      BY <1>1, <1>3
    <3>2. At(i) = At(j)
      BY <3>1 DEF HeldOnce
    <3> QED
      BY <1>3, <3>2
  <2> QED
    BY <1>2, <2>1 DEF HeldOnce, InPosts
<1>9. Counts'
  <2> SUFFICES ASSUME NEW i \in 1 .. allocated
               PROVE  refs'[i] = One(InEvents(i)') + One(InDestroy(i)')
                                 + One(InPosts(i)') + One(running' = i) + One(HasId(i)')
    BY <1>2 DEF Counts
  <2>1. /\ InEvents(i)' = InEvents(i) /\ InPosts(i)' = InPosts(i)
        /\ HasId(i)' = HasId(i)
    BY <1>2 DEF InEvents, InPosts, HasId
  <2>2. InDestroy(i)' <=> \E m \in 1 .. L \ {k} : m_destroyEvents[m].impl = i
    <3>1. InDestroy(i)' <=> \E j \in 1 .. (L - 1) : m_destroyEvents'[j].impl = i
      BY <1>4 DEF InDestroy
    <3> QED
      BY <1>5, <1>6, <3>1
  <2>3. InDestroy(i)' <=> InDestroy(i) /\ i # id.impl
    BY <1>1, <2>2 DEF InDestroy, HeldOnce
  <2>4. i = id.impl => InDestroy(i)
    BY <1>1 DEF InDestroy
  <2>5. refs'[i] = IF i = id.impl THEN refs[i] - 1 ELSE refs[i]
    BY <1>2 DEF Impls
  <2>6. /\ refs[i] = One(InEvents(i)) + One(InDestroy(i)) + One(InPosts(i))
                      + One(running = i) + One(HasId(i))
        /\ running' = running
    BY <1>2 DEF Counts
  <2> QED
    <3>1. CASE i = id.impl
      BY <2>1, <2>3, <2>4, <2>5, <2>6, <3>1 DEF One
    <3>2. CASE i # id.impl
      <4>1. One(InDestroy(i)') = One(InDestroy(i))
        BY <2>3, <3>2 DEF One
      <4>2. refs'[i] = refs[i]
        BY <2>5, <3>2
      <4> QED
        BY <2>1, <2>6, <4>1, <4>2
    <3> QED
      BY <3>1, <3>2
<1> QED
  BY <1>7, <1>8, <1>9

(* What was queued is on the stack. *)
LEMMA ProcessOneEventOwned ==
  ASSUME TypeOK, Owned, ProcessOneEvent
  PROVE  Known' /\ HeldOnce' /\ Counts'
<1> USE HeldTypes DEF Owned
<1>1. PICK e \in m_events : m_events' = m_events \ {e} /\ running' = e.impl
  BY DEF ProcessOneEvent
<1>2. /\ running = 0
      /\ UNCHANGED <<m_destroyEvents, m_eventsWithContext, allocated, refs, ids>>
  BY DEF ProcessOneEvent, RunsInHandler, shared
<1>3. Known' /\ HeldOnce'
  BY <1>1, <1>2 DEF Known, HeldOnce, InPosts
<1>4. Counts'
  <2> SUFFICES ASSUME NEW i \in 1 .. allocated
               PROVE  refs[i] = One(InEvents(i)') + One(InDestroy(i)')
                                + One(InPosts(i)') + One(running' = i) + One(HasId(i)')
    BY <1>2 DEF Counts
  <2>1. /\ InDestroy(i)' = InDestroy(i) /\ InPosts(i)' = InPosts(i)
        /\ HasId(i)' = HasId(i)
    BY <1>2 DEF InDestroy, InPosts, HasId
  <2>2. InEvents(i)' <=> InEvents(i) /\ i # e.impl
    BY <1>1 DEF InEvents, HeldOnce
  <2>3. i = e.impl => InEvents(i)
    BY DEF InEvents
  <2> QED
    BY <1>1, <1>2, <2>1, <2>2, <2>3 DEF Counts, One
<1> QED
  BY <1>3, <1>4

LEMMA DestroyOneOwned ==
  ASSUME TypeOK, Owned, DestroyOne
  PROVE  Known' /\ HeldOnce' /\ Counts'
<1> DEFINE L == Len(m_destroyEvents)
           h == m_destroyEvents[1]
<1> USE HeldTypes DEF Owned
<1>1. /\ m_destroyEvents # <<>>
      /\ m_destroyEvents' = Tail(m_destroyEvents)
      /\ running' = Head(m_destroyEvents).impl
      /\ running = 0
      /\ UNCHANGED <<m_events, m_eventsWithContext, allocated, refs, ids>>
  BY DEF DestroyOne, RunsInHandler, queue, shared
<1>2. /\ L >= 1
      /\ Head(m_destroyEvents) = h
      /\ DOMAIN m_destroyEvents' = 1 .. (L - 1)
      /\ \A k \in 1 .. (L - 1) : m_destroyEvents'[k] = m_destroyEvents[k + 1]
  BY <1>1, HeadTailProperties DEF TypeOK
<1>3. /\ 1 \in DOMAIN m_destroyEvents /\ running' = h.impl
      /\ \A k \in 1 .. (L - 1) : k + 1 \in DOMAIN m_destroyEvents /\ k + 1 # 1
      /\ \A k \in DOMAIN m_destroyEvents : k # 1 => k - 1 \in 1 .. (L - 1) /\ (k - 1) + 1 = k
  BY <1>1, <1>2
<1>4. Known'
  BY <1>1, <1>2, <1>3 DEF Known
<1>5. HeldOnce'
  <2>1. \A j, k \in DOMAIN m_destroyEvents' :
           m_destroyEvents'[j].impl = m_destroyEvents'[k].impl => j = k
    <3> SUFFICES ASSUME NEW j \in 1 .. (L - 1), NEW k \in 1 .. (L - 1),
                        m_destroyEvents'[j].impl = m_destroyEvents'[k].impl
                 PROVE  j = k
      BY <1>2
    <3>1. j + 1 = k + 1
      BY <1>2, <1>3 DEF HeldOnce
    <3> QED
      BY <3>1
  <2> QED
    BY <1>1, <2>1 DEF HeldOnce, InPosts
<1>6. Counts'
  <2> SUFFICES ASSUME NEW i \in 1 .. allocated
               PROVE  refs[i] = One(InEvents(i)') + One(InDestroy(i)')
                                + One(InPosts(i)') + One(running' = i) + One(HasId(i)')
    BY <1>1 DEF Counts
  <2>1. /\ InEvents(i)' = InEvents(i) /\ InPosts(i)' = InPosts(i)
        /\ HasId(i)' = HasId(i)
    BY <1>1 DEF InEvents, InPosts, HasId
  <2>2. InDestroy(i)' <=> \E k \in DOMAIN m_destroyEvents : k # 1 /\ m_destroyEvents[k].impl = i
    <3>1. InDestroy(i)' => \E k \in DOMAIN m_destroyEvents : k # 1 /\ m_destroyEvents[k].impl = i
      <4> HAVE InDestroy(i)'
      <4>1. PICK k \in DOMAIN m_destroyEvents' : m_destroyEvents'[k].impl = i
        BY DEF InDestroy
      <4>2. k \in 1 .. (L - 1) /\ L \in Nat
        BY <1>2, <4>1
      <4>3. k + 1 \in 1 .. L /\ k + 1 # 1
        BY ONLY <4>2
      <4>4. m_destroyEvents'[k] = m_destroyEvents[k + 1]
        BY <1>2, <4>2
      <4> QED
        BY <4>1, <4>3, <4>4
    <3>2. ASSUME NEW k \in DOMAIN m_destroyEvents, k # 1, m_destroyEvents[k].impl = i
          PROVE  InDestroy(i)'
      <4>1. k - 1 \in DOMAIN m_destroyEvents' /\ m_destroyEvents'[k - 1].impl = i
        BY <1>2, <1>3, <3>2
      <4> QED
        BY <4>1 DEF InDestroy
    <3> QED
      BY <3>1, <3>2
  <2>3. InDestroy(i)' <=> InDestroy(i) /\ i # h.impl
    BY <1>3, <2>2 DEF InDestroy, HeldOnce
  <2>4. i = h.impl => InDestroy(i)
    BY <1>3 DEF InDestroy
  <2> QED
    BY <1>1, <1>3, <2>1, <2>3, <2>4 DEF Counts, One
<1> QED
  BY <1>4, <1>5, <1>6

(* The handler is over: the Unref of what was on the stack. *)
LEMMA ReturnsOwned ==
  ASSUME TypeOK, Owned, HandlerReturns \/ DestroyReturns
  PROVE  Known' /\ HeldOnce' /\ Counts'
<1> USE HeldTypes DEF Owned
<1>1. /\ refs' = [refs EXCEPT ![running] = @ - 1]
      /\ running' = 0
      /\ UNCHANGED <<m_events, m_destroyEvents, m_eventsWithContext, allocated, ids>>
  BY DEF HandlerReturns, DestroyReturns, queue, shared
<1>2. Known' /\ HeldOnce'
  BY <1>1 DEF Known, HeldOnce, InPosts
<1>3. Counts'
  <2> SUFFICES ASSUME NEW i \in 1 .. allocated
               PROVE  refs'[i] = One(InEvents(i)') + One(InDestroy(i)')
                                 + One(InPosts(i)') + One(running' = i) + One(HasId(i)')
    BY <1>1 DEF Counts
  <2>1. /\ InEvents(i)' = InEvents(i) /\ InDestroy(i)' = InDestroy(i)
        /\ InPosts(i)' = InPosts(i) /\ HasId(i)' = HasId(i)
    BY <1>1 DEF InEvents, InDestroy, InPosts, HasId
  <2>2. refs'[i] = IF i = running THEN refs[i] - 1 ELSE refs[i]
    BY <1>1 DEF Impls
  <2>3. running' # i
    BY <1>1
  <2> QED
    BY <2>1, <2>2, <2>3 DEF Counts, One
<1> QED
  BY <1>2, <1>3

(* What was posted is queued, and no list but the queue holds it. *)
LEMMA DrainOwned ==
  ASSUME TypeOK, Owned, DrainEventsWithContext
  PROVE  Known' /\ HeldOnce' /\ Counts'
<1> DEFINE n == Len(m_eventsWithContext)
           P == {Posted(k) : k \in 1 .. n}
<1> USE HeldTypes DEF Owned
<1>1. /\ m_events' = m_events \cup P
      /\ m_eventsWithContext' = <<>>
      /\ UNCHANGED <<m_destroyEvents, running, allocated, refs, ids>>
  BY DEF DrainEventsWithContext, objs
<1>2. \A k \in 1 .. n : Posted(k).impl = m_eventsWithContext[k].impl
  BY DEF Posted
<1>3. DOMAIN m_eventsWithContext' = {}
  BY <1>1
<1>4. \A p \in P : \E k \in 1 .. n : p = Posted(k) /\ p.impl = m_eventsWithContext[k].impl
  BY <1>2
<1>5. \A k \in 1 .. n : \E p \in P : p.impl = m_eventsWithContext[k].impl
  BY <1>2
<1> HIDE DEF P
<1>6. Known'
  <2>1. \A p \in P : p.impl <= allocated
    BY <1>4 DEF Known
  <2> QED
    BY <1>1, <1>3, <2>1 DEF Known
<1>7. HeldOnce'
  <2>1. ASSUME NEW p \in P, NEW q \in P, p.impl = q.impl PROVE p = q
    BY <1>4, <2>1 DEF HeldOnce
  <2>2. ASSUME NEW e \in m_events, NEW p \in P PROVE e.impl # p.impl
    BY <1>4 DEF HeldOnce, InPosts
  <2>3. \A e, f \in m_events' : e.impl = f.impl => e = f
    BY <1>1, <2>1, <2>2 DEF HeldOnce
  <2>4. \A e \in m_events' : ~InPosts(e.impl)'
    BY <1>3 DEF InPosts
  <2> QED
    BY <1>1, <1>3, <2>3, <2>4 DEF HeldOnce
<1>8. Counts'
  <2> SUFFICES ASSUME NEW i \in 1 .. allocated
               PROVE  refs[i] = One(InEvents(i)') + One(InDestroy(i)')
                                + One(InPosts(i)') + One(running = i) + One(HasId(i)')
    BY <1>1 DEF Counts
  <2>1. /\ InDestroy(i)' = InDestroy(i) /\ HasId(i)' = HasId(i)
        /\ ~InPosts(i)'
    BY <1>1, <1>3 DEF InDestroy, InPosts, HasId
  <2>2. InEvents(i)' <=> InEvents(i) \/ InPosts(i)
    <3>1. InPosts(i) <=> \E p \in P : p.impl = i
      <4>1. DOMAIN m_eventsWithContext = 1 .. n
        OBVIOUS
      <4>2. InPosts(i) => \E p \in P : p.impl = i
        BY <1>5, <4>1 DEF InPosts
      <4>3. ASSUME NEW p \in P, p.impl = i PROVE InPosts(i)
        BY <1>4, <4>1, <4>3 DEF InPosts
      <4> QED
        BY <4>2, <4>3
    <3> QED
      BY <1>1, <3>1 DEF InEvents
  <2>3. ~(InEvents(i) /\ InPosts(i))
    BY DEF InEvents, HeldOnce
  <2>4. One(InEvents(i)') + One(InPosts(i)') = One(InEvents(i)) + One(InPosts(i))
    BY <2>1, <2>2, <2>3 DEF One
  <2>5. refs[i] = One(InEvents(i)) + One(InDestroy(i)) + One(InPosts(i))
                  + One(running = i) + One(HasId(i))
    BY DEF Counts
  <2> QED
    BY <2>1, <2>4, <2>5 DEF One
<1> QED
  BY <1>6, <1>7, <1>8

LEMMA DisposeEventsOwned ==
  ASSUME TypeOK, Owned, DisposeEvents
  PROVE  Known' /\ HeldOnce' /\ Counts'
<1> USE HeldTypes DEF Owned
<1>1. /\ m_events' = {}
      /\ refs' = [i \in Impls |-> IF InEvents(i) THEN refs[i] - 1 ELSE refs[i]]
      /\ UNCHANGED <<m_destroyEvents, m_eventsWithContext, running, allocated, ids>>
  BY DEF DisposeEvents, InEvents, shared
<1>2. Known' /\ HeldOnce'
  BY <1>1 DEF Known, HeldOnce, InPosts
<1>3. Counts'
  <2> SUFFICES ASSUME NEW i \in 1 .. allocated
               PROVE  refs'[i] = One(InEvents(i)') + One(InDestroy(i)')
                                 + One(InPosts(i)') + One(running' = i) + One(HasId(i)')
    BY <1>1 DEF Counts
  <2>1. /\ ~InEvents(i)' /\ InDestroy(i)' = InDestroy(i)
        /\ InPosts(i)' = InPosts(i) /\ HasId(i)' = HasId(i) /\ running' = running
    BY <1>1 DEF InEvents, InDestroy, InPosts, HasId
  <2>2. refs'[i] = IF InEvents(i) THEN refs[i] - 1 ELSE refs[i]
    BY <1>1 DEF Impls
  <2> QED
    BY <2>1, <2>2 DEF Counts, One
<1> QED
  BY <1>2, <1>3

LEMMA NextRunsInHandler ==
  ASSUME RunsInHandler, [Next]_vars
  PROVE  RunsInHandler'
<1> USE DEF RunsInHandler
<1>1. CASE UNCHANGED <<pc, running>>
  BY <1>1
<1>2. CASE Run \/ StartLoop \/ RunReturns \/ ProcessOneEvent \/ HandlerReturns
           \/ PollEmpty \/ PollNonEmpty \/ DrainEventsWithContext
  BY <1>2 DEF Run, StartLoop, RunReturns, ProcessOneEvent, HandlerReturns,
              PollEmpty, PollNonEmpty, DrainEventsWithContext
<1>3. CASE Teardown
  BY <1>3 DEF Teardown, Destroy, DestroyOne, DestroyReturns, Dispose, DisposeEvents
<1> HIDE DEF RunsInHandler
<1> QED
  <2>1. ASSUME NEW d \in Delays, Schedule(d) \/ ScheduleWithContext(d)
        PROVE  UNCHANGED <<pc, running>>
    BY <2>1 DEF Schedule, ScheduleWithContext, flow
  <2>2. ASSUME NEW id \in ids, Cancel(id) \/ Remove(id) PROVE UNCHANGED <<pc, running>>
    BY <2>2 DEF Cancel, Remove, RemoveDestroy, RemoveEvent, flow
  <2>3. ASSUME ScheduleDestroy \/ Stop \/ Post \/ UNCHANGED vars
        PROVE  UNCHANGED <<pc, running>>
    BY <2>3 DEF ScheduleDestroy, Stop, Post, PostLock, PostUnlock, vars, flow
  <2> QED
    BY <1>1, <1>2, <1>3, <2>1, <2>2, <2>3 DEF Next, Call, Loop

LEMMA NextOwned ==
  ASSUME NoWrap, IInv, Owned, [Next]_vars
  PROVE  Owned'
<1>1. TypeOK /\ RunsInHandler
  BY DEF IInv, Owned
<1>2. ASSUME PlacesKept PROVE Known' /\ HeldOnce' /\ Counts'
  <2>1. Known'
    BY <1>2 DEF PlacesKept, Owned, Known
  <2>2. HeldOnce'
    BY <1>2 DEF PlacesKept, Owned, HeldOnce, InPosts
  <2>3. Counts'
    <3>1. /\ \A i : /\ InEvents(i)' = InEvents(i) /\ InDestroy(i)' = InDestroy(i)
                    /\ InPosts(i)' = InPosts(i) /\ HasId(i)' = HasId(i)
          /\ UNCHANGED <<running, allocated, refs>>
      BY <1>2 DEF PlacesKept, InEvents, InDestroy, InPosts, HasId
    <3> QED
      BY <3>1 DEF Owned, Counts
  <2> QED
    BY <2>1, <2>2, <2>3
<1>3. Known' /\ HeldOnce' /\ Counts'
  BY <1>1, <1>2, MovingSteps, NewEventOwned, ScheduleDestroyOwned, PostLockOwned,
     RemoveEventOwned, RemoveDestroyOwned, ProcessOneEventOwned, DestroyOneOwned,
     ReturnsOwned, DrainOwned, DisposeEventsOwned
<1> QED
  BY <1>1, <1>3, NextRunsInHandler DEF Owned

(* What is held once counts for one. *)
LEMMA HoldersAreOnes ==
  ASSUME HeldOnce, NEW i
  PROVE  Holders(i) = One(InEvents(i)) + One(InDestroy(i)) + One(InPosts(i))
                      + One(running = i)
<1>1. ASSUME NEW S, \A x, y \in S : x = y
      PROVE  Cardinality(S) = One(S # {})
  <2>1. CASE S = {}
    BY <2>1, FS_EmptySet DEF One
  <2>2. CASE S # {}
    <3>1. PICK x : S = {x}
      BY <1>1, <2>2
    <3> QED
      BY <3>1, FS_Singleton DEF One
  <2> QED
    BY <2>1, <2>2
<1> DEFINE E == {e \in m_events : e.impl = i}
           D == {k \in DOMAIN m_destroyEvents : m_destroyEvents[k].impl = i}
           W == {k \in DOMAIN m_eventsWithContext : m_eventsWithContext[k].impl = i}
<1>2. /\ \A x, y \in E : x = y
      /\ \A x, y \in D : x = y
      /\ \A x, y \in W : x = y
  BY DEF HeldOnce
<1>3. /\ E # {} <=> InEvents(i)
      /\ D # {} <=> InDestroy(i)
      /\ W # {} <=> InPosts(i)
  BY DEF InEvents, InDestroy, InPosts
<1>4. Holders(i) = Cardinality(E) + Cardinality(D) + Cardinality(W) + One(running = i)
  BY DEF Holders, One
<1> HIDE DEF E, D, W
<1>5. /\ Cardinality(E) = One(InEvents(i))
      /\ Cardinality(D) = One(InDestroy(i))
      /\ Cardinality(W) = One(InPosts(i))
  BY <1>1, <1>2, <1>3 DEF One
<1> QED
  BY <1>4, <1>5

(* Every impl has one reference for each place that holds it and one for its  *)
(* EventId, so nothing is released while it is held nor kept for ever.        *)
THEOREM RefsAreExact == ASSUME NoWrap PROVE Spec => []RefsExact
<1>1. Init => Owned
  BY DEF Init, Owned, Known, HeldOnce, RunsInHandler, Counts, InPosts
<1>2. IInv /\ Owned /\ [Next]_vars => Owned'
  BY NextOwned
<1>3. Owned => RefsExact
  <2> SUFFICES ASSUME Owned, NEW i \in 1 .. allocated
               PROVE  refs[i] = Holders(i) + IF HasId(i) THEN 1 ELSE 0
    BY DEF RefsExact, HasId
  <2>1. refs[i] = One(InEvents(i)) + One(InDestroy(i)) + One(InPosts(i))
                  + One(running = i) + One(HasId(i))
    BY DEF Owned, Counts
  <2> QED
    BY <2>1, HoldersAreOnes DEF Owned, One
<1>4. Spec => []IInv
  BY Invariance
<1> QED
  BY <1>1, <1>2, <1>3, <1>4, PTL DEF Spec

-------------------------------------------------------------------------------
(* The EventId of an impl that is held is the one under which it is held, and *)
(* what threads post has none.                                                *)
Named ==
    /\ \A id \in ids : \A e \in m_events : id.impl = e.impl => id = e
    /\ \A id \in ids : \A k \in DOMAIN m_destroyEvents :
          id.impl = m_destroyEvents[k].impl => id = m_destroyEvents[k]
    /\ \A id \in ids : ~InPosts(id.impl)

(* Destroy events only leave their list, but for the one just allocated.      *)
LEMMA ListedBefore ==
  ASSUME TypeOK, [Next]_vars, NEW j \in DOMAIN m_destroyEvents'
  PROVE  \/ m_destroyEvents'[j] \in ids' /\ m_destroyEvents'[j].impl = allocated + 1
            /\ ScheduleDestroy
         \/ \E k \in DOMAIN m_destroyEvents : m_destroyEvents'[j] = m_destroyEvents[k]
<1> USE HeldTypes
<1>1. CASE ScheduleDestroy
  <2> DEFINE id == [ts |-> m_currentTs, uid |-> DESTROY, impl |-> allocated + 1]
  <2>1. m_destroyEvents' = Append(m_destroyEvents, id) /\ id \in ids'
    BY <1>1 DEF ScheduleDestroy
  <2>2. id.impl = allocated + 1
    OBVIOUS
  <2> HIDE DEF id
  <2>3. /\ DOMAIN m_destroyEvents' = 1 .. (Len(m_destroyEvents) + 1)
        /\ m_destroyEvents'[Len(m_destroyEvents) + 1] = id
        /\ \A k \in 1 .. Len(m_destroyEvents) : m_destroyEvents'[k] = m_destroyEvents[k]
    BY <2>1 DEF TypeOK
  <2> QED
    BY <1>1, <2>1, <2>2, <2>3
<1>2. ASSUME NEW id \in ids, RemoveDestroy(id)
      PROVE  \E k \in DOMAIN m_destroyEvents : m_destroyEvents'[j] = m_destroyEvents[k]
  <2>1. PICK k \in DOMAIN m_destroyEvents :
           m_destroyEvents' = [i \in 1 .. (Len(m_destroyEvents) - 1) |->
                 m_destroyEvents[IF i < k THEN i ELSE i + 1]]
    BY <1>2 DEF RemoveDestroy
  <2>2. j \in 1 .. (Len(m_destroyEvents) - 1)
    BY <2>1
  <2>3. (IF j < k THEN j ELSE j + 1) \in DOMAIN m_destroyEvents
    BY <2>1, <2>2
  <2> QED
    BY <2>1, <2>2, <2>3
<1>3. CASE DestroyOne
  <2>1. m_destroyEvents' = Tail(m_destroyEvents) /\ m_destroyEvents # <<>>
    BY <1>3 DEF DestroyOne
  <2>2. j + 1 \in DOMAIN m_destroyEvents /\ m_destroyEvents'[j] = m_destroyEvents[j + 1]
    BY <2>1, HeadTailProperties DEF TypeOK
  <2> QED
    BY <2>2
<1>4. CASE UNCHANGED m_destroyEvents
  BY <1>4
<1> QED
  <2>1. ASSUME NEW d \in Delays, Schedule(d) \/ ScheduleWithContext(d)
        PROVE  UNCHANGED m_destroyEvents
    BY <2>1 DEF Schedule, ScheduleWithContext
  <2>2. ASSUME NEW id \in ids, RemoveEvent(id) PROVE UNCHANGED m_destroyEvents
    BY <2>2 DEF RemoveEvent
  <2>3. ASSUME PlacesKept \/ ProcessOneEvent \/ HandlerReturns \/ DestroyReturns
               \/ DrainEventsWithContext \/ DisposeEvents
        PROVE  UNCHANGED m_destroyEvents
    BY <2>3 DEF PlacesKept, ProcessOneEvent, HandlerReturns, DestroyReturns,
                DrainEventsWithContext, DisposeEvents
  <2>4. ASSUME NEW t \in Threads, NEW d \in Delays, PostLock(t, d)
        PROVE  UNCHANGED m_destroyEvents
    BY <2>4 DEF PostLock
  <2> QED
    BY MovingSteps, <1>1, <1>2, <1>3, <1>4, <2>1, <2>2, <2>3, <2>4

LEMMA NextNamed ==
  ASSUME TypeOK, Owned, Named, [Next]_vars
  PROVE  Named'
<1> USE HeldTypes
<1> DEFINE NewNamed == /\ \A id \in ids' : \A e \in m_events' : id.impl = e.impl => id = e
                       /\ \A id \in ids' : ~InPosts(id.impl)'
<1>1. ASSUME NEW d \in Delays, Schedule(d) \/ ScheduleWithContext(d) PROVE NewNamed
  <2> DEFINE e == [ts |-> m_currentTs + d, uid |-> m_uid, impl |-> allocated + 1]
  <2>1. /\ m_events' = m_events \cup {e} /\ ids' \subseteq ids \cup {e}
        /\ UNCHANGED m_eventsWithContext
    BY <1>1 DEF Schedule, ScheduleWithContext, InsertNew, shared
  <2>2. e.impl = allocated + 1
    OBVIOUS
  <2> HIDE DEF e
  <2>3. ~InPosts(e.impl)
    BY <2>2 DEF Owned, Known, InPosts
  <2> QED
    BY <2>1, <2>2, <2>3 DEF Named, Owned, Known, InPosts
<1>2. ASSUME ScheduleDestroy PROVE NewNamed
  <2> DEFINE n == [ts |-> m_currentTs, uid |-> DESTROY, impl |-> allocated + 1]
  <2>1. ids' = ids \cup {n} /\ UNCHANGED <<m_events, m_eventsWithContext>>
    BY <1>2 DEF ScheduleDestroy, shared
  <2>2. n.impl = allocated + 1
    OBVIOUS
  <2> HIDE DEF n
  <2> QED
    BY <2>1, <2>2 DEF Named, Owned, Known, InPosts
<1>3. ASSUME NEW t \in Threads, NEW d \in Delays, PostLock(t, d) PROVE NewNamed
  <2> DEFINE ev == [delay |-> d, impl |-> allocated + 1]
             L  == Len(m_eventsWithContext)
  <2>1. /\ m_eventsWithContext' = Append(m_eventsWithContext, ev)
        /\ UNCHANGED <<m_events, ids>>
    BY <1>3 DEF PostLock, queue
  <2>2. ev.impl = allocated + 1
    OBVIOUS
  <2> HIDE DEF ev
  <2>3. /\ DOMAIN m_eventsWithContext' = 1 .. (L + 1)
        /\ m_eventsWithContext'[L + 1] = ev
        /\ \A k \in 1 .. L : m_eventsWithContext'[k] = m_eventsWithContext[k]
    BY <2>1 DEF TypeOK, SharedType
  <2>4. \A i : InPosts(i)' <=> InPosts(i) \/ i = allocated + 1
    <3>1. /\ DOMAIN m_eventsWithContext = 1 .. L
          /\ DOMAIN m_eventsWithContext' = (1 .. L) \cup {L + 1}
      BY <2>3
    <3> HIDE DEF L
    <3> QED
      BY ONLY <2>2, <2>3, <3>1 DEF InPosts
  <2> QED
    BY <2>1, <2>4 DEF Named, Owned, Known
<1>4. ASSUME DrainEventsWithContext PROVE NewNamed
  <2>1. /\ m_events' = m_events \cup {Posted(k) : k \in 1 .. Len(m_eventsWithContext)}
        /\ m_eventsWithContext' = <<>>
        /\ UNCHANGED ids
    BY <1>4 DEF DrainEventsWithContext, objs
  <2>2. ASSUME NEW k \in 1 .. Len(m_eventsWithContext), NEW id \in ids
        PROVE  id.impl # Posted(k).impl
    BY DEF Posted, Named, InPosts
  <2>3. \A i : ~InPosts(i)'
    BY <2>1 DEF InPosts
  <2> QED
    BY <2>1, <2>2, <2>3 DEF Named
<1>5. ASSUME m_events' \subseteq m_events, UNCHANGED <<m_eventsWithContext, ids>>
      PROVE  NewNamed
  BY <1>5 DEF Named, InPosts
<1>6. NewNamed
  <2>1. ASSUME NEW id \in ids, RemoveDestroy(id) \/ RemoveEvent(id)
        PROVE  m_events' \subseteq m_events /\ UNCHANGED <<m_eventsWithContext, ids>>
    BY <2>1 DEF RemoveDestroy, RemoveEvent, queue, shared
  <2>2. ASSUME PlacesKept \/ ProcessOneEvent \/ HandlerReturns \/ DestroyOne
               \/ DestroyReturns \/ DisposeEvents
        PROVE  m_events' \subseteq m_events /\ UNCHANGED <<m_eventsWithContext, ids>>
    BY <2>2 DEF PlacesKept, ProcessOneEvent, HandlerReturns, DestroyOne,
                DestroyReturns, DisposeEvents, queue, shared
  <2> HIDE DEF NewNamed
  <2> QED
    BY MovingSteps, <1>1, <1>2, <1>3, <1>4, <1>5, <2>1, <2>2
<1>7. ASSUME NEW id \in ids', NEW j \in DOMAIN m_destroyEvents',
             id.impl = m_destroyEvents'[j].impl
      PROVE  id = m_destroyEvents'[j]
  <2>1. id \in ids \/ id.impl = allocated + 1
    <3>1. ASSUME NEW d \in Delays, Schedule(d) \/ ScheduleWithContext(d)
          PROVE  id \in ids \/ id.impl = allocated + 1
      BY <3>1 DEF Schedule, ScheduleWithContext
    <3>2. CASE ScheduleDestroy
      BY <3>2 DEF ScheduleDestroy
    <3>3. ASSUME NEW i \in ids, RemoveDestroy(i) \/ RemoveEvent(i) PROVE id \in ids
      BY <3>3 DEF RemoveDestroy, RemoveEvent
    <3>4. ASSUME NEW t \in Threads, NEW d \in Delays, PostLock(t, d) PROVE id \in ids
      BY <3>4 DEF PostLock
    <3>5. ASSUME PlacesKept \/ ProcessOneEvent \/ HandlerReturns \/ DestroyOne
                 \/ DrainEventsWithContext \/ DestroyReturns \/ DisposeEvents
          PROVE  id \in ids
      BY <3>5 DEF PlacesKept, ProcessOneEvent, HandlerReturns, DestroyOne,
                  DrainEventsWithContext, DestroyReturns, DisposeEvents, objs
    <3> QED
      BY MovingSteps, <3>1, <3>2, <3>3, <3>4, <3>5
  <2>2. CASE \E k \in DOMAIN m_destroyEvents : m_destroyEvents'[j] = m_destroyEvents[k]
    <3>1. id \in ids
      BY <1>7, <2>1, <2>2 DEF Owned, Known
    <3> QED
      BY <1>7, <2>2, <3>1 DEF Named
  <2>3. CASE m_destroyEvents'[j].impl = allocated + 1 /\ ScheduleDestroy
    <3> DEFINE n == [ts |-> m_currentTs, uid |-> DESTROY, impl |-> allocated + 1]
               L == Len(m_destroyEvents)
    <3>1. ids' = ids \cup {n} /\ m_destroyEvents' = Append(m_destroyEvents, n)
      BY <2>3 DEF ScheduleDestroy
    <3> HIDE DEF n
    <3>2. id = n
      BY <1>7, <2>3, <3>1 DEF Owned, Known
    <3>3. /\ DOMAIN m_destroyEvents' = 1 .. (L + 1)
          /\ m_destroyEvents'[L + 1] = n
          /\ \A k \in 1 .. L : m_destroyEvents'[k] = m_destroyEvents[k]
      BY <3>1 DEF TypeOK
    <3>4. j = L + 1
      BY <2>3, <3>3 DEF Owned, Known
    <3> QED
      BY <3>2, <3>3, <3>4
  <2> QED
    BY <2>2, <2>3, ListedBefore
<1> QED
  BY <1>6, <1>7 DEF Named

(* Time moves, and handlers are notified, only where an event is taken. *)
LEMMA TakingSteps ==
  ASSUME [Next]_vars
  PROVE  /\ ProcessOneEvent \/ UNCHANGED <<m_currentTs, m_currentUid>>
         /\ ProcessOneEvent \/ DestroyOne \/ UNCHANGED ran
         /\ m_cancel \subseteq m_cancel'
<1> DEFINE Kept == UNCHANGED <<m_currentTs, m_currentUid, ran>> /\ m_cancel \subseteq m_cancel'
<1>1. ASSUME NEW d \in Delays, Schedule(d) \/ ScheduleWithContext(d) PROVE Kept
  BY <1>1 DEF Schedule, ScheduleWithContext, InsertNew
<1>2. ASSUME NEW id \in ids, Cancel(id) \/ Remove(id) PROVE Kept
  BY <1>2 DEF Cancel, Remove, RemoveDestroy, RemoveEvent, queue
<1>3. ASSUME ScheduleDestroy \/ Stop PROVE Kept
  BY <1>3 DEF ScheduleDestroy, Stop, queue, objs
<1>4. ASSUME Run \/ StartLoop \/ RunReturns \/ HandlerReturns \/ PollEmpty
             \/ PollNonEmpty \/ DrainEventsWithContext
      PROVE  Kept
  BY <1>4 DEF Run, StartLoop, RunReturns, HandlerReturns, PollEmpty,
              PollNonEmpty, DrainEventsWithContext, queue, objs
<1>5. ASSUME Destroy \/ DestroyReturns \/ Dispose \/ DisposeEvents PROVE Kept
  BY <1>5 DEF Destroy, DestroyReturns, Dispose, DisposeEvents, queue, objs
<1>6. ASSUME Post \/ UNCHANGED vars PROVE Kept
  BY <1>6 DEF Post, PostLock, PostUnlock, vars, queue, objs
<1>7. ASSUME DestroyOne
      PROVE  UNCHANGED <<m_currentTs, m_currentUid>> /\ m_cancel \subseteq m_cancel'
  BY <1>7 DEF DestroyOne, queue
<1>8. ASSUME ProcessOneEvent PROVE m_cancel \subseteq m_cancel'
  BY <1>8 DEF ProcessOneEvent
<1>9. ASSUME Kept
      PROVE  /\ UNCHANGED <<m_currentTs, m_currentUid>> /\ UNCHANGED ran
             /\ m_cancel \subseteq m_cancel'
  BY <1>9
<1> HIDE DEF Kept
<1> QED
  BY <1>1, <1>2, <1>3, <1>4, <1>5, <1>6, <1>7, <1>8, <1>9 DEF Next, Call, Loop, Teardown

LEMMA ExpiredStays ==
  ASSUME NoWrap, IInv, Owned, [Next]_vars, NEW id \in ids, IsExpired(id)
  PROVE  IsExpired(id)'
<1> USE HeldTypes DEF IInv
<1>1. m_cancel \subseteq m_cancel'
  BY TakingSteps
<1>2. CASE id.uid = DESTROY
  <2> SUFFICES ASSUME id.impl \notin m_cancel', NEW j \in DOMAIN m_destroyEvents',
                      m_destroyEvents'[j] = id
               PROVE  FALSE
    BY <1>2 DEF IsExpired, IsListed
  <2>1. id.impl \notin m_cancel /\ \A k \in DOMAIN m_destroyEvents : m_destroyEvents[k] # id
    BY <1>1, <1>2 DEF IsExpired, IsListed
  <2>2. id.impl <= allocated
    BY DEF Owned, Known
  <2> QED
    BY <2>1, <2>2, ListedBefore
<1>3. CASE id.uid # DESTROY
  <2>1. /\ m_currentTs \in Nat /\ m_currentUid \in Nat
        /\ id.ts \in Nat /\ id.uid \in Nat
        /\ \A e \in m_events : e.ts \in Nat /\ e.uid \in Nat
    BY KeyTypes
  <2>2. CASE id.impl \in m_cancel
    BY <1>1, <1>3, <2>2 DEF IsExpired
  <2>3. CASE id.impl \notin m_cancel
    <3>1. \/ id.ts < m_currentTs
          \/ id.ts = m_currentTs /\ id.uid <= m_currentUid
      BY <1>3, <2>3 DEF IsExpired
    <3>2. \/ id.ts < m_currentTs'
          \/ id.ts = m_currentTs' /\ id.uid <= m_currentUid'
      <4>1. CASE UNCHANGED <<m_currentTs, m_currentUid>>
        BY <3>1, <4>1
      <4>2. CASE ProcessOneEvent
        <5>1. PICK e \in m_events : m_currentTs' = e.ts /\ m_currentUid' = e.uid
          BY <4>2 DEF ProcessOneEvent
        <5>2. KeyLess(CurrentKey, e)
          BY DEF QueueAhead
        <5> QED
          BY <2>1, <3>1, <5>1, <5>2 DEF KeyLess, CurrentKey
      <4> QED
        BY <4>1, <4>2, TakingSteps
    <3> QED
      BY <1>3, <3>2 DEF IsExpired
  <2> QED
    BY <2>2, <2>3
<1> QED
  BY <1>2, <1>3

LEMMA ExpiredIsNotNotified ==
  ASSUME IInv, Named, [Next]_vars, NEW id \in ids, IsExpired(id)
  PROVE  id.impl \notin ran' \ ran
<1> USE HeldTypes DEF IInv
<1> SUFFICES ASSUME id.impl \in ran' \ ran PROVE FALSE
  OBVIOUS
<1>1. CASE ProcessOneEvent
  <2>1. PICK e \in m_events :
           ran' = IF e.impl \in m_cancel THEN ran ELSE ran \cup {e.impl}
    BY <1>1 DEF ProcessOneEvent
  <2>2. e.impl \notin m_cancel /\ id.impl = e.impl
    BY <2>1
  <2>3. id = e
    BY <2>2 DEF Named
  <2>4. KeyLess(CurrentKey, id) /\ VALID <= id.uid
    BY <2>3 DEF QueueAhead
  <2>5. /\ m_currentTs \in Nat /\ m_currentUid \in Nat
        /\ id.ts \in Nat /\ id.uid \in Nat
    BY KeyTypes
  <2>6. id.uid # DESTROY
    BY <2>4, <2>5 DEF VALID, DESTROY
  <2>7. \/ id.ts < m_currentTs
        \/ id.ts = m_currentTs /\ id.uid <= m_currentUid
        \/ id.impl \in m_cancel
    BY <2>6 DEF IsExpired
  <2>8. \/ m_currentTs < id.ts
        \/ m_currentTs = id.ts /\ m_currentUid < id.uid
    BY <2>4 DEF KeyLess, CurrentKey
  <2> QED
    BY <2>2, <2>5, <2>7, <2>8
<1>2. CASE DestroyOne
  <2> DEFINE h == m_destroyEvents[1]
  <2>1. /\ 1 \in DOMAIN m_destroyEvents
        /\ ran' = IF h.impl \in m_cancel THEN ran ELSE ran \cup {h.impl}
    <3>1. /\ m_destroyEvents # <<>>
          /\ running' = Head(m_destroyEvents).impl
          /\ ran' = IF running' \in m_cancel THEN ran ELSE ran \cup {running'}
      BY <1>2 DEF DestroyOne
    <3>2. 1 \in DOMAIN m_destroyEvents /\ Head(m_destroyEvents) = h
      BY <3>1, HeadTailProperties DEF TypeOK
    <3> QED
      BY <3>1, <3>2
  <2>2. h.impl \notin m_cancel /\ id.impl = h.impl
    BY <2>1
  <2>3. id = h
    BY <2>1, <2>2 DEF Named
  <2>4. id.uid = DESTROY /\ IsListed(id)
    BY <2>1, <2>3 DEF IdsExact, IsListed
  <2> QED
    BY <2>2, <2>4 DEF IsExpired
<1>3. CASE UNCHANGED ran
  BY <1>3
<1> QED
  BY <1>1, <1>2, <1>3, TakingSteps

(* Expiry is final: an event that has run, was cancelled or removed is never  *)
(* pending again under its EventId, and its handler is not notified again.    *)
THEOREM ExpiryIsFinal == ASSUME NoWrap PROVE Spec => ExpiredIsFinal
<1> DEFINE Final == \A id \in ids :
                       IsExpired(id) => /\ IsExpired(id)'
                                        /\ id.impl \notin ran' \ ran
<1>1. Init => Owned /\ Named
  BY DEF Init, Owned, Known, HeldOnce, RunsInHandler, Counts, InPosts, Named
<1>2. IInv /\ Owned /\ Named /\ [Next]_vars => Owned' /\ Named'
  BY NextOwned, NextNamed DEF IInv
<1>3. IInv /\ Owned /\ Named /\ [Next]_vars => [Final]_vars
  BY ExpiredStays, ExpiredIsNotNotified
<1>4. Spec => []IInv
  BY Invariance
<1> QED
  BY <1>1, <1>2, <1>3, <1>4, PTL DEF Spec, ExpiredIsFinal

-------------------------------------------------------------------------------
(* What other threads post. *)

(* How many posts the main thread has taken from the list. *)
Taken == Len(posts) - Len(m_eventsWithContext)

(* The list holds the last posts; no impl is posted twice, or also scheduled
   for the end of the simulation. *)
ListedPosts ==
    /\ Taken >= 0
    /\ \A k \in 1 .. Len(m_eventsWithContext) : m_eventsWithContext[k] = posts[Taken + k]
    /\ \A k \in 1 .. Len(posts) : posts[k].impl <= allocated
    /\ \A j, k \in 1 .. Len(posts) : posts[j].impl = posts[k].impl => j = k
    /\ \A j \in 1 .. Len(posts) : \A k \in DOMAIN m_destroyEvents :
          m_destroyEvents[k].impl # posts[j].impl

(* A post in the queue is due no later than its delay from now: it was taken
   before.  Of two with one delay the earlier post has the smaller key. *)
TakenPosts ==
    /\ \A j \in 1 .. Taken : \A f \in m_events :
          f.impl = posts[j].impl => f.ts <= m_currentTs + posts[j].delay
    /\ \A j, k \in 1 .. Taken : \A f, e \in m_events :
          (/\ j < k /\ posts[j].delay = posts[k].delay
           /\ f.impl = posts[j].impl /\ e.impl = posts[k].impl)
          => KeyLess(f, e)

PostsOK == ListedPosts /\ TakenPosts

LEMMA PostTypes ==
  ASSUME TypeOK
  PROVE  /\ Len(posts) \in Nat /\ DOMAIN posts = 1 .. Len(posts)
         /\ Len(m_eventsWithContext) \in Nat
         /\ \A k \in 1 .. Len(posts) :
               posts[k].delay \in Nat /\ posts[k].impl \in Nat /\ posts[k].impl >= 1
<1> USE DelaysAssumption, BoundsAssumption DEF TypeOK
<1>1. /\ Len(posts) \in Nat /\ DOMAIN posts = 1 .. Len(posts)
      /\ Len(m_eventsWithContext) \in Nat
  BY LenProperties DEF SharedType
<1>2. ASSUME NEW k \in 1 .. Len(posts)
      PROVE  posts[k].delay \in Nat /\ posts[k].impl \in Nat /\ posts[k].impl >= 1
  <2>1. posts[k] \in [delay : Delays, impl : Impls]
    BY <1>2, ElementOfSeq DEF SharedType
  <2>2. posts[k].delay \in Delays /\ posts[k].impl \in Impls
    BY <2>1
  <2> HIDE DEF TypeOK
  <2>3. \A i \in Impls : i \in Nat /\ i >= 1
    BY DEF Impls
  <2> QED
    BY <2>2, <2>3
<1> QED
  BY <1>1, <1>2

(* Only a post changes the posts, and only a post or the main thread's swap
   the list. *)
LEMMA PostingSteps ==
  ASSUME [Next]_vars
  PROVE  \/ UNCHANGED <<posts, m_eventsWithContext>>
         \/ UNCHANGED posts /\ DrainEventsWithContext
         \/ \E t \in Threads : \E d \in Delays : PostLock(t, d)
<1> DEFINE Kept == UNCHANGED <<posts, m_eventsWithContext>>
<1>1. ASSUME NEW d \in Delays, Schedule(d) \/ ScheduleWithContext(d) PROVE Kept
  BY <1>1 DEF Schedule, ScheduleWithContext, shared
<1>2. ASSUME NEW id \in ids, Cancel(id) \/ Remove(id) PROVE Kept
  BY <1>2 DEF Cancel, Remove, RemoveDestroy, RemoveEvent, shared
<1>3. ASSUME ScheduleDestroy \/ Stop PROVE Kept
  BY <1>3 DEF ScheduleDestroy, Stop, shared
<1>4. ASSUME Run \/ StartLoop \/ RunReturns \/ ProcessOneEvent \/ HandlerReturns
             \/ PollEmpty \/ PollNonEmpty
      PROVE  Kept
  BY <1>4 DEF Run, StartLoop, RunReturns, ProcessOneEvent, HandlerReturns, PollEmpty,
              PollNonEmpty, shared
<1>5. ASSUME Teardown PROVE Kept
  BY <1>5 DEF Teardown, Destroy, DestroyOne, DestroyReturns, Dispose, DisposeEvents, shared
<1>6. ASSUME NEW t \in Threads, PostUnlock(t) PROVE Kept
  BY <1>6 DEF PostUnlock
<1>7. ASSUME UNCHANGED vars PROVE Kept
  BY <1>7 DEF vars, shared
<1>8. DrainEventsWithContext => UNCHANGED posts
  BY DEF DrainEventsWithContext
<1> HIDE DEF Kept
<1>9. \/ Kept
      \/ DrainEventsWithContext
      \/ \E t \in Threads : \E d \in Delays : PostLock(t, d)
  BY <1>1, <1>2, <1>3, <1>4, <1>5, <1>6, <1>7 DEF Next, Call, Loop, Post
<1> QED
  BY <1>8, <1>9 DEF Kept
LEMMA AllocatedGrows == ASSUME TypeOK, [Next]_vars PROVE allocated' >= allocated
<1> USE HeldTypes
<1>1. ASSUME NEW d \in Delays, Schedule(d) \/ ScheduleWithContext(d) PROVE allocated' = allocated + 1
  BY <1>1 DEF Schedule, ScheduleWithContext, Allocate
<1>2. ASSUME ScheduleDestroy PROVE allocated' = allocated + 1
  BY <1>2 DEF ScheduleDestroy, Allocate
<1>3. ASSUME NEW id \in ids, RemoveDestroy(id) \/ RemoveEvent(id) PROVE allocated' = allocated
  BY <1>3 DEF RemoveDestroy, RemoveEvent
<1>4. ASSUME PlacesKept \/ ProcessOneEvent \/ HandlerReturns \/ DrainEventsWithContext
             \/ DestroyOne \/ DestroyReturns \/ DisposeEvents
      PROVE  allocated' = allocated
  BY <1>4 DEF PlacesKept, ProcessOneEvent, HandlerReturns, DrainEventsWithContext,
              DestroyOne, DestroyReturns, DisposeEvents, objs
<1>5. ASSUME NEW t \in Threads, NEW d \in Delays, PostLock(t, d) PROVE allocated' = allocated + 1
  BY <1>5 DEF PostLock, Allocate
<1> QED
  BY MovingSteps, <1>1, <1>2, <1>3, <1>4, <1>5

(* An event that appears in the queue is new or was posted. *)
LEMMA QueuedBefore ==
  ASSUME TypeOK, [Next]_vars, NEW e \in m_events'
  PROVE  \/ e \in m_events
         \/ e.impl = allocated + 1 /\ UNCHANGED <<posts, m_eventsWithContext>>
         \/ DrainEventsWithContext
<1>1. ASSUME NEW d \in Delays, Schedule(d) \/ ScheduleWithContext(d)
      PROVE  \/ e \in m_events
             \/ e.impl = allocated + 1 /\ UNCHANGED <<posts, m_eventsWithContext>>
  BY <1>1 DEF Schedule, ScheduleWithContext, InsertNew, shared
<1>2. ASSUME NEW id \in ids, RemoveDestroy(id) \/ RemoveEvent(id) PROVE e \in m_events
  BY <1>2 DEF RemoveDestroy, RemoveEvent, queue
<1>3. ASSUME PlacesKept \/ ScheduleDestroy \/ ProcessOneEvent \/ HandlerReturns
             \/ DestroyOne \/ DestroyReturns \/ DisposeEvents
      PROVE  e \in m_events
  BY <1>3 DEF PlacesKept, ScheduleDestroy, ProcessOneEvent, HandlerReturns,
              DestroyOne, DestroyReturns, DisposeEvents, queue
<1>4. ASSUME NEW t \in Threads, NEW d \in Delays, PostLock(t, d) PROVE e \in m_events
  BY <1>4 DEF PostLock, queue
<1> QED
  BY MovingSteps, <1>1, <1>2, <1>3, <1>4

LEMMA TimeGrows == ASSUME IInv, [Next]_vars PROVE m_currentTs' >= m_currentTs /\ m_currentTs' \in Nat
<1>1. m_currentTs \in Nat /\ \A e \in m_events : e.ts \in Nat
  BY DEF IInv, TypeOK, QueueType, EventKeys
<1>2. CASE ProcessOneEvent
  <2>1. PICK e \in m_events : m_currentTs' = e.ts
    BY <1>2 DEF ProcessOneEvent
  <2>2. KeyLess(CurrentKey, e)
    BY DEF IInv, QueueAhead
  <2> QED
    BY <1>1, <2>1, <2>2 DEF KeyLess, CurrentKey
<1>3. CASE UNCHANGED m_currentTs
  BY <1>1, <1>3
<1> QED
  BY <1>2, <1>3, TakingSteps

LEMMA NextListedPosts ==
  ASSUME TypeOK, Owned, ListedPosts, [Next]_vars
  PROVE  ListedPosts'
<1> USE HeldTypes, PostTypes
<1> DEFINE n == Len(posts)
           l == Len(m_eventsWithContext)
<1>0. /\ n \in Nat /\ l \in Nat /\ Taken \in Nat /\ Taken + l = n
      /\ allocated' >= allocated /\ allocated' \in Nat
  <2>1. allocated' \in Nat
    BY NextObjectsType, BoundsAssumption DEF ObjectsType
  <2> QED
    BY <2>1, AllocatedGrows DEF ListedPosts, Taken
<1>1. ASSUME NEW t \in Threads, NEW d \in Delays, PostLock(t, d) PROVE ListedPosts'
  <2> DEFINE ev == [delay |-> d, impl |-> allocated + 1]
  <2>1. /\ m_eventsWithContext' = Append(m_eventsWithContext, ev)
        /\ posts' = Append(posts, ev)
        /\ allocated' = allocated + 1
        /\ UNCHANGED m_destroyEvents
    BY <1>1 DEF PostLock, Allocate
  <2>2. ev.impl = allocated + 1
    OBVIOUS
  <2> HIDE DEF ev
  <2>3. /\ Len(posts') = n + 1 /\ posts'[n + 1] = ev
        /\ \A k \in 1 .. n : posts'[k] = posts[k]
        /\ Len(m_eventsWithContext') = l + 1 /\ m_eventsWithContext'[l + 1] = ev
        /\ \A k \in 1 .. l : m_eventsWithContext'[k] = m_eventsWithContext[k]
    BY <2>1 DEF TypeOK, SharedType
  <2>4. Taken' = Taken
    BY <1>0, <2>3 DEF Taken
  <2>5. \A k \in 1 .. l + 1 : m_eventsWithContext'[k] = posts'[Taken + k]
    <3> TAKE k \in 1 .. l + 1
    <3>1. CASE k = l + 1
      BY <1>0, <2>3, <3>1
    <3>2. CASE k # l + 1
      <4>1. k \in 1 .. l /\ Taken + k \in 1 .. n
        <5> HIDE DEF n, l
        <5> QED
          BY ONLY <1>0, <3>2, k \in 1 .. l + 1
      <4> QED
        BY <2>3, <4>1 DEF ListedPosts
    <3> QED
      BY <3>1, <3>2
  <2>6. /\ \A k \in 1 .. n + 1 : k = n + 1 \/ k \in 1 .. n
        /\ n + 1 \notin 1 .. n
    BY <1>0
  <2>7. \A k \in 1 .. n + 1 : posts'[k].impl <= allocated'
    <3> TAKE k \in 1 .. n + 1
    <3>1. CASE k = n + 1
      BY <2>1, <2>2, <2>3, <3>1
    <3>2. CASE k \in 1 .. n
      <4>1. posts'[k] = posts[k] /\ posts[k].impl <= allocated /\ posts[k].impl \in Nat
        BY <2>3, <3>2 DEF ListedPosts
      <4> QED
        BY <2>1, <4>1
    <3> QED
      BY <2>6, <3>1, <3>2
  <2>8. \A j, k \in 1 .. n + 1 : posts'[j].impl = posts'[k].impl => j = k
    <3> SUFFICES ASSUME NEW j \in 1 .. n + 1, NEW k \in 1 .. n + 1,
                        posts'[j].impl = posts'[k].impl
                 PROVE  j = k
      OBVIOUS
    <3>1. \A i \in 1 .. n : posts'[i].impl # allocated + 1 /\ posts'[i] = posts[i]
      BY <2>3 DEF ListedPosts
    <3>2. posts'[n + 1].impl = allocated + 1
      BY <2>2, <2>3
    <3>3. (j \in 1 .. n <=> k \in 1 .. n) /\ (j = n + 1 \/ j \in 1 .. n) /\ (k = n + 1 \/ k \in 1 .. n)
      BY <2>6, <3>1, <3>2
    <3>4. j \in 1 .. n /\ k \in 1 .. n => j = k
      BY <3>1 DEF ListedPosts
    <3> HIDE DEF n
    <3> QED
      BY <2>6, <3>3, <3>4
  <2>9. \A j \in 1 .. n + 1 : \A k \in DOMAIN m_destroyEvents :
            m_destroyEvents[k].impl # posts'[j].impl
    <3> TAKE j \in 1 .. n + 1
    <3> TAKE k \in DOMAIN m_destroyEvents
    <3>1. m_destroyEvents[k].impl # allocated + 1
      BY DEF Owned, Known
    <3>2. j = n + 1 \/ j \in 1 .. n
      BY <2>6
    <3> QED
      BY <2>2, <2>3, <3>1, <3>2 DEF ListedPosts
  <2> HIDE DEF n, l
  <2> QED
    BY <1>0, <2>1, <2>3, <2>4, <2>5, <2>7, <2>8, <2>9 DEF ListedPosts
<1>2. ASSUME UNCHANGED posts,
             \/ UNCHANGED m_eventsWithContext
             \/ m_eventsWithContext' = <<>>
      PROVE  ListedPosts'
  <2>1. ASSUME NEW j \in 1 .. n, NEW k \in DOMAIN m_destroyEvents'
        PROVE  m_destroyEvents'[k].impl # posts[j].impl
    <3>1. CASE m_destroyEvents'[k].impl = allocated + 1
      BY <3>1 DEF ListedPosts
    <3>2. CASE \E i \in DOMAIN m_destroyEvents : m_destroyEvents'[k] = m_destroyEvents[i]
      BY <3>2 DEF ListedPosts
    <3> QED
      BY <3>1, <3>2, ListedBefore
  <2>2. CASE UNCHANGED m_eventsWithContext
    BY <1>0, <1>2, <2>1, <2>2 DEF ListedPosts, Taken
  <2>3. CASE m_eventsWithContext' = <<>>
    <3>1. Len(m_eventsWithContext') = 0 /\ Taken' = n
      BY <1>0, <1>2, <2>3 DEF Taken
    <3> QED
      BY <1>0, <1>2, <2>1, <3>1 DEF ListedPosts
  <2> QED
    BY <1>2, <2>2, <2>3
<1>3. CASE DrainEventsWithContext
  BY <1>2, <1>3 DEF DrainEventsWithContext
<1> QED
  BY <1>1, <1>2, <1>3, PostingSteps

(* What is posted and not yet taken is not in the queue. *)
LEMMA QueuedIsTaken ==
  ASSUME TypeOK, Owned, ListedPosts, NEW e \in m_events, NEW k \in 1 .. Len(posts),
         e.impl = posts[k].impl
  PROVE  k \in 1 .. Taken
<1> USE HeldTypes, PostTypes
<1> SUFFICES ASSUME ~(k <= Taken) PROVE FALSE
  BY DEF ListedPosts, Taken
<1>1. k - Taken \in 1 .. Len(m_eventsWithContext) /\ Taken + (k - Taken) = k
  BY DEF ListedPosts, Taken
<1>2. m_eventsWithContext[k - Taken] = posts[k]
  BY <1>1 DEF ListedPosts
<1> QED
  BY <1>1, <1>2 DEF Owned, HeldOnce, InPosts

(* Where the list is taken *)
LEMMA DrainTakes ==
  ASSUME NoWrap, IInv, Owned, ListedPosts, TakenPosts, DrainEventsWithContext
  PROVE  TakenPosts'
<1> USE HeldTypes, PostTypes DEF IInv
<1> DEFINE n == Len(posts)
           l == Len(m_eventsWithContext)
<1>1. /\ n \in Nat /\ l \in Nat /\ Taken \in Nat /\ Taken + l = n
      /\ m_currentTs \in Nat /\ m_uid \in Nat
      /\ \A e \in m_events : e.ts \in Nat /\ e.uid \in Nat /\ e.uid < m_uid
  BY DEF ListedPosts, Taken, TypeOK, QueueType, EventKeys, QueueAhead
<1>2. /\ m_events' = m_events \cup {Posted(k) : k \in 1 .. l}
      /\ m_eventsWithContext' = <<>>
      /\ UNCHANGED <<posts, m_currentTs>>
  BY DEF DrainEventsWithContext
<1>3. Taken' = n
  <2>1. Len(m_eventsWithContext') = 0
    BY <1>2
  <2> QED
    BY <1>1, <1>2, <2>1 DEF Taken
<1>4. ASSUME NEW k \in 1 .. l
      PROVE  /\ Posted(k).impl = posts[Taken + k].impl
             /\ Posted(k).ts = m_currentTs + posts[Taken + k].delay
             /\ Posted(k).uid = m_uid + (k - 1)
  <2>1. Posted(k).uid = m_uid + (k - 1)
    BY PostedAreNew
  <2>2. m_eventsWithContext[k] = posts[Taken + k]
    BY DEF ListedPosts
  <2> QED
    BY <2>1, <2>2 DEF Posted
<1>5. ASSUME NEW j \in 1 .. n, NEW f \in m_events', f.impl = posts[j].impl
      PROVE  \/ /\ j \in 1 .. Taken /\ f \in m_events
             \/ /\ j - Taken \in 1 .. l /\ f = Posted(j - Taken)
  <2>1. CASE f \in m_events
    BY <1>5, <2>1, QueuedIsTaken
  <2>2. CASE \E k \in 1 .. l : f = Posted(k)
    <3>1. PICK k \in 1 .. l : f = Posted(k)
      BY <2>2
    <3>2. posts[j].impl = posts[Taken + k].impl /\ Taken + k \in 1 .. n
      <4>1. Posted(k).impl = posts[Taken + k].impl
        BY <1>4
      <4>2. Taken + k \in 1 .. n
        <5> HIDE DEF n, l
        <5> QED
          BY ONLY <1>1, k \in 1 .. l
      <4> QED
        BY <1>5, <3>1, <4>1, <4>2
    <3>3. j = Taken + k
      BY <3>2 DEF ListedPosts
    <3> QED
      BY <1>1, <3>1, <3>3
  <2> QED
    BY <1>2, <2>1, <2>2
<1>6. ASSUME NEW j \in 1 .. n, NEW f \in m_events', f.impl = posts[j].impl
      PROVE  f.ts <= m_currentTs + posts[j].delay /\ f.ts \in Nat /\ f.uid \in Nat
  <2>1. CASE j \in 1 .. Taken /\ f \in m_events
    BY <1>1, <1>6, <2>1 DEF TakenPosts
  <2>2. CASE j - Taken \in 1 .. l /\ f = Posted(j - Taken)
    <3>1. Taken + (j - Taken) = j /\ (j - Taken) - 1 \in Nat
      BY <1>1, <2>2
    <3>2. f.ts = m_currentTs + posts[j].delay /\ f.uid = m_uid + ((j - Taken) - 1)
      BY <1>4, <2>2, <3>1
    <3>3. posts[j].delay \in Nat
      BY PostTypes
    <3>4. \A a, b \in Nat : a + b \in Nat /\ a + b <= a + b
      OBVIOUS
    <3>5. m_currentTs \in Nat /\ m_uid \in Nat
      BY <1>1
    <3> QED
      BY ONLY <3>1, <3>2, <3>3, <3>4, <3>5
  <2> QED
    BY <1>5, <1>6, <2>1, <2>2
<1>7. ASSUME NEW j \in 1 .. n, NEW k \in 1 .. n, NEW f \in m_events', NEW e \in m_events',
             j < k, posts[j].delay = posts[k].delay,
             f.impl = posts[j].impl, e.impl = posts[k].impl
      PROVE  KeyLess(f, e)
  <2>1. CASE k \in 1 .. Taken /\ e \in m_events
    <3>1. j \in 1 .. Taken /\ f \in m_events
      BY <1>1, <1>5, <1>7, <2>1
    <3> QED
      BY <1>7, <2>1, <3>1 DEF TakenPosts
  <2>2. CASE k - Taken \in 1 .. l /\ e = Posted(k - Taken)
    <3>1. Taken + (k - Taken) = k
      BY <1>1
    <3>2. e.ts = m_currentTs + posts[k].delay /\ e.uid = m_uid + ((k - Taken) - 1)
      BY <1>4, <2>2, <3>1
    <3>3. f.ts <= e.ts /\ f.ts \in Nat /\ e.ts \in Nat
      BY <1>6, <1>7, <3>2
    <3>4. f.uid < e.uid /\ f.uid \in Nat /\ e.uid \in Nat
      <4>1. CASE f \in m_events
        <5>1. f.uid < m_uid /\ f.uid \in Nat /\ m_uid \in Nat /\ (k - Taken) - 1 \in Nat
          BY <1>1, <2>2, <4>1
        <5>2. \A u, v, w \in Nat : u < v => u < v + w /\ v + w \in Nat
          OBVIOUS
        <5> QED
          BY ONLY <3>2, <5>1, <5>2
      <4>2. CASE j - Taken \in 1 .. l /\ f = Posted(j - Taken)
        <5>1. /\ f.uid = m_uid + ((j - Taken) - 1) /\ m_uid \in Nat
              /\ (j - Taken) - 1 \in Nat /\ (k - Taken) - 1 \in Nat
              /\ (j - Taken) - 1 < (k - Taken) - 1
          <6>1. f.uid = m_uid + ((j - Taken) - 1)
            BY <1>4, <4>2
          <6>2. j \in Int /\ k \in Int /\ Taken \in Int /\ j - Taken >= 1 /\ k - Taken >= 1
            BY <1>1, <2>2, <4>2
          <6> QED
            BY ONLY <1>1, <6>1, <6>2, j < k
        <5>2. \A u, v, w \in Nat : u < v => w + u < w + v /\ w + u \in Nat /\ w + v \in Nat
          OBVIOUS
        <5> QED
          BY ONLY <3>2, <5>1, <5>2
      <4> QED
        BY <1>5, <1>7, <4>1, <4>2
    <3> QED
      BY <3>3, <3>4 DEF KeyLess
  <2> QED
    BY <1>5, <1>7, <2>1, <2>2
<1> QED
  BY <1>2, <1>3, <1>6, <1>7 DEF TakenPosts
LEMMA NextTakenPosts ==
  ASSUME NoWrap, IInv, Owned, ListedPosts, TakenPosts, [Next]_vars
  PROVE  TakenPosts'
<1> USE HeldTypes, PostTypes DEF IInv
<1>1. CASE DrainEventsWithContext
  BY <1>1, DrainTakes
<1>2. CASE ~DrainEventsWithContext
  <2>1. /\ Taken' = Taken /\ Taken <= Len(posts) /\ Taken \in Int
        /\ \A j \in 1 .. Taken : posts'[j] = posts[j]
    <3>1. CASE UNCHANGED <<posts, m_eventsWithContext>>
      BY <3>1 DEF Taken
    <3>2. CASE \E t \in Threads : \E d \in Delays : PostLock(t, d)
      <4>1. PICK t \in Threads, d \in Delays : PostLock(t, d)
        BY <3>2
      <4>2. \E e : /\ m_eventsWithContext' = Append(m_eventsWithContext, e)
                   /\ posts' = Append(posts, e)
        BY <4>1 DEF PostLock
      <4>3. /\ Len(posts') = Len(posts) + 1
            /\ Len(m_eventsWithContext') = Len(m_eventsWithContext) + 1
            /\ \A k \in 1 .. Len(posts) : posts'[k] = posts[k]
        BY <4>2 DEF TypeOK, SharedType
      <4>4. Len(posts) \in Nat /\ Len(m_eventsWithContext) \in Nat
        OBVIOUS
      <4>5. Taken' = Taken /\ Taken <= Len(posts) /\ Taken \in Int
        BY ONLY <4>3, <4>4 DEF Taken
      <4>6. \A k \in 1 .. Taken : k \in 1 .. Len(posts)
        BY ONLY <4>4, <4>5
      <4> QED
        BY ONLY <4>3, <4>5, <4>6
    <3> QED
      BY <1>2, <3>1, <3>2, PostingSteps
  <2>2. ASSUME NEW e \in m_events', NEW j \in 1 .. Taken, e.impl = posts[j].impl
        PROVE  e \in m_events
    <3>1. posts[j].impl # allocated + 1
      BY <2>1 DEF ListedPosts
    <3> QED
      BY <1>2, <2>2, <3>1, QueuedBefore
  <2>3. ASSUME NEW j \in 1 .. Taken, NEW f \in m_events', f.impl = posts[j].impl
        PROVE  f.ts <= m_currentTs' + posts[j].delay
    <3>1. f \in m_events /\ f.ts <= m_currentTs + posts[j].delay
      BY <2>2, <2>3 DEF TakenPosts
    <3>2. f.ts \in Nat /\ m_currentTs \in Nat /\ posts[j].delay \in Nat
      <4>1. f.ts \in Nat /\ m_currentTs \in Nat
        BY <3>1, KeyTypes
      <4>2. j \in 1 .. Len(posts)
        BY <2>1
      <4> QED
        BY <4>1, <4>2
    <3>3. m_currentTs' >= m_currentTs /\ m_currentTs' \in Nat
      BY TimeGrows
    <3>4. \A a, b, c, d \in Nat : a <= b + c /\ d >= b => a <= d + c
      OBVIOUS
    <3> QED
      BY <3>1, <3>2, <3>3, <3>4
  <2>4. ASSUME NEW j \in 1 .. Taken, NEW k \in 1 .. Taken,
               NEW f \in m_events', NEW e \in m_events',
               j < k, posts[j].delay = posts[k].delay,
               f.impl = posts[j].impl, e.impl = posts[k].impl
        PROVE  KeyLess(f, e)
    BY <2>2, <2>4 DEF TakenPosts
  <2> QED
    BY ONLY <2>1, <2>3, <2>4 DEF TakenPosts
<1> QED
  BY <1>1, <1>2

(* The events that other threads post with one delay are notified in the
   order in which they were posted. *)
LEMMA NotifiedInOrder ==
  ASSUME IInv, Owned, PostsOK, [Next]_vars,
         NEW j \in DOMAIN posts, NEW k \in DOMAIN posts,
         j < k, posts[j].delay = posts[k].delay, posts[k].impl \in ran' \ ran
  PROVE  ~Waiting(posts[j].impl)
<1> USE HeldTypes, PostTypes DEF IInv, PostsOK
<1>0. ProcessOneEvent
  <2>1. ~ UNCHANGED ran
    OBVIOUS
  <2>2. ASSUME DestroyOne PROVE FALSE
    <3>1. /\ m_destroyEvents # <<>>
          /\ ran' = IF Head(m_destroyEvents).impl \in m_cancel THEN ran
                    ELSE ran \cup {Head(m_destroyEvents).impl}
      BY <2>2 DEF DestroyOne
    <3>2. posts[k].impl = Head(m_destroyEvents).impl
      BY <3>1
    <3>3. 1 \in DOMAIN m_destroyEvents /\ Head(m_destroyEvents) = m_destroyEvents[1]
      BY <3>1, HeadTailProperties DEF TypeOK
    <3> QED
      BY <3>2, <3>3 DEF ListedPosts
  <2> QED
    BY <2>1, <2>2, TakingSteps
<1>1. PICK e \in m_events : /\ IsEarliest(e, m_events)
                            /\ ran' = IF e.impl \in m_cancel THEN ran ELSE ran \cup {e.impl}
  BY <1>0 DEF ProcessOneEvent
<1>2. e.impl = posts[k].impl
  BY <1>1
<1>3. k \in 1 .. Taken
  BY <1>2, QueuedIsTaken
<1>4. ASSUME NEW f \in m_events, f.impl = posts[j].impl PROVE FALSE
  <2>1. j \in 1 .. Taken
    <3>1. DOMAIN posts = 1 .. Len(posts) /\ Len(posts) \in Nat /\ Taken \in Int
      BY DEF Taken, TypeOK
    <3>2. j \in Int /\ 1 <= j
      BY <3>1
    <3>3. k \in Int /\ k <= Taken
      BY <1>3, <3>1
    <3> QED
      BY <3>1, <3>2, <3>3
  <2>2. KeyLess(f, e)
    BY <1>2, <1>3, <1>4, <2>1 DEF TakenPosts
  <2>3. f # e
    BY <1>2, <1>4 DEF ListedPosts
  <2>4. KeyLess(e, f)
    BY <1>1, <2>3 DEF IsEarliest
  <2>5. e.ts \in Nat /\ f.ts \in Nat /\ e.uid \in Nat /\ f.uid \in Nat
    BY <1>1, <1>4, KeyTypes
  <2> QED
    BY ONLY <2>2, <2>4, <2>5 DEF KeyLess
<1>5. ASSUME NEW i \in DOMAIN m_eventsWithContext, m_eventsWithContext[i].impl = posts[j].impl
      PROVE  FALSE
  <2>1. /\ m_eventsWithContext[i] = posts[Taken + i] /\ Taken + i \in 1 .. Len(posts)
    <3>1. i \in 1 .. Len(m_eventsWithContext)
      OBVIOUS
    <3>2. m_eventsWithContext[i] = posts[Taken + i] /\ Taken >= 0
      BY <3>1 DEF ListedPosts
    <3>3. Len(posts) \in Nat /\ Len(m_eventsWithContext) \in Nat
      OBVIOUS
    <3>4. Taken + i \in 1 .. Len(posts)
      BY ONLY <3>1, <3>2, <3>3 DEF Taken
    <3> QED
      BY <3>2, <3>4
  <2>2. j = Taken + i
    BY <1>5, <2>1 DEF ListedPosts
  <2>3. Taken \in Int /\ i \in Nat
    BY DEF Taken, TypeOK
  <2>4. k \in Int /\ k <= Taken
    BY <1>3, <2>3
  <2> QED
    BY <2>2, <2>3, <2>4
<1> QED
  BY <1>4, <1>5 DEF Waiting

(* Events posted with the same delay by any number of threads run in the
   order of the posts, however the list is handed over. *)
THEOREM PostsKeepTheirOrder == ASSUME NoWrap PROVE Spec => PostsRunInOrder
<1> DEFINE Ordered ==
      \A j, k \in DOMAIN posts :
          (j < k /\ posts[j].delay = posts[k].delay /\ posts[k].impl \in ran' \ ran)
          => ~Waiting(posts[j].impl)
<1>1. Init => Owned /\ PostsOK
  BY DEF Init, Owned, Known, HeldOnce, RunsInHandler, Counts, InPosts, PostsOK, ListedPosts,
         TakenPosts, Taken
<1>2. IInv /\ Owned /\ PostsOK /\ [Next]_vars => Owned' /\ PostsOK'
  BY NextOwned, NextListedPosts, NextTakenPosts DEF IInv, PostsOK
<1>3. IInv /\ Owned /\ PostsOK /\ [Next]_vars => [Ordered]_vars
  BY NotifiedInOrder
<1>4. Spec => []IInv
  BY Invariance
<1> QED
  BY <1>1, <1>2, <1>3, <1>4, PTL DEF Spec, PostsRunInOrder
===============================================================================
