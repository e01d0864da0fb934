--------------------------- MODULE DefaultSimulator ---------------------------
(***************************************************************************)
(* ns3::DefaultSimulatorImpl (core/model/default-simulator-impl.cc): the   *)
(* event loop of the main thread, the calls that the program and the       *)
(* event handlers make on it, and the other threads that post events       *)
(* through ScheduleWithContext.                                            *)
(*                                                                         *)
(* The main thread alone touches every field but m_eventsWithContext and   *)
(* its flag, so a call of the API is one step.  What it shares with the    *)
(* other threads is cut where they can meet: the unlocked read of          *)
(* m_eventsWithContextEmpty, the swap under the mutex, and the two writes  *)
(* another thread makes while it holds the mutex.                          *)
(*                                                                         *)
(* An EventImpl is a number, in order of allocation.  The execution        *)
(* context of an event is data that no step tests and is left out.         *)
(***************************************************************************)
EXTENDS EventQueue, FiniteSets, Sequences

CONSTANTS
    Threads,      \* the threads other than the main one
    Delays,       \* the delays the callers use
    UidModulus,   \* m_uid is an unsigned integer modulo UidModulus
    MaxTs,        \* bound: no event is scheduled later than this
    MaxEvents     \* bound: number of EventImpl objects allocated

ASSUME DelaysAssumption == Delays \subseteq Nat
ASSUME BoundsAssumption ==
    MaxTs \in Nat /\ MaxEvents \in Nat /\ UidModulus \in Nat \ {0}

(* EventId::UID. *)
INVALID == 0
DESTROY == 2
VALID   == 4

ASSUME UidsAreWide == VALID < UidModulus

Impls == 1..MaxEvents
Nobody == "nobody"

VARIABLES
    m_events,                  \* the scheduler's list: set of [ts, uid, impl]
    m_uid,                     \* next uid
    m_currentUid,              \* uid of the event being or last executed
    m_currentTs,               \* its timestamp
    m_stop,
    m_unscheduledEvents,
    m_destroyEvents,           \* sequence of the EventIds to run in Destroy
    m_eventsWithContext,       \* sequence of [delay, impl] posted by threads
    m_eventsWithContextEmpty,  \* the flag read without the mutex
    mutex,                     \* the thread holding m_eventsWithContextMutex
    pc,                        \* where the main thread is
    after,                     \* where ProcessEventsWithContext returns to
    running,                   \* the impl whose Invoke is on the stack, or 0
    allocated,                 \* number of EventImpl objects created so far
    m_cancel,                  \* the impls whose m_cancel is true
    refs,                      \* reference count of each impl
    ids,                       \* the EventIds the callers hold
    posts,                     \* history: everything threads have posted
    ran                        \* history: the impls that were notified

queue  == <<m_events, m_uid, m_currentUid, m_currentTs, m_unscheduledEvents>>
shared == <<m_eventsWithContext, m_eventsWithContextEmpty, mutex, posts>>
flow   == <<m_stop, pc, after, running>>
objs   == <<allocated, m_cancel, refs, ids, ran>>
vars   == <<queue, m_destroyEvents, shared, flow, objs>>

Init ==
    /\ m_events = {}
    /\ m_uid = VALID
    /\ m_currentUid = INVALID
    /\ m_currentTs = 0
    /\ m_unscheduledEvents = 0
    /\ m_destroyEvents = <<>>
    /\ m_eventsWithContext = <<>>
    /\ m_eventsWithContextEmpty = TRUE
    /\ mutex = Nobody
    /\ posts = <<>>
    /\ m_stop = FALSE
    /\ pc = "outside"
    /\ after = "outside"
    /\ running = 0
    /\ allocated = 0
    /\ m_cancel = {}
    /\ refs = [i \in Impls |-> 0]
    /\ ids = {}
    /\ ran = {}

-------------------------------------------------------------------------------
(* Operations on the state. *)

(* Mutant of UidPlus: the counter is wider than the uid. *)
UidPlus_NoWrap(n) == m_uid + n

UidPlus(n) == (m_uid + n) % UidModulus

(* id is found in the list of destroy events. *)
IsListed(id) == \E k \in DOMAIN m_destroyEvents : m_destroyEvents[k] = id

(* Mutant of IsExpired: the event being executed is not expired yet. *)
IsExpired_StrictUid(id) ==
    IF id.uid = DESTROY
    THEN id.impl \in m_cancel \/ ~IsListed(id)
    ELSE \/ id.ts < m_currentTs
         \/ id.ts = m_currentTs /\ id.uid < m_currentUid
         \/ id.impl \in m_cancel

(* DefaultSimulatorImpl::IsExpired. *)
IsExpired(id) ==
    IF id.uid = DESTROY
    THEN id.impl \in m_cancel \/ ~IsListed(id)
    ELSE \/ id.ts < m_currentTs
         \/ id.ts = m_currentTs /\ id.uid <= m_currentUid
         \/ id.impl \in m_cancel

(* The callers' code runs: between the calls of Run and Destroy that the
   program makes, or inside the handler of an event.  EventImpl::Invoke skips
   the handler of a cancelled one. *)
InCaller ==
    \/ pc = "outside"
    \/ pc \in {"invoke", "destroyInvoke"} /\ running \notin m_cancel

(* A new EventImpl is made with n references. *)
Allocate(n) ==
    /\ allocated < MaxEvents
    /\ allocated' = allocated + 1
    /\ refs' = [refs EXCEPT ![allocated + 1] = n]

-------------------------------------------------------------------------------
(* Calls made by the main thread. *)

(* Mutant of InsertNew: the delay is taken for an absolute time. *)
InsertNew_Absolute(d) ==
    /\ m_currentTs + d <= MaxTs
    /\ m_events' = m_events \cup
          {[ts |-> d, uid |-> m_uid, impl |-> allocated + 1]}
    /\ m_uid' = UidPlus(1)
    /\ m_unscheduledEvents' = m_unscheduledEvents + 1
    /\ UNCHANGED <<m_currentUid, m_currentTs>>

(* The common part of Schedule and of ScheduleWithContext on the main thread. *)
InsertNew(d) ==
    /\ m_currentTs + d <= MaxTs
    /\ m_events' = m_events \cup
          {[ts |-> m_currentTs + d, uid |-> m_uid, impl |-> allocated + 1]}
    /\ m_uid' = UidPlus(1)
    /\ m_unscheduledEvents' = m_unscheduledEvents + 1
    /\ UNCHANGED <<m_currentUid, m_currentTs>>

(* Schedule; ScheduleNow is Schedule(0), and Stop(delay) is a Schedule whose
   handler calls Stop.  The queue and the EventId returned hold the impl. *)
Schedule(d) ==
    /\ InCaller
    /\ InsertNew(d)
    /\ Allocate(2)
    /\ ids' = ids \cup
          {[ts |-> m_currentTs + d, uid |-> m_uid, impl |-> allocated + 1]}
    /\ UNCHANGED <<m_destroyEvents, shared, flow, m_cancel, ran>>

ScheduleWithContext(d) ==
    /\ InCaller
    /\ InsertNew(d)
    /\ Allocate(1)
    /\ UNCHANGED <<m_destroyEvents, shared, flow, m_cancel, ids, ran>>

ScheduleDestroy ==
    /\ InCaller
    /\ Allocate(2)
    /\ LET id == [ts |-> m_currentTs, uid |-> DESTROY, impl |-> allocated + 1]
       IN  /\ m_destroyEvents' = Append(m_destroyEvents, id)
           /\ ids' = ids \cup {id}
    /\ m_uid' = UidPlus(1)
    /\ UNCHANGED <<m_events, m_currentUid, m_currentTs, m_unscheduledEvents,
                   shared, flow, m_cancel, ran>>

Stop ==
    /\ InCaller
    /\ m_stop' = TRUE
    /\ UNCHANGED <<queue, m_destroyEvents, shared, pc, after, running, objs>>

Cancel(id) ==
    /\ InCaller
    /\ ~IsExpired(id)
    /\ m_cancel' = m_cancel \cup {id.impl}
    /\ UNCHANGED <<queue, m_destroyEvents, shared, flow,
                   allocated, refs, ids, ran>>

(* Remove of a destroy event: erased from the list, not cancelled. *)
RemoveDestroy(id) ==
    /\ InCaller
    /\ id.uid = DESTROY
    /\ \E k \in DOMAIN m_destroyEvents :
          /\ m_destroyEvents[k] = id
          /\ m_destroyEvents' = [j \in 1..(Len(m_destroyEvents) - 1) |->
                 m_destroyEvents[IF j < k THEN j ELSE j + 1]]
    /\ refs' = [refs EXCEPT ![id.impl] = @ - 1]
    /\ UNCHANGED <<queue, shared, flow, allocated, m_cancel, ids, ran>>

(* Mutant of RemoveEvent: the count of pending events is left alone. *)
RemoveEvent_KeepsCount(id) ==
    /\ InCaller
    /\ id.uid # DESTROY
    /\ ~IsExpired(id)
    /\ m_events' = m_events \ {id}
    /\ m_cancel' = m_cancel \cup {id.impl}
    /\ refs' = [refs EXCEPT ![id.impl] = @ - 1]
    /\ UNCHANGED <<m_uid, m_currentUid, m_currentTs, m_unscheduledEvents,
                   m_destroyEvents, shared, flow, allocated, ids, ran>>

RemoveEvent(id) ==
    /\ InCaller
    /\ id.uid # DESTROY
    /\ ~IsExpired(id)
    /\ m_events' = m_events \ {id}
    /\ m_cancel' = m_cancel \cup {id.impl}
    /\ refs' = [refs EXCEPT ![id.impl] = @ - 1]
    /\ m_unscheduledEvents' = m_unscheduledEvents - 1
    /\ UNCHANGED <<m_uid, m_currentUid, m_currentTs, m_destroyEvents, shared,
                   flow, allocated, ids, ran>>

Remove(id) == RemoveDestroy(id) \/ RemoveEvent(id)

-------------------------------------------------------------------------------
(* The event loop. *)

(* Run is called: its ProcessEventsWithContext comes first. *)
Run ==
    /\ pc = "outside"
    /\ pc' = "poll"
    /\ after' = "run"
    /\ UNCHANGED <<queue, m_destroyEvents, shared, m_stop, running, objs>>

(* The assignment m_stop = false that follows it. *)
StartLoop ==
    /\ pc = "run"
    /\ m_stop' = FALSE
    /\ pc' = "loop"
    /\ UNCHANGED <<queue, m_destroyEvents, shared, after, running, objs>>

(* The loop of Run ends: the list is empty or Stop was called. *)
RunReturns ==
    /\ pc = "loop"
    /\ m_events = {} \/ m_stop
    /\ pc' = "outside"
    /\ UNCHANGED <<queue, m_destroyEvents, shared, m_stop, after, running, objs>>

(* Mutant of ProcessOneEvent: the handler of a cancelled event runs. *)
ProcessOneEvent_RunsCancelled ==
    /\ pc = "loop"
    /\ ~m_stop
    /\ \E e \in m_events :
          /\ IsEarliest(e, m_events)
          /\ m_events' = m_events \ {e}
          /\ m_currentTs' = e.ts
          /\ m_currentUid' = e.uid
          /\ running' = e.impl
          /\ ran' = ran \cup {e.impl}
    /\ m_unscheduledEvents' = m_unscheduledEvents - 1
    /\ pc' = "invoke"
    /\ UNCHANGED <<m_uid, m_destroyEvents, shared, m_stop, after,
                   allocated, m_cancel, refs, ids>>

(* ProcessOneEvent up to the call of the handler. *)
ProcessOneEvent ==
    /\ pc = "loop"
    /\ ~m_stop
    /\ \E e \in m_events :
          /\ IsEarliest(e, m_events)
          /\ m_events' = m_events \ {e}
          /\ m_currentTs' = e.ts
          /\ m_currentUid' = e.uid
          /\ running' = e.impl
          /\ ran' = IF e.impl \in m_cancel THEN ran ELSE ran \cup {e.impl}
    /\ m_unscheduledEvents' = m_unscheduledEvents - 1
    /\ pc' = "invoke"
    /\ UNCHANGED <<m_uid, m_destroyEvents, shared, m_stop, after,
                   allocated, m_cancel, refs, ids>>

(* The handler returns: Unref, then ProcessEventsWithContext. *)
HandlerReturns ==
    /\ pc = "invoke"
    /\ refs' = [refs EXCEPT ![running] = @ - 1]
    /\ running' = 0
    /\ pc' = "poll"
    /\ after' = "loop"
    /\ UNCHANGED <<queue, m_destroyEvents, shared, m_stop,
                   allocated, m_cancel, ids, ran>>

(* ProcessEventsWithContext reads the flag as true and returns.  The read is
   not under the mutex: while another thread's write races with it, it may
   still return the old value.  Destroy comes after the threads are joined. *)
PollEmpty ==
    /\ pc = "poll"
    /\ m_eventsWithContextEmpty \/ after # "dispose"
    /\ pc' = after
    /\ UNCHANGED <<queue, m_destroyEvents, shared, m_stop, after, running, objs>>

PollNonEmpty ==
    /\ pc = "poll"
    /\ ~m_eventsWithContextEmpty
    /\ pc' = "swap"
    /\ UNCHANGED <<queue, m_destroyEvents, shared, m_stop, after, running, objs>>

(* Mutants of Posted: the delay taken for an absolute time, and the list
   emptied from its back. *)
Posted_Absolute(k) ==
    [ts   |-> m_eventsWithContext[k].delay,
     uid  |-> UidPlus(k - 1),
     impl |-> m_eventsWithContext[k].impl]

Posted_FromBack(k) ==
    [ts   |-> m_currentTs + m_eventsWithContext[k].delay,
     uid  |-> UidPlus(Len(m_eventsWithContext) - k),
     impl |-> m_eventsWithContext[k].impl]

(* The event made of the k-th entry of the list of posted events. *)
Posted(k) ==
    [ts   |-> m_currentTs + m_eventsWithContext[k].delay,
     uid  |-> UidPlus(k - 1),
     impl |-> m_eventsWithContext[k].impl]

(* Mutant of DrainEventsWithContext: one event is taken, the list cleared. *)
DrainEventsWithContext_One ==
    /\ pc = "swap"
    /\ mutex = Nobody
    /\ m_events' = m_events \cup {Posted(1)}
    /\ m_uid' = UidPlus(1)
    /\ m_unscheduledEvents' = m_unscheduledEvents + 1
    /\ m_eventsWithContext' = <<>>
    /\ m_eventsWithContextEmpty' = TRUE
    /\ pc' = after
    /\ UNCHANGED <<m_currentUid, m_currentTs, m_destroyEvents, mutex, posts,
                   m_stop, after, running, objs>>

(* The list of posted events is taken under the mutex and each one inserted,
   in order, at its delay from the current time. *)
DrainEventsWithContext ==
    /\ pc = "swap"
    /\ mutex = Nobody
    /\ m_events' = m_events \cup
          {Posted(k) : k \in 1..Len(m_eventsWithContext)}
    /\ m_uid' = UidPlus(Len(m_eventsWithContext))
    /\ m_unscheduledEvents' = m_unscheduledEvents + Len(m_eventsWithContext)
    /\ m_eventsWithContext' = <<>>
    /\ m_eventsWithContextEmpty' = TRUE
    /\ pc' = after
    /\ UNCHANGED <<m_currentUid, m_currentTs, m_destroyEvents, mutex, posts,
                   m_stop, after, running, objs>>

-------------------------------------------------------------------------------
(* The end of the program. *)

(* Simulator::Destroy is called. *)
Destroy ==
    /\ pc = "outside"
    /\ pc' = "destroy"
    /\ UNCHANGED <<queue, m_destroyEvents, shared, m_stop, after, running, objs>>

(* DefaultSimulatorImpl::Destroy pops one event and invokes it, unless it is
   cancelled; a local Ptr holds the impl meanwhile. *)
DestroyOne ==
    /\ pc = "destroy"
    /\ m_destroyEvents # <<>>
    /\ m_destroyEvents' = Tail(m_destroyEvents)
    /\ running' = Head(m_destroyEvents).impl
    /\ ran' = IF running' \in m_cancel THEN ran ELSE ran \cup {running'}
    /\ pc' = "destroyInvoke"
    /\ UNCHANGED <<queue, shared, m_stop, after, allocated, m_cancel, refs, ids>>

DestroyReturns ==
    /\ pc = "destroyInvoke"
    /\ refs' = [refs EXCEPT ![running] = @ - 1]
    /\ running' = 0
    /\ pc' = "destroy"
    /\ UNCHANGED <<queue, m_destroyEvents, shared, m_stop, after,
                   allocated, m_cancel, ids, ran>>

(* Mutant of Dispose: DoDispose without its ProcessEventsWithContext. *)
Dispose_NoPoll ==
    /\ pc = "destroy"
    /\ m_destroyEvents = <<>>
    /\ mutex = Nobody
    /\ pc' = "dispose"
    /\ after' = "dispose"
    /\ UNCHANGED <<queue, m_destroyEvents, shared, m_stop, running, objs>>

(* Simulator::Destroy drops the last reference: DoDispose, which starts with
   ProcessEventsWithContext.  The other threads have been joined. *)
Dispose ==
    /\ pc = "destroy"
    /\ m_destroyEvents = <<>>
    /\ mutex = Nobody
    /\ pc' = "poll"
    /\ after' = "dispose"
    /\ UNCHANGED <<queue, m_destroyEvents, shared, m_stop, running, objs>>

(* Mutant of DisposeEvents: the events are dropped without Unref. *)
DisposeEvents_NoUnref ==
    /\ pc = "dispose"
    /\ m_events' = {}
    /\ pc' = "disposed"
    /\ UNCHANGED <<m_uid, m_currentUid, m_currentTs, m_unscheduledEvents,
                   m_destroyEvents, shared, m_stop, after, running, objs>>

(* DoDispose drops every event that is left. *)
DisposeEvents ==
    /\ pc = "dispose"
    /\ m_events' = {}
    /\ refs' = [i \in Impls |->
          IF \E e \in m_events : e.impl = i THEN refs[i] - 1 ELSE refs[i]]
    /\ pc' = "disposed"
    /\ UNCHANGED <<m_uid, m_currentUid, m_currentTs, m_unscheduledEvents,
                   m_destroyEvents, shared, m_stop, after, running,
                   allocated, m_cancel, ids, ran>>

-------------------------------------------------------------------------------
(* ScheduleWithContext on another thread. *)

(* The mutex is taken and the event appended... *)
PostLock(t, d) ==
    /\ after # "dispose"
    /\ mutex = Nobody
    /\ mutex' = t
    /\ m_currentTs + d <= MaxTs
    /\ Allocate(1)
    /\ LET ev == [delay |-> d, impl |-> allocated + 1]
       IN  /\ m_eventsWithContext' = Append(m_eventsWithContext, ev)
           /\ posts' = Append(posts, ev)
    /\ UNCHANGED <<queue, m_destroyEvents, m_eventsWithContextEmpty, flow,
                   m_cancel, ids, ran>>

(* ... then the flag is cleared and the mutex released. *)
PostUnlock(t) ==
    /\ mutex = t
    /\ m_eventsWithContextEmpty' = FALSE
    /\ mutex' = Nobody
    /\ UNCHANGED <<queue, m_destroyEvents, m_eventsWithContext, posts, flow, objs>>

-------------------------------------------------------------------------------
Call ==
    \/ \E d \in Delays : Schedule(d) \/ ScheduleWithContext(d)
    \/ ScheduleDestroy
    \/ Stop
    \/ \E id \in ids : Cancel(id) \/ Remove(id)

Loop ==
    \/ Run \/ StartLoop \/ RunReturns \/ ProcessOneEvent \/ HandlerReturns
    \/ PollEmpty \/ PollNonEmpty \/ DrainEventsWithContext

Teardown == Destroy \/ DestroyOne \/ DestroyReturns \/ Dispose \/ DisposeEvents

Post == \E t \in Threads : PostUnlock(t) \/ \E d \in Delays : PostLock(t, d)

Next == Call \/ Loop \/ Teardown \/ Post

Spec == Init /\ [][Next]_vars

(* The program runs its handlers to the end and ends by calling Destroy; a
   thread that holds the mutex releases it. *)
Fairness ==
    /\ WF_vars(Loop \/ Teardown)
    /\ SF_vars(Destroy)
    /\ \A t \in Threads : WF_vars(PostUnlock(t))

FairSpec == Spec /\ Fairness
===============================================================================
