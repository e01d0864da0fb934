------------------------------ MODULE SetScheduler ------------------------------
(***************************************************************************)
(* The event list of a simulator, of a class that SetScheduler changes at  *)
(* any time: the pending events are taken out of the old list one by one   *)
(* and inserted in one of the new class (DefaultSimulatorImpl::            *)
(* SetScheduler; RealtimeSimulatorImpl's is the same).                     *)
(***************************************************************************)
EXTENDS EventQueue, Sequences

CONSTANTS
    Delays,          \* delays between the clock and an inserted event
    MaxEvents,       \* bound: number of events inserted
    MaxBuckets       \* ResizeUp stops at this number of buckets

ASSUME DelaysAssumption == Delays \subseteq Nat
ASSUME BoundsAssumption == MaxEvents \in Nat /\ MaxBuckets \in Nat

VARIABLES
    m_events,        \* the class of the event list
    m_heap,          \* of HeapScheduler
    removed,         \* history: Remove has been called on the heap
    cal,             \* of CalendarScheduler
    m_qSize,         \* of CalendarScheduler
    m_list,          \* of ListScheduler
    clock,           \* time stamp of the event removed last
    uid              \* the uid of the next event

vars == <<m_events, m_heap, removed, cal, m_qSize, m_list, clock, uid>>

Heap     == INSTANCE HeapScheduler
Calendar == INSTANCE CalendarScheduler
List     == INSTANCE ListScheduler

Classes == {"heap", "calendar", "list"}

(* The schedulers that are not in use stay as they are constructed. *)
Init ==
    /\ m_events \in Classes
    /\ Heap!Init /\ Calendar!Init /\ List!Init

UseHeap ==
    /\ m_events = "heap"
    /\ Heap!Next
    /\ UNCHANGED <<m_events, cal, m_qSize, m_list>>

UseCalendar ==
    /\ m_events = "calendar"
    /\ Calendar!Next
    /\ UNCHANGED <<m_events, m_heap, removed, m_list>>

UseList ==
    /\ m_events = "list"
    /\ List!Next
    /\ UNCHANGED <<m_events, m_heap, removed, cal, m_qSize>>

-------------------------------------------------------------------------------
(* What n successive calls of RemoveNext return: the events taken out of the old
   list, and what is left of it. *)

HeapDrain(h) ==
    LET after[n \in 0..Len(h)] ==
          IF n = 0 THEN [out |-> <<>>, left |-> h]
          ELSE LET s == after[n - 1]
               IN  [out  |-> Append(s.out, s.left[Heap!Root]),
                    left |-> Heap!TopDown(Heap!MoveLastTo(s.left, Heap!Root), Heap!Root)]
    IN  after

CalendarDrain(c, q) ==
    LET after[n \in 0..q] ==
          IF n = 0 THEN [out |-> <<>>, left |-> c]
          ELSE LET s == after[n - 1]
                   r == Calendar!DoRemoveNext(s.left)
               IN  [out  |-> Append(s.out, r.event),
                    left |-> Calendar!ResizeDown(r.cal, q - n)]
    IN  after

Drained ==
    CASE m_events = "heap"     -> HeapDrain(m_heap)[Len(m_heap)].out
      [] m_events = "calendar" -> CalendarDrain(cal, m_qSize)[m_qSize].out
      [] OTHER                 -> m_list

(* The new list when the first n of the events es have been inserted in it. *)

HeapFill(es) ==
    LET after[n \in 0..Len(es)] ==
          IF n = 0 THEN <<>> ELSE Heap!BottomUp(Append(after[n - 1], es[n]))
    IN  after

CalendarFill(es) ==
    LET after[n \in 0..Len(es)] ==
          IF n = 0 THEN Calendar!InitCalendar(2, 1, 0)
          ELSE Calendar!ResizeUp(Calendar!DoInsert(after[n - 1], es[n]), n)
    IN  after

ListFill(es) ==
    LET after[n \in 0..Len(es)] ==
          IF n = 0 THEN <<>> ELSE List!DoInsert(after[n - 1], es[n])
    IN  after

(* The new event list holds the events es. *)
Changed(class, es) ==
    /\ m_events' = class
    /\ m_heap' = IF class = "heap" THEN HeapFill(es)[Len(es)] ELSE <<>>
    /\ removed' = FALSE
    /\ cal' = IF class = "calendar" THEN CalendarFill(es)[Len(es)]
              ELSE Calendar!InitCalendar(2, 1, 0)
    /\ m_qSize' = IF class = "calendar" THEN Len(es) ELSE 0
    /\ m_list' = IF class = "list" THEN ListFill(es)[Len(es)] ELSE <<>>
    /\ UNCHANGED <<clock, uid>>

(* Mutant of SetScheduler: the event that comes out last is left behind. *)
SetScheduler_LosesLast(class) ==
    Changed(class, IF Drained = <<>> THEN <<>> ELSE SubSeq(Drained, 1, Len(Drained) - 1))

SetScheduler(class) == Changed(class, Drained)

Next ==
    \/ UseHeap \/ UseCalendar \/ UseList
    \/ \E class \in Classes : SetScheduler(class)

Spec == Init /\ [][Next]_vars
===============================================================================
