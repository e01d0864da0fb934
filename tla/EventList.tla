------------------------------- MODULE EventList -------------------------------
(***************************************************************************)
(* What ns3::Scheduler (core/model/scheduler.h) promises to the simulator  *)
(* that uses it: a set of pending events from which RemoveNext takes the   *)
(* earliest.  The simulator inserts events with fresh, increasing uids and *)
(* time stamps that are not before its clock, the time stamp of the event  *)
(* removed last, and removes only events that are pending.                 *)
(***************************************************************************)
EXTENDS EventQueue

CONSTANT Delays      \* delays between the clock and an inserted event

VARIABLES
    list,            \* the pending events, records [ts, uid]
    clock,           \* time stamp of the event removed last
    uid              \* the uid of the next event

vars == <<list, clock, uid>>

Init == list = {} /\ clock = 0 /\ uid = 0

Insert(d) ==
    /\ list' = list \cup {[ts |-> clock + d, uid |-> uid]}
    /\ uid' = uid + 1
    /\ UNCHANGED clock

RemoveNext ==
    \E e \in list :
       /\ IsEarliest(e, list)
       /\ list' = list \ {e}
       /\ clock' = e.ts
       /\ UNCHANGED uid

Remove(e) ==
    /\ list' = list \ {e}
    /\ UNCHANGED <<clock, uid>>

Next ==
    \/ \E d \in Delays : Insert(d)
    \/ RemoveNext
    \/ \E e \in list : Remove(e)

Spec == Init /\ [][Next]_vars
===============================================================================
