----------------------------- MODULE ListScheduler -----------------------------
(***************************************************************************)
(* ns3::ListScheduler (core/model/list-scheduler.cc), a linked list that   *)
(* Insert keeps in the order of the keys, driven as the simulator drives   *)
(* it: events inserted at or after the clock, with increasing uids.        *)
(***************************************************************************)
EXTENDS EventQueue, Sequences
SE == INSTANCE SequencesExt

CONSTANTS
    Delays,          \* delays between the clock and an inserted event
    MaxEvents        \* bound: number of events inserted

VARIABLES
    m_list,          \* the list, m_events in the code
    clock,           \* time stamp of the event removed last
    uid              \* the uid of the next event

Init == m_list = <<>> /\ clock = 0 /\ uid = 0

(* The event goes before the first one with a greater key, or to the end. *)
DoInsert(l, e) ==
    LET i == SE!SelectInSeq(l, LAMBDA f : KeyLess(e, f))
    IN  IF i = 0 THEN Append(l, e) ELSE SE!InsertAt(l, i, e)

-------------------------------------------------------------------------------
Insert(d) ==
    /\ uid < MaxEvents
    /\ m_list' = DoInsert(m_list, [ts |-> clock + d, uid |-> uid])
    /\ uid' = uid + 1
    /\ UNCHANGED clock

RemoveNext ==
    /\ m_list # <<>>
    /\ clock' = Head(m_list).ts
    /\ m_list' = Tail(m_list)
    /\ UNCHANGED uid

(* Remove of the event at place i, which the code finds by its uid. *)
Remove(i) ==
    /\ m_list' = SE!RemoveAt(m_list, i)
    /\ UNCHANGED <<clock, uid>>

Next ==
    \/ \E d \in Delays : Insert(d)
    \/ RemoveNext
    \/ \E i \in DOMAIN m_list : Remove(i)
===============================================================================
