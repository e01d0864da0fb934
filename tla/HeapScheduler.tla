----------------------------- MODULE HeapScheduler -----------------------------
(***************************************************************************)
(* ns3::HeapScheduler (core/model/heap-scheduler.cc), a binary heap in an  *)
(* array whose root is entry 1, driven as the simulator drives it: events  *)
(* inserted at or after the clock, with increasing uids.                   *)
(***************************************************************************)
EXTENDS EventQueue, Sequences

CONSTANTS
    Delays,          \* delays between the clock and an inserted event
    MaxEvents        \* bound: number of events inserted

VARIABLES
    m_heap,          \* the array without its unused entry 0
    clock,           \* time stamp of the event removed last
    uid,             \* the uid of the next event
    removed          \* history: Remove has been called

vars == <<m_heap, clock, uid, removed>>

Init == m_heap = <<>> /\ clock = 0 /\ uid = 0 /\ removed = FALSE

Parent(i)     == i \div 2
LeftChild(i)  == 2 * i
RightChild(i) == 2 * i + 1
Root          == 1

IsBottom(h, i) == i > Len(h)

Exch(h, a, b) == [h EXCEPT ![a] = h[b], ![b] = h[a]]

Smallest(h, a, b) == IF KeyLess(h[a], h[b]) THEN a ELSE b

(* The loops of BottomUp and TopDown hold the array h and an index i.  After as
   many passes as there are entries they have ended; a loop that has ended stays
   as it is in a further pass. *)
Exchanged(s, a) == [h |-> Exch(s.h, s.i, a), i |-> a]

Up(s) ==
    IF s.i = Root \/ ~KeyLess(s.h[s.i], s.h[Parent(s.i)])
    THEN s
    ELSE Exchanged(s, Parent(s.i))

(* Mutant of Down: a node with a left child only is left where it is. *)
Down_SkipsLastLeft(s) ==
    IF IsBottom(s.h, RightChild(s.i))
    THEN s
    ELSE LET a == Smallest(s.h, LeftChild(s.i), RightChild(s.i))
         IN  IF KeyLess(s.h[s.i], s.h[a]) THEN s ELSE Exchanged(s, a)

(* While i has two children it is exchanged with the smaller one; at the end it
   may have a left child only. *)
Down(s) ==
    IF IsBottom(s.h, RightChild(s.i))
    THEN IF IsBottom(s.h, LeftChild(s.i)) \/ KeyLess(s.h[s.i], s.h[LeftChild(s.i)])
         THEN s
         ELSE Exchanged(s, LeftChild(s.i))
    ELSE LET a == Smallest(s.h, LeftChild(s.i), RightChild(s.i))
         IN  IF KeyLess(s.h[s.i], s.h[a]) THEN s ELSE Exchanged(s, a)

Ups(h) ==
    LET loop[n \in 0..Len(h)] ==
          IF n = 0 THEN [h |-> h, i |-> Len(h)] ELSE Up(loop[n - 1])
    IN  loop

Downs(h, i) ==
    LET loop[n \in 0..Len(h)] ==
          IF n = 0 THEN [h |-> h, i |-> i] ELSE Down(loop[n - 1])
    IN  loop

BottomUp(h)   == Ups(h)[Len(h)].h
TopDown(h, i) == Downs(h, i)[Len(h)].h

(* The last entry takes the place of entry i and is dropped from the end, as
   RemoveNext and Remove do before they call TopDown. *)
MoveLastTo(h, i) == SubSeq(Exch(h, i, Len(h)), 1, Len(h) - 1)

-------------------------------------------------------------------------------
Insert(d) ==
    /\ uid < MaxEvents
    /\ m_heap' = BottomUp(Append(m_heap, [ts |-> clock + d, uid |-> uid]))
    /\ uid' = uid + 1
    /\ UNCHANGED <<clock, removed>>

RemoveNext ==
    /\ m_heap # <<>>
    /\ clock' = m_heap[Root].ts
    /\ m_heap' = TopDown(MoveLastTo(m_heap, Root), Root)
    /\ UNCHANGED <<uid, removed>>

(* Mutant of Remove: the entry removed is the last one. *)
Remove_PopsFirst(i) ==
    /\ m_heap' = TopDown(SubSeq(m_heap, 1, Len(m_heap) - 1), i)
    /\ removed' = TRUE
    /\ UNCHANGED <<clock, uid>>

(* Remove of the event in entry i, which the code finds by its uid. *)
Remove(i) ==
    /\ m_heap' = TopDown(MoveLastTo(m_heap, i), i)
    /\ removed' = TRUE
    /\ UNCHANGED <<clock, uid>>

Next ==
    \/ \E d \in Delays : Insert(d)
    \/ RemoveNext
    \/ \E i \in DOMAIN m_heap : Remove(i)

Spec == Init /\ [][Next]_vars
===============================================================================
