------------------------ MODULE SetSchedulerProperties ------------------------
(***************************************************************************)
(* What each scheduler keeps true of its own structure, and the contract   *)
(* of ns3::Scheduler that they implement alone and exchanged for one       *)
(* another.                                                                *)
(***************************************************************************)
EXTENDS SetScheduler, FiniteSets

(* No entry of the heap is smaller than its parent, on which the answer of
   RemoveNext rests, until Remove is called. *)
HeapOrdered ==
    removed \/ \A i \in DOMAIN m_heap \ {1} :
                  KeyLess(m_heap[Heap!Parent(i)], m_heap[i])

(* m_qSize, on which emptiness and both resizings of the calendar are decided, is
   the number of events in its buckets. *)
SizeExact == m_qSize = Cardinality(Calendar!Events)

(* The day at which the search for the next event starts is the day of m_lastPrio
   and ends after it, and no event of the calendar, inserted or moved there by a
   resizing or by SetScheduler, lies behind m_lastPrio. *)
NothingBehindTheDay ==
    /\ cal.lastBucket = Calendar!Hash(cal.lastPrio, cal.n, cal.width)
    /\ cal.top > cal.lastPrio /\ cal.top - cal.width <= cal.lastPrio
    /\ cal.lastPrio <= clock
    /\ \A e \in Calendar!Events : e.ts >= cal.lastPrio

HeapContents == {m_heap[i] : i \in DOMAIN m_heap}
Contents == HeapContents \cup Calendar!Events \cup {m_list[i] : i \in DOMAIN m_list}

(* Whatever the class of the list and whenever it is changed, the list implements
   the contract: RemoveNext returns the earliest of the pending events, and
   SetScheduler neither loses nor adds one.  On a heap this is so until Remove is
   called on it. *)
Contract == INSTANCE EventList WITH list <- Contents
ImplementsEventList ==
    /\ Contract!Init
    /\ [][IF m_events' = m_events THEN removed \/ Contract!Next
         ELSE UNCHANGED Contents]_<<m_events, Contents, clock, uid>>

(* Remove takes out of a heap the event it is asked for and only that one, the
   others stay in the array once each, in any heap it is called on. *)
RemoveTakesOne ==
    [][\A i \in DOMAIN m_heap :
         Heap!Remove(i) => /\ HeapContents' = HeapContents \ {m_heap[i]}
                           /\ Cardinality(HeapContents') = Len(m_heap')]_vars
===============================================================================
