--------------------------- MODULE MCHeapScheduler ---------------------------
(***************************************************************************)
(* HeapScheduler in programs that call Simulator::Remove.                  *)
(***************************************************************************)
EXTENDS HeapScheduler

Contents == {m_heap[i] : i \in DOMAIN m_heap}

(* RemoveNext is to "Remove the earliest event from the event list."
   (scheduler.h:203), also in programs that call Simulator::Remove. *)
RemoveNextIsEarliest ==
    [][RemoveNext => IsEarliest(m_heap[Root], Contents)]_vars
===============================================================================
