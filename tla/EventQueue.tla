------------------------------ MODULE EventQueue ------------------------------
(***************************************************************************)
(* The order on events and the contract of ns3::Scheduler (scheduler.h):   *)
(* a pending event is a record with at least the fields ts and uid of its  *)
(* EventKey, the event list is a set of such records, and RemoveNext takes *)
(* "the earliest event from the event list".  Every scheduler class of     *)
(* core/model implements this contract with its own data structure.        *)
(***************************************************************************)
EXTENDS Integers

(* Scheduler::EventKey operator<: by timestamp, ties by uid. *)
KeyLess(a, b) ==
    \/ a.ts < b.ts
    \/ a.ts = b.ts /\ a.uid < b.uid

(* e is the event that RemoveNext returns from the event list q. *)
IsEarliest(e, q) ==
    /\ e \in q
    /\ \A f \in q \ {e} : KeyLess(e, f)
===============================================================================
