--------------------------- MODULE ParallelSimulation ---------------------------
(***************************************************************************)
(* What the distributed simulators of src/mpi promise to the models that   *)
(* are split over several MPI ranks (mpi/doc/distributed.rst): each rank   *)
(* executes all its events in time-stamped order, as one sequential        *)
(* simulator would, and no rank ever receives an event from its past.      *)
(*                                                                         *)
(* An event sent to a rank is pending there from the moment it is sent,    *)
(* whether it has been received or not: a rank that executes an event      *)
(* while an earlier one is still on its way breaks the promise.            *)
(***************************************************************************)
EXTENDS Integers

CONSTANTS Ranks

VARIABLES
    now,        \* the simulated time of each rank
    pending     \* the events of each rank, records with a time stamp ts

vars == <<now, pending>>

Init == now = [r \in Ranks |-> 0]

(* Rank r executes the earliest of its pending events. *)
Execute(r) ==
    \E e \in pending[r] :
       /\ \A f \in pending[r] : e.ts <= f.ts
       /\ now[r] <= e.ts
       /\ now' = [now EXCEPT ![r] = e.ts]
       /\ pending' = [pending EXCEPT ![r] = @ \ {e}]

(* Rank r executes something of its own, of which the models know nothing. *)
Advance(r) ==
    \E t \in {now'[r]} :
       /\ now[r] <= t
       /\ \A e \in pending[r] : t <= e.ts
       /\ now' = [now EXCEPT ![r] = t]
       /\ UNCHANGED pending

(* Rank r creates an event for rank q, which is possibly r itself. *)
Create(r, q) ==
    \E e \in pending'[q] :
       /\ e.ts >= now[r]
       /\ e.ts >= now[q]
       /\ pending' = [pending EXCEPT ![q] = @ \cup {e}]
       /\ UNCHANGED now

Next == \E r \in Ranks : Execute(r) \/ Advance(r) \/ \E q \in Ranks : Create(r, q)

Spec == Init /\ [][Next]_vars
===============================================================================
